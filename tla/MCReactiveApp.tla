---------------------------- MODULE MCReactiveApp ----------------------------
(* An instance of ReactiveApp for TLC.                                     *)
EXTENDS ReactiveApp, TLC

CONSTANTS recv, app, s1, s2, p1, p2

(* The command handlers create streams and publish; a thread of the        *)
(* application publishes as well.                                          *)
MCOps == (recv :> {"ensure", "create", "publish"}) @@ (app :> {"publish"})
Symmetry == Permutations({s1, s2}) \cup Permutations({p1, p2})
MCInitial == [p \in Properties |-> 0]
=============================================================================
