-------------------------- MODULE MCDeskLifecycle --------------------------
(* Instances of DeskLifecycle for TLC: a desk and a child it may spawn. *)
EXTENDS DeskLifecycle, TLC

CONSTANTS main, child, create1, create2, create3, create4, stop1, stop2, destroy1, spawn1

J(method, desk, parent) == [method |-> method, desk |-> desk, parent |-> parent]

\* Every request any of the instances uses.
AllJobs ==
  (create1 :> J("CreateDesk", main, None)) @@ (create2 :> J("CreateDesk", main, None)) @@
  (create3 :> J("CreateDesk", main, None)) @@ (create4 :> J("CreateDesk", main, None)) @@
  (stop2 :> J("StopDesk", main, None)) @@
  (stop1 :> J("StopDesk", main, None)) @@ (destroy1 :> J("DestroyDesk", main, None)) @@
  (spawn1 :> J("SpawnChild", child, main))
JobOf == [r \in Requests |-> AllJobs[r]]

ASSUME DestroysAloneAssumption == DestroysAlone
=============================================================================
