--------------------------- MODULE MCWorkloadLease ---------------------------
(***************************************************************************)
(* Instances of WorkloadLease for TLC: memory has a standing cap, cpu has  *)
(* not.  Where CapabilityLease has a name of WorkloadLease's, this module  *)
(* takes another, so that the proofs about leases can extend both.         *)
(***************************************************************************)
EXTENDS TLC

CONSTANTS Fields, Capped, Registers, Want, WorkloadReleases, WorkloadTarget,
          WorkloadArrivals, Containers, NoRegister,
          memory, cpu, w1, w2, w3, w4, q1, q2

VARIABLES cid, cap, workload, due, thread, on, ok, sweep

WL == INSTANCE WorkloadLease WITH
        Releases <- WorkloadReleases, Target <- WorkloadTarget,
        Arrivals <- WorkloadArrivals, None <- NoRegister, lease <- workload, pc <- thread

ASSUME WorkloadConstants == WL!WorkloadAssumption

Wants == (w1 :> {memory}) @@ (w2 :> {memory}) @@ (w3 :> {memory, cpu}) @@ (w4 :> {})
Targets == (q1 :> w1) @@ (q2 :> w2)
WantOf == [r \in Registers |-> Wants[r]]
TargetOf == [q \in WorkloadReleases |-> Targets[q]]

WorkloadSpec == WL!FairSpec

\* A lifted ceiling has a lease, or a registration reported as failed, that accounts for
\* it, and one without a standing cap is never lifted (WorkloadLease).
LiftAccounted == WL!LiftAccounted

\* A lease that was closed is never active again (WorkloadLease).
ClosedStaysClosed == WL!ClosedStaysClosed

\* If the daemon stops crashing, a lease past its expiry is closed (WorkloadLease).
ExpiredLeasesEnd == WL!ExpiredLeasesEnd
=============================================================================
