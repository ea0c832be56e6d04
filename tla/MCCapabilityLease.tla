-------------------------- MODULE MCCapabilityLease --------------------------
(* Instances of CapabilityLease for TLC. *)
EXTENDS CapabilityLease, TLC

CONSTANTS a1, a2, s1, s2, o1, n1, qa1, qa2, qs1, qs2, qn1, d1

Kinds ==
  (a1 :> "aws") @@ (a2 :> "aws") @@ (s1 :> "cross_secret") @@ (s2 :> "cross_secret") @@
  (o1 :> "own_secret") @@ (n1 :> "network")
Targets == (qa1 :> a1) @@ (qa2 :> a2) @@ (qs1 :> s1) @@ (qs2 :> s2) @@ (qn1 :> n1)
KindOf == [r \in Requests |-> Kinds[r]]
TargetOf == [q \in Releases |-> Targets[q]]
=============================================================================
