---------------------------- MODULE WorkloadLease ----------------------------
(***************************************************************************)
(* Workload leases of one desk: RegisterWorkload lifts the container's     *)
(* cgroup ceilings with docker update and records a lease,                 *)
(* ReleaseWorkload and the sweeper thread put the standing ceilings back   *)
(* and close it (daemon/workload_handlers.py, core/workload.py,            *)
(* core/cgroup.py, the sweeper loop of daemon/server.py).  Handlers run in *)
(* threads of their own, docker update may fail or time out with its       *)
(* effect done, the daemon may crash, and the desk may be destroyed and    *)
(* created again with a fresh container.                                   *)
(***************************************************************************)
EXTENDS Naturals, FiniteSets

CONSTANTS
  Fields,      \* ceilings: memory_max, cpu_max, pids_max
  Capped,      \* the fields with a standing cap (original_resources_hard)
  Registers,   \* RegisterWorkload requests; a lease is named by its request
  Want,        \* Want[r]: the fields r asks to lift above the standing cap
  Releases,    \* ReleaseWorkload requests
  Target,      \* Target[q]: the lease q releases
  Arrivals,    \* sets of these requests: clients send those of one of them
  Containers,  \* bound: the containers the desk goes through are 1..Containers
  None

\* What is assumed of them.
WorkloadAssumption ==
  /\ Capped \subseteq Fields /\ Containers \in Nat \ {0}
  /\ Want \in [Registers -> SUBSET Fields] /\ Target \in [Releases -> Registers]
  /\ Registers \intersect Releases = {} /\ None \notin Registers
  /\ Arrivals \subseteq SUBSET (Registers \union Releases)

VARIABLES
  cid,     \* the desk's container
  cap,     \* cap[f] in force on it: "unlimited", "standing" or "lifted"
  lease,   \* lease[r]: row of workload_leases, NoLease when there is none
  due,     \* leases whose expires_at has passed
  pc,      \* pc[x]: next step of the thread of request x
  on,      \* on[r]: the container id register_workload read from the desk's row
  ok,      \* requests whose reverts all succeeded
  sweep    \* the sweeper: leases it selected, its step, the lease at hand

vars == <<cid, cap, lease, due, pc, on, ok, sweep>>

Requests == Registers \union Releases
Statuses == {"active", "released", "expired", "partial-revoked"}
NoLease == [status |-> "none", cid |-> 0]
Idle == [todo |-> {}, step |-> "select", at |-> None, ok |-> FALSE]

StandingCaps == [f \in Fields |-> IF f \in Capped THEN "standing" ELSE "unlimited"]

Init ==
  /\ cid = 1 /\ cap = StandingCaps
  /\ lease = [r \in Registers |-> NoLease] /\ due = {}
  /\ \E sent \in Arrivals : pc = [x \in Requests |-> IF x \in sent THEN "new" ELSE "done"]
  /\ on = [r \in Registers |-> 0] /\ ok = {}
  /\ sweep = Idle

Goto(x, label) == pc' = [pc EXCEPT ![x] = label]
Active == {r \in Registers : lease[r].status = "active"}
Working(x) == pc[x] \notin {"new", "done", "failed", "apply_failed", "lost"}
-----------------------------------------------------------------------------
(* docker update *)

\* The flags of a lift name the requested fields and every standing cap.
Lifted(fields) ==
  [f \in Fields |-> IF f \in fields THEN "lifted"
                    ELSE IF f \in Capped THEN "standing" ELSE cap[f]]

\* Mutant: the revert computes no flags.
RevertedNothing == cap

\* The flags of a revert name the fields with a standing cap, and only those.
Reverted == [f \in Fields |-> IF f \in Capped THEN "standing" ELSE cap[f]]

\* docker update on container n with new caps: done; or reported as failed,
\* because the container is gone or docker refused, or because the call timed
\* out, with its effect or without.
UpdateDone(n, new) == n = cid /\ cap' = new
UpdateFails(n, new) == cap' = cap \/ (n = cid /\ cap' = new)

\* revert_lease_actions for lease l: a lease with no action has nothing to
\* revert.  The Boolean is "every revert succeeded".
Revert(l, success) ==
  IF Want[l] = {} THEN success /\ UNCHANGED cap
  ELSE IF success THEN UpdateDone(lease[l].cid, Reverted)
       ELSE UpdateFails(lease[l].cid, Reverted)
-----------------------------------------------------------------------------
(* RegisterWorkload *)

\* The desk's row is read, which may name no container (a desk that is not
\* running), and an active lease is looked for.
RegisterCheck(r) ==
  /\ pc[r] = "new"
  /\ on' = [on EXCEPT ![r] = cid]
  /\ Goto(r, "failed") \/ (Active = {} /\ Goto(r, "apply"))
  /\ UNCHANGED <<cid, cap, lease, due, ok, sweep>>

\* apply_actions_atomically: no action when nothing is above the standing caps.
RegisterNoAction(r) ==
  /\ pc[r] = "apply" /\ Want[r] = {}
  /\ Goto(r, "insert")
  /\ UNCHANGED <<cid, cap, lease, due, on, ok, sweep>>

RegisterApply(r) ==
  /\ pc[r] = "apply" /\ Want[r] # {} /\ Want[r] \subseteq Capped
  /\ UpdateDone(on[r], Lifted(Want[r])) /\ Goto(r, "insert")
  /\ UNCHANGED <<cid, lease, due, on, ok, sweep>>

\* A lift of a field with no standing cap is refused before docker is called;
\* docker update may fail.
RegisterApplyFails(r) ==
  /\ pc[r] = "apply" /\ Want[r] # {}
  /\ IF Want[r] \subseteq Capped THEN UpdateFails(on[r], Lifted(Want[r]))
     ELSE UNCHANGED cap
  /\ Goto(r, "apply_failed")
  /\ UNCHANGED <<cid, lease, due, on, ok, sweep>>

RegisterInsert(r) ==
  /\ pc[r] = "insert"
  /\ lease' = [lease EXCEPT ![r] = [status |-> "active", cid |-> on[r]]]
  /\ Goto(r, "done")
  /\ UNCHANGED <<cid, cap, due, on, ok, sweep>>
-----------------------------------------------------------------------------
(* ReleaseWorkload, of a lease the desk was told of *)

ReleaseRead(q) ==
  /\ pc[q] = "new" /\ pc[Target[q]] = "done"
  /\ Goto(q, IF lease[Target[q]].status = "active" THEN "revert" ELSE "done")
  /\ UNCHANGED <<cid, cap, lease, due, on, ok, sweep>>

ReleaseRevert(q) ==
  /\ pc[q] = "revert"
  /\ \E success \in BOOLEAN :
       /\ Revert(Target[q], success)
       /\ ok' = IF success THEN ok \union {q} ELSE ok \ {q}
  /\ Goto(q, "mark")
  /\ UNCHANGED <<cid, lease, due, on, sweep>>

\* Mutant: a failed revert leaves the lease for the next sweep.
MarkForRetry(l, status, success) ==
  lease' = [lease EXCEPT ![l].status = IF success THEN status ELSE "active"]

\* mark_workload_lease_revoked: an UPDATE that asks for no previous status.
Mark(l, status, success) ==
  lease' = [lease EXCEPT ![l].status = IF success THEN status ELSE "partial-revoked"]

ReleaseMark(q) ==
  /\ pc[q] = "mark"
  /\ Mark(Target[q], "released", q \in ok)
  /\ Goto(q, "done")
  /\ UNCHANGED <<cid, cap, due, on, ok, sweep>>
-----------------------------------------------------------------------------
(* The sweeper *)

\* Mutant: only leases that are not due.
SweepSelectFresh ==
  /\ sweep.step = "select" /\ Active \ due # {}
  /\ sweep' = [sweep EXCEPT !.todo = Active \ due, !.step = "revert"]
  /\ UNCHANGED <<cid, cap, lease, due, pc, on, ok>>

SweepSelect ==
  /\ sweep.step = "select" /\ Active \intersect due # {}
  /\ sweep' = [sweep EXCEPT !.todo = Active \intersect due, !.step = "revert"]
  /\ UNCHANGED <<cid, cap, lease, due, pc, on, ok>>

SweepRevert ==
  /\ sweep.step = "revert"
  /\ \E l \in sweep.todo, success \in BOOLEAN :
       /\ Revert(l, success)
       /\ sweep' = [sweep EXCEPT !.step = "mark", !.at = l, !.ok = success]
  /\ UNCHANGED <<cid, lease, due, pc, on, ok>>

SweepMark ==
  LET rest == sweep.todo \ {sweep.at} IN
  /\ sweep.step = "mark"
  /\ Mark(sweep.at, "expired", sweep.ok)
  /\ sweep' = IF rest = {} THEN Idle ELSE [Idle EXCEPT !.todo = rest, !.step = "revert"]
  /\ UNCHANGED <<cid, cap, due, pc, on, ok>>

Sweep == SweepSelect \/ SweepRevert \/ SweepMark
-----------------------------------------------------------------------------
(* The world around *)

\* expires_at of an active lease passes.
Expire(r) ==
  /\ r \in Active \ due /\ due' = due \union {r}
  /\ UNCHANGED <<cid, cap, lease, pc, on, ok, sweep>>

\* The desk is destroyed and created again: a fresh container with the standing
\* caps; its workload leases stay as they are.
Recreate ==
  /\ cid < Containers /\ cid' = cid + 1 /\ cap' = StandingCaps
  /\ UNCHANGED <<lease, due, pc, on, ok, sweep>>

\* The daemon dies and comes back: its threads are gone, and recovery records an
\* interrupted RegisterWorkload or ReleaseWorkload as failed, no more.
Crash ==
  /\ pc' = [x \in Requests |-> IF Working(x) THEN "lost" ELSE pc[x]]
  /\ sweep' = Idle
  /\ UNCHANGED <<cid, cap, lease, due, on, ok>>

Register(r) ==
  \/ RegisterCheck(r) \/ RegisterNoAction(r) \/ RegisterApply(r)
  \/ RegisterApplyFails(r) \/ RegisterInsert(r)
Release(q) == ReleaseRead(q) \/ ReleaseRevert(q) \/ ReleaseMark(q)

Next ==
  \/ \E r \in Registers : Register(r) \/ Expire(r)
  \/ \E q \in Releases : Release(q)
  \/ Sweep \/ Recreate \/ Crash

Spec == Init /\ [][Next]_vars
FairSpec == Spec /\ WF_vars(Sweep)
-----------------------------------------------------------------------------
(* Properties *)

\* A lift in force is accounted for: by a lease on this container that is active or
\* on record as not reverted, by a registration about to record its lease, or by one
\* that was reported as failed (its docker update timed out, or the daemon died
\* before the lease was inserted).  In particular no lease ends as released or
\* expired, in whatever order releases and sweeps meet, with its lift still there.
\* And a field without a standing cap, which docker could not restore, is never lifted.
LiftAccounted ==
  /\ \A f \in Fields \ Capped : cap[f] = "unlimited"
  /\ (\E f \in Fields : cap[f] = "lifted") =>
       \E r \in Registers :
         \/ lease[r].status \in {"active", "partial-revoked"} /\ lease[r].cid = cid
         \/ on[r] = cid /\ pc[r] \in {"insert", "apply_failed", "lost"}

\* A lease that was closed is never active again: a release and a sweep that both
\* found it active close it twice, a late one never revives it.
ClosedStaysClosed ==
  [][\A r \in Registers : lease[r].status \in Statuses \ {"active"} =>
       lease'[r].status \in Statuses \ {"active"}]_vars

\* If the daemon stops crashing, a lease past its expiry is closed.
ExpiredLeasesEnd ==
  <>[][~Crash]_vars => \A r \in Registers : r \in due ~> r \notin Active
=============================================================================
