----------------------------- MODULE LeaseProofs -----------------------------
(***************************************************************************)
(* Proofs about CapabilityLease, for any requests, releases and destroys,  *)
(* one at a time or overlapping; and about WorkloadLease, for any fields,  *)
(* registrations, releases and containers.                                 *)
(***************************************************************************)
EXTENDS CapabilityLease, MCWorkloadLease, TLAPS
-----------------------------------------------------------------------------
(* CapabilityLease *)

\* The steps of RequestCapability before the lease is inserted.
BeforeInsert == {"new", "supersede", "revoke_prior", "policy", "materialize", "insert"}

\* How far a request has come, its lease and its answer agree.
Progress(r) ==
  /\ pc[r] \in BeforeInsert => lease[r] = "none"
  /\ pc[r] # "done" => reply[r] = None /\ amendment[r] = None
  /\ pc[r] = "amend" => lease[r] # "none"
  /\ pc[r] = "revoke_prior" => prior[r] \in Requests

\* The inductive invariant behind the theorems.
IInv ==
  /\ TypeOK
  /\ \A r \in Requests : Progress(r)
  /\ AnswerTruthful

\* At first no request has an answer, a lease or an amendment.
LEMMA InitIInv == Init => IInv
  BY CapabilityAssumption
  DEF Init, IInv, TypeOK, Progress, AnswerTruthful, BeforeInsert, Threads, Answers, Verdicts

\* Revoking a lease keeps the table in its type and makes no lease appear or go.
LEMMA RevokedLemma ==
  ASSUME IInv, NEW l \in Requests, NEW reason \in Reasons
  PROVE  /\ Revoked(l, reason) \in [Requests -> {"none", "active"} \union Reasons]
         /\ \A r \in Requests : Revoked(l, reason)[r] = "none" <=> lease[r] = "none"
         /\ \A r \in Requests : lease[r] \in Reasons => Revoked(l, reason)[r] = lease[r]
  BY DEF IInv, TypeOK, Revoked, Reasons

\* Every step preserves the inductive invariant.
LEMMA NextIInv == IInv /\ [Next]_vars => IInv'
<1> SUFFICES ASSUME IInv, [Next]_vars PROVE IInv'
  OBVIOUS
<1> USE CapabilityAssumption
    DEF IInv, TypeOK, Progress, AnswerTruthful, BeforeInsert, Threads, Answers, Verdicts,
        Goto, bytes, record
<1>1. ASSUME NEW r \in Requests, Receive(r) PROVE IInv'
  BY <1>1 DEF Receive, Arrives
<1>2. ASSUME NEW r \in Requests, FindPrior(r) PROVE IInv'
  BY <1>2 DEF FindPrior, ActiveOf
<1>3. ASSUME NEW r \in Requests, RevokePrior(r) PROVE IInv'
  BY <1>3, RevokedLemma DEF RevokePrior, Reasons
<1>4. ASSUME NEW r \in Requests, Allow(r) PROVE IInv'
  BY <1>4 DEF Allow
<1>5. ASSUME NEW r \in Requests, Deny(r) PROVE IInv'
  BY <1>5 DEF Deny, Refused
<1>6. ASSUME NEW r \in Requests, Materialize(r) PROVE IInv'
  BY <1>6 DEF Materialize
<1>7. ASSUME NEW r \in Requests, MaterializeFails(r) PROVE IInv'
  BY <1>7 DEF MaterializeFails, Refused
<1>8. ASSUME NEW r \in Requests, InsertLease(r) PROVE IInv'
  BY <1>8 DEF InsertLease
<1>9. ASSUME NEW r \in Requests, Amend(r) PROVE IInv'
  BY <1>9 DEF Amend
<1>10. ASSUME NEW q \in Releases, ReleaseRevoke(q) PROVE IInv'
  BY <1>10, RevokedLemma DEF ReleaseRevoke, Arrives, Reasons
<1>11. ASSUME NEW q \in Releases, StillActive(q) PROVE IInv'
  BY <1>11 DEF StillActive
<1>12. ASSUME NEW q \in Releases, RemoveFiles(q) PROVE IInv'
  BY <1>12 DEF RemoveFiles
<1>13. ASSUME NEW x \in Destroys, DestroyContainer(x) PROVE IInv'
  BY <1>13 DEF DestroyContainer, Arrives
<1>14. ASSUME NEW x \in Destroys, DestroyLeases(x) PROVE IInv'
  BY <1>14 DEF DestroyLeases, Reasons
<1>15. ASSUME NEW x \in Destroys, DestroyRow(x) PROVE IInv'
  BY <1>15 DEF DestroyRow
<1>16. ASSUME CreateAgain PROVE IInv'
  BY <1>16 DEF CreateAgain
<1>17. ASSUME Restart PROVE IInv'
  BY <1>17 DEF Restart
<1>18. ASSUME Crash PROVE IInv'
  BY <1>18 DEF Crash, Working, Reasons
<1>19. ASSUME UNCHANGED vars PROVE IInv'
  BY <1>19 DEF vars
<1>20. QED
  BY <1>1, <1>2, <1>3, <1>4, <1>5, <1>6, <1>7, <1>8, <1>9, <1>10, <1>11, <1>12, <1>13,
     <1>14, <1>15, <1>16, <1>17, <1>18, <1>19
  DEF Next, Request, Release, Destroy

\* The inductive invariant holds of every reachable state.
THEOREM SafetyInvariant == Spec => []IInv
  BY InitIInv, NextIInv, PTL DEF Spec

\* The tables, files and thread locals keep their types.
THEOREM TypeCorrect == Spec => []TypeOK
  BY SafetyInvariant, PTL DEF IInv

\* However requests overlap, fail and crash, what the client of RequestCapability is
\* told, the lease table and the amendment agree.
THEOREM Truthful == Spec => []AnswerTruthful
  BY SafetyInvariant, PTL DEF IInv

\* A revoked lease is not touched by any step: revoke_lease and revoke_leases_for_desk
\* change active rows only, and a request inserts its lease once.
LEMMA RevokedIsFinal ==
  ASSUME IInv, Next, NEW s \in Requests, lease[s] \in Reasons
  PROVE  lease'[s] = lease[s]
<1> USE DEF IInv, TypeOK, bytes, record
<1>1. ASSUME NEW r \in Requests, RevokePrior(r) PROVE lease'[s] = lease[s]
  BY <1>1, RevokedLemma DEF RevokePrior, Progress, Reasons
<1>2. ASSUME NEW r \in Requests, InsertLease(r) PROVE lease'[s] = lease[s]
  BY <1>2 DEF InsertLease, Progress, BeforeInsert, Reasons
<1>3. ASSUME NEW q \in Releases, ReleaseRevoke(q) PROVE lease'[s] = lease[s]
  BY <1>3, RevokedLemma, CapabilityAssumption DEF ReleaseRevoke, Reasons
<1>4. ASSUME NEW x \in Destroys, DestroyLeases(x) PROVE lease'[s] = lease[s]
  BY <1>4 DEF DestroyLeases, Reasons
<1>5. CASE Crash
  BY <1>5 DEF Crash, Reasons
<1>6. ASSUME NEW r \in Requests,
             Receive(r) \/ FindPrior(r) \/ Allow(r) \/ Deny(r) \/ Materialize(r)
               \/ MaterializeFails(r) \/ Amend(r)
      PROVE  lease'[s] = lease[s]
  BY <1>6 DEF Receive, FindPrior, Allow, Deny, Materialize, MaterializeFails, Amend
<1>7. ASSUME NEW q \in Releases, StillActive(q) \/ RemoveFiles(q) PROVE lease'[s] = lease[s]
  BY <1>7 DEF StillActive, RemoveFiles
<1>8. ASSUME NEW x \in Destroys, DestroyContainer(x) \/ DestroyRow(x)
      PROVE  lease'[s] = lease[s]
  BY <1>8 DEF DestroyContainer, DestroyRow
<1>9. CASE CreateAgain \/ Restart
  BY <1>9 DEF CreateAgain, Restart
<1>10. QED
  BY <1>1, <1>2, <1>3, <1>4, <1>5, <1>6, <1>7, <1>8, <1>9 DEF Next, Request, Release, Destroy

\* The first revocation of a lease is final, with its reason, whichever of releases,
\* superseding requests and destroys overlap.
THEOREM RevocationFinal == Spec => FirstRevocationWins
<1>1. IInv /\ [Next]_vars =>
        [\A r \in Requests : lease[r] \in Reasons => lease'[r] = lease[r]]_vars
  BY RevokedIsFinal
<1>2. QED
  BY <1>1, SafetyInvariant, PTL DEF Spec, FirstRevocationWins
-----------------------------------------------------------------------------
(* Requests one at a time *)

\* One thread at most is at work.
Serial == \A x, y \in Threads : Working(x) /\ Working(y) => x = y

NoneActive(kinds) == \A r \in Requests : lease[r] = "active" => Kind[r] \notin kinds

\* What a thread at work has seen to: past the supersede loop no AWS lease is active,
\* at the insert the bytes are there, files are removed only when no lease needs
\* them, and the row goes after the leases.
Prepared ==
  /\ \A r \in Requests :
       /\ Working(r) => desk
       /\ pc[r] \in {"policy", "materialize", "insert"} /\ Kind[r] = "aws" => NoneActive({"aws"})
       /\ pc[r] = "insert" /\ Kind[r] = "aws" => aws = r
       /\ pc[r] = "insert" /\ Kind[r] = "cross_secret" => secret = "copy"
  /\ \A q \in Releases : pc[q] = "remove" =>
       /\ Kind[Target[q]] = "aws" => NoneActive({"aws"})
       /\ Kind[Target[q]] = "cross_secret" => NoneActive({"cross_secret"})
  /\ \A x \in Destroys : pc[x] = "delete_row" => \A r \in Requests : lease[r] # "active"

\* The inductive invariant behind LeaseIsBacked.
BackedInv == Serial /\ Prepared /\ LeaseIsBacked

\* Every step of requests that come one at a time preserves it.
LEMMA NextBacked ==
  ASSUME ~Concurrent, IInv, BackedInv, [Next]_vars
  PROVE  BackedInv'
<1> USE CapabilityAssumption
    DEF IInv, TypeOK, BackedInv, Serial, Prepared, LeaseIsBacked, NoneActive, Working,
        Threads, Goto, bytes, record
<1>1. ASSUME NEW r \in Requests, Receive(r) PROVE BackedInv'
  BY <1>1 DEF Receive, Arrives, Quiet
<1>2. ASSUME NEW r \in Requests, FindPrior(r) PROVE BackedInv'
  BY <1>2 DEF FindPrior, ActiveOf
<1>3. ASSUME NEW r \in Requests, RevokePrior(r) PROVE BackedInv'
  BY <1>3 DEF RevokePrior, Revoked, Progress
<1>4. ASSUME NEW r \in Requests, Allow(r) PROVE BackedInv'
  BY <1>4 DEF Allow
<1>5. ASSUME NEW r \in Requests, Deny(r) PROVE BackedInv'
  BY <1>5 DEF Deny, Refused
<1>6. ASSUME NEW r \in Requests, Materialize(r) PROVE BackedInv'
  BY <1>6 DEF Materialize
<1>7. ASSUME NEW r \in Requests, MaterializeFails(r) PROVE BackedInv'
  BY <1>7 DEF MaterializeFails, Refused
<1>8. ASSUME NEW r \in Requests, InsertLease(r) PROVE BackedInv'
  BY <1>8 DEF InsertLease
<1>9. ASSUME NEW r \in Requests, Amend(r) PROVE BackedInv'
  BY <1>9 DEF Amend
<1>10. ASSUME NEW q \in Releases, ReleaseRevoke(q) PROVE BackedInv'
  BY <1>10 DEF ReleaseRevoke, Arrives, Quiet, Revoked
<1>11. ASSUME NEW q \in Releases, StillActive(q) PROVE BackedInv'
  BY <1>11 DEF StillActive, ActiveOf, Secrets
<1>12. ASSUME NEW q \in Releases, RemoveFiles(q) PROVE BackedInv'
  BY <1>12 DEF RemoveFiles
<1>13. ASSUME NEW x \in Destroys, DestroyContainer(x) PROVE BackedInv'
  BY <1>13 DEF DestroyContainer, Arrives, Quiet
<1>14. ASSUME NEW x \in Destroys, DestroyLeases(x) PROVE BackedInv'
  BY <1>14 DEF DestroyLeases
<1>15. ASSUME NEW x \in Destroys, DestroyRow(x) PROVE BackedInv'
  BY <1>15 DEF DestroyRow
<1>16. CASE CreateAgain
  BY <1>16 DEF CreateAgain
<1>17. CASE Restart
  BY <1>17 DEF Restart
<1>18. CASE Crash
  BY <1>18 DEF Crash
<1>19. CASE UNCHANGED vars
  BY <1>19 DEF vars
<1>20. QED
  BY <1>1, <1>2, <1>3, <1>4, <1>5, <1>6, <1>7, <1>8, <1>9, <1>10, <1>11, <1>12, <1>13,
     <1>14, <1>15, <1>16, <1>17, <1>18, <1>19
  DEF Next, Request, Release, Destroy

\* With requests one at a time, whatever fails and wherever the daemon dies, an active
\* lease has its bytes and its desk: the supersede loop leaves one AWS lease at most,
\* and files are removed under no lease that needs them.
THEOREM Backed == ~Concurrent => (Spec => []LeaseIsBacked)
<1> SUFFICES ASSUME ~Concurrent PROVE Spec => []LeaseIsBacked
  OBVIOUS
<1>1. Init => BackedInv
  BY CapabilityAssumption
  DEF Init, BackedInv, Serial, Prepared, LeaseIsBacked, NoneActive, Working, Threads
<1>2. IInv /\ BackedInv /\ [Next]_vars => BackedInv'
  BY NextBacked
<1>3. BackedInv => LeaseIsBacked
  BY DEF BackedInv
<1>4. QED
  BY <1>1, <1>2, <1>3, SafetyInvariant, PTL DEF Spec
-----------------------------------------------------------------------------
(* WorkloadLease *)

\* The ceilings, rows and locals have their types.
Types ==
  /\ cid \in Nat /\ cap \in [Fields -> {"unlimited", "standing", "lifted"}]
  /\ workload \in [Registers -> [status : {"none"} \union WL!Statuses, cid : Nat]]
  /\ thread \in [WL!Requests -> {"new", "apply", "insert", "revert", "mark", "done", "failed",
                          "apply_failed", "lost"}]
  /\ on \in [Registers -> Nat]
  /\ sweep \in [todo : SUBSET Registers, step : {"select", "revert", "mark"},
                at : Registers \union {NoRegister}, ok : BOOLEAN]

Recorded(r) == workload[r].status # "none"

\* Who closes a lease has found its row, and a row is inserted at the end of its request.
WorkloadProgress ==
  /\ \A r \in Registers : Recorded(r) => thread[r] = "done"
  /\ \A q \in WorkloadReleases : thread[q] \in {"revert", "mark"} => Recorded(WorkloadTarget[q])
  /\ \A r \in sweep.todo : Recorded(r)
  /\ sweep.step = "mark" => sweep.at \in sweep.todo

\* The ceilings lease r had lifted are back, and its row is about to say so.
Cleared(r) ==
  \/ \E q \in WorkloadReleases : thread[q] = "mark" /\ q \in ok /\ WorkloadTarget[q] = r
  \/ sweep.step = "mark" /\ sweep.at = r /\ sweep.ok

\* r answers for a lift that is in force: it asked for one, and neither put the
\* ceilings back nor is about to be closed as if.
Covers(r) ==
  /\ Want[r] # {} /\ ~Cleared(r)
  /\ \/ workload[r].status \in {"active", "partial-revoked"} /\ workload[r].cid = cid
     \/ on[r] = cid /\ thread[r] \in {"insert", "apply_failed", "lost"}

Lift == \E f \in Fields : cap[f] = "lifted"

\* LiftAccounted alone would let a lease that never lifted anything, or one that is
\* about to be closed, account for the lift.
Caps ==
  /\ \A f \in Fields \ Capped : cap[f] = "unlimited"
  /\ Lift => \E r \in Registers : Covers(r)

\* The inductive invariant.
WorkloadIInv == Types /\ WorkloadProgress /\ Caps

\* At first nothing is lifted and no request has begun.
LEMMA InitWorkload ==
  ASSUME WL!WorkloadAssumption
  PROVE  WL!Init => WorkloadIInv
  BY DEF WL!WorkloadAssumption, WL!Init, WorkloadIInv, Types, WorkloadProgress, Recorded,
         Caps, Lift, WL!StandingCaps, WL!NoLease, WL!Idle, WL!Requests, WL!Statuses

\* Rows and locals keep their types, and closing follows recording.
LEMMA NextTypes ==
  ASSUME WL!WorkloadAssumption
  PROVE  Types /\ WorkloadProgress /\ [WL!Next]_WL!vars => (Types /\ WorkloadProgress)'
<1> SUFFICES ASSUME Types, WorkloadProgress, [WL!Next]_WL!vars PROVE (Types /\ WorkloadProgress)'
  OBVIOUS
<1> USE DEF WL!WorkloadAssumption, Types, WorkloadProgress, Recorded, WL!Statuses,
            WL!Requests, WL!Goto
<1>1. ASSUME NEW r \in Registers, WL!RegisterCheck(r) PROVE (Types /\ WorkloadProgress)'
  BY <1>1 DEF WL!RegisterCheck
<1>2. ASSUME NEW r \in Registers, WL!RegisterNoAction(r) PROVE (Types /\ WorkloadProgress)'
  BY <1>2 DEF WL!RegisterNoAction
<1>3. ASSUME NEW r \in Registers, WL!RegisterApply(r) PROVE (Types /\ WorkloadProgress)'
  BY <1>3 DEF WL!RegisterApply, WL!UpdateDone, WL!Lifted
<1>4. ASSUME NEW r \in Registers, WL!RegisterApplyFails(r) PROVE (Types /\ WorkloadProgress)'
  BY <1>4 DEF WL!RegisterApplyFails, WL!UpdateFails, WL!Lifted
<1>5. ASSUME NEW r \in Registers, WL!RegisterInsert(r) PROVE (Types /\ WorkloadProgress)'
  BY <1>5 DEF WL!RegisterInsert
<1>6. ASSUME NEW q \in WorkloadReleases, WL!ReleaseRead(q) PROVE (Types /\ WorkloadProgress)'
  BY <1>6 DEF WL!ReleaseRead
<1>7. ASSUME NEW q \in WorkloadReleases, WL!ReleaseRevert(q) PROVE (Types /\ WorkloadProgress)'
  BY <1>7 DEF WL!ReleaseRevert, WL!Revert, WL!UpdateDone, WL!UpdateFails, WL!Reverted
<1>8. ASSUME NEW q \in WorkloadReleases, WL!ReleaseMark(q) PROVE (Types /\ WorkloadProgress)'
  BY <1>8 DEF WL!ReleaseMark, WL!Mark
<1>9. CASE WL!SweepSelect
  <2>1. sweep' \in [todo : SUBSET Registers, step : {"select", "revert", "mark"},
                   at : Registers \union {NoRegister}, ok : BOOLEAN]
    BY <1>9 DEF WL!SweepSelect, WL!Active
  <2>2. QED
    BY <1>9, <2>1 DEF WL!SweepSelect, WL!Active
<1>10. CASE WL!SweepRevert
  <2>1. PICK l \in sweep.todo, success \in BOOLEAN :
          WL!Revert(l, success) /\ sweep' = [sweep EXCEPT !.step = "mark", !.at = l, !.ok = success]
    BY <1>10 DEF WL!SweepRevert
  <2>2. sweep' \in [todo : SUBSET Registers, step : {"select", "revert", "mark"},
                   at : Registers \union {NoRegister}, ok : BOOLEAN]
    BY <2>1
  <2>3. QED
    BY <1>10, <2>1, <2>2 DEF WL!SweepRevert, WL!Revert, WL!UpdateDone, WL!UpdateFails,
                             WL!Reverted
<1>11. CASE WL!SweepMark
  <2>1. /\ sweep' \in [todo : SUBSET Registers, step : {"select", "revert", "mark"},
                      at : Registers \union {NoRegister}, ok : BOOLEAN]
        /\ sweep'.todo \subseteq sweep.todo /\ sweep'.step # "mark"
    BY <1>11 DEF WL!SweepMark, WL!Idle
  <2>2. sweep.at \in Registers
    BY <1>11 DEF WL!SweepMark
  <2>3. QED
    BY <1>11, <2>1, <2>2 DEF WL!SweepMark, WL!Mark
<1>12. ASSUME NEW r \in Registers, WL!Expire(r) PROVE (Types /\ WorkloadProgress)'
  BY <1>12 DEF WL!Expire
<1>13. CASE WL!Recreate
  BY <1>13 DEF WL!Recreate, WL!StandingCaps
<1>14. CASE WL!Crash
  BY <1>14 DEF WL!Crash, WL!Working, WL!Idle
<1>15. CASE UNCHANGED WL!vars
  BY <1>15 DEF WL!vars
<1>16. QED
  BY <1>1, <1>2, <1>3, <1>4, <1>5, <1>6, <1>7, <1>8, <1>9, <1>10, <1>11, <1>12, <1>13,
     <1>14, <1>15
  DEF WL!Next, WL!Register, WL!Release, WL!Sweep

\* A step after which whoever covered a lift still does.
LEMMA StillCovered ==
  ASSUME WL!WorkloadAssumption, WorkloadIInv, cap' = cap,
         \A r \in Registers : Covers(r) => Covers(r)'
  PROVE  Caps'
  BY DEF WorkloadIInv, Caps, Lift

\* A step after which nothing is lifted.
LEMMA NothingLifted ==
  ASSUME WL!WorkloadAssumption, WorkloadIInv, cap' \in {WL!StandingCaps, WL!Reverted}
  PROVE  Caps' /\ ~Lift'
  BY DEF WL!WorkloadAssumption, WorkloadIInv, Types, Caps, Lift, WL!StandingCaps, WL!Reverted

\* A revert of lease l that succeeds leaves no lift, or l has lifted nothing; one that
\* fails leaves the ceilings as they are or as the revert puts them.
LEMMA RevertLemma ==
  ASSUME WL!WorkloadAssumption, WorkloadIInv, NEW l \in Registers,
         NEW success \in BOOLEAN, WL!Revert(l, success)
  PROVE  cap' = WL!Reverted \/ (cap' = cap /\ (~success \/ Want[l] = {}))
  BY DEF WL!Revert, WL!UpdateDone, WL!UpdateFails

\* Every step keeps the ceilings accounted for.
LEMMA NextCaps ==
  ASSUME WL!WorkloadAssumption
  PROVE  WorkloadIInv /\ [WL!Next]_WL!vars => Caps'
<1> SUFFICES ASSUME WorkloadIInv, [WL!Next]_WL!vars PROVE Caps'
  OBVIOUS
<1> USE DEF WL!WorkloadAssumption, WorkloadIInv, Types, WorkloadProgress, Recorded,
            WL!Statuses, WL!Requests, WL!Goto
<1>1. ASSUME NEW r \in Registers, WL!RegisterCheck(r) PROVE Caps'
  BY <1>1, StillCovered DEF WL!RegisterCheck, Covers, Cleared
<1>2. ASSUME NEW r \in Registers, WL!RegisterNoAction(r) PROVE Caps'
  BY <1>2, StillCovered DEF WL!RegisterNoAction, Covers, Cleared
<1>3. ASSUME NEW r \in Registers, thread[r] = "apply", Want[r] # {}, Want[r] \subseteq Capped,
             on[r] = cid, cap' = WL!Lifted(Want[r]), thread'[r] \in {"insert", "apply_failed"},
             \A q \in WorkloadReleases : thread'[q] = thread[q],
             UNCHANGED <<cid, workload, due, on, ok, sweep>>
      PROVE  Caps'
  <2>1. ~Cleared(r)'
    BY <1>3 DEF Cleared
  <2>2. Covers(r)'
    BY <1>3, <2>1 DEF Covers
  <2>3. QED
    BY <1>3, <2>2 DEF Caps, WL!Lifted
<1>4. ASSUME NEW r \in Registers, WL!RegisterApply(r) PROVE Caps'
  BY <1>3, <1>4 DEF WL!RegisterApply, WL!UpdateDone
<1>5. ASSUME NEW r \in Registers, WL!RegisterApplyFails(r) PROVE Caps'
  <2>1. CASE cap' = cap
    BY <1>5, <2>1, StillCovered DEF WL!RegisterApplyFails, Covers, Cleared
  <2>2. CASE cap' # cap
    BY <1>3, <1>5, <2>2 DEF WL!RegisterApplyFails, WL!UpdateFails
  <2>3. QED
    BY <2>1, <2>2
<1>6. ASSUME NEW r \in Registers, WL!RegisterInsert(r) PROVE Caps'
  BY <1>6, StillCovered DEF WL!RegisterInsert, Covers, Cleared
<1>7. ASSUME NEW q \in WorkloadReleases, WL!ReleaseRead(q) PROVE Caps'
  BY <1>7, StillCovered DEF WL!ReleaseRead, Covers, Cleared
<1>8. ASSUME NEW q \in WorkloadReleases, WL!ReleaseRevert(q) PROVE Caps'
  <2>1. PICK success \in BOOLEAN :
          /\ WL!Revert(WorkloadTarget[q], success)
          /\ ok' = IF success THEN ok \union {q} ELSE ok \ {q}
    BY <1>8 DEF WL!ReleaseRevert
  <2>2. cap' = WL!Reverted \/ (cap' = cap /\ (~success \/ Want[WorkloadTarget[q]] = {}))
    BY <2>1, RevertLemma
  <2>3. CASE cap' = cap /\ (~success \/ Want[WorkloadTarget[q]] = {})
    BY <1>8, <2>1, <2>3, StillCovered DEF WL!ReleaseRevert, Covers, Cleared
  <2>4. QED
    BY <2>2, <2>3, NothingLifted
<1>9. ASSUME NEW q \in WorkloadReleases, WL!ReleaseMark(q) PROVE Caps'
  BY <1>9, StillCovered DEF WL!ReleaseMark, WL!Mark, Covers, Cleared
<1>10. CASE WL!SweepSelect
  BY <1>10, StillCovered DEF WL!SweepSelect, Covers, Cleared
<1>11. CASE WL!SweepRevert
  <2>1. PICK l \in sweep.todo, success \in BOOLEAN :
          WL!Revert(l, success) /\ sweep' = [sweep EXCEPT !.step = "mark", !.at = l, !.ok = success]
    BY <1>11 DEF WL!SweepRevert
  <2>2. cap' = WL!Reverted \/ (cap' = cap /\ (~success \/ Want[l] = {}))
    BY <2>1, RevertLemma
  <2>3. CASE cap' = cap /\ (~success \/ Want[l] = {})
    BY <1>11, <2>1, <2>3, StillCovered DEF WL!SweepRevert, Covers, Cleared
  <2>4. QED
    BY <2>2, <2>3, NothingLifted
<1>12. CASE WL!SweepMark
  BY <1>12, StillCovered DEF WL!SweepMark, WL!Mark, WL!Idle, Covers, Cleared
<1>13. ASSUME NEW r \in Registers, WL!Expire(r) PROVE Caps'
  BY <1>13, StillCovered DEF WL!Expire, Covers, Cleared
<1>14. CASE WL!Recreate
  BY <1>14, NothingLifted DEF WL!Recreate
<1>15. CASE WL!Crash
  BY <1>15, StillCovered DEF WL!Crash, WL!Working, WL!Idle, Covers, Cleared
<1>16. CASE UNCHANGED WL!vars
  BY <1>16, StillCovered DEF WL!vars, Covers, Cleared
<1>17. QED
  BY <1>1, <1>2, <1>4, <1>5, <1>6, <1>7, <1>8, <1>9, <1>10, <1>11, <1>12, <1>13,
     <1>14, <1>15, <1>16
  DEF WL!Next, WL!Register, WL!Release, WL!Sweep

\* The inductive invariant holds of every reachable state.
THEOREM WorkloadInvariant == WL!Spec => []WorkloadIInv
<1> USE WorkloadConstants
<1>1. WorkloadIInv /\ [WL!Next]_WL!vars => WorkloadIInv'
  BY NextTypes, NextCaps DEF WorkloadIInv
<1>2. QED
  BY InitWorkload, <1>1, PTL DEF WL!Spec

\* However registrations, releases, sweeps, new containers, failures of docker update
\* and crashes meet, a lifted ceiling has a lease or a reported failure to its name.
THEOREM LiftsAccounted == WL!Spec => []LiftAccounted
<1> USE WorkloadConstants
<1>1. WorkloadIInv => LiftAccounted
  BY DEF LiftAccounted, WorkloadIInv, Caps, WL!LiftAccounted, Lift, Covers
<1>2. QED
  BY WorkloadInvariant, <1>1, PTL

\* Closing a lease is final: the UPDATE that closes it asks for no status, but every
\* value it writes is a closed one, and the insert is of a row that was not there.
THEOREM ClosedForGood == WL!Spec => ClosedStaysClosed
<1> USE WorkloadConstants
<1>1. WorkloadIInv /\ [WL!Next]_WL!vars =>
        [\A r \in Registers : workload[r].status \in WL!Statuses \ {"active"} =>
           workload'[r].status \in WL!Statuses \ {"active"}]_WL!vars
  <2> SUFFICES ASSUME WorkloadIInv, WL!Next, NEW r \in Registers,
                      workload[r].status \in WL!Statuses \ {"active"}
               PROVE  workload'[r].status \in WL!Statuses \ {"active"}
    OBVIOUS
  <2> USE DEF WL!WorkloadAssumption, WorkloadIInv, Types, WorkloadProgress, Recorded,
              WL!Statuses
  <2>1. ASSUME NEW s \in Registers, WL!RegisterInsert(s)
        PROVE  workload'[r].status \in WL!Statuses \ {"active"}
    BY <2>1 DEF WL!RegisterInsert
  <2>2. ASSUME NEW q \in WorkloadReleases, WL!ReleaseMark(q)
        PROVE  workload'[r].status \in WL!Statuses \ {"active"}
    BY <2>2 DEF WL!ReleaseMark, WL!Mark
  <2>3. CASE WL!SweepMark
    BY <2>3 DEF WL!SweepMark, WL!Mark
  <2>4. CASE UNCHANGED workload
    BY <2>4
  <2>5. QED
    BY <2>1, <2>2, <2>3, <2>4
    DEF WL!Next, WL!Register, WL!RegisterCheck, WL!RegisterNoAction, WL!RegisterApply,
        WL!RegisterApplyFails,
        WL!Release, WL!ReleaseRead, WL!ReleaseRevert, WL!Sweep, WL!SweepSelect, WL!SweepRevert,
        WL!Expire, WL!Recreate, WL!Crash
<1>2. QED
  BY <1>1, WorkloadInvariant, PTL DEF WL!Spec, ClosedStaysClosed, WL!ClosedStaysClosed
=============================================================================
