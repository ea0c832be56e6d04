--------------------------- MODULE MigrationProofs ---------------------------
(***************************************************************************)
(* Proofs about Migration, for any invocations of `drydock migrate`, one   *)
(* at a time, and a daemon that does not restart under a running executor. *)
(***************************************************************************)
EXTENDS Migration, TLAPS

Statuses == {"planned", "in_progress"} \union Ended
Rows == [status : Statuses, stage : Stages \union {None}, snap : BOOLEAN, rollbackError : BOOLEAN]

\* Where the executor is between marking its row in_progress and its verdict.
Before == {"snapshot", "record", "stop", "mutate", "fail"}
After == {"start", "up", "verify", "complete"}
Undoing == {"rollback", "restore_image", "rolled_back"}
Executing == Before \union After \union Undoing

\* The rows and the executors' steps have their types.
Types ==
  /\ mig \in [Migrations -> Rows \union {None}]
  /\ pc \in [Migrations -> {"new", "insert", "execute", "done", "crashed"} \union Executing]
  /\ DOMAIN manifest = Migrations /\ DOMAIN seen = Migrations
  /\ \A m \in Migrations : pc[m] \in {"execute"} \union Executing => mig[m] \in Rows

\* One executor at work, and one row in progress, which is its own.
Exclusive ==
  /\ \A m, n \in Migrations : Live(m) /\ Live(n) => m = n
  /\ \A m \in Migrations, n \in InProgress : Live(m) => m = n
  /\ \A m, n \in InProgress : m = n
  /\ \A m \in InProgress : pc[m] \in {"crashed"} \union Executing

\* What is true of the row's image and the snapshot at each step of the executor.
ImageAt(m) ==
  /\ pc[m] \in Before \union {"rolled_back"} => image = seen[m].image
  /\ pc[m] \in After /\ Kind[m] = "image_bump" => image = NewImage[m]
  /\ pc[m] \in Executing \ {"snapshot", "fail"} => manifest[m].image = seen[m].image
  /\ pc[m] \in Executing \ {"snapshot", "record", "fail"} => mig[m].snap
  /\ pc[m] \in {"execute", "snapshot", "record"} => ~mig[m].snap

\* The inductive invariant.
IInv == Types /\ Exclusive /\ (\A m \in Migrations : ImageAt(m)) /\ Recoverable
-----------------------------------------------------------------------------
\* Registry.update_migration on a row that is there changes the fields it is given, of
\* that row.
LEMMA UpdateLemma ==
  ASSUME NEW m \in Migrations, mig \in [Migrations -> Rows \union {None}], mig[m] \in Rows,
         NEW fields, Update(m, fields),
         "status" \in DOMAIN fields => fields["status"] \in Statuses,
         "stage" \in DOMAIN fields => fields["stage"] \in Stages,
         "snap" \in DOMAIN fields => fields["snap"] \in BOOLEAN,
         "rollbackError" \in DOMAIN fields => fields["rollbackError"] \in BOOLEAN
  PROVE  /\ mig' \in [Migrations -> Rows \union {None}] /\ mig'[m] \in Rows
         /\ \A n \in Migrations \ {m} : mig'[n] = mig[n]
         /\ \A f \in {"status", "stage", "snap", "rollbackError"} :
              mig'[m][f] = IF f \in DOMAIN fields THEN fields[f] ELSE mig[m][f]
<1> DEFINE Names == {"status", "stage", "snap", "rollbackError"}
           new == [f \in DOMAIN mig[m] |-> IF f \in DOMAIN fields THEN fields[f] ELSE mig[m][f]]
<1>1. mig' = [mig EXCEPT ![m] = new]
  BY DEF Update
<1>2. DOMAIN mig[m] = Names
  BY DEF Rows
<1>3. new = [f \in Names |-> IF f \in DOMAIN fields THEN fields[f] ELSE mig[m][f]]
  BY <1>2
<1> HIDE DEF new
<1>4. \A f \in Names : new[f] = IF f \in DOMAIN fields THEN fields[f] ELSE mig[m][f]
  BY <1>3
<1>5. new = [status |-> new["status"], stage |-> new["stage"], snap |-> new["snap"],
             rollbackError |-> new["rollbackError"]]
  BY <1>3
<1>6. /\ new["status"] \in Statuses /\ new["stage"] \in Stages \union {None}
      /\ new["snap"] \in BOOLEAN /\ new["rollbackError"] \in BOOLEAN
  BY <1>4 DEF Rows
<1>7. new \in Rows
  BY <1>5, <1>6 DEF Rows
<1>8. QED
  BY <1>1, <1>4, <1>7

\* A step of the one executor at work, or of the CLI around it, needs to be checked for
\* its own migration only: no other is at work, and no other row is in progress.
LEMMA OwnStep ==
  ASSUME IInv, NEW m \in Migrations, Live(m),
         NEW label \in {"insert", "execute", "done", "crashed"} \union Executing,
         pc' = [pc EXCEPT ![m] = label],
         mig' \in [Migrations -> Rows \union {None}],
         \A n \in Migrations \ {m} : mig'[n] = mig[n],
         DOMAIN manifest' = Migrations, DOMAIN seen' = Migrations,
         label \in {"execute"} \union Executing => mig'[m] \in Rows,
         mig'[m] # None /\ mig'[m].status = "in_progress"
           => /\ label \in {"crashed"} \union Executing
              /\ image' # seen'[m].image => mig'[m].snap
              /\ mig'[m].snap => manifest'[m].image = seen'[m].image,
         ImageAt(m)'
  PROVE  IInv'
<1>1. /\ pc'[m] = label
      /\ \A n \in Migrations \ {m} : pc'[n] = pc[n] /\ pc[n] \in {"new", "done", "crashed"}
  BY DEF IInv, Types, Exclusive, Live
<1>2. Types'
  BY <1>1 DEF IInv, Types, Executing, Before, After, Undoing
<1>3. InProgress \subseteq {m} /\ InProgress' \subseteq {m}
  BY DEF IInv, Exclusive, InProgress
<1>4. Exclusive'
  BY <1>1, <1>3 DEF IInv, Exclusive, Live, InProgress
<1>5. ASSUME NEW n \in Migrations \ {m} PROVE ImageAt(n)'
  BY <1>1, <1>5 DEF ImageAt, Executing, Before, After, Undoing
<1>6. Recoverable'
  BY <1>3 DEF Recoverable, InProgress
<1>7. QED
  BY <1>2, <1>4, <1>5, <1>6 DEF IInv


\* The row of migration m, after a step that leaves it with this status and snapshot.
RowWritten(m, status, snap) ==
  /\ mig' \in [Migrations -> Rows \union {None}] /\ mig'[m] \in Rows
  /\ \A n \in Migrations \ {m} : mig'[n] = mig[n]
  /\ mig'[m].status = status
  /\ mig'[m].snap <=> snap

\* Every step of the executor keeps the invariant.
LEMMA ExecuteStep ==
  ASSUME IInv, NEW m \in Migrations, Execute(m)
  PROVE  IInv'
<1> USE DEF Executing, Before, After, Undoing
<1>1. /\ mig \in [Migrations -> Rows \union {None}] /\ mig[m] \in Rows
      /\ pc \in [Migrations -> {"new", "insert", "execute", "done", "crashed"} \union Executing]
      /\ Live(m) /\ ImageAt(m)
      /\ DOMAIN manifest = Migrations /\ DOMAIN seen = Migrations
      /\ mig[m].status = "in_progress" /\ mig[m] # None =>
           /\ image # seen[m].image => mig[m].snap
           /\ mig[m].snap => manifest[m].image = seen[m].image
  BY DEF IInv, Types, Live, Recoverable, InProgress, Execute, Begin, Snapshot, RecordSnapshot,
         StopStage, Mutate, StartStage, Up, Verify, Complete, Fail, Rollback, RestoreImage,
         RolledBack
<1>2. CASE Begin(m)
  <2>1. Update(m, [status |-> "in_progress", stage |-> "drain"])
    BY <1>2 DEF Begin, StageOk, StageFails
  <2>2. RowWritten(m, "in_progress", mig[m].snap)
    BY <1>1, <2>1, UpdateLemma DEF RowWritten, Statuses, Stages, Ended
  <2>3. pc' = [pc EXCEPT ![m] = "snapshot"]
    BY <1>2 DEF Begin, Goto
  <2>4. ImageAt(m)'
    BY <1>1, <1>2, <2>2, <2>3 DEF Begin, StageFails, Goto, ImageAt, RowWritten, row, files
  <2>5. QED
    BY <1>1, <1>2, <2>2, <2>3, <2>4, OwnStep DEF Begin, ImageAt, RowWritten, row, files
<1>3. CASE Snapshot(m)
  <2>1. Update(m, [stage |-> "snapshot"])
    BY <1>3 DEF Snapshot, StageOk, StageFails
  <2>2. RowWritten(m, mig[m].status, mig[m].snap)
    BY <1>1, <2>1, UpdateLemma DEF RowWritten, Statuses, Stages, Ended
  <2>3. PICK label \in {"record", "fail"} : pc' = [pc EXCEPT ![m] = label]
    BY <1>3 DEF Snapshot, StageFails, Goto
  <2>4. ImageAt(m)'
    BY <1>1, <1>3, <2>2, <2>3 DEF Snapshot, StageFails, Goto, ImageAt, RowWritten, row, files
  <2>5. QED
    BY <1>1, <1>3, <2>2, <2>3, <2>4, OwnStep DEF Snapshot, ImageAt, RowWritten, row, files
<1>4. CASE RecordSnapshot(m)
  <2>1. Update(m, [snap |-> TRUE])
    BY <1>4 DEF RecordSnapshot, StageOk, StageFails
  <2>2. RowWritten(m, mig[m].status, TRUE)
    <3> DEFINE fields == [snap |-> TRUE]
    <3>1. DOMAIN fields = {"snap"} /\ fields["snap"] /\ fields["snap"] \in BOOLEAN
      OBVIOUS
    <3> HIDE DEF fields
    <3>2. Update(m, fields)
      BY <2>1 DEF fields
    <3>3. QED
      BY <1>1, <3>1, <3>2, UpdateLemma DEF RowWritten
  <2>3. pc' = [pc EXCEPT ![m] = "stop"]
    BY <1>4 DEF RecordSnapshot, Goto
  <2>4. ImageAt(m)'
    BY <1>1, <1>4, <2>2, <2>3 DEF RecordSnapshot, StageFails, Goto, ImageAt, RowWritten, row, files
  <2>5. QED
    BY <1>1, <1>4, <2>2, <2>3, <2>4, OwnStep DEF RecordSnapshot, ImageAt, RowWritten, row, files
<1>5. CASE StopStage(m)
  <2>1. Update(m, [stage |-> "stop"])
    BY <1>5 DEF StopStage, StageOk, StageFails
  <2>2. RowWritten(m, mig[m].status, mig[m].snap)
    BY <1>1, <2>1, UpdateLemma DEF RowWritten, Statuses, Stages, Ended
  <2>3. PICK label \in {"mutate", "rollback"} : pc' = [pc EXCEPT ![m] = label]
    BY <1>5 DEF StopStage, StageFails, Goto
  <2>4. ImageAt(m)'
    BY <1>1, <1>5, <2>2, <2>3 DEF StopStage, StageFails, Goto, ImageAt, RowWritten, row, files
  <2>5. QED
    BY <1>1, <1>5, <2>2, <2>3, <2>4, OwnStep DEF StopStage, ImageAt, RowWritten, row, files
<1>6. CASE Mutate(m)
  <2>1. Update(m, [stage |-> "mutate"])
    BY <1>6 DEF Mutate, StageOk, StageFails
  <2>2. RowWritten(m, mig[m].status, mig[m].snap)
    BY <1>1, <2>1, UpdateLemma DEF RowWritten, Statuses, Stages, Ended
  <2>3. PICK label \in {"start", "rollback"} : pc' = [pc EXCEPT ![m] = label]
    BY <1>6 DEF Mutate, StageFails, Goto
  <2>4. ImageAt(m)'
    BY <1>1, <1>6, <2>2, <2>3 DEF Mutate, StageFails, Goto, ImageAt, RowWritten, row, files
  <2>5. QED
    BY <1>1, <1>6, <2>2, <2>3, <2>4, OwnStep DEF Mutate, ImageAt, RowWritten, row, files
<1>7. CASE StartStage(m)
  <2>1. UNCHANGED mig \/ Update(m, [stage |-> "start"])
    BY <1>7 DEF StartStage, StageOk
  <2>2. RowWritten(m, mig[m].status, mig[m].snap)
    BY <1>1, <2>1, UpdateLemma DEF RowWritten, Statuses, Stages, Ended
  <2>3. PICK label \in {"complete", "up"} : pc' = [pc EXCEPT ![m] = label]
    BY <1>7 DEF StartStage, StageFails, Goto
  <2>4. ImageAt(m)'
    BY <1>1, <1>7, <2>2, <2>3 DEF StartStage, StageFails, Goto, ImageAt, RowWritten, row, files
  <2>5. QED
    BY <1>1, <1>7, <2>2, <2>3, <2>4, OwnStep DEF StartStage, ImageAt, RowWritten, row, files
<1>8. CASE Up(m)
  <2>1. Update(m, [stage |-> "start"])
    BY <1>8 DEF Up, StageOk, StageFails
  <2>2. RowWritten(m, mig[m].status, mig[m].snap)
    BY <1>1, <2>1, UpdateLemma DEF RowWritten, Statuses, Stages, Ended
  <2>3. PICK label \in {"verify", "rollback"} : pc' = [pc EXCEPT ![m] = label]
    BY <1>8 DEF Up, StageFails, Goto
  <2>4. ImageAt(m)'
    BY <1>1, <1>8, <2>2, <2>3 DEF Up, StageFails, Goto, ImageAt, RowWritten, row, files
  <2>5. QED
    BY <1>1, <1>8, <2>2, <2>3, <2>4, OwnStep DEF Up, ImageAt, RowWritten, row, files
<1>9. CASE Verify(m)
  <2>1. Update(m, [stage |-> "verify"])
    BY <1>9 DEF Verify, StageOk, StageFails
  <2>2. RowWritten(m, mig[m].status, mig[m].snap)
    BY <1>1, <2>1, UpdateLemma DEF RowWritten, Statuses, Stages, Ended
  <2>3. PICK label \in {"complete", "rollback"} : pc' = [pc EXCEPT ![m] = label]
    BY <1>9 DEF Verify, StageFails, Goto
  <2>4. ImageAt(m)'
    BY <1>1, <1>9, <2>2, <2>3 DEF Verify, StageFails, Goto, ImageAt, RowWritten, row, files
  <2>5. QED
    BY <1>1, <1>9, <2>2, <2>3, <2>4, OwnStep DEF Verify, ImageAt, RowWritten, row, files
<1>10. CASE Complete(m)
  <2>1. Update(m, [status |-> "completed", stage |-> "cleanup"])
    BY <1>10 DEF Complete, StageOk, StageFails
  <2>2. RowWritten(m, "completed", mig[m].snap)
    BY <1>1, <2>1, UpdateLemma DEF RowWritten, Statuses, Stages, Ended
  <2>3. pc' = [pc EXCEPT ![m] = "done"]
    BY <1>10 DEF Complete, Goto
  <2>4. ImageAt(m)'
    BY <1>1, <1>10, <2>2, <2>3 DEF Complete, StageFails, Goto, ImageAt, RowWritten, row, files
  <2>5. QED
    BY <1>1, <1>10, <2>2, <2>3, <2>4, OwnStep DEF Complete, ImageAt, RowWritten, row, files
<1>11. CASE Fail(m)
  <2>1. Update(m, [status |-> "failed"])
    BY <1>11 DEF Fail, StageOk, StageFails
  <2>2. RowWritten(m, "failed", mig[m].snap)
    BY <1>1, <2>1, UpdateLemma DEF RowWritten, Statuses, Stages, Ended
  <2>3. pc' = [pc EXCEPT ![m] = "done"]
    BY <1>11 DEF Fail, Goto
  <2>4. ImageAt(m)'
    BY <1>1, <1>11, <2>2, <2>3 DEF Fail, StageFails, Goto, ImageAt, RowWritten, row, files
  <2>5. QED
    BY <1>1, <1>11, <2>2, <2>3, <2>4, OwnStep DEF Fail, ImageAt, RowWritten, row, files
<1>12. CASE Rollback(m)
  <2>1. \/ Update(m, [stage |-> "rollback"]) /\ pc' = [pc EXCEPT ![m] = "restore_image"]
        \/ /\ Update(m, [stage |-> "rollback", status |-> "failed", rollbackError |-> TRUE])
           /\ pc' = [pc EXCEPT ![m] = "done"]
    BY <1>12 DEF Rollback, Goto
  <2>2. /\ \E s \in Statuses : RowWritten(m, s, mig[m].snap)
        /\ mig'[m].status = "in_progress" => mig[m].status = "in_progress" /\ pc'[m] # "done"
    <3>1. CASE Update(m, [stage |-> "rollback"]) /\ pc' = [pc EXCEPT ![m] = "restore_image"]
      <4>1. RowWritten(m, mig[m].status, mig[m].snap)
        BY <1>1, <3>1, UpdateLemma DEF RowWritten, Stages
      <4>2. QED
        BY <1>1, <3>1, <4>1 DEF RowWritten, Rows
    <3>2. CASE Update(m, [stage |-> "rollback", status |-> "failed", rollbackError |-> TRUE])
      <4>1. RowWritten(m, "failed", mig[m].snap)
        <5> DEFINE fields == [stage |-> "rollback", status |-> "failed", rollbackError |-> TRUE]
        <5>1. /\ DOMAIN fields = {"stage", "status", "rollbackError"}
              /\ fields["stage"] = "rollback" /\ fields["status"] = "failed"
              /\ fields["rollbackError"] \in BOOLEAN
          OBVIOUS
        <5> HIDE DEF fields
        <5>2. Update(m, fields)
          BY <3>2 DEF fields
        <5>3. QED
          BY <1>1, <5>1, <5>2, UpdateLemma DEF RowWritten, Statuses, Stages, Ended
      <4>2. QED
        BY <4>1 DEF RowWritten, Statuses, Ended
    <3>3. QED
      BY <2>1, <3>1, <3>2
  <2>3. PICK label \in {"restore_image", "done"} : pc' = [pc EXCEPT ![m] = label]
    BY <1>12 DEF Rollback, StageFails, Goto
  <2>4. ImageAt(m)'
    BY <1>1, <1>12, <2>2, <2>3 DEF Rollback, StageFails, Goto, ImageAt, RowWritten, row, files
  <2>5. QED
    BY <1>1, <1>12, <2>2, <2>3, <2>4, OwnStep DEF Rollback, ImageAt, RowWritten, row, files
<1>13. CASE RestoreImage(m)
  <2>1. UNCHANGED mig
    BY <1>13 DEF RestoreImage
  <2>2. RowWritten(m, mig[m].status, mig[m].snap)
    BY <1>1, <2>1, UpdateLemma DEF RowWritten, Statuses, Stages, Ended
  <2>3. pc' = [pc EXCEPT ![m] = "rolled_back"]
    BY <1>13 DEF RestoreImage, Goto
  <2>4. ImageAt(m)'
    BY <1>1, <1>13, <2>2, <2>3 DEF RestoreImage, StageFails, Goto, ImageAt, RowWritten, row, files
  <2>5. QED
    BY <1>1, <1>13, <2>2, <2>3, <2>4, OwnStep DEF RestoreImage, ImageAt, RowWritten, row, files
<1>14. CASE RolledBack(m)
  <2>1. Update(m, [status |-> "rolled_back"])
    BY <1>14 DEF RolledBack, StageOk, StageFails
  <2>2. RowWritten(m, "rolled_back", mig[m].snap)
    BY <1>1, <2>1, UpdateLemma DEF RowWritten, Statuses, Stages, Ended
  <2>3. pc' = [pc EXCEPT ![m] = "done"]
    BY <1>14 DEF RolledBack, Goto
  <2>4. ImageAt(m)'
    BY <1>1, <1>14, <2>2, <2>3 DEF RolledBack, StageFails, Goto, ImageAt, RowWritten, row, files
  <2>5. QED
    BY <1>1, <1>14, <2>2, <2>3, <2>4, OwnStep DEF RolledBack, ImageAt, RowWritten, row, files
<1>15. QED
  BY <1>2, <1>3, <1>4, <1>5, <1>6, <1>7, <1>8, <1>9, <1>10, <1>11, <1>12, <1>13, <1>14 DEF Execute
\* recover_in_progress_migrations runs with no executor at work, and leaves the one row
\* that was in progress ended.
LEMMA RecoverStep ==
  ASSUME IInv, ~RestartWhileLive, NEW m \in Migrations, Recover(m)
  PROVE  IInv' /\ InProgress' = {}
<1>1. /\ m \in InProgress /\ pc[m] = "crashed" /\ mig[m] \in Rows
      /\ mig \in [Migrations -> Rows \union {None}]
      /\ \A n \in Migrations : ~Live(n)
      /\ InProgress = {m}
  BY DEF IInv, Types, Exclusive, Recover, InProgress, Live
<1>2. \E s \in {"rolled_back", "failed"} : \E b \in BOOLEAN : RowWritten(m, s, b)
  <2>1. CASE Update(m, [status |-> "rolled_back"])
    <3>1. RowWritten(m, "rolled_back", mig[m].snap)
      BY <1>1, <2>1, UpdateLemma DEF RowWritten, Statuses, Ended
    <3>2. QED
      BY <1>1, <3>1 DEF Rows
  <2>2. CASE Update(m, [status |-> "failed"])
    <3>1. RowWritten(m, "failed", mig[m].snap)
      BY <1>1, <2>2, UpdateLemma DEF RowWritten, Statuses, Ended
    <3>2. QED
      BY <1>1, <3>1 DEF Rows
  <2>3. CASE Update(m, [status |-> "failed", rollbackError |-> TRUE])
    <3> DEFINE fields == [status |-> "failed", rollbackError |-> TRUE]
    <3>1. /\ DOMAIN fields = {"status", "rollbackError"}
          /\ fields["status"] = "failed" /\ fields["rollbackError"] \in BOOLEAN
      OBVIOUS
    <3> HIDE DEF fields
    <3>2. Update(m, fields)
      BY <2>3 DEF fields
    <3>3. RowWritten(m, "failed", mig[m].snap)
      BY <1>1, <3>1, <3>2, UpdateLemma DEF RowWritten, Statuses, Ended
    <3>4. QED
      BY <1>1, <3>3 DEF Rows
  <2>4. QED
    BY <2>1, <2>2, <2>3 DEF Recover
<1>3. mig'[m] # None => mig'[m].status # "in_progress"
  BY <1>2 DEF RowWritten
<1>4. InProgress' = {}
  BY <1>1, <1>2, <1>3 DEF RowWritten, InProgress
<1>5. UNCHANGED <<manifest, seen, pc>>
  BY DEF Recover
<1>6. Types'
  BY <1>1, <1>2, <1>5 DEF IInv, Types, RowWritten, Live, Executing, Before, After, Undoing
<1>7. Exclusive' /\ Recoverable'
  BY <1>1, <1>4, <1>5 DEF IInv, Exclusive, Recoverable, Live
<1>8. ASSUME NEW n \in Migrations PROVE ImageAt(n)'
  BY <1>1, <1>5 DEF ImageAt, IInv, Types, Live, Executing, Before, After, Undoing
<1>9. QED
  BY <1>4, <1>6, <1>7, <1>8 DEF IInv

\* Every step keeps the invariant.
LEMMA NextIInv ==
  ASSUME ~Concurrent, ~RestartWhileLive, IInv, [Next]_vars
  PROVE  IInv'
<1> USE DEF Executing, Before, After, Undoing
<1>1. ASSUME NEW m \in Migrations, Plan(m) PROVE IInv'
  <2>1. /\ pc[m] = "new" /\ pc' = [pc EXCEPT ![m] = "insert"]
        /\ \A n \in Migrations : ~Live(n)
        /\ InProgress = {} /\ UNCHANGED <<image, mig, manifest, seen>>
    BY <1>1 DEF Plan, Goto, row, files
  <2>2. InProgress' = {}
    BY <2>1 DEF InProgress
  <2>3. Types'
    BY <2>1 DEF IInv, Types
  <2>4. \A n \in Migrations \ {m} : pc'[n] = pc[n]
    BY <2>1 DEF IInv, Types
  <2>5. Exclusive' /\ Recoverable'
    BY <2>1, <2>2, <2>4 DEF Exclusive, Recoverable, Live
  <2>6. ASSUME NEW n \in Migrations PROVE ImageAt(n)'
    BY <2>1, <2>4 DEF ImageAt, IInv, Types, Live
  <2>7. QED
    BY <2>3, <2>5, <2>6 DEF IInv
<1>2. ASSUME NEW m \in Migrations, Insert(m) PROVE IInv'
  <2> DEFINE r == [status |-> "planned", stage |-> None, snap |-> FALSE, rollbackError |-> FALSE]
  <2>1. r \in Rows /\ r.status = "planned" /\ ~r.snap
    BY DEF Rows, Statuses
  <2> HIDE DEF r
  <2>2. Live(m) /\ mig' = [mig EXCEPT ![m] = r] /\ UNCHANGED <<image, manifest, seen>>
    BY <1>2 DEF Insert, Live, r, row, files
  <2>3. mig' \in [Migrations -> Rows \union {None}] /\ mig'[m] = r
        /\ \A n \in Migrations \ {m} : mig'[n] = mig[n]
    BY <2>1, <2>2 DEF IInv, Types
  <2>4. PICK label \in {"execute", "done"} : pc' = [pc EXCEPT ![m] = label]
    BY <1>2 DEF Insert, Goto
  <2>5. ImageAt(m)'
    BY <2>1, <2>3, <2>4 DEF ImageAt, IInv, Types
  <2>6. DOMAIN manifest' = Migrations /\ DOMAIN seen' = Migrations
    BY <2>2 DEF IInv, Types
  <2>7. QED
    BY <2>1, <2>2, <2>3, <2>4, <2>5, <2>6, OwnStep
<1>3. ASSUME NEW m \in Migrations, Crash(m) PROVE IInv'
  <2>1. /\ Live(m) /\ pc' = [pc EXCEPT ![m] = "crashed"]
        /\ UNCHANGED <<image, mig, manifest, seen>>
    BY <1>3 DEF Crash, Goto, row, files
  <2>2. /\ ImageAt(m)' /\ DOMAIN manifest' = Migrations /\ DOMAIN seen' = Migrations
        /\ mig' \in [Migrations -> Rows \union {None}]
    BY <2>1 DEF ImageAt, IInv, Types
  <2>3. mig[m] # None /\ mig[m].status = "in_progress" =>
          (image # seen[m].image => mig[m].snap) /\ (mig[m].snap => manifest[m].image = seen[m].image)
    BY DEF IInv, Recoverable, InProgress
  <2>4. QED
    BY <2>1, <2>2, <2>3, OwnStep
<1>4. CASE Suspend \/ UNCHANGED vars
  BY <1>4 DEF Suspend, files, vars, IInv, Types, Exclusive, Live, InProgress, ImageAt, Recoverable
<1>5. QED
  BY <1>1, <1>2, <1>3, <1>4, ExecuteStep, RecoverStep DEF Next

\* No migration is under way at first.
LEMMA InitIInv == Init => IInv
  BY DEF Init, IInv, Types, Exclusive, Live, InProgress, ImageAt, Recoverable, Executing, Before,
         After, Undoing

\* With one invocation at a time, and no restart of the daemon under a running executor,
\* recovery can at any moment undo what execute_migration has done to the image of the
\* desk's row, for any number of migrations of any kinds.
THEOREM AlwaysRecoverable == ~Concurrent /\ ~RestartWhileLive => (Spec => []Recoverable)
<1> SUFFICES ASSUME ~Concurrent, ~RestartWhileLive PROVE Spec => []Recoverable
  OBVIOUS
<1>1. Init => IInv
  BY InitIInv
<1>2. IInv /\ [Next]_vars => IInv'
  BY NextIInv
<1>3. IInv => Recoverable
  BY DEF IInv
<1>4. QED
  BY <1>1, <1>2, <1>3, PTL DEF Spec

\* What EndsTruthful says of one step and one migration.
Truthful(m) ==
  /\ mig'[m].status = "completed" /\ Kind[m] = "image_bump" => image' = NewImage[m]
  /\ mig'[m].status \in {"rolled_back", "failed"} /\ ~mig'[m].rollbackError
       => image' = seen[m].image

\* The executor ends a migration in progress where the image is what its verdict says.
LEMMA ExecuteTruthful ==
  ASSUME IInv, NEW m \in InProgress, Execute(m)
  PROVE  Truthful(m)
<1> USE DEF Executing, Before, After, Undoing
<1>1. /\ m \in Migrations /\ mig \in [Migrations -> Rows \union {None}] /\ mig[m] \in Rows
      /\ ImageAt(m) /\ mig[m].status = "in_progress" /\ pc[m] # "execute"
  BY DEF IInv, Types, Exclusive, InProgress
<1>2. CASE mig'[m].status = "in_progress"
  BY <1>2 DEF Truthful
<1>3. ASSUME NEW g \in Stages, Update(m, [stage |-> g]) PROVE Truthful(m)
  BY <1>1, <1>2, <1>3, UpdateLemma
<1>4. CASE Snapshot(m) \/ StopStage(m) \/ Mutate(m) \/ Up(m) \/ Verify(m)
  BY <1>3, <1>4 DEF Snapshot, StopStage, Mutate, Up, Verify, StageOk, StageFails, Stages
<1>5. CASE StartStage(m) \/ RestoreImage(m)
  BY <1>1, <1>2, <1>3, <1>5 DEF StartStage, RestoreImage, StageOk, Stages
<1>6. CASE RecordSnapshot(m)
  <2> DEFINE fields == [snap |-> TRUE]
  <2>1. DOMAIN fields = {"snap"} /\ fields["snap"] \in BOOLEAN
    OBVIOUS
  <2> HIDE DEF fields
  <2>2. Update(m, fields)
    BY <1>6 DEF RecordSnapshot, fields
  <2>3. QED
    BY <1>1, <1>2, <2>1, <2>2, UpdateLemma
<1>7. CASE Complete(m)
  <2>1. mig'[m].status = "completed" /\ UNCHANGED image
    BY <1>1, <1>7, UpdateLemma DEF Complete, Statuses, Ended, Stages, row
  <2>2. QED
    BY <1>1, <1>7, <2>1 DEF Complete, ImageAt, Truthful
<1>8. CASE Fail(m) \/ RolledBack(m)
  <2>1. mig'[m].status \in {"failed", "rolled_back"} /\ UNCHANGED image
    BY <1>1, <1>8, UpdateLemma DEF Fail, RolledBack, Statuses, Ended, row
  <2>2. QED
    BY <1>1, <1>8, <2>1 DEF Fail, RolledBack, ImageAt, Truthful
<1>9. CASE Rollback(m)
  <2> DEFINE fields == [stage |-> "rollback", status |-> "failed", rollbackError |-> TRUE]
  <2>1. /\ DOMAIN fields = {"stage", "status", "rollbackError"}
        /\ fields["stage"] = "rollback" /\ fields["status"] = "failed"
        /\ fields["rollbackError"] /\ fields["rollbackError"] \in BOOLEAN
    OBVIOUS
  <2> HIDE DEF fields
  <2>2. Update(m, [stage |-> "rollback"]) \/ Update(m, fields)
    BY <1>9 DEF Rollback, fields
  <2>3. CASE Update(m, fields)
    <3>1. mig'[m].status = "failed" /\ mig'[m].rollbackError
      BY <1>1, <2>1, <2>3, UpdateLemma DEF Statuses, Ended, Stages
    <3>2. QED
      BY <3>1 DEF Truthful
  <2>4. QED
    BY <1>3, <2>2, <2>3 DEF Stages
<1>10. QED
  BY <1>1, <1>4, <1>5, <1>6, <1>7, <1>8, <1>9 DEF Execute, Begin

\* So does recovery, when the daemon starts.
LEMMA RecoverTruthful ==
  ASSUME IInv, NEW m \in InProgress, Recover(m)
  PROVE  Truthful(m)
<1>1. /\ m \in Migrations /\ mig \in [Migrations -> Rows \union {None}] /\ mig[m] \in Rows
      /\ image # seen[m].image => mig[m].snap
      /\ mig[m].snap => manifest[m].image = seen[m].image
  BY DEF IInv, Types, InProgress, Recoverable
<1>2. CASE mig[m].snap /\ image' = manifest[m].image /\ Update(m, [status |-> "rolled_back"])
  <2>1. mig'[m].status = "rolled_back"
    BY <1>1, <1>2, UpdateLemma DEF Statuses, Ended
  <2>2. QED
    BY <1>1, <1>2, <2>1 DEF Truthful
<1>3. CASE Update(m, [status |-> "failed", rollbackError |-> TRUE])
  <2> DEFINE fields == [status |-> "failed", rollbackError |-> TRUE]
  <2>1. /\ DOMAIN fields = {"status", "rollbackError"} /\ fields["status"] = "failed"
        /\ fields["rollbackError"] /\ fields["rollbackError"] \in BOOLEAN
    OBVIOUS
  <2> HIDE DEF fields
  <2>2. Update(m, fields)
    BY <1>3 DEF fields
  <2>3. mig'[m].status = "failed" /\ mig'[m].rollbackError
    BY <1>1, <2>1, <2>2, UpdateLemma DEF Statuses, Ended
  <2>4. QED
    BY <2>3 DEF Truthful
<1>4. CASE ~mig[m].snap /\ UNCHANGED image /\ Update(m, [status |-> "failed"])
  <2>1. mig'[m].status = "failed"
    BY <1>1, <1>4, UpdateLemma DEF Statuses, Ended
  <2>2. QED
    BY <1>1, <1>4, <2>1 DEF Truthful
<1>5. QED
  BY <1>2, <1>3, <1>4 DEF Recover

\* Under the same conditions, the verdict recorded for a migration is true of the desk's
\* image: completed, it is the new one; rolled back or failed, the one before, unless the
\* rollback's own failure is recorded with it.
THEOREM VerdictsTruthful == ~Concurrent /\ ~RestartWhileLive => (Spec => EndsTruthful)
<1> SUFFICES ASSUME ~Concurrent, ~RestartWhileLive PROVE Spec => EndsTruthful
  OBVIOUS
<1>1. Init => IInv
  BY InitIInv
<1>2. IInv /\ [Next]_vars => IInv'
  BY NextIInv
<1>3. IInv /\ [Next]_vars => [\A m \in InProgress : Truthful(m)]_vars
  <2> SUFFICES ASSUME IInv, [Next]_vars, NEW m \in InProgress, ~UNCHANGED vars
               PROVE  Truthful(m)
    OBVIOUS
  <2>1. CASE UNCHANGED mig \/ (\E n \in Migrations : Plan(n) \/ Crash(n)) \/ Suspend
    BY <2>1 DEF Truthful, InProgress, Plan, Crash, Suspend
  <2>2. ASSUME NEW n \in Migrations, Insert(n) PROVE Truthful(m)
    <3>1. n # m
      BY <2>2 DEF IInv, Exclusive, Insert, Executing, Before, After, Undoing
    <3>2. mig'[m] = mig[m]
      BY <2>2, <3>1 DEF Insert, IInv, Types, InProgress
    <3>3. QED
      BY <3>2 DEF Truthful, InProgress
  <2>3. ASSUME NEW n \in Migrations, Execute(n) PROVE Truthful(m)
    <3>1. Live(n)
      BY <2>3 DEF Live, Execute, Begin, Snapshot, RecordSnapshot, StopStage, Mutate, StartStage,
                  Up, Verify, Complete, Fail, Rollback, RestoreImage, RolledBack
    <3>2. n = m
      BY <3>1 DEF IInv, Exclusive
    <3>3. QED
      BY <2>3, <3>2, ExecuteTruthful
  <2>4. ASSUME NEW n \in Migrations, Recover(n) PROVE Truthful(m)
    <3>1. n = m
      BY <2>4 DEF IInv, Exclusive, Recover
    <3>2. QED
      BY <2>4, <3>1, RecoverTruthful
  <2>5. QED
    BY <2>1, <2>2, <2>3, <2>4 DEF Next
<1>4. QED
  BY <1>1, <1>2, <1>3, PTL DEF Spec, EndsTruthful, Truthful
=============================================================================
