------------------------------ MODULE Migration ------------------------------
(***************************************************************************)
(* `drydock migrate` on one desk: the plan and precheck of cli/migrate.py, *)
(* the stages and the rollback of core/migration_executor.py, which run in *)
(* the CLI process, and recover_in_progress_migrations of                  *)
(* daemon/recovery.py, which runs when the daemon starts.  The secrets     *)
(* directory is captured and restored with the overlay; here the overlay   *)
(* stands for both.                                                        *)
(***************************************************************************)
EXTENDS Naturals, Sequences, FiniteSets

CONSTANTS
  Migrations,    \* invocations of `drydock migrate`
  Kind,          \* Kind[m]: "image_bump", "project_reload" or "schema_migration"
  NewImage,      \* NewImage[m]: the tag of an image bump
  OldImage,      \* the desk's image at first
  Arrivals,      \* sets of invocations: those of one of them are made
  Concurrent,    \* TRUE: invocations overlap
  StopDesks,     \* TRUE: StopDesk may be called meanwhile
  RestartWhileLive,  \* TRUE: the daemon may restart under a running executor
  None

ASSUME MigrationAssumption ==
  /\ Kind \in [Migrations -> {"image_bump", "project_reload", "schema_migration"}]
  /\ DOMAIN NewImage = Migrations
  /\ Arrivals \subseteq SUBSET Migrations
  /\ {Concurrent, StopDesks, RestartWhileLive} \subseteq BOOLEAN
  /\ None \notin {OldImage} \union {NewImage[m] : m \in Migrations}

VARIABLES
  image, policy, state,  \* the desk's row; policy is "old" or "new"
  overlay,    \* the overlay file: "old", or "new" once it is generated again
  worktree,   \* the desk has a worktree (without one START is skipped)
  con,        \* the container: "running", "stopped" or "gone"
  mig,        \* mig[m]: the migrations row, None before it is inserted
  order,      \* the rows by created_at
  manifest,   \* manifest[m]: the snapshot on disk, or None
  seen,       \* seen[m]: image and container of the row as the executor read it
  pc

vars == <<image, policy, state, worktree, overlay, con, mig, order, manifest, seen, pc>>
row == <<image, policy, state>>
files == <<worktree, overlay, manifest>>

Images == {OldImage} \union {NewImage[m] : m \in Migrations}
Stages == {"precheck", "drain", "snapshot", "stop", "mutate", "start", "verify", "cleanup",
           "rollback"}
Ended == {"completed", "rolled_back", "failed"}

Init ==
  /\ image = OldImage /\ policy = "old" /\ overlay = "old" /\ worktree \in BOOLEAN
  /\ \/ state = "running" /\ con = "running"
     \/ state = "suspended" /\ con = "stopped"
     \/ state = "error" /\ con = "gone"
  /\ mig = [m \in Migrations |-> None] /\ order = <<>>
  /\ manifest = [m \in Migrations |-> None]
  /\ seen = [m \in Migrations |-> None]
  /\ \E sent \in Arrivals : pc = [m \in Migrations |-> IF m \in sent THEN "new" ELSE "done"]

Live(m) == pc[m] \notin {"new", "done", "crashed"}
Goto(m, label) == pc' = [pc EXCEPT ![m] = label]
InProgress == {m \in Migrations : mig[m] # None /\ mig[m].status = "in_progress"}

\* Registry.update_migration
Update(m, fields) ==
  mig' = [mig EXCEPT ![m] = [f \in DOMAIN @ |-> IF f \in DOMAIN fields THEN fields[f] ELSE @[f]]]

\* _stage, when it succeeds: current_stage is written.
StageOk(m, stage) == Update(m, [stage |-> stage])

\* _stage, when it fails, by a StageFailure or another exception, which it coerces to
\* one.  The outer handler goes on to fail or roll back.
StageFails(m, stage) ==
  /\ Update(m, [stage |-> stage])
  /\ Goto(m, IF stage = "snapshot" THEN "fail" ELSE "rollback")
-----------------------------------------------------------------------------
(* The CLI: check, plan, insert *)

\* No migration in progress, and the image is not the one the desk is on.
Plan(m) ==
  /\ pc[m] = "new" /\ (Concurrent \/ \A n \in Migrations : ~Live(n))
  /\ InProgress = {}
  /\ Kind[m] = "image_bump" => image # NewImage[m]
  /\ Goto(m, "insert")
  /\ UNCHANGED <<row, files, con, mig, order, seen>>

\* insert_migration; the executor is called unless the precheck refuses.
Insert(m) ==
  /\ pc[m] = "insert"
  /\ mig' = [mig EXCEPT ![m] = [status |-> "planned", stage |-> None, snap |-> FALSE,
                                rollbackError |-> FALSE]]
  /\ order' = Append(order, m)
  /\ \E label \in {"execute", "done"} : Goto(m, label)
  /\ UNCHANGED <<row, files, con, seen>>
-----------------------------------------------------------------------------
(* execute_migration *)

\* Reads the desk's row, marks the migration in progress.  PRECHECK and DRAIN change
\* nothing: no code sets the state 'migrating' that PRECHECK refuses.
Begin(m) ==
  /\ pc[m] = "execute"
  /\ seen' = [seen EXCEPT ![m] = [image |-> image, con |-> con]]
  /\ Update(m, [status |-> "in_progress", stage |-> "drain"])
  /\ Goto(m, "snapshot")
  /\ UNCHANGED <<row, files, con, order>>

\* snapshot_drydock captures the row, the overlay and the secrets as they are now.
Snapshot(m) ==
  /\ pc[m] = "snapshot"
  /\ \/ /\ manifest' = [manifest EXCEPT ![m] = [image |-> image, overlay |-> overlay]]
        /\ StageOk(m, "snapshot") /\ Goto(m, "record")
     \/ StageFails(m, "snapshot") /\ UNCHANGED manifest
  /\ UNCHANGED <<row, worktree, overlay, con, order, seen>>

\* Mutant: the snapshot's path is left for the end of the migration to record.
RecordSnapshotLater(m) ==
  /\ pc[m] = "record" /\ Goto(m, "stop")
  /\ UNCHANGED <<row, files, con, mig, order, seen>>

RecordSnapshot(m) ==
  /\ pc[m] = "record"
  /\ Update(m, [snap |-> TRUE])
  /\ Goto(m, "stop")
  /\ UNCHANGED <<row, files, con, order, seen>>

\* docker stop, skipped without a container.  It may fail, or time out having worked.
StopStage(m) ==
  /\ pc[m] = "stop"
  /\ \/ /\ con' = IF con = "running" THEN "stopped" ELSE con
        /\ StageOk(m, "stop") /\ Goto(m, "mutate")
     \/ /\ seen[m].con # "gone"
        /\ StageFails(m, "stop") /\ con' \in {con, "stopped"}
  /\ UNCHANGED <<row, files, order, seen>>

\* _mutate_image_bump and _mutate_project_reload; a missing project YAML or a schema
\* migration is a StageFailure.
Mutate(m) ==
  /\ pc[m] = "mutate"
  /\ \/ /\ Kind[m] # "schema_migration"
        /\ image' = IF Kind[m] = "image_bump" THEN NewImage[m] ELSE image
        /\ policy' = IF Kind[m] = "project_reload" THEN "new" ELSE policy
        /\ StageOk(m, "mutate") /\ Goto(m, "start")
     \/ /\ Kind[m] # "image_bump"
        /\ StageFails(m, "mutate") /\ UNCHANGED <<image, policy>>
  /\ UNCHANGED <<state, files, con, order, seen>>

\* _do_start, first half: skipped without a worktree; otherwise _resume_desk generates
\* the overlay again, from the row's config, and sets the state.
StartStage(m) ==
  /\ pc[m] = "start"
  /\ \/ /\ ~worktree /\ StageOk(m, "start") /\ Goto(m, "complete")
        /\ UNCHANGED <<state, overlay>>
     \/ /\ worktree /\ overlay' = "new" /\ state' = "provisioning" /\ Goto(m, "up")
        /\ UNCHANGED mig
  /\ UNCHANGED <<image, policy, worktree, manifest, con, order, seen>>

\* devcontainer up: a container that is there is started again as it is; neither the
\* overlay nor the command line names the row's image.
Up(m) ==
  /\ pc[m] = "up"
  /\ \/ /\ con' = "running" /\ state' = "running"
        /\ StageOk(m, "start") /\ Goto(m, "verify")
     \/ /\ state' = "error" /\ StageFails(m, "start") /\ UNCHANGED con
  /\ UNCHANGED <<image, policy, files, order, seen>>

Verify(m) ==
  /\ pc[m] = "verify"
  /\ \/ state = "running" /\ StageOk(m, "verify") /\ Goto(m, "complete")
     \/ state # "running" /\ StageFails(m, "verify")
  /\ UNCHANGED <<row, files, con, order, seen>>

\* CLEANUP keeps the snapshot; then the success terminal.
Complete(m) ==
  /\ pc[m] = "complete"
  /\ Update(m, [status |-> "completed", stage |-> "cleanup"])
  /\ Goto(m, "done")
  /\ UNCHANGED <<row, files, con, order, seen>>

\* A failure before there is a snapshot.
Fail(m) ==
  /\ pc[m] = "fail"
  /\ Update(m, [status |-> "failed"])
  /\ Goto(m, "done")
  /\ UNCHANGED <<row, files, con, order, seen>>

\* _rollback, restore_drydock: the overlay comes back; or it raises, and that is final.
Rollback(m) ==
  /\ pc[m] = "rollback"
  /\ \/ /\ overlay' = manifest[m].overlay
        /\ Update(m, [stage |-> "rollback"]) /\ Goto(m, "restore_image")
     \/ /\ Update(m, [stage |-> "rollback", status |-> "failed", rollbackError |-> TRUE])
        /\ Goto(m, "done") /\ UNCHANGED overlay
  /\ UNCHANGED <<row, worktree, manifest, con, order, seen>>

\* Mutant: the image is left as the migration set it.
KeepImage(m) ==
  /\ pc[m] = "restore_image" /\ Goto(m, "rolled_back")
  /\ UNCHANGED <<row, files, con, mig, order, seen>>

RestoreImage(m) ==
  /\ pc[m] = "restore_image"
  /\ image' = manifest[m].image
  /\ Goto(m, "rolled_back")
  /\ UNCHANGED <<policy, state, files, con, mig, order, seen>>

RolledBack(m) ==
  /\ pc[m] = "rolled_back"
  /\ Update(m, [status |-> "rolled_back"])
  /\ Goto(m, "done")
  /\ UNCHANGED <<row, files, con, order, seen>>

Execute(m) ==
  \/ Begin(m) \/ Snapshot(m) \/ RecordSnapshot(m) \/ StopStage(m) \/ Mutate(m)
  \/ StartStage(m) \/ Up(m) \/ Verify(m) \/ Complete(m)
  \/ Fail(m) \/ Rollback(m) \/ RestoreImage(m) \/ RolledBack(m)
-----------------------------------------------------------------------------
\* StopDesk, called while a migration runs, whatever the desk's state: nothing keeps it out.
Suspend ==
  /\ StopDesks
  /\ state' = "suspended" /\ con' = IF con = "running" THEN "stopped" ELSE con
  /\ UNCHANGED <<image, policy, files, mig, order, seen, pc>>

\* The CLI process dies.
Crash(m) ==
  /\ Live(m) /\ Goto(m, "crashed")
  /\ UNCHANGED <<row, files, con, mig, order, seen>>

\* recover_in_progress_migrations on the oldest row in progress: restored from its
\* snapshot if it has one, failed otherwise or if that raises.
Recover(m) ==
  /\ m \in InProgress /\ (RestartWhileLive \/ pc[m] = "crashed")
  /\ \A i, j \in DOMAIN order : order[i] = m /\ order[j] \in InProgress => i <= j
  /\ \/ /\ mig[m].snap
        /\ overlay' = manifest[m].overlay /\ image' = manifest[m].image
        /\ Update(m, [status |-> "rolled_back"])
     \/ /\ mig[m].snap
        /\ Update(m, [status |-> "failed", rollbackError |-> TRUE])
        /\ UNCHANGED <<overlay, image>>
     \/ /\ ~mig[m].snap
        /\ Update(m, [status |-> "failed"])
        /\ UNCHANGED <<overlay, image>>
  /\ UNCHANGED <<policy, state, worktree, manifest, con, order, seen, pc>>

Next ==
  \/ \E m \in Migrations : Plan(m) \/ Insert(m) \/ Execute(m) \/ Crash(m) \/ Recover(m)
  \/ Suspend

Spec == Init /\ [][Next]_vars
-----------------------------------------------------------------------------
(* Properties *)

\* Whenever the CLI process dies, recovery can undo what has been done: once the row's
\* image differs from the one the executor found, the migrations row points to a
\* snapshot that holds that image.
Recoverable ==
  \A m \in InProgress :
    /\ image # seen[m].image => mig[m].snap
    /\ mig[m].snap => manifest[m].image = seen[m].image

\* The verdict a migration ends with is true of the row's image: completed, the new one;
\* rolled back or failed, the one before, unless the rollback's own failure is recorded.
EndsTruthful ==
  [][\A m \in InProgress :
       /\ mig'[m].status = "completed" /\ Kind[m] = "image_bump" => image' = NewImage[m]
       /\ mig'[m].status \in {"rolled_back", "failed"} /\ ~mig'[m].rollbackError
            => image' = seen[m].image]_vars
-----------------------------------------------------------------------------
(* What documents and comments say and the code does not do *)

\* recover_in_progress_migrations: recovery restores a clean end state.  So a migration
\* that is rolled back leaves, with no other, the image that was there before.
RecoveryIsClean ==
  \A m \in Migrations :
    mig[m] # None /\ mig[m].status = "rolled_back" /\ order = <<m>> => image = seen[m].image
=============================================================================
