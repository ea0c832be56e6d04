--------------------------- MODULE DeskLifecycle ---------------------------
(***************************************************************************)
(* The life of a desk: CreateDesk (which resumes a suspended or defined    *)
(* desk), SpawnChild, StopDesk and DestroyDesk as the daemon runs them     *)
(* (daemon/handlers.py), against everything a desk consists of: the        *)
(* registry row, the worktree, the overlay file, the bearer token (a hash  *)
(* in the tokens table and a file) and the container; with the crash of    *)
(* the daemon at any point and its startup recovery (daemon/recovery.py).  *)
(*                                                                         *)
(* Every registry call commits by itself and every other effect is on the  *)
(* file system or in docker, so a handler is a sequence of steps that      *)
(* other threads can interleave with and a crash can cut short.  A         *)
(* request runs at most once (module TaskLog), so requests are their own   *)
(* threads here and a retry, which only replays, is left out.  Tokens and  *)
(* containers are named by the request that made them.                     *)
(***************************************************************************)
EXTENDS Naturals, FiniteSets, Sequences

CONSTANTS
  Desks,        \* desk names; the id of a desk is derived from its name
  Requests,     \* RPC requests
  Arrivals,     \* sets of requests: clients send those of one of them
  Job,          \* Job[r]: [method, desk, parent], parent = None but for SpawnChild
  None,         \* no value
  InFlightMax,  \* SPAWN_CHILD_INFLIGHT_MAX
  Overlapping,  \* requests that overlap with others; the rest wait for those before
  Faults        \* TRUE: docker and file removals may fail

ASSUME JobAssumption ==
  /\ None \notin Desks \union Requests /\ Arrivals \subseteq SUBSET Requests
  /\ \A r \in Requests :
       /\ Job[r].method \in {"CreateDesk", "SpawnChild", "StopDesk", "DestroyDesk"}
       /\ Job[r].desk \in Desks
       /\ Job[r].parent \in (IF Job[r].method = "SpawnChild" THEN Desks ELSE {None})
ASSUME BoundsAssumption ==
  InFlightMax \in Nat /\ Overlapping \subseteq Requests /\ Faults \in BOOLEAN

VARIABLES
  row,       \* row[d]: row of the drydocks table, NoRow when there is none
  tokens,    \* tokens[d]: the token hash in the tokens table, or None
  worktree,  \* desks whose checkout directory exists
  overlay,   \* desks whose overlay file exists
  tokFile,   \* tokFile[d]: the token in the desk's drydock-token file, or None
  con,       \* con[d]: the container devcontainer finds for the worktree
  task,      \* task[r]: status of r's task_log row, with the one error told apart
  order,     \* task_log rows by created_at
  phase,     \* the daemon: "down", "recovering" or "serving"
  pc,        \* pc[r]: the next step of the thread running r
  snap,      \* snap[r]: the Drydock object the thread read from the registry
  got,       \* got[r]: the container id devcontainer up returned
  stack,     \* stack[r]: _destroy_tree calls under way, innermost first
  res        \* res[r]: the outcome to be recorded

disk == <<worktree, overlay, tokFile>>
log == <<task, order>>
local == <<snap, got, stack>>
vars == <<row, tokens, disk, con, log, phase, pc, local, res>>

NoRow == [state |-> "absent", cid |-> None, wt |-> FALSE, ov |-> FALSE, parent |-> None]
NoContainer == [id |-> None, up |-> FALSE]

Init ==
  /\ row = [d \in Desks |-> NoRow]
  /\ tokens = [d \in Desks |-> None] /\ tokFile = [d \in Desks |-> None]
  /\ worktree = {} /\ overlay = {}
  /\ con = [d \in Desks |-> NoContainer]
  /\ task = [r \in Requests |-> "absent"] /\ order = <<>>
  /\ phase = "recovering"
  /\ \E sent \in Arrivals : pc = [r \in Requests |-> IF r \in sent THEN "new" ELSE "done"]
  /\ snap = [r \in Requests |-> NoRow]
  /\ got = [r \in Requests |-> None]
  /\ stack = [r \in Requests |-> <<>>]
  /\ res = [r \in Requests |-> "none"]

HasRow(d) == row[d].state # "absent"
Running(r) == pc[r] \notin {"new", "done", "stuck"}
Quiet == \A r \in Requests : ~Running(r)

Goto(r, label) == pc' = [pc EXCEPT ![r] = label] /\ UNCHANGED res

\* The handler is done; its outcome is recorded in the next step.
End(r, outcome) ==
  pc' = [pc EXCEPT ![r] = "finish"] /\ res' = [res EXCEPT ![r] = outcome]

\* An exception other than _RpcError or WsError: the thread ends, the task_log
\* row stays in_progress (module TaskLog, HandlerRaisesOther).
Uncaught(r) == pc' = [pc EXCEPT ![r] = "stuck"] /\ UNCHANGED res

\* Registry.update_drydock and update_state: an UPDATE by name, which changes
\* nothing when the row is gone.
UpdateRow(d, new) == row' = IF HasRow(d) THEN [row EXCEPT ![d] = new] ELSE row
UpdateState(d, state) == UpdateRow(d, [row[d] EXCEPT !.state = state])
-----------------------------------------------------------------------------
(* A request arrives *)

\* The task_log row is inserted (StopDesk has none).  SpawnChild is refused
\* before that unless the calling desk's token is in the tokens table.
Dispatch(r) ==
  /\ phase = "serving" /\ pc[r] = "new" /\ (r \in Overlapping \/ Quiet)
  /\ Job[r].method = "SpawnChild" => tokens[Job[r].parent] # None
  /\ Goto(r, "lookup")
  /\ IF Job[r].method = "StopDesk" THEN UNCHANGED log
     ELSE task' = [task EXCEPT ![r] = "in_progress"] /\ order' = Append(order, r)
  /\ UNCHANGED <<row, tokens, disk, con, phase, local>>

\* _finish_task_log, then the reply.
Finish(r) ==
  /\ pc[r] = "finish"
  /\ pc' = [pc EXCEPT ![r] = "done"]
  /\ task' = IF Job[r].method = "StopDesk" THEN task
             ELSE [task EXCEPT ![r] = res[r]]
  /\ snap' = [snap EXCEPT ![r] = NoRow] /\ got' = [got EXCEPT ![r] = None]
  /\ UNCHANGED <<row, tokens, disk, con, order, phase, stack, res>>
-----------------------------------------------------------------------------
(* CreateDesk and SpawnChild *)

CreateLookup(r) ==
  LET d == Job[r].desk IN
  /\ pc[r] = "lookup" /\ Job[r].method = "CreateDesk"
  /\ \/ ~HasRow(d) /\ Goto(r, "insert") /\ UNCHANGED snap
     \/ /\ row[d].state \in {"suspended", "defined"}
        /\ Goto(r, "resume") /\ snap' = [snap EXCEPT ![r] = row[d]]
     \/ /\ row[d].state \in {"provisioning", "running", "error"}
        /\ End(r, "failed") /\ UNCHANGED snap
  /\ UNCHANGED <<row, tokens, disk, con, log, phase, got, stack>>

\* _count_provisioning_children
ProvisioningChildren(p) ==
  {d \in Desks : row[d].parent = p /\ row[d].state = "provisioning"}

\* SpawnChild: the name is free, the parent is under its in-flight cap and
\* still exists, and validate_spawn allows the child (it may also refuse).
SpawnLookup(r) ==
  LET d == Job[r].desk  p == Job[r].parent IN
  /\ pc[r] = "lookup" /\ Job[r].method = "SpawnChild"
  /\ \/ /\ ~HasRow(d) /\ HasRow(p)
        /\ Cardinality(ProvisioningChildren(p)) < InFlightMax
        /\ Goto(r, "insert")
     \/ End(r, "failed")
  /\ UNCHANGED <<row, tokens, disk, con, log, phase, local>>

\* Registry.create_drydock: refused when another thread created the name.
CreateRow(r) ==
  LET d == Job[r].desk IN
  /\ pc[r] = "insert"
  /\ IF HasRow(d) THEN End(r, "failed") /\ UNCHANGED row
     ELSE /\ row' = [row EXCEPT ![d] = [NoRow EXCEPT !.state = "defined"]]
          /\ Goto(r, "link")
  /\ UNCHANGED <<tokens, disk, con, log, phase, local>>

\* Policy columns and the parent are written; a declared Yard that is not
\* registered ends the request.  When the row is gone meanwhile, an update
\* made here (a child's parent, a pinned project YAML) yields no object to go on with.
LinkParent(r) ==
  LET d == Job[r].desk  p == Job[r].parent IN
  /\ pc[r] = "link"
  /\ UpdateRow(d, [row[d] EXCEPT !.parent = p])
  /\ \/ ~HasRow(d) /\ Uncaught(r)
     \/ (HasRow(d) \/ p = None) /\ (Goto(r, "checkout") \/ End(r, "failed"))
  /\ UNCHANGED <<tokens, disk, con, log, phase, local>>

\* create_checkout: refused if the directory exists; git may fail before or
\* after the clone has made the directory.
Checkout(r) ==
  LET d == Job[r].desk IN
  /\ pc[r] = "checkout"
  /\ \/ d \in worktree /\ End(r, "failed") /\ UNCHANGED worktree
     \/ /\ d \notin worktree
        /\ \/ worktree' = worktree \union {d} /\ Goto(r, "worktree_path")
           \/ worktree' \in {worktree, worktree \union {d}} /\ End(r, "failed")
  /\ UNCHANGED <<row, tokens, overlay, tokFile, con, log, phase, local>>

RecordWorktree(r) ==
  LET d == Job[r].desk IN
  /\ pc[r] = "worktree_path"
  /\ UpdateRow(d, [row[d] EXCEPT !.wt = TRUE])
  /\ IF HasRow(d) THEN Goto(r, "overlay") ELSE Uncaught(r)
  /\ UNCHANGED <<tokens, disk, con, log, phase, local>>

\* The base devcontainer.json is looked up in the worktree; write_overlay.
WriteOverlay(r) ==
  LET d == Job[r].desk IN
  /\ pc[r] = "overlay"
  /\ \/ /\ d \in worktree /\ overlay' = overlay \union {d}
        /\ Goto(r, "overlay_path") /\ UNCHANGED row
     \/ UpdateState(d, "error") /\ End(r, "failed") /\ UNCHANGED overlay
  /\ UNCHANGED <<tokens, worktree, tokFile, con, log, phase, local>>

\* config.overlay_path, then check_available, which may find no devcontainer CLI.
RecordOverlay(r) ==
  LET d == Job[r].desk IN
  /\ pc[r] = "overlay_path"
  /\ UpdateRow(d, [row[d] EXCEPT !.ov = TRUE])
  /\ \/ End(r, "failed")
     \/ IF HasRow(d) THEN Goto(r, "token") ELSE Uncaught(r)
  /\ UNCHANGED <<tokens, disk, con, log, phase, local>>

\* Mutant: a new token is written although one is registered.
WriteTokenFileAlways(r) ==
  /\ pc[r] = "token" /\ tokFile' = [tokFile EXCEPT ![Job[r].desk] = r]
  /\ Goto(r, "token_row")
  /\ UNCHANGED <<row, tokens, worktree, overlay, con, log, phase, local>>

\* issue_token_for_desk: an existing token is reused if its file is there;
\* else the file is written first ...
WriteTokenFile(r) ==
  LET d == Job[r].desk IN
  /\ pc[r] = "token"
  /\ \/ tokens[d] # None /\ tokFile[d] # None /\ Goto(r, "provision") /\ UNCHANGED tokFile
     \/ tokens[d] # None /\ tokFile[d] = None /\ End(r, "failed") /\ UNCHANGED tokFile
     \/ /\ tokens[d] = None /\ tokFile' = [tokFile EXCEPT ![d] = r]
        /\ Goto(r, "token_row")
  /\ UNCHANGED <<row, tokens, worktree, overlay, con, log, phase, local>>

\* ... and then its hash is inserted, ON CONFLICT DO NOTHING.
InsertToken(r) ==
  LET d == Job[r].desk IN
  /\ pc[r] = "token_row"
  /\ tokens' = [tokens EXCEPT ![d] = IF @ = None THEN r ELSE @]
  /\ Goto(r, "provision")
  /\ UNCHANGED <<row, disk, con, log, phase, local>>

\* _resume_desk up to its check_available, on the row read by the lookup.  The
\* overlay is regenerated when the worktree still has its devcontainer.json.
Resume(r) ==
  LET d == Job[r].desk
      regenerated == overlay \union (IF snap[r].wt THEN {d} \intersect worktree ELSE {})
  IN
  /\ pc[r] = "resume"
  /\ IF ~snap[r].ov
     THEN UpdateState(d, "error") /\ End(r, "failed") /\ UNCHANGED overlay
     ELSE /\ overlay' \in {overlay, regenerated}
          /\ IF d \notin overlay' \/ ~snap[r].wt \/ d \notin worktree
             THEN UpdateState(d, "error") /\ End(r, "failed")
             ELSE UNCHANGED row /\ (Goto(r, "provision") \/ End(r, "failed"))
  /\ UNCHANGED <<tokens, worktree, tokFile, con, log, phase, local>>

Provision(r) ==
  /\ pc[r] = "provision"
  /\ UpdateState(Job[r].desk, "provisioning")
  /\ Goto(r, "up")
  /\ UNCHANGED <<tokens, disk, con, log, phase, local>>

\* devcontainer up: starts the container of this worktree, creating it if
\* there is none, and reports its id, or (no JSON in its output) none.
DevcontainerUp(r) ==
  LET d == Job[r].desk
      id == IF con[d].id = None THEN r ELSE con[d].id
  IN
  /\ pc[r] = "up" /\ d \in worktree /\ d \in overlay
  /\ con' = [con EXCEPT ![d] = [id |-> id, up |-> TRUE]]
  /\ \E cid \in {id, None} : got' = [got EXCEPT ![r] = cid]
  /\ Goto(r, "running")
  /\ UNCHANGED <<row, tokens, disk, log, phase, snap, stack>>

\* Mutant: the state is not set to error.
DevcontainerUpFailsQuietly(r) ==
  /\ pc[r] = "up" /\ End(r, "failed")
  /\ UNCHANGED <<row, tokens, disk, con, log, phase, local>>

\* It fails with WsError, perhaps leaving a container behind: the row goes to
\* error.  In a create whose row is gone there is no Drydock object to name.
DevcontainerUpFails(r) ==
  LET d == Job[r].desk IN
  /\ pc[r] = "up"
  /\ con' \in {con, [con EXCEPT ![d].id = IF @ = None THEN r ELSE @]}
  /\ UpdateState(d, "error")
  /\ IF HasRow(d) \/ snap[r] # NoRow THEN End(r, "failed") ELSE Uncaught(r)
  /\ UNCHANGED <<tokens, disk, log, phase, local>>

\* It cannot even be started (an OSError): nothing catches that.
DevcontainerUpRaises(r) ==
  /\ pc[r] = "up" /\ Uncaught(r)
  /\ UNCHANGED <<row, tokens, disk, con, log, phase, local>>

RecordRunning(r) ==
  LET d == Job[r].desk IN
  /\ pc[r] = "running"
  /\ UpdateRow(d, [row[d] EXCEPT !.cid = got[r], !.state = "running"])
  /\ IF HasRow(d) THEN End(r, "completed") ELSE Uncaught(r)
  /\ UNCHANGED <<tokens, disk, con, log, phase, local>>
-----------------------------------------------------------------------------
(* StopDesk *)

StopLookup(r) ==
  LET d == Job[r].desk IN
  /\ pc[r] = "lookup" /\ Job[r].method = "StopDesk"
  /\ IF HasRow(d) THEN Goto(r, "stop") /\ snap' = [snap EXCEPT ![r] = row[d]]
     ELSE End(r, "failed") /\ UNCHANGED snap
  /\ UNCHANGED <<row, tokens, disk, con, log, phase, got, stack>>

\* docker stop of the container the row named; unknown containers are ignored.
Stopped(d, cid) ==
  IF cid # None /\ con[d].id = cid THEN [con EXCEPT ![d].up = FALSE] ELSE con

StopContainer(r) ==
  LET d == Job[r].desk IN
  /\ pc[r] = "stop"
  /\ \/ con' = Stopped(d, snap[r].cid) /\ Goto(r, "suspend")
     \/ Faults /\ snap[r].cid # None /\ End(r, "failed") /\ UNCHANGED con
  /\ UNCHANGED <<row, tokens, disk, log, phase, local>>

\* Mutant: a state the registry does not have.
SuspendAsStopped(r) ==
  /\ pc[r] = "suspend"
  /\ UpdateState(Job[r].desk, "stopped")
  /\ End(r, "completed")
  /\ UNCHANGED <<tokens, disk, con, log, phase, local>>

Suspend(r) ==
  /\ pc[r] = "suspend"
  /\ UpdateState(Job[r].desk, "suspended")
  /\ End(r, "completed")
  /\ UNCHANGED <<tokens, disk, con, log, phase, local>>
-----------------------------------------------------------------------------
(* DestroyDesk: _destroy_tree, children first, then _destroy_one *)

Top(r) == Head(stack[r])
Children(d) == {c \in Desks : HasRow(c) /\ row[c].parent = d}

\* Mutant: no cascade.
FrameWithoutChildren(d, object) ==
  [desk |-> d, object |-> object, step |-> "children", kids |-> <<>>]

\* A _destroy_tree call on the object just read: get_children reads the rows
\* of all children at once.
Frame(d, object) ==
  [desk |-> d, object |-> object, step |-> "children",
   kids |-> [c \in Children(d) |-> row[c]]]

DestroyLookup(r) ==
  LET d == Job[r].desk IN
  /\ pc[r] = "lookup" /\ Job[r].method = "DestroyDesk"
  /\ IF HasRow(d)
     THEN /\ pc' = [pc EXCEPT ![r] = "tree"]
          /\ res' = [res EXCEPT ![r] = "completed"]
          /\ stack' = [stack EXCEPT ![r] = <<Frame(d, row[d])>>]
     ELSE End(r, "failed") /\ UNCHANGED stack
  /\ UNCHANGED <<row, tokens, disk, con, log, phase, snap, got>>

\* The next child in the loop.  A desk that is its own ancestor ends the
\* request; recovery does not catch that error and the daemon does not start.
DestroyChild(r) ==
  /\ pc[r] = "tree" /\ Top(r).step = "children"
  /\ \E c \in DOMAIN Top(r).kids :
       LET rest == [k \in DOMAIN Top(r).kids \ {c} |-> Top(r).kids[k]] IN
       IF \E i \in DOMAIN stack[r] : stack[r][i].desk = c
       THEN /\ IF phase = "serving" THEN End(r, "failed") ELSE Uncaught(r)
            /\ stack' = [stack EXCEPT ![r] = <<>>]
       ELSE /\ stack' = [stack EXCEPT ![r] =
                 <<Frame(c, Top(r).kids[c]), [Top(r) EXCEPT !.kids = rest]>> \o Tail(@)]
            /\ UNCHANGED <<pc, res>>
  /\ UNCHANGED <<row, tokens, disk, con, log, phase, snap, got>>

\* Steps of _destroy_one: each goes on to the next whatever happens, and one
\* that fails makes the outcome a partial failure, recorded as failed.
Next1(r, from, to) ==
  /\ pc[r] = "tree" /\ Top(r).step = from
  /\ from = "children" => DOMAIN Top(r).kids = {}
  /\ stack' = [stack EXCEPT ![r][1].step = to]
  /\ UNCHANGED <<pc, log, phase, snap, got>>
Partial(r) == Faults /\ res' = [res EXCEPT ![r] = "failed"]

\* Mutant: the row is deleted first.
DestroyStopDeletesRow(r) ==
  /\ Next1(r, "children", "remove")
  /\ con' = Stopped(Top(r).desk, Top(r).object.cid)
  /\ row' = [row EXCEPT ![Top(r).desk] = NoRow]
  /\ UNCHANGED <<tokens, disk, res>>

DestroyStop(r) ==
  LET d == Top(r).desk  cid == Top(r).object.cid IN
  /\ Next1(r, "children", "remove")
  /\ \/ con' = Stopped(d, cid) /\ UNCHANGED res
     \/ cid # None /\ Partial(r) /\ UNCHANGED con
  /\ UNCHANGED <<row, tokens, disk>>

\* docker rm refuses a container that is still up.
DestroyContainer(r) ==
  LET d == Top(r).desk  cid == Top(r).object.cid  mine == cid # None /\ con[d].id = cid IN
  /\ Next1(r, "remove", "token")
  /\ \/ /\ ~(mine /\ con[d].up) /\ UNCHANGED res
        /\ con' = IF mine THEN [con EXCEPT ![d] = NoContainer] ELSE con
     \/ /\ cid # None /\ UNCHANGED con
        /\ (mine /\ con[d].up /\ res' = [res EXCEPT ![r] = "failed"]) \/ Partial(r)
  /\ UNCHANGED <<row, tokens, disk>>

DestroyToken(r) ==
  /\ Next1(r, "token", "token_file")
  /\ tokens' = [tokens EXCEPT ![Top(r).desk] = None]
  /\ UNCHANGED <<row, disk, con, res>>

DestroyTokenFile(r) ==
  /\ Next1(r, "token_file", "worktree")
  /\ \/ tokFile' = [tokFile EXCEPT ![Top(r).desk] = None] /\ UNCHANGED res
     \/ Partial(r) /\ UNCHANGED tokFile
  /\ UNCHANGED <<row, tokens, worktree, overlay, con>>

DestroyWorktree(r) ==
  LET d == Top(r).desk IN
  /\ Next1(r, "worktree", "overlay")
  /\ \/ worktree' = (IF Top(r).object.wt THEN worktree \ {d} ELSE worktree) /\ UNCHANGED res
     \/ Top(r).object.wt /\ d \in worktree /\ Partial(r) /\ UNCHANGED worktree
  /\ UNCHANGED <<row, tokens, overlay, tokFile, con>>

\* The overlay is at its default path even when the row does not name it.
DestroyOverlay(r) ==
  LET d == Top(r).desk IN
  /\ Next1(r, "overlay", "row")
  /\ \/ overlay' = overlay \ {d} /\ UNCHANGED res
     \/ d \in overlay /\ Partial(r) /\ UNCHANGED overlay
  /\ UNCHANGED <<row, tokens, worktree, tokFile, con>>

\* delete_drydock, and the return from _destroy_tree.
DestroyRow(r) ==
  /\ pc[r] = "tree" /\ Top(r).step = "row"
  /\ row' = [row EXCEPT ![Top(r).desk] = NoRow]
  /\ stack' = [stack EXCEPT ![r] = Tail(@)]
  /\ pc' = [pc EXCEPT ![r] = IF Len(stack[r]) = 1 THEN "finish" ELSE @]
  /\ UNCHANGED <<tokens, disk, con, log, phase, snap, got, res>>

Destroy(r) ==
  \/ DestroyLookup(r) \/ DestroyChild(r) \/ DestroyStop(r) \/ DestroyContainer(r)
  \/ DestroyToken(r) \/ DestroyTokenFile(r) \/ DestroyWorktree(r)
  \/ DestroyOverlay(r) \/ DestroyRow(r)
-----------------------------------------------------------------------------
(* Crash, startup recovery *)

\* The daemon dies; containers and files stay.  Threads, and the Drydock
\* objects in their hands, are gone.
Crash ==
  /\ phase # "down" /\ phase' = "down"
  /\ pc' = [r \in Requests |-> IF pc[r] = "new" THEN "new" ELSE "done"]
  /\ snap' = [r \in Requests |-> NoRow] /\ got' = [r \in Requests |-> None]
  /\ stack' = [r \in Requests |-> <<>>]
  /\ UNCHANGED <<row, tokens, disk, con, log, res>>

Boot ==
  /\ phase = "down" /\ phase' = "recovering"
  /\ UNCHANGED <<row, tokens, disk, con, log, pc, local, res>>

\* The places of the in_progress rows in the log, and the request that came first.
Interrupted == {i \in DOMAIN order : task[order[i]] = "in_progress"}
Earliest(r) == \E i \in Interrupted : r = order[i] /\ \A j \in Interrupted : i <= j

\* Mutant: interrupted creates are skipped.
RecoverDestroyOnly(r) ==
  LET d == Job[r].desk IN
  /\ phase = "recovering" /\ Quiet /\ Earliest(r)
  /\ Job[r].method = "DestroyDesk"
  /\ pc' = [pc EXCEPT ![r] = IF HasRow(d) THEN "tree" ELSE "finish"]
  /\ res' = [res EXCEPT ![r] = "completed"]
  /\ stack' = [stack EXCEPT ![r] = IF HasRow(d) THEN <<Frame(d, row[d])>> ELSE <<>>]
  /\ UNCHANGED <<row, tokens, disk, con, log, phase, snap, got>>

\* recover_in_progress takes the in_progress rows by created_at: a destroy is
\* replayed; a create whose desk is running with a container is completed,
\* any other is rolled back.
Recover(r) ==
  LET d == Job[r].desk IN
  /\ phase = "recovering" /\ Quiet /\ Earliest(r)
  /\ \A q \in Requests : pc[q] # "stuck"
  /\ IF Job[r].method = "DestroyDesk"
     THEN /\ pc' = [pc EXCEPT ![r] = IF HasRow(d) THEN "tree" ELSE "finish"]
          /\ res' = [res EXCEPT ![r] = "completed"]
          /\ stack' = [stack EXCEPT ![r] = IF HasRow(d) THEN <<Frame(d, row[d])>> ELSE <<>>]
          /\ UNCHANGED snap
     ELSE /\ IF row[d].state = "running" /\ row[d].cid # None
             THEN End(r, "completed") /\ UNCHANGED snap
             ELSE Goto(r, "rollback_worktree") /\ snap' = [snap EXCEPT ![r] = row[d]]
          /\ UNCHANGED stack
  /\ UNCHANGED <<row, tokens, disk, con, log, phase, got>>

\* _rollback_partial_create: the worktree the row names, or the one at the
\* default path if there is no row; removal is best effort.
RollbackWorktree(r) ==
  LET d == Job[r].desk IN
  /\ pc[r] = "rollback_worktree"
  /\ \/ worktree' = IF snap[r] = NoRow \/ snap[r].wt THEN worktree \ {d} ELSE worktree
     \/ Faults /\ UNCHANGED worktree
  /\ Goto(r, "rollback_overlay")
  /\ UNCHANGED <<row, tokens, overlay, tokFile, con, log, phase, local>>

RollbackOverlay(r) ==
  /\ pc[r] = "rollback_overlay"
  /\ overlay' = overlay \ {Job[r].desk} \/ (Faults /\ UNCHANGED overlay)
  /\ Goto(r, "rollback_row")
  /\ UNCHANGED <<row, tokens, worktree, tokFile, con, log, phase, local>>

\* Mutant: the row stays.
RollbackKeepsRow(r) ==
  /\ pc[r] = "rollback_row" /\ End(r, "crashed_during_create")
  /\ UNCHANGED <<row, tokens, disk, con, log, phase, local>>

RollbackRow(r) ==
  /\ pc[r] = "rollback_row"
  /\ row' = [row EXCEPT ![Job[r].desk] = NoRow]
  /\ End(r, "crashed_during_create")
  /\ UNCHANGED <<tokens, disk, con, log, phase, local>>

\* Recovery is over, the socket accepts requests.
Serve ==
  /\ phase = "recovering" /\ Quiet /\ Interrupted = {}
  /\ phase' = "serving"
  /\ UNCHANGED <<row, tokens, disk, con, log, pc, local, res>>
-----------------------------------------------------------------------------
Create(r) ==
  \/ CreateLookup(r) \/ SpawnLookup(r) \/ CreateRow(r) \/ LinkParent(r) \/ Checkout(r)
  \/ RecordWorktree(r) \/ WriteOverlay(r) \/ RecordOverlay(r) \/ WriteTokenFile(r)
  \/ InsertToken(r) \/ Resume(r) \/ Provision(r) \/ DevcontainerUp(r)
  \/ DevcontainerUpFails(r) \/ DevcontainerUpRaises(r) \/ RecordRunning(r)
Stop(r) == StopLookup(r) \/ StopContainer(r) \/ Suspend(r)
Rollback(r) == RollbackWorktree(r) \/ RollbackOverlay(r) \/ RollbackRow(r)
Handle(r) == Create(r) \/ Stop(r) \/ Destroy(r) \/ Rollback(r) \/ Finish(r)

Next ==
  \/ \E r \in Requests : Dispatch(r) \/ Handle(r) \/ Recover(r)
  \/ Crash \/ Boot \/ Serve

Spec == Init /\ [][Next]_vars

\* A thread that can go on does, and systemd restarts the daemon.
FairSpec ==
  /\ Spec /\ WF_vars(Boot) /\ WF_vars(Serve)
  /\ \A r \in Requests : WF_vars(Handle(r)) /\ WF_vars(Recover(r))
-----------------------------------------------------------------------------
(* Properties *)

States == {"absent", "defined", "provisioning", "running", "suspended", "error"}
Rows == [state : States, cid : Requests \union {None}, wt : BOOLEAN, ov : BOOLEAN,
         parent : Desks \union {None}]
Labels == {"new", "lookup", "insert", "link", "checkout", "worktree_path", "overlay",
           "overlay_path", "token", "token_row", "resume", "provision", "up", "running",
           "stop", "suspend", "tree", "rollback_worktree", "rollback_overlay",
           "rollback_row", "finish", "done", "stuck"}
Outcomes == {"completed", "failed", "crashed_during_create"}
Steps == {"children", "remove", "token", "token_file", "worktree", "overlay", "row"}

\* The registry rows, token records, files, containers and the locals of the
\* handler threads stay within their types (registry.py, handlers.py).
TypeOK ==
  /\ row \in [Desks -> Rows]
  /\ tokens \in [Desks -> Requests \union {None}]
  /\ tokFile \in [Desks -> Requests \union {None}]
  /\ worktree \subseteq Desks /\ overlay \subseteq Desks
  /\ con \in [Desks -> [id : Requests \union {None}, up : BOOLEAN]]
  /\ task \in [Requests -> {"absent", "in_progress"} \union Outcomes]
  /\ order \in Seq(Requests)
  /\ phase \in {"down", "recovering", "serving"}
  /\ pc \in [Requests -> Labels]
  /\ snap \in [Requests -> Rows]
  /\ got \in [Requests -> Requests \union {None}]
  /\ res \in [Requests -> {"none"} \union Outcomes]
  /\ \A r \in Requests : stack[r] # <<>> =>
       Top(r).desk \in Desks /\ Top(r).object \in Rows /\ Top(r).step \in Steps

\* No DestroyDesk overlaps with another request: clients that send one wait for each
\* other.  With one that does, a create issues its token, or spawns a child, for a row
\* that is gone, and neither TokenUsable nor NothingOutlivesRow holds.
DestroysAlone ==
  \A sent \in Arrivals :
    sent \intersect Overlapping = {} \/ \A r \in sent : Job[r].method # "DestroyDesk"

\* A hash in the tokens table is the hash of the token in the desk's file, so a
\* desk that is registered can authenticate and issue_token_for_desk never ends
\* in token_exists_no_plaintext: the file is written before the row and removed
\* after it, and a create after a rollback reuses what the rollback left.
TokenUsable == \A d \in Desks : tokens[d] # None => tokFile[d] = tokens[d]

\* Recovery has rolled a create of this desk back (task_log outcome
\* crashed_during_create).
RolledBack(d) == \E r \in Requests : Job[r].desk = d /\ res[r] = "crashed_during_create"

\* When nothing is in flight, a desk recorded as running has its checkout and its
\* overlay, and the row names both, whatever was interrupted and recovered before.
\* (Not so a child whose parent was rolled back in the middle of a cascade.)
RunningIsWhole ==
  phase = "serving" /\ Quiet =>
    \A d \in Desks : row[d].state = "running" /\ ~RolledBack(row[d].parent) =>
      d \in worktree /\ d \in overlay /\ row[d].wt /\ row[d].ov

\* A daemon that serves has no desk left in 'provisioning' that no thread is
\* working on (or died working on, leaving its task_log row in_progress for the
\* next start): CreateDesk on such a desk would be refused for ever.
NoStrandedProvisioning ==
  phase = "serving" =>
    \A d \in Desks : row[d].state = "provisioning" =>
      \E r \in Requests : Job[r].desk = d /\ (Running(r) \/ pc[r] = "stuck")

\* What a desk owns does not outlive its row: without one there is no token that
\* authenticates, no token file, no overlay and no child, however the DestroyDesk
\* that deleted the row was interrupted and replayed.  (Rollbacks leave the token:
\* RollbackIsClean.  A file may stay when its removal was refused.)
NothingOutlivesRow ==
  \A d \in Desks : ~HasRow(d) /\ ~RolledBack(d) =>
    /\ tokens[d] = None /\ Children(d) = {}
    /\ Faults \/ (tokFile[d] = None /\ d \notin overlay)

\* If the daemon stops crashing it serves again, and every request it has accepted
\* comes to its end, whatever the crashes left half done: recovery, the replay of
\* cascades included, terminates.
RecoveryCompletes ==
  <>[][~Crash]_vars => <>[](phase = "serving" /\ Quiet)
-----------------------------------------------------------------------------
(* What documents and comments say and the code does not do *)

\* persistence.md: rolling back a crashed create removes the worktree if present, and
\* the tokens row.  So with nothing in flight a desk without a row that recovery has
\* rolled back has neither.
RollbackIsClean ==
  phase = "serving" /\ Quiet =>
    \A d \in Desks : RolledBack(d) /\ ~HasRow(d) => d \notin worktree /\ tokens[d] = None

\* _resume_desk: worktree and token are reused.  So the worktree of a desk that has
\* had a container goes only with a DestroyDesk.
ResumeKeepsWorktree ==
  [][\A d \in Desks : d \in worktree \ worktree' /\ row[d].cid # None =>
       \E r \in Requests : pc[r] = "tree" /\ Top(r).desk = d]_vars
=============================================================================
