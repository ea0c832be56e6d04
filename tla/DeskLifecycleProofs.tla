------------------------- MODULE DeskLifecycleProofs -------------------------
(***************************************************************************)
(* Proofs about DeskLifecycle, for any desks, requests, trees of desks and *)
(* faults, and whichever requests overlap: everything stays within its     *)
(* type, and no desk is left in "provisioning".                            *)
(***************************************************************************)
EXTENDS DeskLifecycle, TLAPS

Creates == {r \in Requests : Job[r].method \in {"CreateDesk", "SpawnChild"}}
Kids == UNION {[S -> Rows] : S \in SUBSET Desks}
Frames == [desk : Desks, object : Rows, step : Steps, kids : Kids]

\* The calls of _destroy_tree: the innermost one is at work on its desk, the others wait
\* for a child.
Stacks ==
  /\ stack \in [Requests -> Seq(Frames)]
  /\ \A r \in Requests :
       /\ pc[r] = "tree" <=> stack[r] # <<>>
       /\ \A i \in DOMAIN stack[r] : i > 1 => stack[r][i].step = "children"

\* A create has a label of its own; the log has a row for every request that was accepted.
Building == {"link", "checkout", "worktree_path", "overlay", "overlay_path", "token",
             "token_row", "resume", "provision", "up", "running"}
Rolling == {"rollback_worktree", "rollback_overlay", "rollback_row"}
Logged ==
  \A r \in Requests :
    /\ pc[r] \in Building \union Rolling \union {"insert"} => r \in Creates
    /\ Running(r) \/ pc[r] = "stuck" => Job[r].method = "StopDesk" \/ task[r] = "in_progress"
    /\ pc[r] \in {"tree", "finish"} => res[r] # "none"
    /\ task[r] = "in_progress" =>
         Job[r].method # "StopDesk" /\ \E i \in DOMAIN order : order[i] = r

\* A desk in "provisioning" has a create that is not over: its thread is at work, or it
\* will be rolled back.
Provisioned ==
  \A d \in Desks : row[d].state = "provisioning" =>
    \E r \in Creates :
      /\ Job[r].desk = d /\ task[r] = "in_progress"
      /\ \/ pc[r] \in {"up", "running", "stuck"}
         \/ phase # "serving" /\ pc[r] \in {"done"} \union Rolling

\* The inductive invariant, whichever requests overlap.
IInv == TypeOK /\ Stacks /\ Logged /\ Provisioned
-----------------------------------------------------------------------------
\* The fields of a row after an update.
LEMMA RowFields ==
  ASSUME NEW x \in Rows
  PROVE  /\ \A s \in States :
              /\ [x EXCEPT !.state = s] \in Rows
              /\ [x EXCEPT !.state = s].state = s /\ [x EXCEPT !.state = s].parent = x.parent
         /\ \A p \in Desks \union {None} :
              /\ [x EXCEPT !.parent = p] \in Rows
              /\ [x EXCEPT !.parent = p].state = x.state /\ [x EXCEPT !.parent = p].parent = p
         /\ \A c \in Requests \union {None} :
              /\ [x EXCEPT !.cid = c, !.state = "running"] \in Rows
              /\ [x EXCEPT !.cid = c, !.state = "running"].state = "running"
              /\ [x EXCEPT !.cid = c, !.state = "running"].parent = x.parent
<1>1. ASSUME NEW s \in States
      PROVE  /\ [x EXCEPT !.state = s] \in Rows
             /\ [x EXCEPT !.state = s].state = s /\ [x EXCEPT !.state = s].parent = x.parent
  BY DEF Rows
<1>2. ASSUME NEW p \in Desks \union {None}
      PROVE  /\ [x EXCEPT !.parent = p] \in Rows
             /\ [x EXCEPT !.parent = p].state = x.state /\ [x EXCEPT !.parent = p].parent = p
  BY DEF Rows
<1>3. ASSUME NEW c \in Requests \union {None}
      PROVE  /\ [x EXCEPT !.cid = c, !.state = "running"] \in Rows
             /\ [x EXCEPT !.cid = c, !.state = "running"].state = "running"
             /\ [x EXCEPT !.cid = c, !.state = "running"].parent = x.parent
  BY Zenon DEF Rows, States
<1>4. QED
  BY <1>1, <1>2, <1>3, Zenon

\* The same for the worktree and the overlay that a row names.
LEMMA PathFields ==
  ASSUME NEW x \in Rows
  PROVE  /\ [x EXCEPT !.wt = TRUE] \in Rows /\ [x EXCEPT !.ov = TRUE] \in Rows
         /\ [x EXCEPT !.wt = TRUE].state = x.state /\ [x EXCEPT !.wt = TRUE].parent = x.parent
         /\ [x EXCEPT !.ov = TRUE].state = x.state /\ [x EXCEPT !.ov = TRUE].parent = x.parent
<1>1. [x EXCEPT !.wt = TRUE].state = x.state /\ [x EXCEPT !.wt = TRUE].parent = x.parent
  BY DEF Rows
<1>2. [x EXCEPT !.ov = TRUE].state = x.state /\ [x EXCEPT !.ov = TRUE].parent = x.parent
  BY DEF Rows
<1>3. [x EXCEPT !.wt = TRUE] \in Rows
  BY Zenon DEF Rows
<1>4. [x EXCEPT !.ov = TRUE] \in Rows
  BY Zenon DEF Rows
<1>5. QED
  BY <1>1, <1>2, <1>3, <1>4

\* The steps of a thread that write to a row that exists.
Writes(r) ==
  \/ LinkParent(r) \/ RecordWorktree(r) \/ WriteOverlay(r) \/ RecordOverlay(r) \/ Resume(r)
  \/ Provision(r) \/ DevcontainerUpFails(r) \/ RecordRunning(r) \/ Suspend(r)

\* The steps that leave the rows alone.
Keeps(r) ==
  \/ Dispatch(r) \/ CreateLookup(r) \/ SpawnLookup(r) \/ Checkout(r) \/ WriteTokenFile(r)
  \/ InsertToken(r) \/ DevcontainerUp(r) \/ DevcontainerUpRaises(r)
  \/ StopLookup(r) \/ StopContainer(r) \/ Finish(r)
  \/ DestroyLookup(r) \/ DestroyChild(r) \/ DestroyStop(r) \/ DestroyContainer(r)
  \/ DestroyToken(r) \/ DestroyTokenFile(r) \/ DestroyWorktree(r) \/ DestroyOverlay(r)
  \/ Recover(r) \/ RollbackWorktree(r) \/ RollbackOverlay(r)

\* Every step is one of these, makes or deletes a row, or is the daemon's own.
LEMMA NextSteps ==
  Next =>
    \/ \E r \in Requests : Writes(r) \/ Keeps(r) \/ CreateRow(r) \/ DestroyRow(r) \/ RollbackRow(r)
    \/ Crash \/ Boot \/ Serve
BY DEF Next, Handle, Create, Stop, Destroy, Rollback, Writes, Keeps

\* What they write.
LEMMA WritesRow ==
  ASSUME TypeOK, NEW r \in Requests, Writes(r)
  PROVE  LET d == Job[r].desk IN
         \/ UNCHANGED row
         \/ /\ HasRow(d)
            /\ \E x \in Rows :
                 /\ row' = [row EXCEPT ![d] = x] /\ x.state # "absent"
                 /\ x.state = "provisioning" =>
                      pc[r] = "provision" \/ (row[d].state = "provisioning" /\ pc[r] \notin {"up", "running"})
                 /\ x.parent = row[d].parent \/ (pc[r] = "link" /\ x.parent = Job[r].parent)
<1> DEFINE d == Job[r].desk
           Written(x) ==
             /\ x \in Rows /\ x.state # "absent"
             /\ x.state = "provisioning" =>
                  pc[r] = "provision" \/ (row[d].state = "provisioning" /\ pc[r] \notin {"up", "running"})
             /\ x.parent = row[d].parent \/ (pc[r] = "link" /\ x.parent = Job[r].parent)
<1>1. d \in Desks /\ row[d] \in Rows /\ Job[r].parent \in Desks \union {None}
  BY JobAssumption DEF TypeOK
<1> SUFFICES ASSUME HasRow(d)
             PROVE  UNCHANGED row \/ \E x : Written(x) /\ row' = [row EXCEPT ![d] = x]
  BY Zenon DEF Writes, LinkParent, RecordWorktree, WriteOverlay, RecordOverlay, Resume, Provision,
         DevcontainerUpFails, RecordRunning, Suspend, UpdateState, UpdateRow
<1>2. \A x : UpdateRow(d, x) => row' = [row EXCEPT ![d] = x]
  BY DEF UpdateRow
<1>3. CASE LinkParent(r)
  <2>1. UpdateRow(d, [row[d] EXCEPT !.parent = Job[r].parent]) /\ pc[r] = "link"
    BY <1>3 DEF LinkParent
  <2>2. Written([row[d] EXCEPT !.parent = Job[r].parent])
    BY <1>1, <2>1, RowFields, Zenon DEF HasRow
  <2> HIDE DEF Written
  <2>3. QED
    BY <1>2, <2>1, <2>2
<1>4. CASE RecordWorktree(r) \/ RecordOverlay(r)
  <2>1. PICK x \in {[row[d] EXCEPT !.wt = TRUE], [row[d] EXCEPT !.ov = TRUE]} : UpdateRow(d, x)
    BY <1>4 DEF RecordWorktree, RecordOverlay
  <2>2. pc[r] \in {"worktree_path", "overlay_path"}
    BY <1>4 DEF RecordWorktree, RecordOverlay
  <2>3. x \in Rows /\ x.state = row[d].state /\ x.parent = row[d].parent
    BY <1>1, <2>1, PathFields, Zenon
  <2>4. Written(x)
    BY <2>2, <2>3 DEF HasRow
  <2> HIDE DEF Written
  <2>5. QED
    BY <1>2, <2>1, <2>4
<1>5. CASE UpdateState(d, "error") \/ UpdateState(d, "suspended")
           \/ (UpdateState(d, "provisioning") /\ pc[r] = "provision")
  <2>1. PICK s \in {"error", "suspended", "provisioning"} :
          UpdateState(d, s) /\ (s = "provisioning" => pc[r] = "provision")
    BY <1>5
  <2>2. s \in States /\ s # "absent"
    BY DEF States
  <2>3. /\ [row[d] EXCEPT !.state = s] \in Rows /\ [row[d] EXCEPT !.state = s].state = s
        /\ [row[d] EXCEPT !.state = s].parent = row[d].parent
    BY <1>1, <2>2, RowFields, Zenon
  <2>4. Written([row[d] EXCEPT !.state = s])
    BY <2>1, <2>2, <2>3
  <2> HIDE DEF Written
  <2>5. QED
    BY <1>2, <2>1, <2>4 DEF UpdateState
<1>6. CASE WriteOverlay(r) \/ Resume(r) \/ DevcontainerUpFails(r) \/ Provision(r) \/ Suspend(r)
  <2>1. \/ UNCHANGED row \/ UpdateState(d, "error") \/ UpdateState(d, "suspended")
        \/ UpdateState(d, "provisioning") /\ pc[r] = "provision"
    BY <1>6 DEF WriteOverlay, Resume, DevcontainerUpFails, Provision, Suspend
  <2>2. QED
    BY <1>5, <2>1
<1>7. CASE RecordRunning(r)
  <2>1. got[r] \in Requests \union {None}
    BY DEF TypeOK
  <2>2. UpdateRow(d, [row[d] EXCEPT !.cid = got[r], !.state = "running"])
    BY <1>7 DEF RecordRunning
  <2>3. Written([row[d] EXCEPT !.cid = got[r], !.state = "running"])
    BY <1>1, <2>1, RowFields, Zenon
  <2> HIDE DEF Written
  <2>4. QED
    BY <1>2, <2>2, <2>3
<1>8. QED
  BY <1>3, <1>4, <1>6, <1>7 DEF Writes

\* What leaves the rows alone does.
LEMMA KeepsRow ==
  ASSUME NEW r \in Requests, Keeps(r)
  PROVE  UNCHANGED row
BY Zenon DEF Keeps, Dispatch, CreateLookup, SpawnLookup, Checkout, WriteTokenFile, InsertToken,
   DevcontainerUp, DevcontainerUpRaises, StopLookup, StopContainer, Finish, DestroyLookup,
   DestroyChild, DestroyStop, DestroyContainer, DestroyToken, DestroyTokenFile, DestroyWorktree,
   DestroyOverlay, Recover, RollbackWorktree, RollbackOverlay

\* Rows keep their type.
LEMMA RowTypes ==
  ASSUME TypeOK, Stacks, Next
  PROVE  row' \in [Desks -> Rows]
<1>1. NoRow \in Rows /\ [NoRow EXCEPT !.state = "defined"] \in Rows
  BY Zenon DEF NoRow, Rows, States
<1>2. row \in [Desks -> Rows] /\ \A r \in Requests : Job[r].desk \in Desks
  BY JobAssumption DEF TypeOK
<1>3. ASSUME NEW r \in Requests, Writes(r) PROVE row' \in [Desks -> Rows]
  BY <1>2, <1>3, WritesRow
<1>4. ASSUME NEW r \in Requests, Keeps(r) PROVE UNCHANGED row
  BY <1>4, KeepsRow
<1>5. ASSUME NEW r \in Requests, CreateRow(r) PROVE row' \in [Desks -> Rows]
  BY <1>1, <1>2, <1>5 DEF CreateRow
<1>6. ASSUME NEW r \in Requests, DestroyRow(r) \/ RollbackRow(r) PROVE row' \in [Desks -> Rows]
  BY <1>1, <1>2, <1>6 DEF DestroyRow, RollbackRow
<1>7. CASE Crash \/ Boot \/ Serve
  BY <1>2, <1>7 DEF Crash, Boot, Serve
<1>8. QED
  BY <1>2, <1>3, <1>4, <1>5, <1>6, <1>7, NextSteps

\* So do the tokens and the files.
LEMMA FileTypes ==
  ASSUME TypeOK, Stacks, Next
  PROVE  /\ tokens' \in [Desks -> Requests \union {None}]
         /\ tokFile' \in [Desks -> Requests \union {None}]
         /\ worktree' \subseteq Desks /\ overlay' \subseteq Desks
<1> USE JobAssumption DEF TypeOK, disk
<1>1. ASSUME NEW r \in Requests, Writes(r) \/ CreateRow(r) \/ DestroyRow(r) \/ RollbackRow(r)
      PROVE  UNCHANGED <<tokens, tokFile, worktree>> /\ overlay' \subseteq Desks
  BY <1>1 DEF Writes, LinkParent, RecordWorktree, WriteOverlay, RecordOverlay, Resume, Provision,
     DevcontainerUpFails, RecordRunning, Suspend, CreateRow, DestroyRow, RollbackRow
<1>2. ASSUME NEW r \in Requests,
             Dispatch(r) \/ CreateLookup(r) \/ SpawnLookup(r) \/ DevcontainerUp(r)
               \/ DevcontainerUpRaises(r) \/ StopLookup(r) \/ StopContainer(r) \/ Finish(r)
               \/ DestroyLookup(r) \/ DestroyChild(r) \/ DestroyStop(r) \/ DestroyContainer(r)
               \/ Recover(r)
      PROVE  UNCHANGED <<tokens, tokFile, worktree, overlay>>
  BY <1>2, Zenon DEF Dispatch, CreateLookup, SpawnLookup, DevcontainerUp, DevcontainerUpRaises, StopLookup,
     StopContainer, Finish, DestroyLookup, DestroyChild, DestroyStop, DestroyContainer, Recover
<1>3. ASSUME NEW r \in Requests, Checkout(r) \/ WriteTokenFile(r) \/ InsertToken(r)
      PROVE  /\ tokens' \in [Desks -> Requests \union {None}]
             /\ tokFile' \in [Desks -> Requests \union {None}]
             /\ worktree' \subseteq Desks /\ overlay' \subseteq Desks
  BY <1>3 DEF Checkout, WriteTokenFile, InsertToken
<1>4. ASSUME NEW r \in Requests,
             DestroyToken(r) \/ DestroyTokenFile(r) \/ DestroyWorktree(r) \/ DestroyOverlay(r)
               \/ RollbackWorktree(r) \/ RollbackOverlay(r)
      PROVE  /\ tokens' \in [Desks -> Requests \union {None}]
             /\ tokFile' \in [Desks -> Requests \union {None}]
             /\ worktree' \subseteq Desks /\ overlay' \subseteq Desks
  BY <1>4, Zenon DEF DestroyToken, DestroyTokenFile, DestroyWorktree, DestroyOverlay, RollbackWorktree,
     RollbackOverlay
<1>5. CASE Crash \/ Boot \/ Serve
  BY <1>5 DEF Crash, Boot, Serve
<1>6. QED
  BY <1>1, <1>2, <1>3, <1>4, <1>5, NextSteps, SMTT(20) DEF Keeps

\* So do the containers.
LEMMA ContainerTypes ==
  ASSUME TypeOK, Stacks, Next
  PROVE  con' \in [Desks -> [id : Requests \union {None}, up : BOOLEAN]]
<1> DEFINE Containers == [id : Requests \union {None}, up : BOOLEAN]
<1>1. con \in [Desks -> Containers] /\ \A r \in Requests : Job[r].desk \in Desks
  BY JobAssumption DEF TypeOK
<1>2. ASSUME NEW x \in Containers, NEW i \in Requests \union {None}
      PROVE  [x EXCEPT !.id = i] \in Containers /\ [x EXCEPT !.up = FALSE] \in Containers
  BY <1>2, Zenon
<1>3. NoContainer \in Containers /\ \A d \in Desks : con[d].id \in Requests \union {None}
  BY <1>1 DEF NoContainer
<1>4. \A i \in Requests \union {None} : [id |-> i, up |-> TRUE] \in Containers
  OBVIOUS
<1> HIDE DEF Containers
<1>5. \A d, cid : Stopped(d, cid) \in [Desks -> Containers]
  BY <1>1, <1>2, Zenon DEF Stopped
<1>6. ASSUME NEW r \in Requests, DevcontainerUp(r) PROVE con' \in [Desks -> Containers]
  BY <1>1, <1>3, <1>4, <1>6 DEF DevcontainerUp
<1>7. ASSUME NEW r \in Requests, DevcontainerUpFails(r) PROVE con' \in [Desks -> Containers]
  <2> DEFINE d == Job[r].desk
             i == IF con[d].id = None THEN r ELSE con[d].id
  <2>1. con' = con \/ con' = [con EXCEPT ![d] = [con[d] EXCEPT !.id = i]]
    BY <1>1, <1>7 DEF DevcontainerUpFails
  <2>2. d \in Desks /\ con[d] \in Containers /\ i \in Requests \union {None}
    BY <1>1, <1>3
  <2>3. [con[d] EXCEPT !.id = i] \in Containers
    BY <1>2, <2>2, Zenon
  <2> HIDE DEF d, i
  <2>4. QED
    BY <1>1, <2>1, <2>2, <2>3
<1>8. ASSUME NEW r \in Requests, StopContainer(r) \/ DestroyStop(r) \/ DestroyContainer(r)
      PROVE  con' \in [Desks -> Containers]
  BY <1>1, <1>3, <1>5, <1>8 DEF StopContainer, DestroyStop, DestroyContainer
<1>9. ASSUME NEW r \in Requests,
             \/ LinkParent(r) \/ RecordWorktree(r) \/ WriteOverlay(r) \/ RecordOverlay(r)
             \/ Resume(r) \/ Provision(r) \/ RecordRunning(r) \/ Suspend(r)
             \/ CreateRow(r) \/ DestroyRow(r) \/ RollbackRow(r)
      PROVE  UNCHANGED con
  BY <1>9 DEF LinkParent, RecordWorktree, WriteOverlay, RecordOverlay, Resume, Provision,
     RecordRunning, Suspend, CreateRow, DestroyRow, RollbackRow
<1>10. ASSUME NEW r \in Requests,
              \/ Dispatch(r) \/ CreateLookup(r) \/ SpawnLookup(r) \/ Checkout(r)
              \/ WriteTokenFile(r) \/ InsertToken(r) \/ DevcontainerUpRaises(r)
              \/ StopLookup(r) \/ Finish(r) \/ DestroyLookup(r) \/ DestroyChild(r)
              \/ DestroyToken(r) \/ DestroyTokenFile(r) \/ DestroyWorktree(r) \/ DestroyOverlay(r)
              \/ Recover(r) \/ RollbackWorktree(r) \/ RollbackOverlay(r)
       PROVE  UNCHANGED con
  BY <1>10, Zenon DEF Dispatch, CreateLookup, SpawnLookup, Checkout, WriteTokenFile, InsertToken,
     DevcontainerUpRaises, StopLookup, Finish, DestroyLookup, DestroyChild, DestroyToken,
     DestroyTokenFile, DestroyWorktree, DestroyOverlay, Recover, RollbackWorktree, RollbackOverlay
<1>11. Crash \/ Boot \/ Serve => UNCHANGED con
  BY DEF Crash, Boot, Serve
<1>12. con' \in [Desks -> Containers]
  BY <1>1, <1>6, <1>7, <1>8, <1>9, <1>10, <1>11, NextSteps DEF Writes, Keeps
<1>13. QED
  BY <1>12 DEF Containers

\* How a thread moves: no other thread is touched, and the thread's own label and outcome
\* stay within what Logged says.
Moves(r) ==
  /\ pc' \in [Requests -> Labels] /\ res' \in [Requests -> {"none"} \union Outcomes]
  /\ \A q \in Requests \ {r} : pc'[q] = pc[q] /\ res'[q] = res[q]
  /\ pc'[r] \in Building \union Rolling \union {"insert"} => r \in Creates
  /\ pc'[r] \in {"tree", "finish"} => res'[r] # "none"
  /\ UNCHANGED phase

\* Moves holds of the steps that go to a label or end the handler.
LEMMA MovesOn ==
  ASSUME TypeOK, Logged, NEW r \in Requests, UNCHANGED phase,
         \/ \E l \in Labels \ {"tree", "finish"} :
              Goto(r, l) /\ (l \in Building \union Rolling \union {"insert"} => r \in Creates)
         \/ \E o \in Outcomes : End(r, o)
         \/ Uncaught(r)
         \/ UNCHANGED <<pc, res>>
         \/ UNCHANGED pc /\ pc[r] = "tree" /\ \E o \in Outcomes : res' = [res EXCEPT ![r] = o]
         \/ /\ \E l \in {"tree", "finish"} : pc' = [pc EXCEPT ![r] = l]
            /\ UNCHANGED res /\ pc[r] = "tree"
         \/ /\ \E l \in {"tree", "finish"} : pc' = [pc EXCEPT ![r] = l]
            /\ \E o \in Outcomes : res' = [res EXCEPT ![r] = o]
         \/ pc' = [pc EXCEPT ![r] = "done"] /\ UNCHANGED res
  PROVE  Moves(r)
<1>1. /\ pc \in [Requests -> Labels] /\ res \in [Requests -> {"none"} \union Outcomes]
      /\ \A o \in Outcomes : o # "none"
  BY DEF TypeOK, Outcomes
<1>2. {"tree", "finish", "stuck", "done"} \subseteq Labels
  BY DEF Labels
<1>3. /\ pc[r] \in Building \union Rolling \union {"insert"} => r \in Creates
      /\ pc[r] \in {"tree", "finish"} => res[r] # "none"
  BY DEF Logged
<1>4. \A l \in {"tree", "finish", "stuck", "done"} : l \notin Building \union Rolling \union {"insert"}
  BY DEF Building, Rolling
<1>5. QED
  BY <1>1, <1>2, <1>3, <1>4 DEF Moves, Goto, End, Uncaught

\* Every step of a thread moves it so.
LEMMA ThreadMoves ==
  ASSUME TypeOK, Logged, NEW r \in Requests,
         Writes(r) \/ Keeps(r) \/ CreateRow(r) \/ DestroyRow(r) \/ RollbackRow(r)
  PROVE  Moves(r)
<1> DEFINE To(l) == l \in Labels /\ l \notin {"tree", "finish"}
                    /\ (l \in Building \union Rolling \union {"insert"} => r \in Creates)
           Ended == \E o \in Outcomes : End(r, o)
<1>1. r \in Creates => \A l \in Building \union Rolling \union {"insert"} : To(l)
  BY DEF Building, Rolling, Labels
<1>2. To("lookup") /\ To("stop") /\ To("suspend")
  BY DEF Building, Rolling, Labels
<1>3. \A o \in {"completed", "failed", "crashed_during_create"} : End(r, o) => Ended
  BY DEF Outcomes
<1>4. Job[r].method \in {"CreateDesk", "SpawnChild"} => r \in Creates
  BY DEF Creates
<1>5. pc[r] \in Building \union Rolling \union {"insert"} => r \in Creates
  BY DEF Logged
<1>6. Building \union Rolling \union {"insert"} =
        {"insert", "link", "checkout", "worktree_path", "overlay", "overlay_path", "token",
         "token_row", "resume", "provision", "up", "running",
         "rollback_worktree", "rollback_overlay", "rollback_row"}
  BY DEF Building, Rolling
<1> HIDE DEF To, Ended
<1>7. ASSUME UNCHANGED phase, (\E l : To(l) /\ Goto(r, l)) \/ Ended \/ Uncaught(r) PROVE Moves(r)
  BY <1>7, MovesOn DEF To, Ended
<1>8. ASSUME Writes(r) \/ CreateRow(r) \/ RollbackRow(r) PROVE Moves(r)
  <2>1. pc[r] \in Building \union Rolling \union {"insert"} \/ Suspend(r)
    BY <1>6, <1>8, Zenon DEF Writes, LinkParent, RecordWorktree, WriteOverlay, RecordOverlay, Resume,
       Provision, DevcontainerUpFails, RecordRunning, CreateRow, RollbackRow
  <2>2. CASE LinkParent(r) \/ RecordWorktree(r) \/ WriteOverlay(r) \/ RecordOverlay(r)
    BY <1>1, <1>3, <1>5, <1>6, <1>7, <2>2 DEF LinkParent, RecordWorktree, WriteOverlay, RecordOverlay
  <2>3. CASE Resume(r) \/ Provision(r)
    BY <1>1, <1>3, <1>5, <1>6, <1>7, <2>3 DEF Resume, Provision
  <2>4. CASE DevcontainerUpFails(r) \/ RecordRunning(r) \/ Suspend(r)
    BY <1>3, <1>7, <2>4 DEF DevcontainerUpFails, RecordRunning, Suspend
  <2>5. CASE CreateRow(r) \/ RollbackRow(r)
    BY <1>1, <1>3, <1>5, <1>6, <1>7, <2>5 DEF CreateRow, RollbackRow
  <2>6. QED
    BY <1>8, <2>2, <2>3, <2>4, <2>5 DEF Writes
<1>9. CASE Dispatch(r) \/ CreateLookup(r) \/ SpawnLookup(r) \/ Checkout(r)
  BY <1>1, <1>2, <1>3, <1>4, <1>5, <1>6, <1>7, <1>9 DEF Dispatch, CreateLookup, SpawnLookup, Checkout
<1>10. CASE WriteTokenFile(r) \/ InsertToken(r) \/ DevcontainerUp(r) \/ DevcontainerUpRaises(r)
  BY <1>1, <1>3, <1>5, <1>6, <1>7, <1>10 DEF WriteTokenFile, InsertToken, DevcontainerUp,
     DevcontainerUpRaises
<1>11. CASE StopLookup(r) \/ StopContainer(r) \/ RollbackWorktree(r) \/ RollbackOverlay(r)
  BY <1>1, <1>2, <1>3, <1>5, <1>6, <1>7, <1>11 DEF StopLookup, StopContainer, RollbackWorktree,
     RollbackOverlay
<1>12. CASE Finish(r)
  BY <1>12, MovesOn, Zenon DEF Finish
<1>13. CASE DestroyLookup(r)
  BY <1>13, <1>3, <1>7, MovesOn DEF DestroyLookup, Outcomes
<1>14. CASE DestroyChild(r)
  BY <1>14, <1>3, <1>7, MovesOn DEF DestroyChild
<1>15. CASE DestroyStop(r) \/ DestroyContainer(r) \/ DestroyToken(r) \/ DestroyTokenFile(r)
            \/ DestroyWorktree(r) \/ DestroyOverlay(r)
  <2>1. UNCHANGED <<pc, phase>> /\ pc[r] = "tree"
    BY <1>15 DEF DestroyStop, DestroyContainer, DestroyToken, DestroyTokenFile, DestroyWorktree,
       DestroyOverlay, Next1
  <2>2. UNCHANGED res \/ res' = [res EXCEPT ![r] = "failed"]
    BY <1>15 DEF DestroyStop, DestroyContainer, DestroyToken, DestroyTokenFile, DestroyWorktree,
       DestroyOverlay, Partial
  <2>3. QED
    BY <2>1, <2>2, MovesOn DEF Outcomes
<1>16. CASE DestroyRow(r)
  <2>1. \E l \in {"tree", "finish"} : pc' = [pc EXCEPT ![r] = l]
    BY <1>16, Zenon DEF DestroyRow
  <2>2. QED
    BY <1>16, <2>1, MovesOn, Zenon DEF DestroyRow
<1>17. CASE Recover(r)
  <2>1. task[r] = "in_progress"
    BY <1>17 DEF Recover, Earliest, Interrupted
  <2>2. Job[r].method # "DestroyDesk" => r \in Creates
    BY <2>1, JobAssumption DEF Creates, Logged
  <2>3. CASE Job[r].method = "DestroyDesk"
    <3>1. \E l \in {"tree", "finish"} : pc' = [pc EXCEPT ![r] = l]
      BY <1>17, <2>3 DEF Recover
    <3>2. QED
      BY <1>17, <2>3, <3>1, MovesOn, Zenon DEF Recover, Outcomes
  <2>4. CASE Job[r].method # "DestroyDesk"
    BY <1>1, <1>3, <1>6, <1>7, <1>17, <2>2, <2>4 DEF Recover
  <2>5. QED
    BY <2>3, <2>4
<1>18. QED
  BY <1>8, <1>9, <1>10, <1>11, <1>12, <1>13, <1>14, <1>15, <1>16, <1>17 DEF Keeps

\* Only the arrival and the end of a request are logged.
LEMMA Unlogged ==
  ASSUME NEW r \in Requests,
         Writes(r) \/ Keeps(r) \/ CreateRow(r) \/ DestroyRow(r) \/ RollbackRow(r)
  PROVE  Dispatch(r) \/ Finish(r) \/ UNCHANGED log
<1>1. ASSUME Writes(r) \/ CreateRow(r) \/ DestroyRow(r) \/ RollbackRow(r) PROVE UNCHANGED log
  BY <1>1, Zenon DEF Writes, LinkParent, RecordWorktree, WriteOverlay, RecordOverlay, Resume, Provision,
     DevcontainerUpFails, RecordRunning, Suspend, CreateRow, DestroyRow, RollbackRow
<1>2. ASSUME CreateLookup(r) \/ SpawnLookup(r) \/ Checkout(r) \/ WriteTokenFile(r) \/ InsertToken(r)
               \/ DevcontainerUp(r) \/ DevcontainerUpRaises(r) \/ StopLookup(r) \/ StopContainer(r)
               \/ DestroyLookup(r) \/ DestroyChild(r) \/ Recover(r)
               \/ RollbackWorktree(r) \/ RollbackOverlay(r)
      PROVE  UNCHANGED log
  BY <1>2, Zenon DEF CreateLookup, SpawnLookup, Checkout, WriteTokenFile, InsertToken, DevcontainerUp,
     DevcontainerUpRaises, StopLookup, StopContainer, DestroyLookup, DestroyChild, Recover,
     RollbackWorktree, RollbackOverlay
<1>3. ASSUME DestroyStop(r) \/ DestroyContainer(r) \/ DestroyToken(r) \/ DestroyTokenFile(r)
               \/ DestroyWorktree(r) \/ DestroyOverlay(r)
      PROVE  UNCHANGED log
  BY <1>3 DEF DestroyStop, DestroyContainer, DestroyToken, DestroyTokenFile, DestroyWorktree,
     DestroyOverlay, Next1
<1>4. QED
  BY <1>1, <1>2, <1>3 DEF Keeps

\* A request that is not new, nor taken up by recovery, moves only while it runs.
LEMMA AtWork ==
  ASSUME NEW r \in Requests,
         Writes(r) \/ Keeps(r) \/ CreateRow(r) \/ DestroyRow(r) \/ RollbackRow(r)
  PROVE  Dispatch(r) \/ Recover(r) \/ Running(r)
<1>1. ASSUME Writes(r) \/ CreateRow(r) \/ DestroyRow(r) \/ RollbackRow(r) PROVE Running(r)
  BY <1>1, Zenon DEF Running, Writes, LinkParent, RecordWorktree, WriteOverlay, RecordOverlay, Resume,
     Provision, DevcontainerUpFails, RecordRunning, Suspend, CreateRow, DestroyRow, RollbackRow
<1>2. ASSUME CreateLookup(r) \/ SpawnLookup(r) \/ Checkout(r) \/ WriteTokenFile(r) \/ InsertToken(r)
               \/ DevcontainerUp(r) \/ DevcontainerUpRaises(r) \/ StopLookup(r) \/ StopContainer(r)
               \/ DestroyLookup(r) \/ DestroyChild(r) \/ Finish(r)
               \/ RollbackWorktree(r) \/ RollbackOverlay(r)
      PROVE  Running(r)
  BY <1>2, Zenon DEF Running, CreateLookup, SpawnLookup, Checkout, WriteTokenFile, InsertToken,
     DevcontainerUp, DevcontainerUpRaises, StopLookup, StopContainer, DestroyLookup, DestroyChild,
     Finish, RollbackWorktree, RollbackOverlay
<1>3. ASSUME DestroyStop(r) \/ DestroyContainer(r) \/ DestroyToken(r) \/ DestroyTokenFile(r)
               \/ DestroyWorktree(r) \/ DestroyOverlay(r)
      PROVE  Running(r)
  BY <1>3 DEF Running, DestroyStop, DestroyContainer, DestroyToken, DestroyTokenFile,
     DestroyWorktree, DestroyOverlay, Next1
<1>4. QED
  BY <1>1, <1>2, <1>3 DEF Keeps

\* The log keeps its type, and its rows say what Logged promises.
LEMMA LogTypes ==
  ASSUME TypeOK, Logged, Next
  PROVE  /\ task' \in [Requests -> {"absent", "in_progress"} \union Outcomes]
         /\ order' \in Seq(Requests) /\ phase' \in {"down", "recovering", "serving"}
         /\ \A r \in Requests : task'[r] = "in_progress" =>
              Job[r].method # "StopDesk" /\ \E i \in DOMAIN order' : order'[i] = r
<1>1. /\ task \in [Requests -> {"absent", "in_progress"} \union Outcomes]
      /\ order \in Seq(Requests) /\ phase \in {"down", "recovering", "serving"}
      /\ res \in [Requests -> {"none"} \union Outcomes]
  BY DEF TypeOK
<1>2. \A r \in Requests : task[r] = "in_progress" =>
        Job[r].method # "StopDesk" /\ \E i \in DOMAIN order : order[i] = r
  BY DEF Logged
<1>3. ASSUME UNCHANGED log, phase' \in {"down", "recovering", "serving"}
      PROVE  /\ task' \in [Requests -> {"absent", "in_progress"} \union Outcomes]
             /\ order' \in Seq(Requests) /\ phase' \in {"down", "recovering", "serving"}
             /\ \A r \in Requests : task'[r] = "in_progress" =>
                  Job[r].method # "StopDesk" /\ \E i \in DOMAIN order' : order'[i] = r
  BY <1>1, <1>2, <1>3 DEF log
<1>4. CASE Crash \/ Boot \/ Serve
  BY <1>3, <1>4 DEF Crash, Boot, Serve
<1>5. ASSUME NEW r \in Requests,
             Writes(r) \/ Keeps(r) \/ CreateRow(r) \/ DestroyRow(r) \/ RollbackRow(r)
      PROVE  /\ task' \in [Requests -> {"absent", "in_progress"} \union Outcomes]
             /\ order' \in Seq(Requests) /\ phase' \in {"down", "recovering", "serving"}
             /\ \A q \in Requests : task'[q] = "in_progress" =>
                  Job[q].method # "StopDesk" /\ \E i \in DOMAIN order' : order'[i] = q
  <2>1. UNCHANGED phase
    BY <1>5, ThreadMoves DEF Moves
  <2>2. CASE UNCHANGED log
    BY <1>1, <1>3, <2>1, <2>2
  <2>3. CASE Dispatch(r) /\ ~UNCHANGED log
    <3>1. /\ task' = [task EXCEPT ![r] = "in_progress"] /\ order' = Append(order, r)
          /\ Job[r].method # "StopDesk"
      BY <2>3 DEF Dispatch
    <3>2. /\ order' \in Seq(Requests) /\ Len(order) \in Nat /\ Len(order') = Len(order) + 1
          /\ DOMAIN order = 1..Len(order) /\ DOMAIN order' = 1..(Len(order) + 1)
          /\ order'[Len(order) + 1] = r /\ \A i \in 1..Len(order) : order'[i] = order[i]
      BY <1>1, <3>1
    <3>3. \A q \in Requests : (\E i \in DOMAIN order : order[i] = q) =>
            \E i \in DOMAIN order' : order'[i] = q
      BY <3>2
    <3>4. \E i \in DOMAIN order' : order'[i] = r
      BY <3>2
    <3>5. QED
      BY <1>1, <1>2, <2>1, <3>1, <3>2, <3>3, <3>4
  <2>4. CASE Finish(r) /\ ~UNCHANGED log
    <3>1. task' = [task EXCEPT ![r] = res[r]] /\ UNCHANGED order /\ pc[r] = "finish"
      BY <2>4 DEF Finish, log
    <3>2. res[r] \in Outcomes
      BY <1>1, <3>1 DEF Logged
    <3>3. "in_progress" \notin Outcomes
      BY DEF Outcomes
    <3>4. QED
      BY <1>1, <1>2, <2>1, <3>1, <3>2, <3>3
  <2>5. QED
    BY <1>5, <2>2, <2>3, <2>4, Unlogged
<1>6. QED
  BY <1>4, <1>5, NextSteps, Zenon

\* A thread that is at work, or that died, has its row of the log in_progress.
LEMMA LoggedStep ==
  ASSUME TypeOK, Logged, Next
  PROVE  Logged'
<1>1. ASSUME NEW r \in Requests,
             Writes(r) \/ Keeps(r) \/ CreateRow(r) \/ DestroyRow(r) \/ RollbackRow(r),
             NEW q \in Requests
      PROVE  /\ pc'[q] \in Building \union Rolling \union {"insert"} => q \in Creates
             /\ pc'[q] \in {"tree", "finish"} => res'[q] # "none"
             /\ pc'[q] \notin {"new", "done"} => Job[q].method = "StopDesk" \/ task'[q] = "in_progress"
  <2>1. Moves(r)
    BY <1>1, ThreadMoves
  <2>2. CASE Dispatch(r)
    <3>1. \A p \in Requests : task'[p] = IF p = r /\ Job[r].method # "StopDesk" THEN "in_progress" ELSE task[p]
      BY <2>2, Zenon DEF Dispatch, log, TypeOK
    <3>2. QED
      BY <2>1, <3>1 DEF Logged, Running, Moves
  <2>3. CASE Finish(r)
    <3>1. pc'[r] = "done" /\ \A p \in Requests \ {r} : task'[p] = task[p]
      BY <2>3 DEF Finish, TypeOK
    <3>2. QED
      BY <2>1, <3>1 DEF Logged, Running, Moves
  <2>4. CASE UNCHANGED log /\ ~Dispatch(r) /\ ~Finish(r)
    <3>1. pc[r] \notin {"new", "done"} \/ task[r] = "in_progress"
      BY <1>1, <2>4, AtWork, Zenon DEF Running, Recover, Earliest, Interrupted
    <3>2. QED
      BY <2>1, <2>4, <3>1 DEF Logged, Running, Moves, log
  <2>5. QED
    BY <1>1, <2>2, <2>3, <2>4, Unlogged
<1>2. ASSUME Crash, NEW q \in Requests
      PROVE  pc'[q] \in {"new", "done"}
  BY <1>2 DEF Crash
<1>3. CASE Crash
  BY <1>2, <1>3, LogTypes DEF Logged, Running, Building, Rolling
<1>4. CASE Boot \/ Serve
  BY <1>4 DEF Boot, Serve, Logged, Running, log
<1>5. QED
  BY <1>1, <1>3, <1>4, LogTypes, NextSteps DEF Logged, Running

\* A desk in "provisioning" keeps the create that is not over.
LEMMA ProvisionedStep ==
  ASSUME TypeOK, Stacks, Logged, Provisioned, Next
  PROVE  Provisioned'
<1> DEFINE Owner(r, d) == r \in Creates /\ Job[r].desk = d /\ task[r] = "in_progress"
           Owns(r, d) == /\ Owner(r, d)
                         /\ \/ pc[r] \in {"up", "running", "stuck"}
                            \/ phase # "serving" /\ pc[r] \in {"done"} \union Rolling
<1>1. ASSUME Crash, NEW r \in Requests, NEW d, Owns(r, d)
      PROVE  Owns(r, d)'
  BY <1>1 DEF Crash, log, Rolling
<1>2. ASSUME Boot, NEW r \in Requests, NEW d, Owns(r, d)
      PROVE  Owns(r, d)'
  BY <1>2 DEF Boot, log
<1>3. ASSUME Serve, NEW r \in Requests PROVE task[r] # "in_progress"
  BY <1>3 DEF Serve, Interrupted, Logged
<1>4. CASE Crash \/ Boot
  <2>1. UNCHANGED row
    BY <1>4 DEF Crash, Boot
  <2>2. QED
    BY <1>1, <1>2, <1>4, <2>1 DEF Provisioned, Creates
<1>5. CASE Serve
  BY <1>3, <1>5 DEF Provisioned, Creates, Serve
<1>6. ASSUME NEW r \in Requests, Moves(r), Dispatch(r) \/ Finish(r) \/ UNCHANGED log,
             NEW q \in Requests \ {r}, NEW d, Owns(q, d)
      PROVE  Owns(q, d)'
  <2>1. task'[q] = task[q]
    BY <1>6 DEF Dispatch, Finish, log, TypeOK
  <2>2. QED
    BY <1>6, <2>1 DEF Moves
<1>7. ASSUME NEW r \in Requests,
             Writes(r) \/ Keeps(r) \/ CreateRow(r) \/ DestroyRow(r) \/ RollbackRow(r),
             NEW d \in Desks, row'[d].state = "provisioning", row[d].state = "provisioning",
             Owns(r, d)
      PROVE  Owns(r, d)'
  <2>1. /\ d = Job[r].desk /\ r \in Creates /\ Job[r].method # "DestroyDesk"
        /\ row[d] \in Rows /\ row \in [Desks -> Rows] /\ HasRow(d)
    BY <1>7, SMTT(20) DEF Creates, TypeOK, HasRow
  <2>2. pc[r] \in {"up", "running", "stuck", "done"} \union Rolling
    BY <1>7
  <2>3. \/ Recover(r) \/ DevcontainerUp(r) \/ DevcontainerUpRaises(r) \/ DevcontainerUpFails(r)
        \/ RecordRunning(r) \/ RollbackWorktree(r) \/ RollbackOverlay(r) \/ RollbackRow(r)
    <3>1. ~(LinkParent(r) \/ RecordWorktree(r) \/ WriteOverlay(r) \/ RecordOverlay(r) \/ Resume(r)
            \/ Provision(r) \/ Suspend(r) \/ CreateRow(r) \/ DestroyRow(r))
      BY <2>2 DEF Rolling, LinkParent, RecordWorktree, WriteOverlay, RecordOverlay, Resume, Provision,
         Suspend, CreateRow, DestroyRow
    <3>2. ~(Dispatch(r) \/ CreateLookup(r) \/ SpawnLookup(r) \/ Checkout(r) \/ WriteTokenFile(r)
            \/ InsertToken(r) \/ StopLookup(r) \/ StopContainer(r) \/ Finish(r)
            \/ DestroyLookup(r) \/ DestroyChild(r))
      BY <2>2, Zenon DEF Rolling, Dispatch, CreateLookup, SpawnLookup, Checkout, WriteTokenFile,
         InsertToken, StopLookup, StopContainer, Finish, DestroyLookup, DestroyChild
    <3>3. ~(DestroyStop(r) \/ DestroyContainer(r) \/ DestroyToken(r) \/ DestroyTokenFile(r)
            \/ DestroyWorktree(r) \/ DestroyOverlay(r))
      BY <2>2 DEF Rolling, DestroyStop, DestroyContainer, DestroyToken, DestroyTokenFile,
         DestroyWorktree, DestroyOverlay, Next1
    <3>4. QED
      BY <1>7, <3>1, <3>2, <3>3, Zenon DEF Writes, Keeps
  <2>4. CASE Recover(r)
    <3>1. Goto(r, "rollback_worktree") /\ UNCHANGED <<log, phase>> /\ phase = "recovering"
      BY <1>7, <2>1, <2>4, Zenon DEF Recover
    <3>2. QED
      BY <1>7, <3>1, Zenon DEF Goto, Rolling, log, TypeOK
  <2>5. CASE DevcontainerUp(r) \/ DevcontainerUpRaises(r)
    <3>1. (Goto(r, "running") \/ Uncaught(r)) /\ UNCHANGED log
      BY <2>5, Zenon DEF DevcontainerUp, DevcontainerUpRaises
    <3>2. QED
      BY <1>7, <3>1, Zenon DEF Goto, Uncaught, log, TypeOK
  <2>6. CASE DevcontainerUpFails(r)
    <3>1. row' = [row EXCEPT ![d] = [row[d] EXCEPT !.state = "error"]]
      BY <2>1, <2>6 DEF DevcontainerUpFails, UpdateState, UpdateRow
    <3>2. [row[d] EXCEPT !.state = "error"].state = "error"
      BY <2>1, RowFields, Zenon DEF States
    <3>3. QED
      BY <1>7, <2>1, <3>1, <3>2
  <2>7. CASE RecordRunning(r)
    <3>1. row' = [row EXCEPT ![d] = [row[d] EXCEPT !.cid = got[r], !.state = "running"]]
      BY <2>1, <2>7 DEF RecordRunning, UpdateRow
    <3>2. [row[d] EXCEPT !.cid = got[r], !.state = "running"].state = "running"
      <4>1. got[r] \in Requests \union {None}
        BY SMTT(20) DEF TypeOK
      <4>2. QED
        BY <2>1, <4>1 DEF Rows
    <3>3. QED
      BY <1>7, <2>1, <3>1, <3>2
  <2>8. CASE RollbackWorktree(r) \/ RollbackOverlay(r)
    <3>1. /\ Goto(r, "rollback_overlay") \/ Goto(r, "rollback_row")
          /\ UNCHANGED <<log, phase>> /\ pc[r] \in Rolling
      BY <2>8 DEF RollbackWorktree, RollbackOverlay, Rolling
    <3>2. QED
      BY <1>7, <3>1, SMTT(20) DEF Goto, Rolling, log, TypeOK
  <2>9. CASE RollbackRow(r)
    BY <1>7, <2>1, <2>9 DEF RollbackRow, NoRow
  <2>10. QED
    BY <2>3, <2>4, <2>5, <2>6, <2>7, <2>8, <2>9, Zenon
<1>8. ASSUME NEW r \in Requests,
             Writes(r) \/ Keeps(r) \/ CreateRow(r) \/ DestroyRow(r) \/ RollbackRow(r),
             NEW d \in Desks, row'[d].state = "provisioning", row[d].state # "provisioning"
      PROVE  Owns(r, d)'
  <2>1. row \in [Desks -> Rows] /\ Job[r].desk \in Desks
    BY JobAssumption DEF TypeOK
  <2>2. row' # row
    BY <1>8
  <2>3. ~Keeps(r)
    BY <2>2, KeepsRow
  <2>4. ~(CreateRow(r) \/ DestroyRow(r) \/ RollbackRow(r))
    BY <1>8, <2>1 DEF CreateRow, DestroyRow, RollbackRow, NoRow
  <2>5. Writes(r)
    BY <1>8, <2>3, <2>4
  <2>6. d = Job[r].desk /\ pc[r] = "provision"
    BY <1>8, <2>1, <2>2, <2>5, WritesRow
  <2>7. Provision(r)
    BY <2>5, <2>6 DEF Writes, LinkParent, RecordWorktree, WriteOverlay, RecordOverlay, Resume,
       DevcontainerUpFails, RecordRunning, Suspend
  <2>8. r \in Creates /\ task[r] = "in_progress"
    BY <2>6 DEF Logged, Building, Running, Creates
  <2>9. pc'[r] = "up" /\ UNCHANGED log
    BY <2>7 DEF Provision, Goto, TypeOK
  <2>10. QED
    BY <2>6, <2>8, <2>9 DEF log
<1>9. ASSUME NEW r \in Requests,
             Writes(r) \/ Keeps(r) \/ CreateRow(r) \/ DestroyRow(r) \/ RollbackRow(r),
             NEW d \in Desks, row'[d].state = "provisioning"
      PROVE  \E q \in Requests : Owns(q, d)'
  <2>1. CASE row[d].state # "provisioning"
    BY <1>8, <1>9, <2>1
  <2>2. CASE row[d].state = "provisioning"
    <3>1. PICK q \in Requests : Owns(q, d)
      BY <2>2 DEF Provisioned, Creates
    <3> HIDE DEF Owns
    <3>2. QED
      BY <1>6, <1>7, <1>9, <2>2, <3>1, ThreadMoves, Unlogged
  <2>3. QED
    BY <2>1, <2>2
<1>10. QED
  BY <1>4, <1>5, <1>9, NextSteps DEF Provisioned

\* The objects in the hands of the threads are rows that were read.
LEMMA LocalTypes ==
  ASSUME TypeOK, Next
  PROVE  snap' \in [Requests -> Rows] /\ got' \in [Requests -> Requests \union {None}]
<1>1. /\ snap \in [Requests -> Rows] /\ got \in [Requests -> Requests \union {None}]
      /\ row \in [Desks -> Rows] /\ NoRow \in Rows /\ \A r \in Requests : Job[r].desk \in Desks
      /\ \A d \in Desks : con[d].id \in Requests \union {None}
  BY JobAssumption DEF TypeOK, NoRow, Rows, States
<1>2. ASSUME NEW r \in Requests, Writes(r) \/ CreateRow(r) \/ DestroyRow(r) \/ RollbackRow(r)
      PROVE  UNCHANGED <<snap, got>>
  BY <1>2 DEF Writes, LinkParent, RecordWorktree, WriteOverlay, RecordOverlay, Resume, Provision,
     DevcontainerUpFails, RecordRunning, Suspend, CreateRow, DestroyRow, RollbackRow, local
<1>3. ASSUME NEW r \in Requests,
             \/ Dispatch(r) \/ SpawnLookup(r) \/ Checkout(r) \/ WriteTokenFile(r)
             \/ InsertToken(r) \/ DevcontainerUpRaises(r) \/ StopContainer(r)
             \/ DestroyLookup(r) \/ DestroyChild(r) \/ RollbackWorktree(r) \/ RollbackOverlay(r)
      PROVE  UNCHANGED <<snap, got>>
  BY <1>3, Zenon DEF Dispatch, SpawnLookup, Checkout, WriteTokenFile, InsertToken, DevcontainerUpRaises,
     StopContainer, DestroyLookup, DestroyChild, RollbackWorktree, RollbackOverlay, local
<1>4. ASSUME NEW r \in Requests,
             DestroyStop(r) \/ DestroyContainer(r) \/ DestroyToken(r) \/ DestroyTokenFile(r)
               \/ DestroyWorktree(r) \/ DestroyOverlay(r)
      PROVE  UNCHANGED <<snap, got>>
  BY <1>4 DEF DestroyStop, DestroyContainer, DestroyToken, DestroyTokenFile, DestroyWorktree,
     DestroyOverlay, Next1
<1>5. ASSUME NEW r \in Requests, CreateLookup(r) \/ StopLookup(r) \/ Recover(r) \/ Finish(r)
      PROVE  snap' \in [Requests -> Rows] /\ got' \in [Requests -> Requests \union {None}]
  BY <1>1, <1>5, Zenon DEF CreateLookup, StopLookup, Recover, Finish
<1>6. ASSUME NEW r \in Requests, DevcontainerUp(r)
      PROVE  snap' \in [Requests -> Rows] /\ got' \in [Requests -> Requests \union {None}]
  BY <1>1, <1>6, Zenon DEF DevcontainerUp
<1>7. CASE Crash \/ Boot \/ Serve
  BY <1>1, <1>7, Zenon DEF Crash, Boot, Serve, local
<1>8. QED
  BY <1>1, <1>2, <1>3, <1>4, <1>5, <1>6, <1>7, NextSteps, Zenon DEF Keeps
-----------------------------------------------------------------------------
\* A new call is on a desk and the rows of its children.
LEMMA FrameType ==
  ASSUME TypeOK, NEW d \in Desks, NEW x \in Rows
  PROVE  Frame(d, x) \in Frames /\ Frame(d, x).desk = d /\ Frame(d, x).object = x
         /\ Frame(d, x).step = "children" /\ DOMAIN Frame(d, x).kids = Children(d)
<1>1. Children(d) \in SUBSET Desks
  BY DEF Children
<1>2. [c \in Children(d) |-> row[c]] \in [Children(d) -> Rows]
  BY <1>1 DEF TypeOK
<1>3. [c \in Children(d) |-> row[c]] \in Kids
  BY <1>1, <1>2, Zenon DEF Kids
<1>4. "children" \in Steps
  BY DEF Steps
<1> HIDE DEF Children
<1>5. QED
  BY <1>3, <1>4 DEF Frame, Frames

\* The steps of the threads that work on a tree, or take one up.
Fells(r) ==
  \/ DestroyLookup(r) \/ DestroyChild(r) \/ DestroyStop(r) \/ DestroyContainer(r)
  \/ DestroyToken(r) \/ DestroyTokenFile(r) \/ DestroyWorktree(r) \/ DestroyOverlay(r)
  \/ DestroyRow(r) \/ Recover(r)

\* The others have no calls of _destroy_tree under way.
LEMMA OffTree ==
  ASSUME TypeOK, NEW r \in Requests,
         Writes(r) \/ Keeps(r) \/ CreateRow(r) \/ DestroyRow(r) \/ RollbackRow(r), ~Fells(r)
  PROVE  pc[r] # "tree" /\ pc'[r] # "tree" /\ UNCHANGED stack
<1> USE DEF Goto, End, Uncaught, local, TypeOK
<1>1. CASE LinkParent(r) \/ RecordWorktree(r) \/ WriteOverlay(r) \/ RecordOverlay(r) \/ Resume(r)
  BY <1>1 DEF LinkParent, RecordWorktree, WriteOverlay, RecordOverlay, Resume
<1>2. CASE Provision(r) \/ DevcontainerUpFails(r) \/ RecordRunning(r) \/ Suspend(r)
           \/ CreateRow(r) \/ RollbackRow(r)
  BY <1>2 DEF Provision, DevcontainerUpFails, RecordRunning, Suspend, CreateRow, RollbackRow
<1>3. CASE Dispatch(r) \/ CreateLookup(r) \/ SpawnLookup(r) \/ Checkout(r) \/ WriteTokenFile(r)
  BY <1>3, Zenon DEF Dispatch, CreateLookup, SpawnLookup, Checkout, WriteTokenFile
<1>4. CASE InsertToken(r) \/ DevcontainerUp(r) \/ DevcontainerUpRaises(r) \/ StopLookup(r)
  BY <1>4, Zenon DEF InsertToken, DevcontainerUp, DevcontainerUpRaises, StopLookup
<1>5. CASE StopContainer(r) \/ Finish(r) \/ RollbackWorktree(r) \/ RollbackOverlay(r)
  BY <1>5, Zenon DEF StopContainer, Finish, RollbackWorktree, RollbackOverlay
<1>6. QED
  BY <1>1, <1>2, <1>3, <1>4, <1>5, Zenon DEF Writes, Keeps, Fells

\* The calls of _destroy_tree keep their shape.
LEMMA StackStep ==
  ASSUME TypeOK, Stacks, Logged, Next
  PROVE  Stacks'
<1> DEFINE Shape(s) == /\ s \in Seq(Frames)
                       /\ \A i \in DOMAIN s : i > 1 => s[i].step = "children"
<1>1. /\ stack \in [Requests -> Seq(Frames)] /\ row \in [Desks -> Rows]
      /\ \A r \in Requests : Shape(stack[r]) /\ (pc[r] = "tree" <=> stack[r] # <<>>)
      /\ \A r \in Requests : Job[r].desk \in Desks
  BY JobAssumption DEF Stacks, TypeOK
<1>2. Shape(<<>>) /\ \A x \in Frames : Shape(<<x>>) /\ <<x>> # <<>>
  OBVIOUS
<1>3. ASSUME NEW s, Shape(s), s # <<>>
      PROVE  /\ Head(s) \in Frames /\ Tail(s) \in Seq(Frames) /\ Shape(Tail(s))
             /\ Len(s) \in Nat \ {0} /\ (Len(s) = 1 <=> Tail(s) = <<>>) /\ Head(s) = s[1]
             /\ \A i \in DOMAIN Tail(s) : Tail(s)[i].step = "children"
  <2>1. s \in Seq(Frames) /\ \A i \in DOMAIN s : i > 1 => s[i].step = "children"
    BY <1>3
  <2>2. /\ Head(s) \in Frames /\ Tail(s) \in Seq(Frames)
        /\ Len(s) \in Nat \ {0} /\ Len(Tail(s)) = Len(s) - 1 /\ Head(s) = s[1]
    BY <1>3, <2>1
  <2>3. DOMAIN s = 1..Len(s) /\ DOMAIN Tail(s) = 1..(Len(s) - 1)
    BY <2>1, <2>2
  <2>4. \A i \in 1..(Len(s) - 1) : Tail(s)[i] = s[i + 1]
    BY <2>1, <2>2
  <2>5. \A i \in DOMAIN Tail(s) : Tail(s)[i].step = "children"
    BY <2>1, <2>2, <2>3, <2>4
  <2>6. Len(s) = 1 <=> Tail(s) = <<>>
    <3>1. \A t \in Seq(Frames) : Len(t) = 0 <=> t = <<>>
      OBVIOUS
    <3>2. Len(s) = 1 <=> Len(Tail(s)) = 0
      BY <2>2
    <3>3. QED
      BY <2>2, <3>1, <3>2, Zenon
  <2>7. QED
    BY <2>2, <2>5, <2>6
<1>4. ASSUME NEW s, Shape(s), s # <<>>, NEW x \in Frames, NEW y \in Frames, y.step = "children"
      PROVE  Shape(<<x, y>> \o Tail(s)) /\ <<x, y>> \o Tail(s) # <<>>
  <2> DEFINE t == <<x, y>> \o Tail(s)
  <2>1. /\ Tail(s) \in Seq(Frames) /\ Len(Tail(s)) \in Nat
        /\ \A i \in 1..Len(Tail(s)) : Tail(s)[i].step = "children"
    BY <1>3, <1>4
  <2>2. t \in Seq(Frames) /\ Len(t) = 2 + Len(Tail(s)) /\ t[2] = y
        /\ \A i \in 1..Len(t) : i > 2 => t[i] = Tail(s)[i - 2]
    BY <2>1
  <2>3. QED
    BY <1>4, <2>1, <2>2
<1>5. ASSUME NEW s, Shape(s), s # <<>>, NEW l \in Steps
      PROVE  Shape([s EXCEPT ![1].step = l]) /\ [s EXCEPT ![1].step = l] # <<>>
  <2> DEFINE t == [s EXCEPT ![1].step = l]
  <2>1. s \in Seq(Frames) /\ 1 \in DOMAIN s /\ s[1] \in Frames
    BY <1>5
  <2>2. [s[1] EXCEPT !.step = l] \in Frames
    BY <2>1 DEF Frames
  <2>3. t = [s EXCEPT ![1] = [s[1] EXCEPT !.step = l]]
    BY <2>1
  <2>4. QED
    BY <1>5, <2>1, <2>2, <2>3
<1> HIDE DEF Shape
<1>6. ASSUME NEW r \in Requests, NEW s, stack' = [stack EXCEPT ![r] = s], Shape(s),
             pc'[r] = "tree" <=> s # <<>>, \A q \in Requests \ {r} : pc'[q] = pc[q]
      PROVE  Stacks'
  <2>1. stack' \in [Requests -> Seq(Frames)]
    BY <1>1, <1>6 DEF Shape
  <2>2. \A q \in Requests : Shape(stack'[q]) /\ (pc'[q] = "tree" <=> stack'[q] # <<>>)
    BY <1>1, <1>6, SMTT(20)
  <2>3. QED
    BY <2>1, <2>2 DEF Shape, Stacks
<1>7. CASE Crash
  <2>1. /\ stack' = [r \in Requests |-> <<>>] /\ \A r \in Requests : pc'[r] # "tree"
    BY <1>7 DEF Crash
  <2>2. stack' \in [Requests -> Seq(Frames)]
    BY <2>1
  <2>3. QED
    BY <2>1, <2>2 DEF Stacks
<1>8. CASE Boot \/ Serve
  BY <1>8 DEF Boot, Serve, Stacks, local
<1>9. ASSUME NEW r \in Requests,
             Writes(r) \/ Keeps(r) \/ CreateRow(r) \/ DestroyRow(r) \/ RollbackRow(r)
      PROVE  Stacks'
  <2>1. \A q \in Requests \ {r} : pc'[q] = pc[q]
    BY <1>9, ThreadMoves DEF Moves
  <2>2. Shape(stack[r]) /\ (pc[r] = "tree" <=> stack[r] # <<>>) /\ stack = [stack EXCEPT ![r] = stack[r]]
    BY <1>1
  <2>3. CASE ~Fells(r)
    <3>1. pc[r] # "tree" /\ pc'[r] # "tree" /\ UNCHANGED stack
      BY <1>9, <2>3, OffTree
    <3>2. QED
      BY <1>6, <2>1, <2>2, <3>1
  <2>4. \A d \in Desks : Frame(d, row[d]) \in Frames
    BY <1>1, FrameType
  <2>5. CASE DestroyLookup(r)
    <3>1. CASE HasRow(Job[r].desk)
      <4>1. pc'[r] = "tree" /\ stack' = [stack EXCEPT ![r] = <<Frame(Job[r].desk, row[Job[r].desk])>>]
        BY <2>5, <3>1, Zenon DEF DestroyLookup, TypeOK
      <4>2. QED
        BY <1>1, <1>2, <1>6, <2>1, <2>4, <4>1, Zenon
    <3>2. CASE ~HasRow(Job[r].desk)
      <4>1. pc'[r] # "tree" /\ pc[r] # "tree" /\ UNCHANGED stack
        BY <2>5, <3>2 DEF DestroyLookup, End, TypeOK
      <4>2. QED
        BY <1>6, <2>1, <2>2, <4>1
    <3>3. QED
      BY <3>1, <3>2
  <2>6. CASE Recover(r)
    <3>1. pc[r] # "tree"
      BY <2>6, Zenon DEF Recover, Quiet, Running
    <3>2. CASE Job[r].method = "DestroyDesk"
      <4>1. CASE HasRow(Job[r].desk)
        <5>1. pc'[r] = "tree" /\ stack' = [stack EXCEPT ![r] = <<Frame(Job[r].desk, row[Job[r].desk])>>]
          BY <2>6, <3>2, <4>1, Zenon DEF Recover, TypeOK
        <5>2. QED
          BY <1>1, <1>2, <1>6, <2>1, <2>4, <5>1, Zenon
      <4>2. CASE ~HasRow(Job[r].desk)
        <5>1. pc'[r] # "tree" /\ stack' = [stack EXCEPT ![r] = <<>>]
          BY <2>6, <3>2, <4>2, Zenon DEF Recover, TypeOK
        <5>2. QED
          BY <1>2, <1>6, <2>1, <5>1, Zenon
      <4>3. QED
        BY <4>1, <4>2
    <3>3. CASE Job[r].method # "DestroyDesk"
      <4>1. pc'[r] # "tree" /\ UNCHANGED stack
        BY <2>6, <3>3, Zenon DEF Recover, End, Goto, TypeOK
      <4>2. QED
        BY <1>6, <2>1, <2>2, <3>1, <4>1
    <3>4. QED
      BY <3>2, <3>3
  <2>7. CASE DestroyRow(r)
    <3>1. stack[r] # <<>> /\ pc[r] = "tree"
      BY <1>1, <2>7, Zenon DEF DestroyRow
    <3>2. stack' = [stack EXCEPT ![r] = Tail(stack[r])]
      BY <2>7 DEF DestroyRow
    <3>3. pc'[r] = "tree" <=> Len(stack[r]) # 1
      BY <2>7 DEF DestroyRow, TypeOK
    <3>4. QED
      BY <1>3, <1>6, <2>1, <2>2, <3>1, <3>2, <3>3, Zenon
  <2>8. CASE DestroyStop(r) \/ DestroyContainer(r) \/ DestroyToken(r) \/ DestroyTokenFile(r)
             \/ DestroyWorktree(r) \/ DestroyOverlay(r)
    <3>1. PICK l \in Steps : stack' = [stack EXCEPT ![r][1].step = l]
      BY <2>8, Zenon DEF DestroyStop, DestroyContainer, DestroyToken, DestroyTokenFile, DestroyWorktree,
         DestroyOverlay, Next1, Steps
    <3>2. pc[r] = "tree" /\ UNCHANGED pc
      BY <2>8 DEF DestroyStop, DestroyContainer, DestroyToken, DestroyTokenFile, DestroyWorktree,
         DestroyOverlay, Next1
    <3>3. stack' = [stack EXCEPT ![r] = [stack[r] EXCEPT ![1].step = l]]
      BY <1>1, <3>1
    <3>4. Shape([stack[r] EXCEPT ![1].step = l]) /\ [stack[r] EXCEPT ![1].step = l] # <<>>
      BY <1>5, <2>2, <3>2
    <3>5. QED
      BY <1>6, <3>2, <3>3, <3>4, Zenon
  <2>9. CASE DestroyChild(r)
    <3>1. stack[r] # <<>> /\ pc[r] = "tree" /\ Top(r).step = "children" /\ Top(r) \in Frames
      BY <1>3, <2>2, <2>9 DEF DestroyChild, Top
    <3>2. CASE stack' = [stack EXCEPT ![r] = <<>>] /\ pc'[r] # "tree"
      BY <1>2, <1>6, <2>1, <3>2, Zenon
    <3>3. ASSUME NEW c \in DOMAIN Top(r).kids, UNCHANGED pc,
                 stack' = [stack EXCEPT ![r] =
                   <<Frame(c, Top(r).kids[c]),
                     [Top(r) EXCEPT !.kids = [k \in DOMAIN Top(r).kids \ {c} |-> Top(r).kids[k]]]>> \o Tail(@)]
          PROVE  Stacks'
      <4> DEFINE rest == [k \in DOMAIN Top(r).kids \ {c} |-> Top(r).kids[k]]
                 y == [Top(r) EXCEPT !.kids = rest]
      <4>1. PICK S \in SUBSET Desks : Top(r).kids \in [S -> Rows]
        BY <3>1 DEF Frames, Kids
      <4>2. c \in Desks /\ Top(r).kids[c] \in Rows
        BY <3>3, <4>1
      <4>3. rest \in [S \ {c} -> Rows] /\ S \ {c} \in SUBSET Desks
        BY <4>1
      <4>4. rest \in Kids
        BY <4>3, Zenon DEF Kids
      <4> HIDE DEF rest
      <4>5. y \in Frames /\ y.step = "children"
        BY <3>1, <4>4 DEF Frames
      <4> HIDE DEF y
      <4>6. Frame(c, Top(r).kids[c]) \in Frames
        BY <4>2, FrameType
      <4>7. stack' = [stack EXCEPT ![r] = <<Frame(c, Top(r).kids[c]), y>> \o Tail(stack[r])]
        BY <3>3 DEF y, rest
      <4> DEFINE t == <<Frame(c, Top(r).kids[c]), y>> \o Tail(stack[r])
      <4>8. Shape(t) /\ t # <<>>
        BY <1>4, <2>2, <3>1, <4>5, <4>6
      <4>9. stack' = [stack EXCEPT ![r] = t] /\ pc'[r] = "tree"
        BY <3>1, <3>3, <4>7, Zenon
      <4> HIDE DEF t
      <4>10. QED
        BY <1>6, <2>1, <4>8, <4>9, Zenon
    <3>4. QED
      BY <2>9, <3>2, <3>3, Zenon DEF DestroyChild, End, Uncaught, TypeOK
  <2>10. QED
    BY <2>3, <2>5, <2>6, <2>7, <2>8, <2>9 DEF Fells
<1>10. QED
  BY <1>7, <1>8, <1>9, NextSteps

\* The top of a stack is a call.
LEMMA TopFrame ==
  ASSUME Stacks
  PROVE  \A r \in Requests : stack[r] # <<>> =>
           Top(r).desk \in Desks /\ Top(r).object \in Rows /\ Top(r).step \in Steps
<1>1. \A r \in Requests : stack[r] \in Seq(Frames)
  BY DEF Stacks
<1>2. \A r \in Requests : stack[r] # <<>> => Head(stack[r]) \in Frames
  BY <1>1
<1>3. QED
  BY <1>2 DEF Top, Frames

\* IInv holds at the start.
LEMMA InitIInv ==
  ASSUME Init
  PROVE  IInv
<1>1. NoRow \in Rows /\ NoRow.state = "absent"
  BY DEF NoRow, Rows, States
<1>2. \A r \in Requests : pc[r] \in {"new", "done"} /\ task[r] = "absent" /\ stack[r] = <<>>
  BY DEF Init
<1>3. Stacks
  <2>1. stack \in [Requests -> Seq(Frames)]
    BY DEF Init
  <2>2. QED
    BY <1>2, <2>1 DEF Stacks
<1>4. /\ row \in [Desks -> Rows]
      /\ tokens \in [Desks -> Requests \union {None}]
      /\ tokFile \in [Desks -> Requests \union {None}]
      /\ worktree \subseteq Desks /\ overlay \subseteq Desks
      /\ snap \in [Requests -> Rows] /\ got \in [Requests -> Requests \union {None}]
  BY <1>1 DEF Init
<1>5. con \in [Desks -> [id : Requests \union {None}, up : BOOLEAN]]
  <2>1. NoContainer \in [id : Requests \union {None}, up : BOOLEAN]
    BY DEF NoContainer
  <2>2. QED
    BY <2>1 DEF Init
<1>6. /\ task \in [Requests -> {"absent", "in_progress"} \union Outcomes]
      /\ order \in Seq(Requests) /\ phase \in {"down", "recovering", "serving"}
      /\ res \in [Requests -> {"none"} \union Outcomes]
  BY DEF Init
<1>7. pc \in [Requests -> Labels]
  BY DEF Init, Labels
<1>8. TypeOK
  BY <1>3, <1>4, <1>5, <1>6, <1>7, TopFrame DEF TypeOK
<1>9. Logged
  BY <1>2, Zenon DEF Logged, Running, Building, Rolling
<1>10. Provisioned
  BY <1>1 DEF Init, Provisioned
<1>11. QED
  BY <1>3, <1>8, <1>9, <1>10 DEF IInv

\* Every step preserves it.
LEMMA NextIInv ==
  ASSUME IInv, [Next]_vars
  PROVE  IInv'
<1>1. CASE UNCHANGED vars
  <2>1. UNCHANGED <<row, tokens, worktree, overlay, tokFile, con, task, order, phase, pc, snap, got, stack, res>>
    BY <1>1 DEF vars, disk, log, local
  <2>2. TypeOK'
    BY <2>1 DEF IInv, TypeOK, Top
  <2>3. Stacks'
    BY <2>1 DEF IInv, Stacks
  <2>4. Logged' /\ Provisioned'
    BY <2>1 DEF IInv, Logged, Provisioned, Running
  <2>5. QED
    BY <2>2, <2>3, <2>4 DEF IInv
<1>2. CASE Next
  <2>1. TypeOK /\ Stacks /\ Logged /\ Provisioned
    BY DEF IInv
  <2>2. Stacks' /\ Logged' /\ Provisioned'
    BY <1>2, <2>1, StackStep, LoggedStep, ProvisionedStep
  <2>3. pc' \in [Requests -> Labels] /\ res' \in [Requests -> {"none"} \union Outcomes]
    <3>1. CASE Crash \/ Boot \/ Serve
      BY <2>1, <3>1, Zenon DEF Crash, Boot, Serve, TypeOK, Labels
    <3>2. QED
      BY <1>2, <2>1, <3>1, NextSteps, ThreadMoves, Zenon DEF Moves
  <2>4. (\A r \in Requests : stack[r] # <<>> =>
           Top(r).desk \in Desks /\ Top(r).object \in Rows /\ Top(r).step \in Steps)'
    BY <2>2, TopFrame, PTL
  <2>5. TypeOK'
    BY <1>2, <2>1, <2>3, <2>4, RowTypes, FileTypes, ContainerTypes, LogTypes, LocalTypes, Zenon DEF TypeOK
  <2>6. QED
    BY <2>2, <2>5 DEF IInv
<1>3. QED
  BY <1>1, <1>2

\* IInv holds always.
THEOREM Invariance == Spec => []IInv
<1>1. Init => IInv
  BY InitIInv
<1>2. IInv /\ [Next]_vars => IInv'
  BY NextIInv
<1>3. QED
  BY <1>1, <1>2, PTL DEF Spec

\* Rows, tokens, files, containers, the log and the locals of the threads stay within
\* their types, whichever requests overlap and wherever the daemon crashes.
THEOREM TypeCorrect == Spec => []TypeOK
BY Invariance, PTL DEF IInv

\* While the daemon serves, every desk in "provisioning" has a thread that works on it or
\* died working on it: nothing a crash leaves there survives the recovery (recovery.py).
THEOREM NoneStranded == Spec => []NoStrandedProvisioning
<1>1. IInv => NoStrandedProvisioning
  BY DEF IInv, Provisioned, NoStrandedProvisioning, Running, Creates
<1>2. QED
  BY <1>1, Invariance, PTL
=============================================================================
