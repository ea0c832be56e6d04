--------------------------- MODULE DeskDestroyProofs ---------------------------
(***************************************************************************)
(* More about DeskLifecycle: tokens are usable and nothing outlives a row, *)
(* for trees of desks of any depth, where no DestroyDesk overlaps with     *)
(* another request (DestroysAlone): with one that does, neither holds.     *)
(***************************************************************************)
EXTENDS DeskLifecycleProofs

\* Either no destroy is ever accepted or requests follow each other.
NoDestroys == \A r \in Requests : Job[r].method = "DestroyDesk" => pc[r] = "done" /\ task[r] = "absent"
NoOverlaps == \A r \in Overlapping : pc[r] = "done" /\ task[r] = "absent"

\* So who deletes a row is alone; recovery only destroys, rolls back and finishes.
Alone ==
  /\ NoDestroys \/ NoOverlaps
  /\ \/ \A q, r \in Requests : Running(q) /\ Running(r) => q = r
     \/ phase = "serving" /\ NoDestroys
  /\ \A r \in Requests :
       /\ pc[r] = "tree" => Job[r].method = "DestroyDesk"
       /\ pc[r] \in Rolling => phase = "recovering"
       /\ Running(r) => phase = "serving" \/ (phase = "recovering" /\ pc[r] \in Rolling \union {"tree", "finish"})

\* Who builds a desk builds on a row, its own if it is not resumed; a child has a parent.
Founding == Building \ {"resume", "provision", "up", "running"}
Founded ==
  \A r \in Requests :
    /\ pc[r] \in Building => HasRow(Job[r].desk)
    /\ pc[r] \in Founding =>
         \A q \in Requests \ {r} : pc[q] \in Founding => Job[q].desk # Job[r].desk
    /\ pc[r] \in {"insert", "link"} /\ Job[r].parent # None => HasRow(Job[r].parent)

\* A create that was rolled back stays rolled back.
Fallen ==
  \A r \in Requests : res[r] = "crashed_during_create" =>
    /\ r \in Creates /\ pc[r] \in Rolling \union {"finish", "done"}
    /\ \/ task[r] = "crashed_during_create" /\ pc[r] = "done"
       \/ task[r] = "in_progress" /\ phase # "serving" /\ ~HasRow(Job[r].desk)

\* A token that is being issued is in the file, and one that is destroyed not in the table.
Issuing ==
  \A r \in Requests :
    /\ pc[r] = "token_row" => tokens[Job[r].desk] = None /\ tokFile[Job[r].desk] = r
    /\ pc[r] = "tree" /\ Top(r).step \in {"token_file", "worktree", "overlay", "row"} =>
         tokens[Top(r).desk] = None

\* What is left of a desk that is destroyed, and of its children.
Clearing ==
  \A r \in Requests : pc[r] = "tree" =>
    /\ Top(r).step # "children" => Children(Top(r).desk) = {}
    /\ \A i \in DOMAIN stack[r] : stack[r][i].step = "children" =>
         \A c \in Children(stack[r][i].desk) :
           c \in DOMAIN stack[r][i].kids \/ (i > 1 /\ c = stack[r][i - 1].desk)
    /\ ~Faults =>
         /\ Top(r).step \in {"worktree", "overlay", "row"} => tokFile[Top(r).desk] = None
         /\ Top(r).step = "row" => Top(r).desk \notin overlay

\* The inductive invariant where destroys are alone.
AloneInv ==
  /\ IInv /\ Alone /\ Founded /\ Fallen /\ Issuing /\ Clearing
  /\ TokenUsable /\ NothingOutlivesRow

\* A request is at work after a step only if it was before, arrived or is recovered.
LEMMA WorkStarts ==
  ASSUME TypeOK, Logged, NEW r \in Requests,
         Writes(r) \/ Keeps(r) \/ CreateRow(r) \/ DestroyRow(r) \/ RollbackRow(r)
  PROVE  /\ UNCHANGED phase /\ \A q \in Requests \ {r} : pc'[q] = pc[q] /\ task'[q] = task[q]
         /\ \/ Dispatch(r) /\ pc[r] = "new" /\ pc'[r] = "lookup" /\ phase = "serving"
            \/ Recover(r) /\ Quiet /\ phase = "recovering" /\ task[r] = "in_progress"
            \/ Running(r)
<1>1. UNCHANGED phase /\ \A q \in Requests \ {r} : pc'[q] = pc[q]
  BY ThreadMoves DEF Moves
<1>2. \A q \in Requests \ {r} : task'[q] = task[q]
  <2>1. CASE UNCHANGED log
    BY <2>1 DEF log
  <2>2. CASE Dispatch(r) \/ Finish(r)
    BY <2>2, Zenon DEF Dispatch, Finish, log, TypeOK
  <2>3. QED
    BY <2>1, <2>2, Unlogged, Zenon
<1>3. Dispatch(r) => pc[r] = "new" /\ pc'[r] = "lookup" /\ phase = "serving"
  BY Zenon DEF Dispatch, Goto, TypeOK
<1>4. Recover(r) => Quiet /\ phase = "recovering" /\ task[r] = "in_progress"
  BY Zenon DEF Recover, Earliest, Interrupted
<1>5. QED
  BY <1>1, <1>2, <1>3, <1>4, AtWork, Zenon

\* From which label to which a create goes.
LEMMA CreateFlow ==
  ASSUME TypeOK, NEW r \in Requests
  PROVE  /\ CreateLookup(r) => pc[r] = "lookup" /\ pc'[r] \in {"insert", "resume", "finish"}
         /\ SpawnLookup(r) => pc[r] = "lookup" /\ pc'[r] \in {"insert", "finish"}
         /\ CreateRow(r) => pc[r] = "insert" /\ pc'[r] \in {"link", "finish"}
         /\ LinkParent(r) => pc[r] = "link" /\ pc'[r] \in {"checkout", "finish", "stuck"}
         /\ Checkout(r) => pc[r] = "checkout" /\ pc'[r] \in {"worktree_path", "finish"}
         /\ RecordWorktree(r) => pc[r] = "worktree_path" /\ pc'[r] \in {"overlay", "stuck"}
         /\ WriteOverlay(r) => pc[r] = "overlay" /\ pc'[r] \in {"overlay_path", "finish"}
         /\ RecordOverlay(r) => pc[r] = "overlay_path" /\ pc'[r] \in {"token", "finish", "stuck"}
         /\ WriteTokenFile(r) => pc[r] = "token" /\ pc'[r] \in {"token_row", "provision", "finish"}
         /\ InsertToken(r) => pc[r] = "token_row" /\ pc'[r] = "provision"
         /\ Resume(r) => pc[r] = "resume" /\ pc'[r] \in {"provision", "finish"}
         /\ Provision(r) => pc[r] = "provision" /\ pc'[r] = "up"
         /\ DevcontainerUp(r) => pc[r] = "up" /\ pc'[r] = "running"
         /\ DevcontainerUpFails(r) \/ DevcontainerUpRaises(r) => pc[r] = "up" /\ pc'[r] \in {"finish", "stuck"}
         /\ RecordRunning(r) => pc[r] = "running" /\ pc'[r] \in {"finish", "stuck"}
<1>1. \A l : Goto(r, l) => pc'[r] = l
  BY DEF Goto, TypeOK
<1>2. /\ \A o : End(r, o) => pc'[r] = "finish"
      /\ Uncaught(r) => pc'[r] = "stuck"
  BY DEF End, Uncaught, TypeOK
<1>3. QED
  BY <1>1, <1>2 DEF CreateLookup, SpawnLookup, CreateRow, LinkParent, Checkout, RecordWorktree,
     WriteOverlay, RecordOverlay, WriteTokenFile, InsertToken, Resume, Provision, DevcontainerUp,
     DevcontainerUpFails, DevcontainerUpRaises, RecordRunning

\* The same for the other requests and for recovery.
LEMMA OtherFlow ==
  ASSUME TypeOK, NEW r \in Requests
  PROVE  /\ Dispatch(r) => pc[r] = "new" /\ pc'[r] = "lookup"
         /\ StopLookup(r) => pc[r] = "lookup" /\ pc'[r] \in {"stop", "finish"}
         /\ StopContainer(r) => pc[r] = "stop" /\ pc'[r] \in {"suspend", "finish"}
         /\ Suspend(r) => pc[r] = "suspend" /\ pc'[r] = "finish"
         /\ Finish(r) => pc[r] = "finish" /\ pc'[r] = "done"
         /\ DestroyLookup(r) => pc[r] = "lookup" /\ pc'[r] \in {"tree", "finish"}
         /\ DestroyChild(r) \/ DestroyRow(r) => pc[r] = "tree" /\ pc'[r] \in {"tree", "finish", "stuck"}
         /\ DestroyStop(r) \/ DestroyContainer(r) \/ DestroyToken(r) \/ DestroyTokenFile(r)
              \/ DestroyWorktree(r) \/ DestroyOverlay(r) => pc[r] = "tree" /\ pc'[r] = "tree"
         /\ RollbackWorktree(r) => pc[r] = "rollback_worktree" /\ pc'[r] = "rollback_overlay"
         /\ RollbackOverlay(r) => pc[r] = "rollback_overlay" /\ pc'[r] = "rollback_row"
         /\ RollbackRow(r) => pc[r] = "rollback_row" /\ pc'[r] = "finish"
         /\ Recover(r) => /\ ~Running(r) /\ pc'[r] \in {"tree", "finish", "rollback_worktree"}
                          /\ pc'[r] = "tree" => Job[r].method = "DestroyDesk"
<1>1. \A l : Goto(r, l) => pc'[r] = l
  BY DEF Goto, TypeOK
<1>2. /\ \A o : End(r, o) => pc'[r] = "finish"
      /\ Uncaught(r) => pc'[r] = "stuck"
  BY DEF End, Uncaught, TypeOK
<1>3. pc \in [Requests -> Labels]
  BY DEF TypeOK
<1>4. /\ Dispatch(r) => pc[r] = "new" /\ pc'[r] = "lookup"
      /\ StopLookup(r) => pc[r] = "lookup" /\ pc'[r] \in {"stop", "finish"}
      /\ StopContainer(r) => pc[r] = "stop" /\ pc'[r] \in {"suspend", "finish"}
      /\ Suspend(r) => pc[r] = "suspend" /\ pc'[r] = "finish"
      /\ RollbackWorktree(r) => pc[r] = "rollback_worktree" /\ pc'[r] = "rollback_overlay"
      /\ RollbackOverlay(r) => pc[r] = "rollback_overlay" /\ pc'[r] = "rollback_row"
      /\ RollbackRow(r) => pc[r] = "rollback_row" /\ pc'[r] = "finish"
  BY <1>1, <1>2, Zenon DEF Dispatch, StopLookup, StopContainer, Suspend, RollbackWorktree, RollbackOverlay,
     RollbackRow
<1>5. /\ Finish(r) => pc[r] = "finish" /\ pc'[r] = "done"
      /\ DestroyLookup(r) => pc[r] = "lookup" /\ pc'[r] \in {"tree", "finish"}
      /\ DestroyChild(r) \/ DestroyRow(r) => pc[r] = "tree" /\ pc'[r] \in {"tree", "finish", "stuck"}
  BY <1>2, <1>3, Zenon DEF Finish, DestroyLookup, DestroyChild, DestroyRow
<1>6. DestroyStop(r) \/ DestroyContainer(r) \/ DestroyToken(r) \/ DestroyTokenFile(r)
        \/ DestroyWorktree(r) \/ DestroyOverlay(r) => pc[r] = "tree" /\ pc'[r] = "tree"
  BY DEF DestroyStop, DestroyContainer, DestroyToken, DestroyTokenFile, DestroyWorktree,
     DestroyOverlay, Next1
<1>7. Recover(r) => /\ ~Running(r) /\ pc'[r] \in {"tree", "finish", "rollback_worktree"}
                    /\ pc'[r] = "tree" => Job[r].method = "DestroyDesk"
  BY <1>1, <1>2, <1>3, Zenon DEF Recover, Quiet
<1>8. QED
  BY <1>4, <1>5, <1>6, <1>7, Zenon

\* Alone is preserved.
LEMMA AloneStep ==
  ASSUME TypeOK, Logged, Alone, Next
  PROVE  Alone'
<1> DEFINE One == \A q, p \in Requests : Running(q) /\ Running(p) => q = p
<1>1. CASE Crash
  <2>1. \A r \in Requests : (pc[r] = "done" => pc'[r] = "done") /\ pc'[r] \in {"new", "done"}
    BY <1>1 DEF Crash
  <2>2. (NoDestroys => NoDestroys') /\ (NoOverlaps => NoOverlaps')
    BY <1>1, <2>1, BoundsAssumption DEF Crash, NoDestroys, NoOverlaps, log
  <2>3. QED
    BY <2>1, <2>2, Zenon DEF Alone, Running, Rolling
<1>2. CASE Boot \/ Serve
  <2>1. Quiet
    BY <1>2 DEF Boot, Serve, Quiet, Alone
  <2>2. UNCHANGED <<pc, task>>
    BY <1>2 DEF Boot, Serve, log
  <2>3. QED
    BY <2>1, <2>2 DEF Alone, Running, Rolling, Quiet, NoDestroys, NoOverlaps
<1>3. ASSUME NEW r \in Requests,
             Writes(r) \/ Keeps(r) \/ CreateRow(r) \/ DestroyRow(r) \/ RollbackRow(r)
      PROVE  Alone'
  <2>1. /\ UNCHANGED phase /\ \A q \in Requests \ {r} : pc'[q] = pc[q] /\ task'[q] = task[q]
        /\ \/ Dispatch(r) /\ pc[r] = "new" /\ pc'[r] = "lookup" /\ phase = "serving"
           \/ Recover(r) /\ Quiet /\ phase = "recovering" /\ task[r] = "in_progress"
           \/ Running(r)
    BY <1>3, WorkStarts, Zenon
  <2>2. pc[r] # "done" \/ task[r] # "absent"
    BY <2>1 DEF Running
  <2>3. /\ NoDestroys => NoDestroys' /\ Job[r].method # "DestroyDesk"
        /\ NoOverlaps => NoOverlaps' /\ r \notin Overlapping
    BY <2>1, <2>2, BoundsAssumption, Zenon DEF NoDestroys, NoOverlaps
  <2>4. /\ pc'[r] = "tree" => Job[r].method = "DestroyDesk"
        /\ pc'[r] \in Rolling => phase = "recovering"
        /\ Running(r)' => phase = "serving" \/ (phase = "recovering" /\ pc'[r] \in Rolling \union {"tree", "finish"})
    <3>1. pc'[r] = "tree" => pc[r] = "tree" \/ Job[r].method = "DestroyDesk"
      BY <1>3, CreateFlow, OtherFlow, Zenon DEF Writes, Keeps, DestroyLookup
    <3>2. pc'[r] \in Rolling => pc[r] \in Rolling \/ Recover(r)
      BY <1>3, CreateFlow, OtherFlow, Zenon DEF Writes, Keeps, Rolling
    <3>3. pc[r] \in Rolling \union {"tree", "finish"} \/ Recover(r) =>
            pc'[r] \in Rolling \union {"tree", "finish", "done", "stuck"}
      BY <1>3, CreateFlow, OtherFlow, Zenon DEF Writes, Keeps, Rolling, Running
    <3>4. /\ pc[r] = "tree" => Job[r].method = "DestroyDesk"
          /\ pc[r] \in Rolling => phase = "recovering"
          /\ Running(r) => phase = "serving" \/ (phase = "recovering" /\ pc[r] \in Rolling \union {"tree", "finish"})
      BY Zenon DEF Alone
    <3>5. Running(r)' <=> pc'[r] \notin {"new", "done", "stuck"}
      BY DEF Running
    <3>6. Recover(r) => phase = "recovering"
      BY Zenon DEF Recover
    <3>7. QED
      BY <2>1, <3>1, <3>2, <3>3, <3>4, <3>5, <3>6
  <2>5. One' \/ (phase' = "serving" /\ NoDestroys')
    <3>1. CASE phase = "serving" /\ NoDestroys
      BY <2>1, <2>3, <3>1
    <3>2. CASE One /\ Running(r)
      BY <2>1, <3>2 DEF Running
    <3>3. CASE Quiet
      BY <2>1, <3>3 DEF Quiet, Running
    <3>4. Dispatch(r) => Quiet \/ r \in Overlapping
      BY DEF Dispatch
    <3>5. QED
      BY <2>1, <2>3, <3>1, <3>2, <3>3, <3>4, Zenon DEF Alone
  <2>6. ASSUME NEW q \in Requests
        PROVE  /\ pc'[q] = "tree" => Job[q].method = "DestroyDesk"
               /\ pc'[q] \in Rolling => phase' = "recovering"
               /\ Running(q)' => phase' = "serving" \/ (phase' = "recovering" /\ pc'[q] \in Rolling \union {"tree", "finish"})
    BY <2>1, <2>4 DEF Alone, Running
  <2>7. QED
    BY <2>3, <2>5, <2>6 DEF Alone
<1>4. QED
  BY <1>1, <1>2, <1>3, NextSteps

\* What a row can lose or gain in a step: it is deleted by a destroy or a rollback and made
\* by a create, and a desk becomes a child only when a SpawnChild links it.
LEMMA RowChange ==
  ASSUME TypeOK, Stacks, Next, NEW d \in Desks
  PROVE  /\ HasRow(d) /\ ~HasRow(d)' =>
              \E r \in Requests : \/ DestroyRow(r) /\ Top(r).desk = d
                                  \/ RollbackRow(r) /\ Job[r].desk = d
         /\ ~HasRow(d) /\ HasRow(d)' => \E r \in Requests : CreateRow(r) /\ Job[r].desk = d
         /\ \A c \in Desks : c \in Children(d)' /\ c \notin Children(d) =>
              \E r \in Requests : pc[r] = "link" /\ Writes(r) /\ Job[r].desk = c /\ Job[r].parent = d
<1>1. /\ row \in [Desks -> Rows] /\ \A r \in Requests : Job[r].desk \in Desks
      /\ d # None /\ NoRow.state = "absent" /\ NoRow.parent = None
      /\ [NoRow EXCEPT !.state = "defined"].state = "defined"
      /\ [NoRow EXCEPT !.state = "defined"].parent = None
  BY JobAssumption DEF TypeOK, NoRow
<1>2. ASSUME UNCHANGED row
      PROVE  (HasRow(d) <=> HasRow(d)') /\ Children(d)' = Children(d)
  BY <1>2 DEF HasRow, Children
<1>3. ASSUME NEW r \in Requests, Writes(r), NEW c \in Desks
      PROVE  /\ HasRow(c) <=> HasRow(c)'
             /\ row'[c].parent # row[c].parent =>
                  pc[r] = "link" /\ Job[r].desk = c /\ row'[c].parent = Job[r].parent
  BY <1>1, <1>3, WritesRow DEF HasRow
<1>4. ASSUME NEW r \in Requests, CreateRow(r), NEW c \in Desks
      PROVE  /\ HasRow(c) => HasRow(c)' /\ row'[c] = row[c]
             /\ ~HasRow(c) /\ HasRow(c)' => Job[r].desk = c /\ row'[c].parent = None
  BY <1>1, <1>4, Zenon DEF CreateRow, HasRow
<1>5. ASSUME NEW r \in Requests, DestroyRow(r) \/ RollbackRow(r), NEW c \in Desks
      PROVE  /\ HasRow(c)' => HasRow(c) /\ row'[c] = row[c]
             /\ HasRow(c) /\ ~HasRow(c)' =>
                  \/ DestroyRow(r) /\ Top(r).desk = c
                  \/ RollbackRow(r) /\ Job[r].desk = c
  BY <1>1, <1>5 DEF DestroyRow, RollbackRow, HasRow
<1>6. Crash \/ Boot \/ Serve => UNCHANGED row
  BY DEF Crash, Boot, Serve
<1>7. ASSUME NEW r \in Requests, Writes(r) PROVE
         /\ HasRow(d) <=> HasRow(d)'
         /\ \A c \in Desks : c \in Children(d)' /\ c \notin Children(d) =>
              pc[r] = "link" /\ Job[r].desk = c /\ Job[r].parent = d
  BY <1>3, <1>7 DEF Children
<1>8. ASSUME NEW r \in Requests, CreateRow(r) PROVE
         /\ HasRow(d) => HasRow(d)'
         /\ ~HasRow(d) /\ HasRow(d)' => Job[r].desk = d
         /\ Children(d)' = Children(d)
  BY <1>1, <1>4, <1>8 DEF Children
<1>9. ASSUME NEW r \in Requests, DestroyRow(r) \/ RollbackRow(r) PROVE
         /\ HasRow(d)' => HasRow(d)
         /\ HasRow(d) /\ ~HasRow(d)' =>
                  \/ DestroyRow(r) /\ Top(r).desk = d
                  \/ RollbackRow(r) /\ Job[r].desk = d
         /\ Children(d)' \subseteq Children(d)
  BY <1>5, <1>9 DEF Children
<1>10. QED
  BY <1>2, <1>6, <1>7, <1>8, <1>9, NextSteps, KeepsRow, Zenon

\* Who deletes a row, or is in the middle of a destroy, is alone.
LEMMA DeletesAlone ==
  ASSUME Alone, NEW r \in Requests, pc[r] \in Rolling \union {"tree"}, NEW q \in Requests, q # r
  PROVE  ~Running(q)
BY DEF Alone, Running, Rolling, NoDestroys

\* Founded is preserved.
LEMMA FoundedStep ==
  ASSUME TypeOK, Stacks, Logged, Alone, Founded, Next
  PROVE  Founded'
<1>1. ASSUME NEW d \in Desks, HasRow(d), ~HasRow(d)', NEW q \in Requests,
             pc[q] \in Building \union {"insert"}
      PROVE  FALSE
  <2>1. PICK r \in Requests : DestroyRow(r) \/ RollbackRow(r)
    BY <1>1, RowChange
  <2>2. pc[r] \in Rolling \union {"tree"}
    BY <2>1, OtherFlow, Zenon DEF Rolling
  <2>3. q # r /\ Running(q)
    BY <1>1, <2>2 DEF Rolling, Building, Running
  <2>4. QED
    BY <2>2, <2>3, DeletesAlone
<1>2. \A r \in Requests : Job[r].desk \in Desks /\ (Job[r].parent # None => Job[r].parent \in Desks)
  BY JobAssumption
<1>3. CASE Crash
  BY <1>3, Zenon DEF Crash, Founded, Founding, Building
<1>4. CASE Boot \/ Serve
  BY <1>4, Zenon DEF Boot, Serve, Founded, HasRow
<1>5. ASSUME NEW r \in Requests,
             Writes(r) \/ Keeps(r) \/ CreateRow(r) \/ DestroyRow(r) \/ RollbackRow(r)
      PROVE  Founded'
  <2> DEFINE d == Job[r].desk
  <2>1. \A q \in Requests \ {r} : pc'[q] = pc[q]
    BY <1>5, WorkStarts
  <2>2. pc'[r] \in Building =>
          pc[r] \in Building \/ (CreateRow(r) /\ pc'[r] = "link") \/ (CreateLookup(r) /\ pc'[r] = "resume")
    BY <1>5, CreateFlow, OtherFlow, Zenon DEF Writes, Keeps, Building
  <2>3. pc'[r] \in Founding => pc[r] \in Founding \/ (CreateRow(r) /\ pc'[r] = "link")
    BY <1>5, CreateFlow, OtherFlow, Zenon DEF Writes, Keeps, Building, Founding
  <2>4. pc'[r] \in {"insert", "link"} =>
          SpawnLookup(r) \/ CreateLookup(r) \/ (pc[r] = "insert" /\ CreateRow(r))
    BY <1>5, CreateFlow, OtherFlow, Zenon DEF Writes, Keeps
  <2>5. CreateRow(r) /\ pc'[r] = "link" => ~HasRow(d) /\ HasRow(d)'
    <3>1. ASSUME CreateRow(r), HasRow(d) PROVE pc'[r] = "finish"
      BY <3>1 DEF CreateRow, End, TypeOK
    <3>2. ASSUME CreateRow(r), ~HasRow(d) PROVE HasRow(d)'
      BY <1>2, <3>2 DEF CreateRow, HasRow, NoRow, TypeOK
    <3>3. QED
      BY <3>1, <3>2
  <2>6. CreateLookup(r) /\ pc'[r] = "resume" => HasRow(d) /\ UNCHANGED row
    BY Zenon DEF CreateLookup, Goto, End, TypeOK, HasRow
  <2>7. ASSUME NEW q \in Requests, pc'[q] \in Building PROVE HasRow(Job[q].desk)'
    <3>1. CASE pc[q] \in Building
      BY <1>1, <1>2, <3>1 DEF Founded
    <3>2. CASE pc[q] \notin Building
      BY <2>1, <2>2, <2>5, <2>6, <2>7, <3>2 DEF HasRow
    <3>3. QED
      BY <3>1, <3>2
  <2>8. ASSUME NEW q \in Requests, NEW p \in Requests \ {q}, pc'[q] \in Founding, pc'[p] \in Founding
        PROVE  Job[q].desk # Job[p].desk
    <3>1. Founding \subseteq Building
      BY DEF Founding
    <3>2. CASE pc[q] \in Founding /\ pc[p] \in Founding
      BY <3>2 DEF Founded
    <3>3. CASE pc[q] \notin Founding
      <4>1. q = r /\ ~HasRow(Job[q].desk) /\ pc[p] \in Building
        BY <2>1, <2>3, <2>5, <2>8, <3>1, <3>3
      <4>2. QED
        BY <4>1 DEF Founded
    <3>4. CASE pc[p] \notin Founding
      <4>1. p = r /\ ~HasRow(Job[p].desk) /\ pc[q] \in Building
        BY <2>1, <2>3, <2>5, <2>8, <3>1, <3>4
      <4>2. QED
        BY <4>1 DEF Founded
    <3>5. QED
      BY <3>2, <3>3, <3>4
  <2>9. ASSUME NEW q \in Requests, pc'[q] \in {"insert", "link"}, Job[q].parent # None
        PROVE  HasRow(Job[q].parent)'
    <3>1. CASE pc[q] \in {"insert", "link"}
      BY <1>1, <1>2, <2>9, <3>1 DEF Founded, Building
    <3>2. CASE pc[q] \notin {"insert", "link"}
      <4>1. q = r /\ (SpawnLookup(r) \/ CreateLookup(r))
        BY <2>1, <2>4, <2>9, <3>2
      <4>2. ~CreateLookup(r)
        BY <2>9, <4>1, JobAssumption, Zenon DEF CreateLookup
      <4>3. pc'[r] # "finish" => HasRow(Job[r].parent)
        BY <4>1, <4>2, Zenon DEF SpawnLookup, End, TypeOK
      <4>4. UNCHANGED row
        BY <4>1, <4>2, Zenon DEF SpawnLookup
      <4>5. QED
        BY <2>9, <4>1, <4>3, <4>4 DEF HasRow
    <3>3. QED
      BY <3>1, <3>2
  <2>10. QED
    BY <2>7, <2>8, <2>9 DEF Founded
<1>6. QED
  BY <1>3, <1>4, <1>5, NextSteps

\* Only the end of a rollback has that outcome.
LEMMA CrashedOutcome ==
  ASSUME TypeOK, NEW r \in Requests,
         Writes(r) \/ Keeps(r) \/ CreateRow(r) \/ DestroyRow(r), res'[r] = "crashed_during_create"
  PROVE  res[r] = "crashed_during_create"
<1>1. /\ \A l : Goto(r, l) => res'[r] = res[r]
      /\ \A o : End(r, o) => res'[r] = o
      /\ Uncaught(r) => res'[r] = res[r]
      /\ Partial(r) => res'[r] = "failed"
  BY Zenon DEF Goto, End, Uncaught, Partial, TypeOK
<1>2. CASE Writes(r) \/ CreateRow(r) \/ DestroyRow(r)
  BY <1>1, <1>2, Zenon DEF Writes, LinkParent, RecordWorktree, WriteOverlay, RecordOverlay, Resume,
     Provision, DevcontainerUpFails, RecordRunning, Suspend, CreateRow, DestroyRow
<1>3. CASE \/ Dispatch(r) \/ CreateLookup(r) \/ SpawnLookup(r) \/ Checkout(r) \/ WriteTokenFile(r)
           \/ InsertToken(r) \/ DevcontainerUp(r) \/ DevcontainerUpRaises(r)
           \/ StopLookup(r) \/ StopContainer(r) \/ RollbackWorktree(r) \/ RollbackOverlay(r)
  BY <1>1, <1>3, Zenon DEF Dispatch, CreateLookup, SpawnLookup, Checkout, WriteTokenFile, InsertToken,
     DevcontainerUp, DevcontainerUpRaises, StopLookup, StopContainer, RollbackWorktree,
     RollbackOverlay
<1>4. CASE Finish(r) \/ DestroyLookup(r) \/ DestroyChild(r) \/ Recover(r)
  BY <1>1, <1>4, Zenon DEF Finish, DestroyLookup, DestroyChild, Recover, TypeOK
<1>5. CASE \/ DestroyStop(r) \/ DestroyContainer(r) \/ DestroyToken(r) \/ DestroyTokenFile(r)
           \/ DestroyWorktree(r) \/ DestroyOverlay(r)
  BY <1>1, <1>5, Zenon DEF DestroyStop, DestroyContainer, DestroyToken, DestroyTokenFile, DestroyWorktree,
     DestroyOverlay, TypeOK
<1>6. QED
  BY <1>2, <1>3, <1>4, <1>5, Zenon DEF Keeps

\* Fallen is preserved, and what is rolled back stays so.
LEMMA FallenStep ==
  ASSUME TypeOK, Stacks, Logged, Alone, Fallen, Next
  PROVE  /\ Fallen'
         /\ \A r \in Requests : res[r] = "crashed_during_create" => res'[r] = "crashed_during_create"
<1> DEFINE crashed == "crashed_during_create"
<1>1. \A r \in Requests : Job[r].desk \in Desks
  BY JobAssumption
<1>2. ASSUME phase # "serving", NEW d \in Desks, ~HasRow(d) PROVE ~HasRow(d)'
  <2>1. ASSUME NEW r \in Requests, CreateRow(r) PROVE FALSE
    <3>1. pc[r] = "insert"
      BY <2>1 DEF CreateRow
    <3>2. QED
      BY <1>2, <3>1 DEF Alone, Running, Rolling
  <2>2. QED
    BY <1>2, <2>1, RowChange
<1>3. CASE Crash
  <2>1. UNCHANGED <<row, res, task>> /\ phase' = "down"
        /\ \A r \in Requests : pc'[r] \in {"new", "done"} /\ (pc[r] # "new" => pc'[r] = "done")
    BY <1>3 DEF Crash, log
  <2>2. QED
    BY <2>1 DEF Fallen, HasRow, Rolling
<1>4. CASE Boot \/ Serve
  <2>1. UNCHANGED <<row, res, task, pc>> /\ (Boot => phase' = "recovering")
    BY <1>4 DEF Boot, Serve, log
  <2>2. Serve => \A r \in Requests : task[r] # "in_progress"
    BY DEF Serve, Interrupted, Logged
  <2>3. QED
    BY <1>4, <2>1, <2>2 DEF Fallen, HasRow
<1>5. ASSUME NEW r \in Requests,
             Writes(r) \/ Keeps(r) \/ CreateRow(r) \/ DestroyRow(r) \/ RollbackRow(r)
      PROVE  /\ Fallen'
             /\ \A q \in Requests : res[q] = crashed => res'[q] = crashed
  <2>1. /\ UNCHANGED phase /\ \A q \in Requests \ {r} : pc'[q] = pc[q] /\ task'[q] = task[q] /\ res'[q] = res[q]
    BY <1>5, WorkStarts, ThreadMoves, Zenon DEF Moves
  <2>2. ASSUME NEW q \in Requests \ {r}, res[q] = crashed
        PROVE  /\ q \in Creates /\ pc'[q] \in Rolling \union {"finish", "done"}
               /\ \/ task'[q] = crashed /\ pc'[q] = "done"
                  \/ task'[q] = "in_progress" /\ phase' # "serving" /\ ~HasRow(Job[q].desk)'
    BY <1>1, <1>2, <2>1, <2>2, Zenon DEF Fallen
  <2>3. ASSUME res[r] = crashed
        PROVE  /\ res'[r] = crashed
               /\ r \in Creates /\ pc'[r] \in Rolling \union {"finish", "done"}
               /\ \/ task'[r] = crashed /\ pc'[r] = "done"
                  \/ task'[r] = "in_progress" /\ phase' # "serving" /\ ~HasRow(Job[r].desk)'
    <3>1. /\ r \in Creates /\ pc[r] \in Rolling \union {"finish", "done"}
          /\ \/ task[r] = crashed /\ pc[r] = "done"
             \/ task[r] = "in_progress" /\ phase # "serving" /\ ~HasRow(Job[r].desk)
      BY <2>3 DEF Fallen
    <3>2. RollbackWorktree(r) \/ RollbackOverlay(r) \/ RollbackRow(r) \/ Finish(r) \/ Recover(r)
      BY <1>5, <3>1, CreateFlow, OtherFlow, Zenon DEF Writes, Keeps, Rolling
    <3>3. ~HasRow(Job[r].desk) /\ phase # "serving" => ~HasRow(Job[r].desk)'
      BY <1>1, <1>2
    <3>4. CASE RollbackWorktree(r) \/ RollbackOverlay(r) \/ RollbackRow(r)
      <4>1. pc[r] # "done" /\ pc'[r] \in Rolling \union {"finish"}
        BY <3>4, OtherFlow, Zenon DEF Rolling
      <4>2. UNCHANGED task /\ res'[r] = crashed
        BY <2>3, <3>4, Zenon DEF RollbackWorktree, RollbackOverlay, RollbackRow, Goto, End, log, TypeOK
      <4>3. QED
        BY <2>1, <3>1, <3>3, <4>1, <4>2
    <3>5. CASE Finish(r)
      BY <2>3, <3>1, <3>5 DEF Finish, Creates, TypeOK
    <3>6. CASE Recover(r)
      <4>1. task[r] = "in_progress" /\ row[Job[r].desk].state # "running"
        BY <3>1, <3>6, Zenon DEF Recover, Earliest, Interrupted, HasRow
      <4>2. Goto(r, "rollback_worktree") /\ UNCHANGED task
        BY <3>1, <3>6, <4>1, Zenon DEF Recover, Creates, log
      <4>3. QED
        BY <2>1, <2>3, <3>1, <3>3, <4>1, <4>2, Zenon DEF Goto, Rolling, TypeOK
    <3>7. QED
      BY <3>2, <3>4, <3>5, <3>6
  <2>4. ASSUME res[r] # crashed, res'[r] = crashed
        PROVE  /\ r \in Creates /\ pc'[r] = "finish"
               /\ task'[r] = "in_progress" /\ phase' # "serving" /\ ~HasRow(Job[r].desk)'
    <3>1. RollbackRow(r)
      BY <1>5, <2>4, CrashedOutcome, Zenon
    <3>2. pc[r] = "rollback_row" /\ pc'[r] = "finish" /\ UNCHANGED task
      BY <3>1, OtherFlow, Zenon DEF RollbackRow, log
    <3>3. r \in Creates /\ task[r] = "in_progress"
      BY <3>2, Zenon DEF Logged, Rolling, Running, Creates
    <3>4. phase # "serving"
      BY <3>2, Zenon DEF Alone, Rolling
    <3>5. ~HasRow(Job[r].desk)'
      BY <1>1, <3>1 DEF RollbackRow, HasRow, NoRow, TypeOK
    <3>6. QED
      BY <2>1, <3>2, <3>3, <3>4, <3>5
  <2>5. QED
    BY <2>1, <2>2, <2>3, <2>4, Zenon DEF Fallen
<1>6. QED
  BY <1>3, <1>4, <1>5, NextSteps, Zenon

\* While a tree is destroyed only its thread moves.
LEMMA TreeAlone ==
  ASSUME TypeOK, Logged, Alone, Next, NEW r \in Requests, pc'[r] = "tree"
  PROVE  /\ Fells(r)
         /\ Writes(r) \/ Keeps(r) \/ CreateRow(r) \/ DestroyRow(r) \/ RollbackRow(r)
<1>1. ~Crash
  BY DEF Crash
<1>2. ASSUME Boot \/ Serve PROVE FALSE
  <2>1. pc[r] = "tree"
    BY <1>2 DEF Boot, Serve
  <2>2. QED
    BY <1>2, <2>1 DEF Boot, Serve, Quiet, Alone, Running
<1>3. ASSUME NEW q \in Requests, q # r,
             Writes(q) \/ Keeps(q) \/ CreateRow(q) \/ DestroyRow(q) \/ RollbackRow(q)
      PROVE  FALSE
  <2>1. pc[r] = "tree" /\ Running(r)
    BY <1>3, WorkStarts DEF Running
  <2>2. ~Running(q) /\ ~Quiet
    BY <1>3, <2>1, DeletesAlone DEF Quiet
  <2>3. Dispatch(q) /\ pc[q] = "new"
    BY <1>3, <2>2, WorkStarts, Zenon
  <2>4. q \in Overlapping
    BY <2>2, <2>3 DEF Dispatch
  <2>5. Job[r].method = "DestroyDesk"
    BY <2>1 DEF Alone
  <2>6. ~NoDestroys /\ ~NoOverlaps
    BY <2>1, <2>3, <2>4, <2>5 DEF NoDestroys, NoOverlaps
  <2>7. QED
    BY <2>6 DEF Alone
<1>4. Writes(r) \/ Keeps(r) \/ CreateRow(r) \/ DestroyRow(r) \/ RollbackRow(r)
  BY <1>1, <1>2, <1>3, NextSteps
<1>5. QED
  BY <1>4, OffTree

\* The steps of _destroy_one, which leave the calls as they are but for the step.
Clears(r) ==
  \/ DestroyStop(r) \/ DestroyContainer(r) \/ DestroyToken(r) \/ DestroyTokenFile(r)
  \/ DestroyWorktree(r) \/ DestroyOverlay(r)

\* What such a step does to the calls.
LEMMA ClearsStack ==
  ASSUME Stacks, NEW r \in Requests, Clears(r)
  PROVE  /\ pc[r] = "tree" /\ stack[r] # <<>> /\ UNCHANGED row
         /\ Top(r) = stack[r][1] /\ Top(r)' = stack'[r][1] /\ 1 \in DOMAIN stack[r]
         /\ Top(r)'.desk = Top(r).desk
         /\ DOMAIN stack'[r] = DOMAIN stack[r]
         /\ \A i \in DOMAIN stack[r] : i > 1 => stack'[r][i] = stack[r][i]
         /\ \/ DestroyStop(r) /\ Top(r).step = "children" /\ Top(r)'.step = "remove" /\ DOMAIN Top(r).kids = {}
            \/ DestroyContainer(r) /\ Top(r).step = "remove" /\ Top(r)'.step = "token"
            \/ DestroyToken(r) /\ Top(r).step = "token" /\ Top(r)'.step = "token_file"
            \/ DestroyTokenFile(r) /\ Top(r).step = "token_file" /\ Top(r)'.step = "worktree"
            \/ DestroyWorktree(r) /\ Top(r).step = "worktree" /\ Top(r)'.step = "overlay"
            \/ DestroyOverlay(r) /\ Top(r).step = "overlay" /\ Top(r)'.step = "row"
<1>1. pc[r] = "tree" /\ UNCHANGED row
  BY DEF Clears, DestroyStop, DestroyContainer, DestroyToken, DestroyTokenFile, DestroyWorktree,
     DestroyOverlay, Next1
<1>2. stack \in [Requests -> Seq(Frames)] /\ stack[r] \in Seq(Frames) /\ stack[r] # <<>>
  BY <1>1 DEF Stacks
<1>3. 1 \in DOMAIN stack[r] /\ stack[r][1] \in Frames /\ Head(stack[r]) = stack[r][1]
  BY <1>2
<1>4. ASSUME NEW l, stack' = [stack EXCEPT ![r][1].step = l]
      PROVE  /\ DOMAIN stack'[r] = DOMAIN stack[r] /\ Head(stack'[r]) = stack'[r][1]
             /\ stack'[r][1].step = l /\ stack'[r][1].desk = stack[r][1].desk
             /\ \A i \in DOMAIN stack[r] : i > 1 => stack'[r][i] = stack[r][i]
  <2>1. stack'[r] = [stack[r] EXCEPT ![1] = [stack[r][1] EXCEPT !.step = l]]
    BY <1>2, <1>3, <1>4
  <2>2. [stack[r][1] EXCEPT !.step = l].step = l /\ [stack[r][1] EXCEPT !.step = l].desk = stack[r][1].desk
    BY <1>3 DEF Frames
  <2>3. stack'[r][1] = [stack[r][1] EXCEPT !.step = l] /\ DOMAIN stack'[r] = DOMAIN stack[r]
    BY <1>2, <1>3, <2>1
  <2>4. \A i \in DOMAIN stack[r] : i > 1 => stack'[r][i] = stack[r][i]
    BY <1>2, <2>1
  <2>5. Head(stack'[r]) = stack'[r][1]
    OBVIOUS
  <2>6. QED
    BY <2>2, <2>3, <2>4, <2>5
<1>5. Top(r) = Head(stack[r]) /\ Top(r)' = Head(stack'[r])
  BY DEF Top
<1>6. \A from, to : Next1(r, from, to) =>
        /\ Top(r).step = from /\ (from = "children" => DOMAIN Top(r).kids = {})
        /\ stack' = [stack EXCEPT ![r][1].step = to]
  BY DEF Next1
<1>7. ASSUME NEW from, NEW to, Next1(r, from, to)
      PROVE  /\ Top(r)' = stack'[r][1] /\ DOMAIN stack'[r] = DOMAIN stack[r]
             /\ Top(r)'.step = to /\ Top(r)'.desk = Top(r).desk
             /\ \A i \in DOMAIN stack[r] : i > 1 => stack'[r][i] = stack[r][i]
             /\ Top(r).step = from /\ (from = "children" => DOMAIN Top(r).kids = {})
  BY <1>3, <1>4, <1>5, <1>6, <1>7
<1>8. /\ DestroyStop(r) => Next1(r, "children", "remove")
      /\ DestroyContainer(r) => Next1(r, "remove", "token")
      /\ DestroyToken(r) => Next1(r, "token", "token_file")
      /\ DestroyTokenFile(r) => Next1(r, "token_file", "worktree")
      /\ DestroyWorktree(r) => Next1(r, "worktree", "overlay")
      /\ DestroyOverlay(r) => Next1(r, "overlay", "row")
  BY Zenon DEF DestroyStop, DestroyContainer, DestroyToken, DestroyTokenFile, DestroyWorktree, DestroyOverlay
<1>9. QED
  BY <1>1, <1>2, <1>3, <1>5, <1>7, <1>8, Zenon DEF Clears

\* The steps that begin a call, or return from one, are at the children of a desk.
LEMMA CallsChildren ==
  ASSUME TypeOK, Stacks, NEW r \in Requests, Fells(r), ~Clears(r), Stacks', pc'[r] = "tree"
  PROVE  Top(r)'.step = "children"
<1>1. stack \in [Requests -> Seq(Frames)] /\ row \in [Desks -> Rows] /\ Job[r].desk \in Desks
  BY JobAssumption, Zenon DEF Stacks, TypeOK
<1>2. Top(r)' = Head(stack'[r])
  BY DEF Top
<1>3. CASE (DestroyLookup(r) \/ Recover(r)) /\ stack'[r] = <<Frame(Job[r].desk, row[Job[r].desk])>>
  BY <1>1, <1>2, <1>3, FrameType
<1>4. CASE DestroyLookup(r)
  <2>1. stack'[r] = <<Frame(Job[r].desk, row[Job[r].desk])>>
    BY <1>1, <1>4, Zenon DEF DestroyLookup, End, TypeOK
  <2>2. QED
    BY <1>3, <1>4, <2>1, Zenon
<1>5. CASE Recover(r)
  <2>1. stack'[r] = <<Frame(Job[r].desk, row[Job[r].desk])>>
    BY <1>1, <1>5, Zenon DEF Recover, End, Goto, TypeOK
  <2>2. QED
    BY <1>3, <1>5, <2>1, Zenon
<1>6. CASE DestroyChild(r)
  <2>1. PICK c \in DOMAIN Top(r).kids : \E y : stack'[r] = <<Frame(c, Top(r).kids[c]), y>> \o Tail(stack[r])
    BY <1>1, <1>6, Zenon DEF DestroyChild, End, Uncaught, TypeOK
  <2>2. PICK y : stack'[r] = <<Frame(c, Top(r).kids[c]), y>> \o Tail(stack[r])
    BY <2>1, Zenon
  <2>3. stack[r] \in Seq(Frames) /\ stack[r] # <<>>
    BY <1>1, <1>6, Zenon DEF DestroyChild, Stacks
  <2>4. Tail(stack[r]) \in Seq(Frames)
    BY <2>3
  <2>5. Head(stack'[r]) = Frame(c, Top(r).kids[c])
    BY <2>2, <2>4
  <2>6. Frame(c, Top(r).kids[c]).step = "children"
    BY DEF Frame
  <2>7. QED
    BY <1>2, <2>5, <2>6
<1>7. CASE DestroyRow(r)
  <2>1. stack[r] \in Seq(Frames) /\ stack[r] # <<>> /\ stack'[r] = Tail(stack[r])
    BY <1>1, <1>7 DEF DestroyRow, Stacks
  <2>2. stack'[r] # <<>>
    BY DEF Stacks
  <2>3. 2 \in DOMAIN stack[r] /\ Head(stack'[r]) = stack[r][2]
    BY <2>1, <2>2
  <2>4. stack[r][2].step = "children"
    BY <2>3 DEF Stacks
  <2>5. QED
    BY <1>2, <2>3, <2>4
<1>8. QED
  BY <1>4, <1>5, <1>6, <1>7 DEF Fells, Clears

\* Who writes tokens, token files and overlays.
LEMMA FileSteps ==
  ASSUME NEW r \in Requests,
         Writes(r) \/ Keeps(r) \/ CreateRow(r) \/ DestroyRow(r) \/ RollbackRow(r)
  PROVE  /\ InsertToken(r) \/ DestroyToken(r) \/ UNCHANGED tokens
         /\ WriteTokenFile(r) \/ DestroyTokenFile(r) \/ UNCHANGED tokFile
         /\ \A d \in overlay' : d \in overlay \/ (d = Job[r].desk /\ (WriteOverlay(r) \/ Resume(r)))
<1> USE DEF disk
<1>1. CASE Writes(r) \/ CreateRow(r) \/ DestroyRow(r) \/ RollbackRow(r)
  BY <1>1, Zenon DEF Writes, LinkParent, RecordWorktree, WriteOverlay, RecordOverlay, Resume, Provision,
     DevcontainerUpFails, RecordRunning, Suspend, CreateRow, DestroyRow, RollbackRow
<1>2. CASE \/ Dispatch(r) \/ CreateLookup(r) \/ SpawnLookup(r) \/ Checkout(r) \/ WriteTokenFile(r)
           \/ InsertToken(r) \/ DevcontainerUp(r) \/ DevcontainerUpRaises(r)
           \/ StopLookup(r) \/ StopContainer(r) \/ Finish(r)
  BY <1>2, Zenon DEF Dispatch, CreateLookup, SpawnLookup, Checkout, WriteTokenFile, InsertToken,
     DevcontainerUp, DevcontainerUpRaises, StopLookup, StopContainer, Finish
<1>3. CASE \/ DestroyLookup(r) \/ DestroyChild(r) \/ DestroyStop(r) \/ DestroyContainer(r)
           \/ DestroyToken(r) \/ DestroyTokenFile(r) \/ DestroyWorktree(r) \/ DestroyOverlay(r)
           \/ Recover(r) \/ RollbackWorktree(r) \/ RollbackOverlay(r)
  BY <1>3, Zenon DEF DestroyLookup, DestroyChild, DestroyStop, DestroyContainer, DestroyToken,
     DestroyTokenFile, DestroyWorktree, DestroyOverlay, Recover, RollbackWorktree, RollbackOverlay
<1>4. QED
  BY <1>1, <1>2, <1>3 DEF Keeps

\* Issuing is preserved.
LEMMA IssuingStep ==
  ASSUME TypeOK, Stacks, Logged, Alone, Founded, Issuing, Next, Stacks'
  PROVE  Issuing'
<1>1. \A r \in Requests : Job[r].desk \in Desks
  BY JobAssumption
<1>2. ASSUME NEW r \in Requests, pc'[r] = "tree", Top(r)'.step \in {"token_file", "worktree", "overlay", "row"}
      PROVE  tokens'[Top(r)'.desk] = None
  <2>1. Fells(r) /\ (Writes(r) \/ Keeps(r) \/ CreateRow(r) \/ DestroyRow(r) \/ RollbackRow(r))
    BY <1>2, TreeAlone
  <2>2. Clears(r)
    BY <1>2, <2>1, CallsChildren
  <2>3. Top(r)'.desk = Top(r).desk /\ pc[r] = "tree" /\ Top(r).desk \in Desks
    BY <2>2, ClearsStack, TopFrame, Zenon
  <2>4. CASE DestroyToken(r)
    BY <2>3, <2>4, Zenon DEF DestroyToken, TypeOK
  <2>5. CASE ~DestroyToken(r)
    <3>1. UNCHANGED tokens
      BY <2>2, <2>5, Zenon DEF Clears, DestroyStop, DestroyContainer, DestroyTokenFile, DestroyWorktree, DestroyOverlay
    <3>2. Top(r).step \in {"token_file", "worktree", "overlay", "row"}
      BY <1>2, <2>2, <2>5, ClearsStack, Zenon
    <3>3. QED
      BY <2>3, <3>1, <3>2, Zenon DEF Issuing
  <2>6. QED
    BY <2>4, <2>5
<1>3. ASSUME NEW r \in Requests, pc'[r] = "token_row"
      PROVE  tokens'[Job[r].desk] = None /\ tokFile'[Job[r].desk] = r
  <2>1. ~Crash
    BY <1>3 DEF Crash
  <2>2. CASE Boot \/ Serve
    BY <1>3, <2>2 DEF Boot, Serve, disk, Issuing
  <2>3. ASSUME NEW q \in Requests, q # r,
               Writes(q) \/ Keeps(q) \/ CreateRow(q) \/ DestroyRow(q) \/ RollbackRow(q)
        PROVE  tokens'[Job[r].desk] = None /\ tokFile'[Job[r].desk] = r
    <3>1. pc[r] = "token_row" /\ Running(r)
      BY <1>3, <2>3, WorkStarts DEF Running
    <3>2. tokens[Job[r].desk] = None /\ tokFile[Job[r].desk] = r
      BY <3>1 DEF Issuing
    <3>3. pc[q] # "tree"
      BY <2>3, <3>1, DeletesAlone
    <3>4. ~DestroyToken(q) /\ ~DestroyTokenFile(q)
      BY <3>3, OtherFlow, Zenon
    <3>5. InsertToken(q) \/ WriteTokenFile(q) => Job[q].desk # Job[r].desk
      <4>1. InsertToken(q) \/ WriteTokenFile(q) => pc[q] \in Founding
        BY CreateFlow, Zenon DEF Founding, Building
      <4>2. pc[r] \in Founding
        BY <3>1 DEF Founding, Building
      <4>3. QED
        BY <2>3, <4>1, <4>2, Zenon DEF Founded
    <3>6. tokens'[Job[r].desk] = tokens[Job[r].desk]
      <4>1. CASE InsertToken(q)
        BY <1>1, <3>5, <4>1, Zenon DEF InsertToken, TypeOK
      <4>2. QED
        BY <2>3, <3>4, <4>1, FileSteps, Zenon
    <3>7. tokFile'[Job[r].desk] = tokFile[Job[r].desk]
      <4>1. CASE WriteTokenFile(q)
        BY <1>1, <3>5, <4>1, Zenon DEF WriteTokenFile, TypeOK
      <4>2. QED
        BY <2>3, <3>4, <4>1, FileSteps, Zenon
    <3>8. QED
      BY <3>2, <3>6, <3>7
  <2>4. ASSUME Writes(r) \/ Keeps(r) \/ CreateRow(r) \/ DestroyRow(r) \/ RollbackRow(r)
        PROVE  tokens'[Job[r].desk] = None /\ tokFile'[Job[r].desk] = r
    <3>1. WriteTokenFile(r)
      BY <1>3, <2>4, CreateFlow, OtherFlow, Zenon DEF Writes, Keeps
    <3>2. QED
      BY <1>1, <1>3, <3>1, Zenon DEF WriteTokenFile, Goto, End, TypeOK
  <2>5. QED
    BY <2>1, <2>2, <2>3, <2>4, NextSteps
<1>4. QED
  BY <1>2, <1>3, Zenon DEF Issuing, Top

\* A token in the table stays the one in the file.
LEMMA UsableStep ==
  ASSUME TypeOK, Stacks, Issuing, TokenUsable, Next
  PROVE  TokenUsable'
<1>1. \A r \in Requests : Job[r].desk \in Desks
  BY JobAssumption
<1>2. CASE Crash \/ Boot \/ Serve
  BY <1>2 DEF Crash, Boot, Serve, disk, TokenUsable
<1>3. ASSUME NEW r \in Requests,
             Writes(r) \/ Keeps(r) \/ CreateRow(r) \/ DestroyRow(r) \/ RollbackRow(r)
      PROVE  TokenUsable'
  <2>1. CASE InsertToken(r)
    BY <1>1, <2>1, Zenon DEF InsertToken, disk, TokenUsable, Issuing, TypeOK
  <2>2. CASE WriteTokenFile(r)
    BY <1>1, <2>2, Zenon DEF WriteTokenFile, TokenUsable, TypeOK
  <2>3. CASE DestroyToken(r)
    BY <2>3 DEF DestroyToken, disk, TokenUsable, TypeOK
  <2>4. CASE DestroyTokenFile(r)
    <3>1. pc[r] = "tree" /\ Top(r).step = "token_file" /\ UNCHANGED tokens
      BY <2>4 DEF DestroyTokenFile, Next1
    <3>2. tokens[Top(r).desk] = None
      BY <3>1 DEF Issuing
    <3>3. QED
      BY <2>4, <3>1, <3>2, Zenon DEF DestroyTokenFile, TokenUsable, TypeOK
  <2>5. QED
    BY <1>3, <2>1, <2>2, <2>3, <2>4, FileSteps, Zenon DEF TokenUsable
<1>4. QED
  BY <1>2, <1>3, NextSteps

\* A desk gains no child while a tree is destroyed.
LEMMA NoNewChild ==
  ASSUME TypeOK, Stacks, Logged, Alone, Next, NEW r \in Requests, pc'[r] = "tree", NEW d \in Desks
  PROVE  Children(d)' \subseteq Children(d)
<1>1. Fells(r) /\ (Writes(r) \/ Keeps(r) \/ CreateRow(r) \/ DestroyRow(r) \/ RollbackRow(r))
  BY TreeAlone
<1>2. pc[r] \in {"tree", "lookup"} \/ ~Running(r)
  BY <1>1, OtherFlow, Zenon DEF Fells
<1>3. ASSUME NEW q \in Requests, Writes(q), pc[q] = "link" PROVE FALSE
  <2>1. Running(q) /\ q # r
    BY <1>2, <1>3 DEF Running
  <2>2. ~Recover(r)
    BY <2>1, Zenon DEF Recover, Quiet
  <2>3. ~DestroyLookup(r)
    BY <1>1, <1>3, <2>1, WorkStarts, CreateFlow, OtherFlow, Zenon DEF Writes
  <2>4. pc[r] = "tree"
    BY <1>1, <2>2, <2>3, OtherFlow, Zenon DEF Fells
  <2>5. QED
    BY <2>1, <2>4, DeletesAlone
<1>4. QED
  BY <1>3, RowChange, Zenon DEF Children

\* Clearing is preserved.
LEMMA ClearingStep ==
  ASSUME TypeOK, Stacks, Logged, Alone, Clearing, Next, Stacks'
  PROVE  Clearing'
<1> DEFINE Held(r, i) == stack[r][i].step = "children" =>
             \A c \in Children(stack[r][i].desk) :
               c \in DOMAIN stack[r][i].kids \/ (i > 1 /\ c = stack[r][i - 1].desk)
<1>1. row \in [Desks -> Rows] /\ \A r \in Requests : Job[r].desk \in Desks
  BY JobAssumption DEF TypeOK
<1>2. ASSUME NEW r \in Requests, pc'[r] = "tree", Clears(r)
      PROVE  /\ Top(r)'.step # "children" => (Children(Top(r).desk) = {})'
             /\ \A i \in DOMAIN stack'[r] : Held(r, i)'
             /\ ~Faults =>
                  /\ Top(r)'.step \in {"worktree", "overlay", "row"} => tokFile'[Top(r)'.desk] = None
                  /\ Top(r)'.step = "row" => Top(r)'.desk \notin overlay'
  <2>1. \A x : Children(x)' = Children(x)
    BY <1>2, ClearsStack DEF Children, HasRow
  <2>2. /\ pc[r] = "tree" /\ Top(r) = stack[r][1] /\ Top(r)' = stack'[r][1]
        /\ 1 \in DOMAIN stack[r] /\ Top(r)'.desk = Top(r).desk
        /\ DOMAIN stack'[r] = DOMAIN stack[r] /\ Top(r)'.step # "children"
        /\ \A i \in DOMAIN stack[r] : i > 1 => stack'[r][i] = stack[r][i]
    BY <1>2, ClearsStack, Zenon
  <2>3. DOMAIN stack[r] = 1..Len(stack[r]) /\ Len(stack[r]) \in Nat
    BY DEF Stacks
  <2>4. \A i \in DOMAIN stack[r] : Held(r, i)
    BY <2>2, Zenon DEF Clearing
  <2>5. Children(Top(r).desk) = {}
    <3>1. CASE Top(r).step # "children"
      BY <2>2, <3>1 DEF Clearing
    <3>2. CASE Top(r).step = "children"
      <4>1. DOMAIN Top(r).kids = {}
        BY <1>2, <3>2, ClearsStack, Zenon
      <4>2. QED
        BY <2>2, <2>4, <3>2, <4>1
    <3>3. QED
      BY <3>1, <3>2
  <2>6. ASSUME NEW i \in DOMAIN stack'[r] PROVE Held(r, i)'
    <3>1. CASE i = 1
      BY <2>2, <3>1
    <3>2. CASE i > 1
      <4>1. i \in DOMAIN stack[r] /\ i - 1 \in DOMAIN stack[r] /\ stack'[r][i] = stack[r][i]
        BY <2>2, <2>3, <2>6, <3>2
      <4>2. stack'[r][i - 1].desk = stack[r][i - 1].desk
        <5>1. CASE i = 2
          BY <2>2, <5>1
        <5>2. CASE i > 2
          BY <2>2, <2>3, <4>1, <5>2
        <5>3. QED
          BY <2>2, <2>3, <2>6, <3>2, <5>1, <5>2
      <4>3. QED
        BY <2>1, <2>4, <4>1, <4>2
    <3>3. QED
      BY <2>2, <2>3, <2>6, <3>1, <3>2
  <2>7. ASSUME ~Faults, Top(r)'.step \in {"worktree", "overlay", "row"}
        PROVE  tokFile'[Top(r).desk] = None
    <3>1. CASE DestroyTokenFile(r)
      BY <2>2, <2>7, <3>1, TopFrame, Zenon DEF DestroyTokenFile, Partial, TypeOK, Stacks
    <3>2. CASE DestroyWorktree(r) \/ DestroyOverlay(r)
      <4>1. UNCHANGED tokFile
        BY <3>2 DEF DestroyWorktree, DestroyOverlay
      <4>2. Top(r).step \in {"worktree", "overlay"}
        BY <3>2 DEF DestroyWorktree, DestroyOverlay, Next1
      <4>3. QED
        BY <2>2, <2>7, <4>1, <4>2, Zenon DEF Clearing
    <3>3. QED
      BY <1>2, <2>7, <3>1, <3>2, ClearsStack, Zenon
  <2>8. ASSUME ~Faults, Top(r)'.step = "row" PROVE Top(r).desk \notin overlay'
    <3>1. DestroyOverlay(r)
      BY <1>2, <2>8, ClearsStack, Zenon
    <3>2. QED
      BY <2>8, <3>1 DEF DestroyOverlay, Partial
  <2>9. (Children(Top(r).desk) = {})'
    BY <2>1, <2>2, <2>5
  <2>10. QED
    BY <2>2, <2>6, <2>7, <2>8, <2>9, Zenon
<1>3. ASSUME NEW r \in Requests, pc'[r] = "tree", Fells(r), ~Clears(r)
      PROVE  \A i \in DOMAIN stack'[r] : Held(r, i)'
  <2> DEFINE s == stack[r]
             t == stack'[r]
  <2>1. CASE DestroyLookup(r) \/ Recover(r)
    <3> DEFINE d == Job[r].desk
    <3>1. t = <<Frame(d, row[d])>> /\ UNCHANGED row
      BY <1>1, <1>3, <2>1, OtherFlow, Zenon DEF DestroyLookup, Recover, End, Goto, Stacks, TypeOK
    <3>2. \A x : Children(x)' = Children(x)
      BY <3>1, Zenon DEF Children, HasRow
    <3>3. DOMAIN t = {1} /\ t[1].desk = d /\ DOMAIN t[1].kids = Children(d)
      BY <1>1, <3>1, FrameType
    <3>4. QED
      BY <3>2, <3>3
  <2>2. CASE DestroyChild(r)
    <3>1. pc[r] = "tree" /\ s \in Seq(Frames) /\ s # <<>> /\ UNCHANGED row /\ Top(r).step = "children"
      BY <2>2, Zenon DEF DestroyChild, Stacks
    <3>2. Top(r) = s[1] /\ s[1] \in Frames /\ 1 \in DOMAIN s /\ DOMAIN s = 1..Len(s) /\ Len(s) \in Nat
      BY <3>1 DEF Top
    <3>3. PICK c \in DOMAIN Top(r).kids :
            t = <<Frame(c, Top(r).kids[c]),
                  [Top(r) EXCEPT !.kids = [k \in DOMAIN Top(r).kids \ {c} |-> Top(r).kids[k]]]>> \o Tail(s)
      BY <1>3, <2>2, Zenon DEF DestroyChild, End, Uncaught, Stacks, TypeOK
    <3> DEFINE rest == [k \in DOMAIN Top(r).kids \ {c} |-> Top(r).kids[k]]
               y == [Top(r) EXCEPT !.kids = rest]
               f == Frame(c, Top(r).kids[c])
    <3>4. y.desk = s[1].desk /\ DOMAIN y.kids = DOMAIN s[1].kids \ {c}
      BY <3>2 DEF Frames
    <3>5. f.desk = c /\ DOMAIN f.kids = Children(c)
      BY DEF Frame
    <3>6. t = <<f, y>> \o Tail(s)
      BY <3>3
    <3> HIDE DEF y, f
    <3>7. /\ DOMAIN t = 1..(Len(s) + 1) /\ t[1] = f /\ t[2] = y
          /\ \A i \in 3..(Len(s) + 1) : t[i] = s[i - 1]
      <4>1. Tail(s) \in Seq(Frames) /\ Len(Tail(s)) = Len(s) - 1
            /\ \A i \in 1..(Len(s) - 1) : Tail(s)[i] = s[i + 1]
        BY <3>1
      <4>2. /\ Len(t) = Len(s) + 1 /\ DOMAIN t = 1..Len(t) /\ t[1] = f /\ t[2] = y
            /\ \A i \in 3..Len(t) : t[i] = Tail(s)[i - 2]
        BY <3>6, <4>1
      <4>3. QED
        BY <3>2, <4>1, <4>2
    <3>8. \A x : Children(x)' = Children(x)
      BY <3>1 DEF Children, HasRow
    <3>9. \A i \in DOMAIN s : Held(r, i)
      BY <3>1 DEF Clearing
    <3>10. ASSUME NEW i \in DOMAIN t PROVE Held(r, i)'
      <4>1. CASE i = 1
        BY <3>5, <3>7, <3>8, <4>1
      <4>2. CASE i = 2
        BY <3>1, <3>2, <3>4, <3>5, <3>7, <3>8, <3>9, <4>2
      <4>3. CASE i = 3
        <5>1. t[3] = s[2] /\ t[2].desk = s[1].desk /\ 2 \in DOMAIN s
          BY <3>2, <3>4, <3>7, <3>10, <4>3
        <5>2. QED
          BY <3>8, <3>9, <4>3, <5>1
      <4>4. CASE i > 3
        <5>1. {i, i - 1} \subseteq 3..(Len(s) + 1) /\ i - 1 \in DOMAIN s /\ i > 1
          BY <3>2, <3>7, <3>10, <4>4
        <5>2. t[i] = s[i - 1] /\ t[i - 1] = s[(i - 1) - 1]
          BY <3>7, <5>1
        <5>3. Held(r, i - 1)
          BY <3>9, <5>1
        <5>4. QED
          BY <3>8, <4>4, <5>1, <5>2, <5>3
      <4>5. QED
        BY <3>2, <3>7, <3>10, <4>1, <4>2, <4>3, <4>4
    <3>11. QED
      BY <3>10, Zenon
  <2>3. CASE DestroyRow(r)
    <3>1. pc[r] = "tree" /\ s \in Seq(Frames) /\ s # <<>> /\ t = Tail(s)
      BY <2>3 DEF DestroyRow, Stacks
    <3>2. Top(r) = s[1] /\ s[1] \in Frames /\ Len(s) \in Nat \ {0} /\ DOMAIN s = 1..Len(s)
      BY <3>1 DEF Top
    <3>3. DOMAIN t = 1..(Len(s) - 1) /\ \A i \in 1..(Len(s) - 1) : t[i] = s[i + 1]
      BY <3>1, <3>2
    <3>4. s[1].desk \in Desks
      BY <3>2 DEF Frames
    <3>5. \A x : Children(x)' \subseteq Children(x) \ {s[1].desk}
      BY <1>1, <2>3, <3>2, <3>4, Zenon DEF DestroyRow, Children, HasRow, NoRow
    <3>6. \A i \in DOMAIN s : Held(r, i)
      BY <3>1, Zenon DEF Clearing
    <3>7. ASSUME NEW i \in DOMAIN t PROVE Held(r, i)'
      <4>1. /\ t[i] = s[i + 1] /\ i + 1 \in DOMAIN s /\ (i + 1) - 1 = i
            /\ i \in Nat /\ i + 1 > 1
        BY <3>2, <3>3, <3>7
      <4>2. ASSUME s[i + 1].step = "children", NEW x \in Children(s[i + 1].desk), x # s[1].desk
            PROVE  x \in DOMAIN s[i + 1].kids \/ (i > 1 /\ x = s[i].desk)
        <5>1. Held(r, i + 1)
          BY <3>6, <4>1
        <5>2. i = 1 \/ i > 1
          BY <3>2, <3>3, <3>7
        <5>3. QED
          BY <4>1, <4>2, <5>1, <5>2
      <4>3. i > 1 => t[i - 1] = s[i]
        <5>1. i > 1 => i - 1 \in 1..(Len(s) - 1) /\ (i - 1) + 1 = i
          BY <3>2, <3>3, <3>7
        <5>2. QED
          BY <3>3, <5>1
      <4>4. QED
        BY <3>5, <4>1, <4>2, <4>3
    <3>8. QED
      BY <3>7
  <2>4. QED
    BY <1>3, <2>1, <2>2, <2>3, Zenon DEF Fells, Clears
<1>4. ASSUME NEW r \in Requests, pc'[r] = "tree", Fells(r), ~Clears(r)
      PROVE  Top(r)'.step = "children"
  BY <1>4, CallsChildren
<1>5. \A r \in Requests : pc'[r] = "tree" => Fells(r)
  BY TreeAlone
<1> DEFINE Cleared(r) ==
             /\ Top(r).step # "children" => Children(Top(r).desk) = {}
             /\ \A i \in DOMAIN stack[r] : Held(r, i)
             /\ ~Faults =>
                  /\ Top(r).step \in {"worktree", "overlay", "row"} => tokFile[Top(r).desk] = None
                  /\ Top(r).step = "row" => Top(r).desk \notin overlay
<1> HIDE DEF Held
<1>6. \A r \in Requests : pc'[r] = "tree" => Cleared(r)'
  BY <1>2, <1>3, <1>4, <1>5, Zenon
<1>7. QED
  BY <1>6, Zenon DEF Clearing, Held

\* What a desk owns goes before its row, and nothing is added when that is gone.
LEMMA OutlivesStep ==
  ASSUME TypeOK, Stacks, Logged, Alone, Founded, Fallen, Issuing, Clearing, NothingOutlivesRow, Next
  PROVE  NothingOutlivesRow'
<1>1. \A r \in Requests : Job[r].desk \in Desks
  BY JobAssumption
<1>2. SUFFICES ASSUME NEW d \in Desks, ~HasRow(d)', ~RolledBack(d)'
               PROVE  /\ tokens'[d] = None /\ Children(d)' = {}
                      /\ Faults \/ (tokFile'[d] = None /\ d \notin overlay')
  BY Zenon DEF NothingOutlivesRow
<1>3. ~RolledBack(d)
  BY <1>2, FallenStep, Zenon DEF RolledBack
<1>4. CASE HasRow(d)
  <2>1. PICK r \in Requests : DestroyRow(r) /\ Top(r).desk = d
    <3>1. PICK r \in Requests : \/ DestroyRow(r) /\ Top(r).desk = d
                                \/ RollbackRow(r) /\ Job[r].desk = d
      BY <1>2, <1>4, RowChange
    <3>2. ASSUME RollbackRow(r), Job[r].desk = d PROVE FALSE
      <4>1. res'[r] = "crashed_during_create"
        BY <3>2 DEF RollbackRow, End, TypeOK
      <4>2. QED
        BY <1>2, <3>2, <4>1 DEF RolledBack
    <3>3. QED
      BY <3>1, <3>2
  <2>2. pc[r] = "tree" /\ Top(r).step = "row" /\ UNCHANGED <<tokens, tokFile, overlay>>
    BY <2>1 DEF DestroyRow, disk
  <2>3. tokens[d] = None
    BY <2>1, <2>2 DEF Issuing
  <2>4. Children(d) = {} /\ (~Faults => tokFile[d] = None /\ d \notin overlay)
    BY <2>1, <2>2 DEF Clearing
  <2>5. Children(d)' \subseteq Children(d)
    BY <2>1, Zenon DEF DestroyRow, Children, HasRow, NoRow, TypeOK
  <2>6. QED
    BY <2>2, <2>3, <2>4, <2>5, Zenon
<1>5. CASE ~HasRow(d)
  <2>1. tokens[d] = None /\ Children(d) = {} /\ (Faults \/ (tokFile[d] = None /\ d \notin overlay))
    BY <1>3, <1>5, Zenon DEF NothingOutlivesRow
  <2>2. \A r \in Requests : pc[r] \in Building => Job[r].desk # d
    BY <1>5 DEF Founded
  <2>3. Children(d)' = {}
    <3>1. ASSUME NEW c \in Desks, c \in Children(d)' PROVE FALSE
      <4>1. PICK r \in Requests : pc[r] = "link" /\ Job[r].parent = d
        BY <2>1, <3>1, RowChange, Zenon
      <4>2. QED
        BY <1>5, <4>1, JobAssumption DEF Founded
    <3>2. QED
      BY <3>1 DEF Children
  <2>4. CASE Crash \/ Boot \/ Serve
    BY <2>1, <2>3, <2>4 DEF Crash, Boot, Serve, disk
  <2>5. ASSUME NEW r \in Requests,
               Writes(r) \/ Keeps(r) \/ CreateRow(r) \/ DestroyRow(r) \/ RollbackRow(r)
        PROVE  /\ tokens'[d] = None
               /\ Faults \/ (tokFile'[d] = None /\ d \notin overlay')
    <3>1. InsertToken(r) \/ WriteTokenFile(r) \/ WriteOverlay(r) \/ Resume(r) => Job[r].desk # d
      BY <2>2, CreateFlow, Zenon DEF Building
    <3>2. tokens'[d] = None
      <4>1. CASE InsertToken(r)
        BY <1>1, <2>1, <3>1, <4>1, Zenon DEF InsertToken, TypeOK
      <4>2. CASE DestroyToken(r)
        BY <2>1, <4>2, Zenon DEF DestroyToken, TypeOK
      <4>3. QED
        BY <2>1, <2>5, <4>1, <4>2, FileSteps, Zenon
    <3>3. tokFile[d] = None => tokFile'[d] = None
      <4>1. CASE WriteTokenFile(r)
        BY <1>1, <3>1, <4>1, Zenon DEF WriteTokenFile, TypeOK
      <4>2. CASE DestroyTokenFile(r)
        BY <4>2, Zenon DEF DestroyTokenFile, TypeOK
      <4>3. QED
        BY <2>5, <4>1, <4>2, FileSteps
    <3>4. d \notin overlay => d \notin overlay'
      BY <2>5, <3>1, FileSteps
    <3>5. QED
      BY <2>1, <3>2, <3>3, <3>4
  <2>6. QED
    BY <2>3, <2>4, <2>5, NextSteps, Zenon
<1>6. QED
  BY <1>4, <1>5

\* AloneInv holds at the start.
LEMMA InitAlone ==
  ASSUME DestroysAlone, Init
  PROVE  AloneInv
<1>1. IInv
  BY InitIInv
<1>2. \A r \in Requests : pc[r] \in {"new", "done"} /\ res[r] = "none" /\ task[r] = "absent"
  BY DEF Init
<1>3. PICK sent \in Arrivals : pc = [r \in Requests |-> IF r \in sent THEN "new" ELSE "done"]
  BY DEF Init
<1>4. NoDestroys \/ NoOverlaps
  <2>1. CASE sent \intersect Overlapping = {}
    BY <1>2, <1>3, <2>1, BoundsAssumption DEF NoOverlaps
  <2>2. CASE \A r \in sent : Job[r].method # "DestroyDesk"
    BY <1>2, <1>3, <2>2 DEF NoDestroys
  <2>3. QED
    BY <1>3, <2>1, <2>2 DEF DestroysAlone
<1>5. Alone /\ Founded /\ Fallen /\ Issuing /\ Clearing
  BY <1>2, <1>4, Zenon DEF Alone, Running, Rolling, Founded, Founding, Building, Fallen, Issuing, Clearing
<1>6. TokenUsable
  BY DEF Init, TokenUsable
<1>7. NothingOutlivesRow
  <2>1. \A d \in Desks : ~HasRow(d) /\ tokens[d] = None /\ tokFile[d] = None /\ overlay = {}
    BY DEF Init, HasRow, NoRow
  <2>2. QED
    BY <2>1 DEF NothingOutlivesRow, Children
<1>8. QED
  BY <1>1, <1>5, <1>6, <1>7 DEF AloneInv

\* Every step preserves it.
LEMMA NextAlone ==
  ASSUME AloneInv, [Next]_vars
  PROVE  AloneInv'
<1>1. IInv'
  BY NextIInv DEF AloneInv
<1>2. CASE UNCHANGED vars
  <2>1. /\ UNCHANGED <<row, tokens, tokFile, overlay, task, phase, pc, stack, res>>
    BY <1>2 DEF vars, disk, log, local
  <2>2. Alone' /\ Founded' /\ Fallen'
    BY <2>1, Zenon DEF AloneInv, Alone, NoDestroys, NoOverlaps, Running, Founded, HasRow, Fallen
  <2>3. Issuing' /\ TokenUsable' /\ NothingOutlivesRow'
    BY <2>1, Zenon DEF AloneInv, Issuing, Top, TokenUsable, NothingOutlivesRow, HasRow, RolledBack, Children
  <2>4. Clearing'
    <3>1. /\ \A d : Children(d)' = Children(d)
          /\ \A r : Top(r)' = Top(r)
      BY <2>1 DEF Children, HasRow, Top
    <3>2. QED
      BY <2>1, <3>1 DEF AloneInv, Clearing
  <2>5. QED
    BY <1>1, <2>2, <2>3, <2>4 DEF AloneInv
<1>3. CASE Next
  <2>1. TypeOK /\ Stacks /\ Logged /\ Stacks'
    BY <1>1 DEF AloneInv, IInv
  <2>2. Alone' /\ Founded' /\ Fallen'
    BY <1>3, <2>1, AloneStep, FoundedStep, FallenStep DEF AloneInv
  <2>3. Issuing' /\ Clearing'
    BY <1>3, <2>1, IssuingStep, ClearingStep DEF AloneInv
  <2>4. TokenUsable' /\ NothingOutlivesRow'
    BY <1>3, <2>1, UsableStep, OutlivesStep DEF AloneInv
  <2>5. QED
    BY <1>1, <2>2, <2>3, <2>4 DEF AloneInv
<1>4. QED
  BY <1>2, <1>3

\* Where no DestroyDesk overlaps with another request, the token in the tokens table is the
\* one in the desk's file, however desks are created, stopped, destroyed, rolled back and
\* replayed, and wherever the daemon crashes (issue_token_for_desk, _destroy_one).
THEOREM TokensUsable ==
  ASSUME DestroysAlone
  PROVE  Spec => []TokenUsable
<1>1. Init => AloneInv
  BY InitAlone
<1>2. AloneInv /\ [Next]_vars => AloneInv'
  BY NextAlone
<1>3. AloneInv => TokenUsable
  BY DEF AloneInv
<1>4. QED
  BY <1>1, <1>2, <1>3, PTL DEF Spec

\* There, too, no token, file, overlay or child is left of a desk without a row, unless its
\* create was rolled back, for trees of any depth (_destroy_tree, replayed by recovery.py).
THEOREM NothingLeft ==
  ASSUME DestroysAlone
  PROVE  Spec => []NothingOutlivesRow
<1>1. Init => AloneInv
  BY InitAlone
<1>2. AloneInv /\ [Next]_vars => AloneInv'
  BY NextAlone
<1>3. AloneInv => NothingOutlivesRow
  BY DEF AloneInv
<1>4. QED
  BY <1>1, <1>2, <1>3, PTL DEF Spec
=============================================================================
