--------------------------- MODULE CommandsProofs ---------------------------
(***************************************************************************)
(* Proofs about the principal's commands, for any number of processes,     *)
(* desks, yards, amendments and daemons: those of Records, and those that  *)
(* start and stop the daemon (DaemonProcess, as Process).                  *)
(***************************************************************************)
EXTENDS MCCommands, FiniteSetTheorems, TLAPS

-----------------------------------------------------------------------------
(* Records *)

DeskSteps == {"token", "check", "revoke", "scope", "mirror", "unlink"}
YardIds == {Slug[n] : n \in Names}
DeskRows == [yard : YardIds \union {None}, here : BOOLEAN]
Steps ==
  {Idle} \union [at : DeskSteps, desk : Desks]
  \union [at : {"join"}, desk : Desks, yard : YardIds]
  \union [at : {"found"}, name : Names]
  \union [at : {"disband"}, name : Names, members : SUBSET Desks]
  \union [at : {"review"}, id : Amendments, to : {"approved", "denied"}, read : Open]
Decisions == {"none", "expired", "denied", "pending", "approved", "auto_approved", "escalated"}

\* Rows, tokens, amendments and the steps of processes have their types.
RecordTypes ==
  /\ row \in [Desks -> DeskRows]
  /\ token \in [Desks -> [secret : Nat, scope : {"none", "dock", "auditor"}]] /\ issued \in Nat
  /\ yards \subseteq Names
  /\ amendment \in [Amendments -> [status : Decisions, by : {None, "principal"},
                                   note : {None, "denial"}]]
  /\ proc \in [Procs -> Steps]

\* Until two designations overlap there is one auditor, and a designation that has
\* passed the check is the only desk that may become or be one.
Sole ==
  "scope" \notin crossed =>
    /\ \A d, e \in Auditors : d = e
    /\ \A p \in Procs : At(p, "scope") => Auditors \subseteq {proc[p].desk}

\* A token belongs to a desk that exists, and the scope to one that was designated.
Scoped ==
  "token" \notin crossed =>
    \A d \in Desks \ abandoned :
      /\ token[d] # NoToken => row[d].here
      /\ token[d].scope = "auditor" => d \in designated

\* Until a desk joins a yard while it is destroyed, the yards that desks are in or about
\* to join exist, and a destroy knows all members.
Joined ==
  /\ \A d \in Desks : ~row[d].here => row[d].yard = None
  /\ "yard" \notin crossed =>
       /\ \A d \in Desks : row[d].yard \in Ids \union {None}
       /\ \A p \in Procs : At(p, "join") => proc[p].yard \in Ids
       /\ \A p \in Procs : At(p, "disband") =>
            \A d \in Desks : row[d].yard \in {Slug[proc[p].name]} \ {None}
                               => d \in proc[p].members

\* The inductive invariant.
RecordsInv == RecordTypes /\ Sole /\ Scoped /\ Joined
-----------------------------------------------------------------------------
\* The steps of a process, by what they change of a desk, of its token, of the yards and
\* of the amendments, beside the process itself.
Quiet(p) ==
  \/ Kill(p) \/ CheckAuditor(p) \/ CopyToken(p) \/ UnlinkMirror(p)
  \/ \E d \in Desks : Designate(p, d)
  \/ \E n \in Names : CreateYard(p, n) \/ DestroyYard(p, n)
  \/ \E a \in Amendments : Review(p, a)
RowStep(p) ==
  \/ \E d \in Desks : CreateDesk(p, d) \/ CreateDirect(p, d) \/ DestroyDirect(p, d)
  \/ JoinYard(p)
TokenStep(p) == IssueToken(p) \/ SetScope(p) \/ RevokeScope(p)
YardStep(p) == InsertYard(p) \/ DeleteYard(p)
AmendmentStep(p) == UpdateStatus(p) \/ \E a \in Amendments : File(p, a) \/ Expire(p, a)

\* Every step of a process is one of these, or destroys a desk.
LEMMA NextSteps ==
  ASSUME Next
  PROVE  \E p \in Procs :
           \/ Quiet(p) \/ RowStep(p) \/ TokenStep(p) \/ YardStep(p) \/ AmendmentStep(p)
           \/ \E d \in Desks : DestroyDesk(p, d)
  BY DEF Next, Quiet, RowStep, TokenStep, YardStep, AmendmentStep

\* What a process knows at each of its steps.
LEMMA StepFields ==
  ASSUME NEW s \in Steps
  PROVE  /\ s.at \in DeskSteps \union {"join"} => s.desk \in Desks
         /\ s.at = "join" => s.yard \in YardIds
         /\ s.at \in {"found", "disband"} => s.name \in Names
         /\ s.at = "review" => s.id \in Amendments /\ s.read \in Open
  BY DEF Steps, DeskSteps, Idle

\* A process goes from one of its steps to another.
LEMMA ProcStep ==
  ASSUME RecordsInv, Next
  PROVE  proc' \in [Procs -> Steps]
<1> USE DEF Start, Goto, At, Idle, RecordsInv, RecordTypes, Steps, DeskSteps
<1> PICK p \in Procs :
      \/ Quiet(p) \/ RowStep(p) \/ TokenStep(p) \/ YardStep(p) \/ AmendmentStep(p)
      \/ \E d \in Desks : DestroyDesk(p, d)
  BY NextSteps
<1> SUFFICES \E s \in Steps : proc' = [proc EXCEPT ![p] = s]
  OBVIOUS
<1>1. CASE \/ Kill(p) \/ IssueToken(p) \/ CopyToken(p) \/ UnlinkMirror(p)
           \/ YardStep(p) \/ UpdateStatus(p)
  BY <1>1 DEF Kill, IssueToken, CopyToken, UnlinkMirror, YardStep, InsertYard, DeleteYard,
              UpdateStatus
<1>2. CASE CheckAuditor(p) \/ SetScope(p) \/ RevokeScope(p)
  <2>1. proc[p].at \in DeskSteps
    BY <1>2 DEF CheckAuditor, SetScope, RevokeScope
  <2>2. \A x \in DeskSteps : [proc[p] EXCEPT !.at = x] \in Steps
    BY <2>1
  <2>3. \/ proc' = [proc EXCEPT ![p] = Idle]
        \/ \E x \in DeskSteps : proc' = [proc EXCEPT ![p] = [proc[p] EXCEPT !.at = x]]
    BY <1>2 DEF CheckAuditor, SetScope, RevokeScope
  <2>4. Idle \in Steps
    OBVIOUS
  <2> HIDE DEF Steps, Idle
  <2>5. QED
    BY <2>2, <2>3, <2>4
<1>3. CASE JoinYard(p)
  <2> HIDE DEF Steps
  <2>1. proc[p].desk \in Desks
    BY <1>3, StepFields DEF JoinYard
  <2>2. [at |-> "token", desk |-> proc[p].desk] \in Steps
    BY <2>1 DEF Steps
  <2>3. QED
    BY <1>3, <2>2, Zenon DEF JoinYard
<1>4. CASE \E d \in Desks : CreateDirect(p, d) \/ DestroyDesk(p, d) \/ DestroyDirect(p, d)
  BY <1>4 DEF CreateDirect, DestroyDesk, DestroyDirect
<1>5. CASE \E d \in Desks : Designate(p, d)
  BY <1>5, Zenon DEF Designate
<1>6. CASE \E d \in Desks : CreateDesk(p, d)
  BY <1>6 DEF CreateDesk, YardIds
<1>7. CASE \E n \in Names : CreateYard(p, n) \/ DestroyYard(p, n)
  BY <1>7 DEF CreateYard, DestroyYard, Members
<1>8. CASE \E a \in Amendments : Review(p, a)
  BY <1>8, Zenon DEF Review, Open
<1>9. CASE \E a \in Amendments : File(p, a) \/ Expire(p, a)
  BY <1>9 DEF File, Expire
<1>10. QED
  BY <1>1, <1>2, <1>3, <1>4, <1>5, <1>6, <1>7, <1>8, <1>9
  DEF Quiet, RowStep, TokenStep, AmendmentStep

\* What is in the registry keeps its type.
LEMMA RegistryStep ==
  ASSUME RecordsInv, Next
  PROVE  RecordTypes'
<1> USE DEF RecordsInv, RecordTypes, tokens
<1> PICK p \in Procs :
      \/ Quiet(p) \/ RowStep(p) \/ TokenStep(p) \/ YardStep(p) \/ AmendmentStep(p)
      \/ \E d \in Desks : DestroyDesk(p, d)
  BY NextSteps
<1>1. proc' \in [Procs -> Steps]
  BY ProcStep
<1>2. CASE Quiet(p)
  BY <1>1, <1>2, Zenon DEF Quiet, Kill, CheckAuditor, CopyToken, UnlinkMirror, Designate, CreateYard,
                    DestroyYard, Review
<1>3. CASE RowStep(p)
  <2>1. CASE \E d \in Desks : CreateDesk(p, d) \/ CreateDirect(p, d)
    <3>1. PICK d \in Desks : row' = [row EXCEPT ![d].here = TRUE]
      BY <2>1 DEF CreateDesk, CreateDirect
    <3>2. [row[d] EXCEPT !.here = TRUE] \in DeskRows
      BY Zenon DEF DeskRows
    <3>3. row' \in [Desks -> DeskRows]
      BY <3>1, <3>2
    <3>4. QED
      BY <1>1, <2>1, <3>3 DEF CreateDesk, CreateDirect
  <2>2. CASE \E d \in Desks : DestroyDirect(p, d)
    BY <1>1, <2>2 DEF DestroyDirect, NoRow, DeskRows
  <2>3. CASE JoinYard(p)
    BY <1>1, <2>3 DEF JoinYard, At, Steps, DeskSteps, DeskRows, Idle
  <2>4. QED
    BY <1>3, <2>1, <2>2, <2>3 DEF RowStep
<1>4. CASE TokenStep(p)
  BY <1>1, <1>4 DEF TokenStep, IssueToken, SetScope, RevokeScope, At, Steps, DeskSteps, Idle
<1>5. CASE YardStep(p)
  <2>1. CASE InsertYard(p)
    BY <1>1, <2>1 DEF InsertYard, At, Steps, DeskSteps, Idle
  <2>2. CASE DeleteYard(p)
    <3>1. \A d \in Desks : [row[d] EXCEPT !.yard = None] \in DeskRows
      BY DEF DeskRows
    <3>2. row' \in [Desks -> DeskRows]
      BY <2>2, <3>1 DEF DeleteYard
    <3>3. QED
      BY <1>1, <2>2, <3>2 DEF DeleteYard
  <2>3. QED
    BY <1>5, <2>1, <2>2 DEF YardStep
<1>6. CASE AmendmentStep(p)
  <2>1. CASE UpdateStatus(p)
    BY <1>1, <2>1 DEF UpdateStatus, At, Steps, DeskSteps, Idle, Decisions
  <2>2. ASSUME NEW a \in Amendments, File(p, a) PROVE RecordTypes'
    BY <1>1, <2>2 DEF File, Decisions
  <2>3. ASSUME NEW a \in Amendments, Expire(p, a) PROVE RecordTypes'
    BY <1>1, <2>3 DEF Expire, Decisions
  <2>4. QED
    BY <1>6, <2>1, <2>2, <2>3 DEF AmendmentStep
<1>7. CASE \E d \in Desks : DestroyDesk(p, d)
  BY <1>1, <1>7 DEF DestroyDesk, NoRow, NoToken, DeskRows
<1>8. QED
  BY <1>2, <1>3, <1>4, <1>5, <1>6, <1>7

\* Until two designations overlap, there is one auditor.
LEMMA SoleStep ==
  ASSUME RecordsInv, Next
  PROVE  Sole'
<1> USE DEF RecordsInv, RecordTypes, Sole, Auditors, At, Start, Goto, Idle, tokens, history
<1> PICK p \in Procs :
      \/ Quiet(p) \/ RowStep(p) \/ TokenStep(p) \/ YardStep(p) \/ AmendmentStep(p)
      \/ \E d \in Desks : DestroyDesk(p, d)
  BY NextSteps
<1> DEFINE Elsewhere == /\ UNCHANGED token /\ crossed \subseteq crossed'
                        /\ \E s : proc' = [proc EXCEPT ![p] = s] /\ s.at # "scope"
<1>1. Elsewhere => Sole'
  OBVIOUS
<1>2. CASE Quiet(p) /\ ~CheckAuditor(p)
  <2>1. CASE Kill(p) \/ CopyToken(p) \/ UnlinkMirror(p)
    BY <1>1, <2>1 DEF Kill, CopyToken, UnlinkMirror
  <2>2. CASE \E d \in Desks : Designate(p, d)
    BY <1>1, <2>2 DEF Designate
  <2>3. CASE \E n \in Names : CreateYard(p, n) \/ DestroyYard(p, n)
    BY <1>1, <2>3 DEF CreateYard, DestroyYard
  <2>4. CASE \E a \in Amendments : Review(p, a)
    BY <1>1, <2>4 DEF Review
  <2>5. QED
    BY <1>2, <2>1, <2>2, <2>3, <2>4 DEF Quiet
<1>3. CASE YardStep(p) \/ AmendmentStep(p)
  <2>1. Elsewhere
    BY <1>3 DEF YardStep, InsertYard, DeleteYard, AmendmentStep, UpdateStatus, File, Expire
  <2>2. QED
    BY <1>1, <2>1
<1>4. CASE RowStep(p)
  <2>1. Elsewhere
    BY <1>4 DEF RowStep, CreateDesk, CreateDirect, DestroyDirect, JoinYard
  <2>2. QED
    BY <1>1, <2>1
<1>5. CASE \E d \in Desks : DestroyDesk(p, d)
  BY <1>5 DEF DestroyDesk, NoToken
<1>6. CASE CheckAuditor(p)
  BY <1>6 DEF CheckAuditor, Steps, DeskSteps
<1>7. CASE IssueToken(p)
  BY <1>7 DEF IssueToken, Steps, DeskSteps
<1>8. CASE SetScope(p)
  BY <1>8 DEF SetScope, Others, Steps, DeskSteps
<1>9. CASE RevokeScope(p)
  BY <1>9 DEF RevokeScope, Steps, DeskSteps
<1>10. QED
  BY <1>2, <1>3, <1>4, <1>5, <1>6, <1>7, <1>8, <1>9 DEF Quiet, TokenStep

\* A token belongs to a desk that exists, and the scope to one that was designated.
LEMMA ScopedStep ==
  ASSUME RecordsInv, Next
  PROVE  Scoped'
<1> USE DEF RecordsInv, RecordTypes, Scoped, tokens, history
<1> PICK p \in Procs :
      \/ Quiet(p) \/ RowStep(p) \/ TokenStep(p) \/ YardStep(p) \/ AmendmentStep(p)
      \/ \E d \in Desks : DestroyDesk(p, d)
  BY NextSteps
<1>1. CASE Quiet(p)
  BY <1>1, Zenon DEF Quiet, Kill, CheckAuditor, CopyToken, UnlinkMirror, Designate, CreateYard,
              DestroyYard, Review
<1>2. CASE AmendmentStep(p) \/ InsertYard(p)
  BY <1>2 DEF AmendmentStep, UpdateStatus, File, Expire, InsertYard
<1>3. CASE DeleteYard(p)
  BY <1>3 DEF DeleteYard, DeskRows
<1>4. CASE \E d \in Desks : CreateDesk(p, d) \/ CreateDirect(p, d)
  BY <1>4 DEF CreateDesk, CreateDirect, DeskRows, NoToken
<1>5. CASE \E d \in Desks : DestroyDirect(p, d)
  BY <1>5 DEF DestroyDirect
<1>6. CASE JoinYard(p)
  BY <1>6 DEF JoinYard, DeskRows
<1>7. CASE \E d \in Desks : DestroyDesk(p, d)
  BY <1>7 DEF DestroyDesk, NoToken
<1>8. CASE IssueToken(p)
  BY <1>8 DEF IssueToken, At, Steps, DeskSteps, Idle
<1>9. CASE SetScope(p)
  BY <1>9 DEF SetScope, At, Steps, DeskSteps, Idle
<1>10. CASE RevokeScope(p)
  BY <1>10 DEF RevokeScope, At, Steps, DeskSteps, Idle, Auditors, NoToken
<1>11. QED
  BY <1>1, <1>2, <1>3, <1>4, <1>5, <1>6, <1>7, <1>8, <1>9, <1>10 DEF RowStep, TokenStep, YardStep

\* Members of yards have yards.
LEMMA JoinedStep ==
  ASSUME RecordsInv, Next
  PROVE  Joined'
<1> USE DEF RecordsInv, RecordTypes, Joined, Ids, At, Start, Goto, Idle, tokens, history
<1> PICK p \in Procs :
      \/ Quiet(p) \/ RowStep(p) \/ TokenStep(p) \/ YardStep(p) \/ AmendmentStep(p)
      \/ \E d \in Desks : DestroyDesk(p, d)
  BY NextSteps, Zenon
<1> DEFINE Elsewhere == /\ UNCHANGED <<row, yards>> /\ crossed \subseteq crossed'
                        /\ \A q \in Procs \ {p} : proc'[q] = proc[q]
                        /\ proc'[p].at \notin {"join", "disband"}
<1>1. Elsewhere => Joined'
  OBVIOUS
<1> HIDE DEF Joined, Ids
<1>2. CASE Quiet(p) /\ ~(\E n \in Names : DestroyYard(p, n))
  <2>1. CheckAuditor(p) => Elsewhere
    BY DEF CheckAuditor, Steps, DeskSteps
  <2>2. Kill(p) \/ CopyToken(p) \/ UnlinkMirror(p) => Elsewhere
    BY DEF Kill, CopyToken, UnlinkMirror
  <2>3. \A d \in Desks : Designate(p, d) => Elsewhere
    BY DEF Designate
  <2>4. \A n \in Names : CreateYard(p, n) => Elsewhere
    BY DEF CreateYard
  <2>5. \A a \in Amendments : Review(p, a) => Elsewhere
    BY DEF Review
  <2> HIDE DEF Elsewhere
  <2>6. QED
    BY <1>1, <1>2, <2>1, <2>2, <2>3, <2>4, <2>5 DEF Quiet
<1>3. CASE AmendmentStep(p)
  BY <1>1, <1>3 DEF AmendmentStep, UpdateStatus, File, Expire
<1>4. CASE TokenStep(p)
  <2>1. IssueToken(p) => Elsewhere
    BY DEF IssueToken
  <2>2. SetScope(p) => Elsewhere
    BY DEF SetScope, Steps, DeskSteps
  <2>3. RevokeScope(p) => Elsewhere
    BY DEF RevokeScope, Steps, DeskSteps
  <2> HIDE DEF Elsewhere
  <2>4. QED
    BY <1>1, <1>4, <2>1, <2>2, <2>3 DEF TokenStep
<1> USE DEF Joined, Ids
<1>5. ASSUME NEW n \in Names, DestroyYard(p, n) PROVE Joined'
  <2>1. UNCHANGED <<row, yards, crossed>> /\ Ids' = Ids
    BY <1>5 DEF DestroyYard
  <2>2. PICK s : /\ proc' = [proc EXCEPT ![p] = s]
                 /\ \/ s = Idle
                    \/ s.at = "disband" /\ s.name = n /\ s.members = Members(Slug[n])
    BY <1>5 DEF DestroyYard
  <2>3. \A d \in Desks : row[d].yard \in {Slug[n]} \ {None} => d \in Members(Slug[n])
    BY DEF Members, DeskRows
  <2>4. \A q \in Procs : \/ proc'[q] = proc[q]
                        \/ proc'[q].at = "idle"
                        \/ /\ proc'[q].at = "disband" /\ proc'[q].name = n
                           /\ proc'[q].members = Members(Slug[n])
    BY <2>2
  <2> HIDE DEF Ids
  <2>5. QED
    BY <2>1, <2>3, <2>4
<1>6. ASSUME NEW d \in Desks, CreateDesk(p, d) \/ CreateDirect(p, d) PROVE Joined'
  <2>1. UNCHANGED <<yards, crossed>> /\ row' = [row EXCEPT ![d] = [row[d] EXCEPT !.here = TRUE]]
    BY <1>6 DEF CreateDesk, CreateDirect
  <2>2. [row[d] EXCEPT !.here = TRUE].here /\ [row[d] EXCEPT !.here = TRUE].yard = row[d].yard
    BY DEF DeskRows
  <2>3. \A e \in Desks : row'[e].yard = row[e].yard /\ (~row'[e].here => ~row[e].here)
    BY <2>1, <2>2
  <2>4. PICK s : /\ proc' = [proc EXCEPT ![p] = s]
                 /\ s.at # "disband"
                 /\ s.at = "join" => s.yard \in Ids
    BY <1>6 DEF CreateDesk, CreateDirect
  <2>5. \A q \in Procs : \/ proc'[q] = proc[q]
                        \/ /\ proc'[q].at # "disband"
                           /\ proc'[q].at = "join" => proc'[q].yard \in Ids
    BY <2>4
  <2>6. Ids' = Ids
    BY <2>1
  <2> HIDE DEF Ids
  <2>7. QED
    BY <2>1, <2>3, <2>5, <2>6
<1>7. ASSUME NEW d \in Desks, DestroyDesk(p, d) \/ DestroyDirect(p, d) PROVE Joined'
  <2>1. /\ UNCHANGED <<yards, crossed>> /\ row' = [row EXCEPT ![d] = NoRow]
        /\ proc' = [proc EXCEPT ![p] = Idle]
    BY <1>7 DEF DestroyDesk, DestroyDirect
  <2>2. \A e \in Desks : row'[e].yard \in {row[e].yard, None}
                        /\ (~row'[e].here => ~row[e].here \/ row'[e].yard = None)
    BY <2>1 DEF NoRow
  <2>3. QED
    BY <2>1, <2>2
<1>8. CASE JoinYard(p)
  BY <1>8 DEF JoinYard, Others, Steps, DeskSteps, DeskRows
<1>9. CASE InsertYard(p)
  <2>1. /\ UNCHANGED <<row, crossed>> /\ Ids \subseteq Ids'
        /\ proc' = [proc EXCEPT ![p] = Idle]
    BY <1>9 DEF InsertYard
  <2> HIDE DEF Ids
  <2>2. QED
    BY <2>1
<1>10. CASE DeleteYard(p)
  BY <1>10 DEF DeleteYard, Others, Steps, DeskSteps, DeskRows
<1>11. QED
  BY <1>2, <1>3, <1>4, <1>5, <1>6, <1>7, <1>8, <1>9, <1>10, Zenon
  DEF RowStep, YardStep

\* Nothing is there at first.
LEMMA RecordsInit == Init => RecordsInv
<1> SUFFICES ASSUME Init PROVE RecordsInv
  OBVIOUS
<1>1. RecordTypes
  BY DEF Init, RecordTypes, DeskRows, NoRow, NoToken, Unfiled, Decisions, Steps
<1>2. Auditors = {} /\ \A p \in Procs : proc[p].at = "idle"
  BY DEF Init, Auditors, NoToken, Idle
<1>3. QED
  BY <1>1, <1>2 DEF Init, RecordsInv, Sole, Scoped, Joined, At, NoRow, NoToken

\* Every step keeps the invariant.
LEMMA RecordsNext ==
  ASSUME RecordsInv, [Next]_vars
  PROVE  RecordsInv'
<1>1. CASE Next
  BY <1>1, RegistryStep, SoleStep, ScopedStep, JoinedStep DEF RecordsInv
<1>2. CASE UNCHANGED vars
  BY <1>2 DEF vars, tokens, history, RecordsInv, RecordTypes, Sole, Scoped, Joined, Auditors, At,
              Ids
<1>3. QED
  BY <1>1, <1>2

\* One auditor per harbor, however many processes and desks there are, unless two
\* designations overlapped: designate_auditor's look for another auditor is enough.
THEOREM OneAuditor == Spec => []SoleAuditor
<1>1. RecordsInv => SoleAuditor
  <2> SUFFICES ASSUME RecordsInv, "scope" \notin crossed PROVE ~(Cardinality(Auditors) > 1)
    BY DEF SoleAuditor
  <2>1. Auditors = {} \/ \E d \in Auditors : Auditors = {d}
    BY DEF RecordsInv, Sole
  <2>2. Cardinality({}) = 0 /\ \A d : Cardinality({d}) = 1
    BY FS_EmptySet, FS_Singleton, Zenon
  <2>3. QED
    BY <2>1, <2>2
<1>2. QED
  BY <1>1, RecordsInit, RecordsNext, PTL DEF Spec

\* The scope belongs to a desk that exists and was designated since it was created,
\* but for the two cases ScopeIsDesignated names.
THEOREM ScopeHeldByDesignated == Spec => []ScopeIsDesignated
<1>1. RecordsInv => ScopeIsDesignated
  BY DEF RecordsInv, Scoped, ScopeIsDesignated, Auditors, NoToken
<1>2. QED
  BY <1>1, RecordsInit, RecordsNext, PTL DEF Spec

\* A desk is in a yard that exists, unless yard destroy and a create overlapped.
THEOREM YardsExist == Spec => []MembersHaveYards
<1>1. RecordsInv => MembersHaveYards
  BY DEF RecordsInv, Joined, MembersHaveYards
<1>2. QED
  BY <1>1, RecordsInit, RecordsNext, PTL DEF Spec

\* A decision on an amendment is replaced by an expire only, or by a review that had
\* read the amendment while it was open.
THEOREM DecisionsStand == Spec => DecisionStands
<1> DEFINE Stands(a) ==
      amendment[a].status \in {"approved", "denied", "auto_approved"}
      /\ amendment'[a].status # amendment[a].status =>
        \/ amendment'[a].status = "expired"
        \/ \E p \in Procs : At(p, "review") /\ proc[p].id = a /\ proc[p].read \in Open
<1>1. RecordsInv /\ [Next]_vars => [\A a \in Amendments : Stands(a)]_vars
  <2> SUFFICES ASSUME RecordsInv, Next, NEW a \in Amendments PROVE Stands(a)
    OBVIOUS
  <2>1. PICK p \in Procs :
          \/ Quiet(p) \/ RowStep(p) \/ TokenStep(p) \/ YardStep(p) \/ AmendmentStep(p)
          \/ \E d \in Desks : DestroyDesk(p, d)
    BY NextSteps
  <2>2. CASE Quiet(p) \/ RowStep(p) \/ TokenStep(p) \/ YardStep(p)
             \/ \E d \in Desks : DestroyDesk(p, d)
    <3>1. UNCHANGED amendment
      BY <2>2, Zenon DEF Quiet, Kill, CheckAuditor, CopyToken, UnlinkMirror, Designate, CreateYard,
                  DestroyYard, Review, RowStep, CreateDesk, CreateDirect, DestroyDirect, JoinYard,
                  TokenStep, IssueToken, SetScope, RevokeScope, YardStep, InsertYard, DeleteYard,
                  DestroyDesk
    <3>2. QED
      BY <3>1
  <2>3. CASE UpdateStatus(p)
    <3>1. At(p, "review") /\ proc[p] \in Steps /\ amendment \in [Amendments -> [status : Decisions,
            by : {None, "principal"}, note : {None, "denial"}]]
      BY <2>3 DEF UpdateStatus, RecordsInv, RecordTypes
    <3>2. proc[p].read \in Open /\ (proc[p].id # a => amendment'[a] = amendment[a])
      BY <2>3, <3>1, StepFields, Zenon DEF UpdateStatus, At
    <3>3. QED
      BY <3>1, <3>2
  <2>4. CASE \E b \in Amendments : File(p, b)
    BY <2>4 DEF File, Unfiled, RecordsInv, RecordTypes
  <2>5. CASE \E b \in Amendments : Expire(p, b)
    BY <2>5 DEF Expire, RecordsInv, RecordTypes
  <2>6. QED
    BY <2>1, <2>2, <2>3, <2>4, <2>5 DEF AmendmentStep
<1>2. QED
  BY <1>1, RecordsInit, RecordsNext, PTL DEF Spec, DecisionStands
-----------------------------------------------------------------------------
(* DaemonProcess *)

Pids == Process!Pids
Alive(p) == Process!Alive(p)
Attached == {"wait", "write", "reap"}
CommandSteps ==
  {Process!Idle}
  \union [at : {"read", "clear", "remove", "spawn"}, kind : Process!Kinds, pid : Pids \union {None}]
  \union [at : {"terminate", "exit"} \union Attached, kind : Process!Kinds, pid : Pids]

\* Daemons, files and the steps of commands have their types.
ProcessTypes ==
  /\ daemon \in [Pids -> {"none", "booting", "recovering", "serving", "closing", "dead"}]
  /\ sock \in Pids \union {None} /\ pidFile \in Pids \union {None}
  /\ cmd \in [Commands -> CommandSteps]

\* Until commands overlap: one command is at work; every daemon that lives, but for those
\* left behind, is in the pid file or waited for by that command; and the pid file is
\* gone, or names a dead process, when a command starts another.
Listed ==
  ~overlapped =>
    /\ \A c, e \in Commands : cmd[c] # Process!Idle /\ cmd[e] # Process!Idle => c = e
    /\ \A p \in Pids \ unlisted :
         Alive(p) => p = pidFile \/ \E c \in Commands : cmd[c].at \in Attached /\ cmd[c].pid = p
    /\ \A c \in Commands :
         /\ cmd[c].at \in {"spawn"} \union Attached => pidFile = None
         /\ cmd[c].at \in {"clear", "remove"} => ~Alive(pidFile)
         /\ cmd[c].at \in {"terminate", "exit"} => cmd[c].pid = pidFile

\* p answers on the socket, unless it is dead or about to end.
Answers(p) == Alive(p) /\ p \notin signal => sock = p /\ daemon[p] = "serving"

\* As long as no daemon is left behind either, the one in the pid file answers, and so
\* does the one that a command has seen the socket of.
Reachable ==
  ~overlapped /\ unlisted = {} =>
    /\ Answers(pidFile)
    /\ \A c \in Commands :
         /\ cmd[c].at = "write" => Answers(cmd[c].pid)
         /\ cmd[c].at = "wait" => sock = None \/ (sock = cmd[c].pid /\ Answers(sock))

\* The inductive invariant.
ProcessInv == ProcessTypes /\ Listed /\ Reachable
\* Run records the overlap with a command that is not over.
LEMMA RunLemma ==
  ASSUME ProcessTypes, NEW c \in Commands, Process!Run(c)
  PROVE  /\ \E kind \in Process!Kinds :
              cmd' = [cmd EXCEPT ![c] = [at |-> "read", kind |-> kind, pid |-> None]]
         /\ ~overlapped' => ~overlapped /\ \A e \in Commands : cmd[e] = Process!Idle
         /\ UNCHANGED <<daemon, signal, sock, pidFile, unlisted>>
<1>1. overlapped' = (overlapped \/ \E e \in Commands : cmd[e] # Process!Idle)
  BY DEF Process!Run
<1>2. ~overlapped' => ~overlapped /\ \A e \in Commands : cmd[e] = Process!Idle
  BY <1>1, Zenon
<1>3. QED
  BY <1>2, Zenon DEF Process!Run, Process!files

\* ReadPid: a dead daemon's file is to be cleared, a live daemon to be stopped, or there
\* is nothing to do.
LEMMA ReadPidLemma ==
  ASSUME ProcessTypes, NEW c \in Commands, Process!ReadPid(c)
  PROVE  /\ cmd[c].at = "read"
         /\ \/ /\ ~Alive(pidFile)
               /\ cmd' = [cmd EXCEPT ![c] = [cmd[c] EXCEPT !.at = "clear"]]
            \/ /\ Alive(pidFile)
               /\ cmd' = [cmd EXCEPT ![c] = [cmd[c] EXCEPT !.at = "terminate", !.pid = pidFile]]
            \/ cmd' = [cmd EXCEPT ![c] = Process!Idle]
         /\ UNCHANGED <<daemon, signal, sock, pidFile, unlisted, overlapped>>
<1> USE DEF Process!ReadPid, Process!At, Process!Goto, Process!Step, Process!files, Process!history
<1>1. CASE ~Alive(pidFile)
  BY <1>1 DEF Alive
<1>2. CASE Alive(pidFile) /\ cmd[c].kind \in {"stop", "reload"}
  BY <1>2 DEF Alive
<1>3. CASE Alive(pidFile) /\ cmd[c].kind \notin {"stop", "reload"}
  BY <1>3 DEF Alive
<1>4. QED
  BY <1>1, <1>2, <1>3

\* Spawn: the daemon is waited for, or, in the foreground, left to itself.
LEMMA SpawnLemma ==
  ASSUME ProcessTypes, NEW c \in Commands, Process!Spawn(c)
  PROVE  /\ cmd[c].at = "spawn" /\ UNCHANGED <<signal, pidFile, overlapped>>
         /\ \E p \in Pids :
              /\ daemon[p] = "none" /\ daemon' = [daemon EXCEPT ![p] = "booting"]
              /\ \/ /\ cmd' = [cmd EXCEPT ![c] = Process!Idle]
                    /\ unlisted' = unlisted \union {p} /\ UNCHANGED sock
                 \/ /\ cmd' = [cmd EXCEPT ![c] = [cmd[c] EXCEPT !.at = "wait", !.pid = p]]
                    /\ sock' = None /\ UNCHANGED unlisted
<1>1. PICK p \in Pids :
        /\ daemon[p] = "none" /\ daemon' = [daemon EXCEPT ![p] = "booting"]
        /\ IF cmd[c].kind = "foreground"
           THEN /\ cmd' = [cmd EXCEPT ![c] = Process!Idle]
                /\ unlisted' = unlisted \union {p} /\ UNCHANGED sock
           ELSE /\ cmd' = [cmd EXCEPT ![c] = [cmd[c] EXCEPT !.at = "wait", !.pid = p]]
                /\ sock' = None /\ UNCHANGED unlisted
  BY Zenon DEF Process!Spawn, Process!Become, Process!Goto, Pids
<1>2. QED
  BY <1>1, Zenon DEF Process!Spawn, Process!At

\* Daemons, files and commands keep their types.
LEMMA ProcessTypesStep ==
  ASSUME ProcessInv, Process!Next
  PROVE  ProcessTypes'
<1> USE CommandsAssumption DEF ProcessInv, ProcessTypes, CommandSteps, Attached, Alive, Pids,
      Process!Alive, Process!Become, Process!At, Process!Goto, Process!Step, Process!Idle,
      Process!Kinds, Process!files, Process!history
<1>1. ASSUME NEW p \in Pids, Process!Boot(p) PROVE ProcessTypes'
  BY <1>1 DEF Process!Boot
<1>2. ASSUME NEW p \in Pids, Process!Bind(p) PROVE ProcessTypes'
  BY <1>2 DEF Process!Bind
<1>3. ASSUME NEW p \in Pids, Process!Shutdown(p) PROVE ProcessTypes'
  BY <1>3 DEF Process!Shutdown
<1>4. ASSUME NEW p \in Pids, Process!Exit(p) PROVE ProcessTypes'
  BY <1>4 DEF Process!Exit
<1>5. ASSUME NEW c \in Commands, Process!Run(c) PROVE ProcessTypes'
  BY <1>5, RunLemma
<1>6. ASSUME NEW c \in Commands, Process!ReadPid(c) PROVE ProcessTypes'
  <2>1. cmd[c].at = "read" /\ UNCHANGED <<daemon, signal, sock, pidFile, unlisted, overlapped>>
    BY <1>6, ReadPidLemma, Zenon
  <2>2. CASE cmd' = [cmd EXCEPT ![c] = [cmd[c] EXCEPT !.at = "clear"]] /\ ~Alive(pidFile)
    BY <2>1, <2>2
  <2>3. CASE /\ cmd' = [cmd EXCEPT ![c] = [cmd[c] EXCEPT !.at = "terminate", !.pid = pidFile]]
             /\ Alive(pidFile)
    <3>1. [cmd[c] EXCEPT !.at = "terminate", !.pid = pidFile] \in CommandSteps
      <4>1. cmd[c] = [at |-> "read", kind |-> cmd[c].kind, pid |-> cmd[c].pid]
            /\ cmd[c].kind \in Process!Kinds
        BY <2>1
      <4>2. QED
        BY <4>1, <2>3, Zenon
    <3>2. QED
      BY <2>1, <2>3, <3>1
  <2>4. CASE cmd' = [cmd EXCEPT ![c] = Process!Idle]
    BY <2>1, <2>4
  <2> HIDE DEF ProcessTypes, Listed, Reachable, Alive, Process!Idle
  <2>5. QED
    BY <1>6, <2>2, <2>3, <2>4, ReadPidLemma, Zenon
<1>7. ASSUME NEW c \in Commands, Process!Clear(c) PROVE ProcessTypes'
  BY <1>7 DEF Process!Clear
<1>8. ASSUME NEW c \in Commands, Process!Terminate(c) PROVE ProcessTypes'
  BY <1>8 DEF Process!Terminate
<1>9. ASSUME NEW c \in Commands, Process!WaitForExit(c) PROVE ProcessTypes'
  BY <1>9 DEF Process!WaitForExit
<1>10. ASSUME NEW c \in Commands, Process!Remove(c) PROVE ProcessTypes'
  BY <1>10 DEF Process!Remove
<1>11. ASSUME NEW c \in Commands, Process!Spawn(c) PROVE ProcessTypes'
  <2>1. cmd[c].at = "spawn" /\ UNCHANGED <<signal, pidFile, overlapped>>
    BY <1>11, SpawnLemma, Zenon
  <2>2. ASSUME NEW p \in Pids, daemon[p] = "none", daemon' = [daemon EXCEPT ![p] = "booting"],
               cmd' = [cmd EXCEPT ![c] = Process!Idle],
               unlisted' = unlisted \union {p}, UNCHANGED sock
        PROVE  ProcessTypes'
    BY <2>1, <2>2
  <2>3. ASSUME NEW p \in Pids, daemon[p] = "none", daemon' = [daemon EXCEPT ![p] = "booting"],
               cmd' = [cmd EXCEPT ![c] = [cmd[c] EXCEPT !.at = "wait", !.pid = p]],
               sock' = None, UNCHANGED unlisted
        PROVE  ProcessTypes'
    <3>1. [cmd[c] EXCEPT !.at = "wait", !.pid = p] \in CommandSteps
      <4>1. cmd[c] = [at |-> "spawn", kind |-> cmd[c].kind, pid |-> cmd[c].pid]
            /\ cmd[c].kind \in Process!Kinds
        BY <2>1
      <4>2. QED
        BY <4>1, <2>3, Zenon
    <3>2. QED
      BY <2>1, <2>3, <3>1
  <2> HIDE DEF ProcessTypes, Listed, Reachable, Pids, Process!Idle
  <2>4. QED
    BY <1>11, <2>2, <2>3, SpawnLemma, Zenon
<1>12. ASSUME NEW c \in Commands, Process!Started(c) PROVE ProcessTypes'
  BY <1>12 DEF Process!Started
<1>13. ASSUME NEW c \in Commands, Process!NotStarted(c) PROVE ProcessTypes'
  BY <1>13 DEF Process!NotStarted
<1>14. ASSUME NEW c \in Commands, Process!Reap(c) PROVE ProcessTypes'
  BY <1>14 DEF Process!Reap
<1>15. ASSUME NEW c \in Commands, Process!WritePid(c) PROVE ProcessTypes'
  BY <1>15 DEF Process!WritePid
<1>16. ASSUME NEW c \in Commands, Process!Kill(c) PROVE ProcessTypes'
  BY <1>16 DEF Process!Kill
<1>17. QED
  BY <1>1, <1>2, <1>3, <1>4, <1>5, <1>6, <1>7, <1>8, <1>9, <1>10, <1>11, <1>12, Zenon,
     <1>13, <1>14, <1>15, <1>16 DEF Process!Next

\* Daemons stay listed.
LEMMA ListedStep ==
  ASSUME ProcessInv, Process!Next
  PROVE  Listed'
<1> USE CommandsAssumption DEF ProcessInv, ProcessTypes, CommandSteps, Attached, Alive, Pids,
      Process!Alive, Process!Become, Process!At, Process!Goto, Process!Step, Process!Idle,
      Process!Kinds, Process!files, Process!history, Listed
<1>1. ASSUME NEW p \in Pids, Process!Boot(p) PROVE Listed'
  BY <1>1 DEF Process!Boot
<1>2. ASSUME NEW p \in Pids, Process!Bind(p) PROVE Listed'
  BY <1>2 DEF Process!Bind
<1>3. ASSUME NEW p \in Pids, Process!Shutdown(p) PROVE Listed'
  BY <1>3 DEF Process!Shutdown
<1>4. ASSUME NEW p \in Pids, Process!Exit(p) PROVE Listed'
  BY <1>4 DEF Process!Exit
<1>5. ASSUME NEW c \in Commands, Process!Run(c) PROVE Listed'
  BY <1>5, RunLemma
<1>6. ASSUME NEW c \in Commands, Process!ReadPid(c) PROVE Listed'
  <2>1. cmd[c].at = "read" /\ UNCHANGED <<daemon, signal, sock, pidFile, unlisted, overlapped>>
    BY <1>6, ReadPidLemma, Zenon
  <2>2. CASE cmd' = [cmd EXCEPT ![c] = [cmd[c] EXCEPT !.at = "clear"]] /\ ~Alive(pidFile)
    BY <2>1, <2>2
  <2>3. CASE /\ cmd' = [cmd EXCEPT ![c] = [cmd[c] EXCEPT !.at = "terminate", !.pid = pidFile]]
             /\ Alive(pidFile)
    BY <2>1, <2>3
  <2>4. CASE cmd' = [cmd EXCEPT ![c] = Process!Idle]
    BY <2>1, <2>4
  <2> HIDE DEF ProcessTypes, Listed, Reachable, Alive, Process!Idle
  <2>5. QED
    BY <1>6, <2>2, <2>3, <2>4, ReadPidLemma, Zenon
<1>7. ASSUME NEW c \in Commands, Process!Clear(c) PROVE Listed'
  BY <1>7 DEF Process!Clear
<1>8. ASSUME NEW c \in Commands, Process!Terminate(c) PROVE Listed'
  BY <1>8 DEF Process!Terminate
<1>9. ASSUME NEW c \in Commands, Process!WaitForExit(c) PROVE Listed'
  BY <1>9 DEF Process!WaitForExit
<1>10. ASSUME NEW c \in Commands, Process!Remove(c) PROVE Listed'
  BY <1>10 DEF Process!Remove
<1>11. ASSUME NEW c \in Commands, Process!Spawn(c) PROVE Listed'
  <2>1. cmd[c].at = "spawn" /\ UNCHANGED <<signal, pidFile, overlapped>>
    BY <1>11, SpawnLemma, Zenon
  <2>2. ASSUME NEW p \in Pids, daemon[p] = "none", daemon' = [daemon EXCEPT ![p] = "booting"],
               cmd' = [cmd EXCEPT ![c] = Process!Idle],
               unlisted' = unlisted \union {p}, UNCHANGED sock
        PROVE  Listed'
    BY <2>1, <2>2
  <2>3. ASSUME NEW p \in Pids, daemon[p] = "none", daemon' = [daemon EXCEPT ![p] = "booting"],
               cmd' = [cmd EXCEPT ![c] = [cmd[c] EXCEPT !.at = "wait", !.pid = p]],
               sock' = None, UNCHANGED unlisted
        PROVE  Listed'
    BY <2>1, <2>3
  <2> HIDE DEF ProcessTypes, Listed, Reachable, Pids, Process!Idle
  <2>4. QED
    BY <1>11, <2>2, <2>3, SpawnLemma, Zenon
<1>12. ASSUME NEW c \in Commands, Process!Started(c) PROVE Listed'
  BY <1>12 DEF Process!Started
<1>13. ASSUME NEW c \in Commands, Process!NotStarted(c) PROVE Listed'
  BY <1>13 DEF Process!NotStarted
<1>14. ASSUME NEW c \in Commands, Process!Reap(c) PROVE Listed'
  BY <1>14 DEF Process!Reap
<1>15. ASSUME NEW c \in Commands, Process!WritePid(c) PROVE Listed'
  BY <1>15 DEF Process!WritePid
<1>16. ASSUME NEW c \in Commands, Process!Kill(c) PROVE Listed'
  BY <1>16 DEF Process!Kill
<1>17. QED
  BY <1>1, <1>2, <1>3, <1>4, <1>5, <1>6, <1>7, <1>8, <1>9, <1>10, <1>11, <1>12, Zenon,
     <1>13, <1>14, <1>15, <1>16 DEF Process!Next

\* The listed daemon stays reachable.
LEMMA ReachableStep ==
  ASSUME ProcessInv, Process!Next
  PROVE  Reachable'
<1> USE CommandsAssumption DEF ProcessInv, ProcessTypes, CommandSteps, Attached, Alive, Pids,
      Process!Alive, Process!Become, Process!At, Process!Goto, Process!Step, Process!Idle,
      Process!Kinds, Process!files, Process!history, Reachable, Listed, Answers
<1>1. ASSUME NEW p \in Pids, Process!Boot(p) PROVE Reachable'
  BY <1>1 DEF Process!Boot
<1>2. ASSUME NEW p \in Pids, Process!Bind(p) PROVE Reachable'
  BY <1>2 DEF Process!Bind
<1>3. ASSUME NEW p \in Pids, Process!Shutdown(p) PROVE Reachable'
  BY <1>3 DEF Process!Shutdown
<1>4. ASSUME NEW p \in Pids, Process!Exit(p) PROVE Reachable'
  BY <1>4 DEF Process!Exit
<1>5. ASSUME NEW c \in Commands, Process!Run(c) PROVE Reachable'
  BY <1>5, RunLemma
<1>6. ASSUME NEW c \in Commands, Process!ReadPid(c) PROVE Reachable'
  <2>1. cmd[c].at = "read" /\ UNCHANGED <<daemon, signal, sock, pidFile, unlisted, overlapped>>
    BY <1>6, ReadPidLemma, Zenon
  <2>2. CASE cmd' = [cmd EXCEPT ![c] = [cmd[c] EXCEPT !.at = "clear"]] /\ ~Alive(pidFile)
    BY <2>1, <2>2
  <2>3. CASE /\ cmd' = [cmd EXCEPT ![c] = [cmd[c] EXCEPT !.at = "terminate", !.pid = pidFile]]
             /\ Alive(pidFile)
    BY <2>1, <2>3
  <2>4. CASE cmd' = [cmd EXCEPT ![c] = Process!Idle]
    BY <2>1, <2>4
  <2> HIDE DEF ProcessTypes, Listed, Reachable, Alive, Process!Idle
  <2>5. QED
    BY <1>6, <2>2, <2>3, <2>4, ReadPidLemma, Zenon
<1>7. ASSUME NEW c \in Commands, Process!Clear(c) PROVE Reachable'
  BY <1>7 DEF Process!Clear
<1>8. ASSUME NEW c \in Commands, Process!Terminate(c) PROVE Reachable'
  BY <1>8 DEF Process!Terminate
<1>9. ASSUME NEW c \in Commands, Process!WaitForExit(c) PROVE Reachable'
  BY <1>9 DEF Process!WaitForExit
<1>10. ASSUME NEW c \in Commands, Process!Remove(c) PROVE Reachable'
  BY <1>10 DEF Process!Remove
<1>11. ASSUME NEW c \in Commands, Process!Spawn(c) PROVE Reachable'
  <2>1. cmd[c].at = "spawn" /\ UNCHANGED <<signal, pidFile, overlapped>>
    BY <1>11, SpawnLemma, Zenon
  <2>2. ASSUME NEW p \in Pids, daemon[p] = "none", daemon' = [daemon EXCEPT ![p] = "booting"],
               cmd' = [cmd EXCEPT ![c] = Process!Idle],
               unlisted' = unlisted \union {p}, UNCHANGED sock
        PROVE  Reachable'
    BY <2>1, <2>2
  <2>3. ASSUME NEW p \in Pids, daemon[p] = "none", daemon' = [daemon EXCEPT ![p] = "booting"],
               cmd' = [cmd EXCEPT ![c] = [cmd[c] EXCEPT !.at = "wait", !.pid = p]],
               sock' = None, UNCHANGED unlisted
        PROVE  Reachable'
    BY <2>1, <2>3
  <2> HIDE DEF ProcessTypes, Listed, Reachable, Pids, Process!Idle
  <2>4. QED
    BY <1>11, <2>2, <2>3, SpawnLemma, Zenon
<1>12. ASSUME NEW c \in Commands, Process!Started(c) PROVE Reachable'
  BY <1>12 DEF Process!Started
<1>13. ASSUME NEW c \in Commands, Process!NotStarted(c) PROVE Reachable'
  BY <1>13 DEF Process!NotStarted
<1>14. ASSUME NEW c \in Commands, Process!Reap(c) PROVE Reachable'
  BY <1>14 DEF Process!Reap
<1>15. ASSUME NEW c \in Commands, Process!WritePid(c) PROVE Reachable'
  BY <1>15 DEF Process!WritePid
<1>16. ASSUME NEW c \in Commands, Process!Kill(c) PROVE Reachable'
  BY <1>16 DEF Process!Kill
<1>17. QED
  BY <1>1, <1>2, <1>3, <1>4, <1>5, <1>6, <1>7, <1>8, <1>9, <1>10, <1>11, <1>12, Zenon,
     <1>13, <1>14, <1>15, <1>16 DEF Process!Next

\* No daemon and no command is there at first.
LEMMA ProcessInit == Process!Init => ProcessInv
<1> SUFFICES ASSUME Process!Init PROVE ProcessInv
  OBVIOUS
<1>1. ProcessTypes /\ pidFile = None /\ \A c \in Commands : cmd[c] = Process!Idle
  BY DEF Process!Init, ProcessTypes, CommandSteps, Pids
<1>2. \A p \in Pids : ~Alive(p)
  BY DEF Process!Init, Alive, Process!Alive, Pids
<1>3. ~Alive(None)
  BY DEF Alive, Process!Alive
<1>4. QED
  BY <1>1, <1>2, <1>3 DEF ProcessInv, Listed, Reachable, Answers, Process!Idle, Attached

\* Every step keeps the invariant.
LEMMA ProcessNext ==
  ASSUME ProcessInv, [Process!Next]_Process!vars
  PROVE  ProcessInv'
<1>1. CASE Process!Next
  BY <1>1, ProcessTypesStep, ListedStep, ReachableStep DEF ProcessInv
<1>2. CASE UNCHANGED Process!vars
  BY <1>2 DEF Process!vars, Process!files, Process!history, ProcessInv, ProcessTypes, Listed,
              Reachable, Answers, Alive, Process!Alive
<1>3. QED
  BY <1>1, <1>2

\* Recovery has the registry to itself, for any number of commands and daemons and
\* however they are killed, unless commands overlapped or a daemon was never recorded.
THEOREM RecoveryIsAlone == Process!Spec => []RecoversAlone
<1>1. ProcessInv => RecoversAlone
  <2> SUFFICES ASSUME ProcessInv, ~overlapped,
                      NEW p \in Pids \ unlisted, NEW q \in Pids \ unlisted,
                      p # q, daemon[p] = "recovering", Alive(q)
               PROVE  FALSE
    BY DEF RecoversAlone, Process!RecoversAlone, Pids, Alive
  <2>1. Alive(p)
    BY CommandsAssumption DEF Alive, Process!Alive, Pids
  <2>2. \A r \in {p, q} :
          r = pidFile \/ \E c \in Commands : cmd[c].at \in Attached /\ cmd[c].pid = r
    BY <2>1 DEF ProcessInv, Listed
  <2>3. \A c \in Commands : cmd[c].at \in Attached => pidFile = None /\ cmd[c] # Process!Idle
    BY DEF ProcessInv, Listed, Attached, Process!Idle
  <2>4. None \notin Pids
    BY CommandsAssumption DEF Pids
  <2>5. QED
    BY <2>2, <2>3, <2>4 DEF ProcessInv, Listed
<1>2. QED
  BY <1>1, ProcessInit, ProcessNext, PTL DEF Process!Spec

\* The daemon in the pid file answers on the socket, under the same conditions.
THEOREM ListedDaemonAnswers == Process!Spec => []ListedIsReachable
<1>1. ProcessInv => ListedIsReachable
  BY DEF ProcessInv, Reachable, Answers, Alive, ListedIsReachable, Process!ListedIsReachable
<1>2. QED
  BY <1>1, ProcessInit, ProcessNext, PTL DEF Process!Spec
=============================================================================
