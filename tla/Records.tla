------------------------------- MODULE Records -------------------------------
(***************************************************************************)
(* What the principal keeps in the registry with one-shot commands: the    *)
(* auditor scope of a desk's token and its mirror file (cli/auditor.py,    *)
(* core/registry.py, daemon/auth.py), yards and their members              *)
(* (cli/yard.py, handlers._perform_create) and amendments                  *)
(* (cli/amendment.py).                                                     *)
(*                                                                         *)
(* Each command is a process, or the daemon thread that serves it, with    *)
(* its own connection: it reads in one step, writes in a later one and may *)
(* be killed in between.  A desk is created and destroyed through the      *)
(* daemon or, when that is down, by the command itself.  The steps of a    *)
(* create or destroy that DeskLifecycle takes apart are one step here.     *)
(***************************************************************************)
EXTENDS Integers, FiniteSets

CONSTANTS
  Desks,       \* desk names; the id of a desk is derived from its name
  Names,       \* names of yards
  Slug,        \* Slug[n]: the id derived from a name; two names may share one
  Amendments,  \* ids of amendments
  Procs,       \* processes
  MaxCommands, \* bound: commands started
  None

VARIABLES
  row,        \* row[d]: the desk's row with its yard_id, NoRow when there is none
  token,      \* token[d]: the row of the tokens table
  file,       \* file[d]: drydock-token
  mirror,     \* mirror[d]: auditor-token
  yards,      \* names in the yards table
  amendment,  \* amendment[a]: its row
  proc,       \* proc[p]: the command a process runs: its step and what it read
  issued,     \* tokens generated so far
  started,    \* commands started so far
  designated, \* history: desks designated since they were created
  abandoned,  \* history: desks destroyed without the daemon
  crossed     \* history: the overlaps that occurred

tokens == <<token, file, mirror, issued>>
history == <<designated, abandoned, crossed>>
vars == <<row, tokens, yards, amendment, proc, started, history>>

NoRow == [yard |-> None, here |-> FALSE]
NoToken == [secret |-> 0, scope |-> "none"]
Idle == [at |-> "idle"]
Open == {"pending", "escalated"}
Unfiled == [status |-> "none", by |-> None, note |-> None]

Init ==
  /\ row = [d \in Desks |-> NoRow]
  /\ token = [d \in Desks |-> NoToken] /\ issued = 0
  /\ file = [d \in Desks |-> 0] /\ mirror = [d \in Desks |-> 0]
  /\ yards = {} /\ amendment = [a \in Amendments |-> Unfiled]
  /\ proc = [p \in Procs |-> Idle] /\ started = 0
  /\ designated = {} /\ abandoned = {} /\ crossed = {}

Start(p, step) ==
  /\ proc[p] = Idle /\ started < MaxCommands
  /\ started' = started + 1 /\ proc' = [proc EXCEPT ![p] = step]
Goto(p, step) == proc' = [proc EXCEPT ![p] = step] /\ UNCHANGED started
At(p, step) == proc[p].at = step
Others(p, step) == {q \in Procs \ {p} : At(q, step)}

\* The process is killed; what it has written stays.
Kill(p) ==
  /\ proc[p] # Idle /\ Goto(p, Idle)
  /\ UNCHANGED <<row, tokens, yards, amendment, history>>
-----------------------------------------------------------------------------
(* Desks *)

\* _perform_create up to the yard: without one of that name the create fails, and the
\* row stays.
CreateDesk(p, d) ==
  /\ ~row[d].here /\ row' = [row EXCEPT ![d].here = TRUE]
  /\ \/ Start(p, [at |-> "token", desk |-> d])
     \/ \E n \in yards : Start(p, [at |-> "join", desk |-> d, yard |-> Slug[n]])
     \/ yards # Names /\ Start(p, Idle)
  /\ designated' = designated \ {d}
  /\ UNCHANGED <<tokens, yards, amendment, abandoned, crossed>>

JoinYard(p) ==
  LET d == proc[p].desk IN
  /\ At(p, "join")
  /\ row' = IF row[d].here THEN [row EXCEPT ![d].yard = proc[p].yard] ELSE row
  /\ crossed' = crossed \union {"yard" : q \in Others(p, "disband")}
  /\ Goto(p, [at |-> "token", desk |-> d])
  /\ UNCHANGED <<tokens, yards, amendment, designated, abandoned>>

\* issue_token_for_desk: a desk that has a token keeps it, and its scope; one that was
\* destroyed meanwhile gets one.
IssueToken(p) ==
  LET d == proc[p].desk
      new == token[d] = NoToken
  IN /\ At(p, "token") /\ Goto(p, Idle)
     /\ issued' = IF new THEN issued + 1 ELSE issued
     /\ token' = IF new THEN [token EXCEPT ![d] = [secret |-> issued', scope |-> "dock"]] ELSE token
     /\ file' = IF new THEN [file EXCEPT ![d] = issued'] ELSE file
     /\ crossed' = IF new /\ ~row[d].here THEN crossed \union {"token"} ELSE crossed
     /\ UNCHANGED <<row, mirror, yards, amendment, designated, abandoned>>

\* Without the daemon a desk gets a row and no token.
CreateDirect(p, d) ==
  /\ ~row[d].here /\ row' = [row EXCEPT ![d].here = TRUE]
  /\ Start(p, Idle) /\ designated' = designated \ {d}
  /\ UNCHANGED <<tokens, yards, amendment, abandoned, crossed>>

\* Mutant: the token is left to whoever has it.
DestroyKeepsToken(p, d) ==
  /\ row[d].here /\ Start(p, Idle)
  /\ row' = [row EXCEPT ![d] = NoRow] /\ file' = [file EXCEPT ![d] = 0]
  /\ UNCHANGED <<token, mirror, issued, yards, amendment, history>>

\* _destroy_one removes the token and its file, and takes auditor-token for a secret
\* of the principal.
DestroyDesk(p, d) ==
  /\ row[d].here /\ Start(p, Idle)
  /\ row' = [row EXCEPT ![d] = NoRow]
  /\ token' = [token EXCEPT ![d] = NoToken] /\ file' = [file EXCEPT ![d] = 0]
  /\ designated' = designated \ {d} /\ abandoned' = abandoned \ {d}
  /\ UNCHANGED <<mirror, issued, yards, amendment, crossed>>

\* cli.destroy without the daemon deletes the row only.
DestroyDirect(p, d) ==
  /\ row[d].here /\ Start(p, Idle)
  /\ row' = [row EXCEPT ![d] = NoRow] /\ abandoned' = abandoned \union {d}
  /\ UNCHANGED <<tokens, yards, amendment, designated, crossed>>
-----------------------------------------------------------------------------
(* auditor designate *)

Auditors == {d \in Desks : token[d].scope = "auditor"}

\* The desk and its token exist; for a designation the project YAML has the role and
\* passes validate_auditor_role, or the command ends here.
Designate(p, d) ==
  /\ row[d].here /\ token[d] # NoToken
  /\ \E revoke \in BOOLEAN : Start(p, [at |-> IF revoke THEN "revoke" ELSE "check", desk |-> d])
  /\ UNCHANGED <<row, tokens, yards, amendment, history>>

\* Mutant: another desk's scope is not looked for.
CheckNothing(p) ==
  /\ At(p, "check") /\ Goto(p, [proc[p] EXCEPT !.at = "scope"])
  /\ UNCHANGED <<row, tokens, yards, amendment, history>>

\* designate_auditor refuses when another desk has the scope.
CheckAuditor(p) ==
  /\ At(p, "check")
  /\ Goto(p, IF Auditors \ {proc[p].desk} # {} THEN Idle ELSE [proc[p] EXCEPT !.at = "scope"])
  /\ UNCHANGED <<row, tokens, yards, amendment, history>>

\* The UPDATE of a token that is gone changes nothing.
SetScope(p) ==
  LET d == proc[p].desk IN
  /\ At(p, "scope")
  /\ IF token[d] = NoToken THEN UNCHANGED <<token, designated>>
     ELSE token' = [token EXCEPT ![d].scope = "auditor"] /\ designated' = designated \union {d}
  /\ crossed' = crossed \union {"scope" : q \in Others(p, "scope")}
  /\ Goto(p, [proc[p] EXCEPT !.at = "mirror"])
  /\ UNCHANGED <<row, file, mirror, issued, yards, amendment, abandoned>>

\* The plaintext is copied to auditor-token, if that works.
CopyToken(p) ==
  LET d == proc[p].desk IN
  /\ At(p, "mirror") /\ Goto(p, Idle)
  /\ \/ file[d] # 0 /\ mirror' = [mirror EXCEPT ![d] = file[d]]
     \/ UNCHANGED mirror
  /\ UNCHANGED <<row, token, file, issued, yards, amendment, history>>

RevokeScope(p) ==
  LET d == proc[p].desk IN
  /\ At(p, "revoke")
  /\ token' = IF d \in Auditors THEN [token EXCEPT ![d].scope = "dock"] ELSE token
  /\ Goto(p, [proc[p] EXCEPT !.at = "unlink"])
  /\ UNCHANGED <<row, file, mirror, issued, yards, amendment, history>>

UnlinkMirror(p) ==
  /\ At(p, "unlink") /\ Goto(p, Idle)
  /\ mirror' = [mirror EXCEPT ![proc[p].desk] = 0] \/ UNCHANGED mirror
  /\ UNCHANGED <<row, token, file, issued, yards, amendment, history>>
-----------------------------------------------------------------------------
(* Yards *)

Ids == {Slug[n] : n \in yards}
Members(id) == {d \in Desks : row[d].here /\ row[d].yard = id}

CreateYard(p, n) ==
  /\ n \notin yards /\ Start(p, [at |-> "found", name |-> n])
  /\ UNCHANGED <<row, tokens, yards, amendment, history>>

\* The INSERT fails when the name or the id has been taken.
InsertYard(p) ==
  /\ At(p, "found") /\ Goto(p, Idle)
  /\ yards' = IF Slug[proc[p].name] \in Ids THEN yards ELSE yards \union {proc[p].name}
  /\ UNCHANGED <<row, tokens, amendment, history>>

\* destroy_yard reads the members, and refuses to go on with them unless told to.
DestroyYard(p, n) ==
  /\ n \in yards
  /\ \/ Start(p, [at |-> "disband", name |-> n, members |-> Members(Slug[n])])
     \/ Members(Slug[n]) # {} /\ Start(p, Idle)
  /\ UNCHANGED <<row, tokens, yards, amendment, history>>

\* Mutant: the members stay where they are.
DeleteYardOnly(p) ==
  /\ At(p, "disband") /\ Goto(p, Idle)
  /\ yards' = {n \in yards : Slug[n] # Slug[proc[p].name]}
  /\ UNCHANGED <<row, tokens, amendment, history>>

\* One transaction detaches the members it read and deletes the yard by its id.
DeleteYard(p) ==
  /\ At(p, "disband") /\ Goto(p, Idle)
  /\ row' = [d \in Desks |-> IF row[d].here /\ d \in proc[p].members
                             THEN [row[d] EXCEPT !.yard = None] ELSE row[d]]
  /\ yards' = {n \in yards : Slug[n] # Slug[proc[p].name]}
  /\ crossed' = crossed \union {"yard" : q \in Others(p, "join")}
  /\ UNCHANGED <<tokens, amendment, designated, abandoned>>
-----------------------------------------------------------------------------
(* Amendments *)

\* create_amendment: for the principal, a dockworker, or a capability request.
File(p, a) ==
  /\ amendment[a] = Unfiled /\ Start(p, Idle)
  /\ \E status \in {"pending", "approved", "auto_approved", "escalated"} :
       amendment' = [amendment EXCEPT ![a].status = status]
  /\ UNCHANGED <<row, tokens, yards, history>>

\* Mutant: any amendment may be reviewed.
ReviewAny(p, a) ==
  /\ amendment[a] # Unfiled
  /\ \E to \in {"approved", "denied"} :
       Start(p, [at |-> "review", id |-> a, to |-> to, read |-> amendment[a].status])
  /\ UNCHANGED <<row, tokens, yards, amendment, history>>

\* approve and deny look at the status first.
Review(p, a) ==
  /\ amendment[a].status \in Open
  /\ \E to \in {"approved", "denied"} :
       Start(p, [at |-> "review", id |-> a, to |-> to, read |-> amendment[a].status])
  /\ UNCHANGED <<row, tokens, yards, amendment, history>>

\* update_amendment_status: a denial has a note, an approval without one keeps what
\* is there.
UpdateStatus(p) ==
  LET a == proc[p].id IN
  /\ At(p, "review") /\ Goto(p, Idle)
  /\ amendment' = [amendment EXCEPT ![a] =
       [status |-> proc[p].to, by |-> "principal",
        note |-> IF proc[p].to = "denied" THEN "denial" ELSE @.note]]
  /\ UNCHANGED <<row, tokens, yards, history>>

\* expire asks for no status.
Expire(p, a) ==
  /\ amendment[a] # Unfiled /\ Start(p, Idle)
  /\ amendment' = [amendment EXCEPT ![a].status = "expired"]
  /\ UNCHANGED <<row, tokens, yards, history>>
-----------------------------------------------------------------------------
Next ==
  \E p \in Procs :
    \/ Kill(p)
    \/ \E d \in Desks :
         \/ CreateDesk(p, d) \/ CreateDirect(p, d) \/ DestroyDesk(p, d) \/ DestroyDirect(p, d)
         \/ Designate(p, d)
    \/ JoinYard(p) \/ IssueToken(p)
    \/ CheckAuditor(p) \/ SetScope(p) \/ CopyToken(p) \/ RevokeScope(p) \/ UnlinkMirror(p)
    \/ \E n \in Names : CreateYard(p, n) \/ DestroyYard(p, n)
    \/ InsertYard(p) \/ DeleteYard(p)
    \/ \E a \in Amendments : File(p, a) \/ Review(p, a) \/ Expire(p, a)
    \/ UpdateStatus(p)

Spec == Init /\ [][Next]_vars
-----------------------------------------------------------------------------
(* Properties *)

\* One auditor per harbor: two desks hold the scope only if two designations overlapped
\* between the look for another auditor and the update, whatever was created,
\* destroyed, revoked or killed in between.
SoleAuditor == Cardinality(Auditors) > 1 => "scope" \in crossed

\* The scope belongs to a desk that was designated after it was created, so that it
\* can be revoked and its YAML has been validated, unless that desk was once
\* destroyed without the daemon: then the scope outlives the desk and passes to its
\* namesake; or a desk was destroyed while it was created, and got its token after that.
ScopeIsDesignated ==
  "token" \notin crossed => \A d \in Auditors \ abandoned : row[d].here /\ d \in designated

\* A desk is in a yard that exists, unless the yard was destroyed while the desk was
\* joining it.
MembersHaveYards ==
  "yard" \notin crossed => \A d \in Desks : row[d].yard \in Ids \union {None}

\* A decision stands: only an expire, or a review that had read the amendment while it
\* was open, replaces it.
DecisionStands ==
  [][\A a \in Amendments :
       amendment[a].status \in {"approved", "denied", "auto_approved"}
       /\ amendment'[a].status # amendment[a].status =>
         \/ amendment'[a].status = "expired"
         \/ \E p \in Procs : At(p, "review") /\ proc[p].id = a /\ proc[p].read \in Open]_vars
=============================================================================
