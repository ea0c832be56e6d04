--------------------------- MODULE CapabilityLease ---------------------------
(***************************************************************************)
(* Capability leases of one desk: RequestCapability for AWS credentials    *)
(* (STORAGE_MOUNT and INFRA_PROVISION, which share the aws_* files), for a *)
(* secret of its own or of another desk, and for network reach;            *)
(* ReleaseCapability; and what DestroyDesk does to leases                  *)
(* (daemon/capability_handlers.py, the lease tables of core/registry.py,   *)
(* the lease steps of _destroy_one in daemon/handlers.py).  Every registry *)
(* call commits by itself; requests run in threads of their own.  A lease  *)
(* is named by the request that issues it.                                 *)
(***************************************************************************)
EXTENDS Naturals, FiniteSets

CONSTANTS
  Requests,    \* RequestCapability requests
  Kind,        \* Kind[r]: "aws", "own_secret", "cross_secret" or "network"
  Releases,    \* ReleaseCapability requests
  Target,      \* Target[q]: the lease q releases
  Destroys,    \* DestroyDesk requests; the desk is created again in between
  Arrivals,    \* sets of these requests: clients send those of one of them
  Concurrent,  \* TRUE: requests overlap; FALSE: each waits for the one before
  None

\* What the client of a RequestCapability can be told.
Answers == {"granted", "capability_not_granted", "narrowness_violated", "failed"}
\* Statuses of the amendments the broker records.
Verdicts == {"auto_approved", "escalated"}

ASSUME CapabilityAssumption ==
  /\ Kind \in [Requests -> {"aws", "own_secret", "cross_secret", "network"}]
  /\ Target \in [Releases -> Requests]
  /\ Requests \intersect (Releases \union Destroys) = {} /\ Releases \intersect Destroys = {}
  /\ Arrivals \subseteq SUBSET (Requests \union Releases \union Destroys)
  /\ Concurrent \in BOOLEAN /\ None \notin Requests \union Answers \union Verdicts

VARIABLES
  desk,    \* the desk's row exists (with a container)
  lease,   \* lease[r]: "none", "active" or the revocation_reason of the row
  aws,     \* the request whose credentials the aws_* files hold, or None
  secret,  \* the desk's file of the secret: None, "own" or "copy"
  open,    \* requests whose domain the container's firewall has let in
  pc,      \* pc[x]: next step of the thread of x
  prior,   \* prior[x]: the lease the thread found or revoked, or None
  amendment,  \* amendment[r]: status of the amendment recorded for r, or None
  reply    \* reply[r]: what the client of r is told, None before it is

vars == <<desk, lease, aws, secret, open, pc, prior, amendment, reply>>
bytes == <<aws, secret, open>>
record == <<amendment, reply>>

Threads == Requests \union Releases \union Destroys
Reasons == {"released", "superseded", "desk_destroyed"}

\* The principal may have set the secret for this desk too.
Init ==
  /\ desk = TRUE
  /\ lease = [r \in Requests |-> "none"]
  /\ aws = None /\ secret \in {None, "own"} /\ open = {}
  /\ \E sent \in Arrivals : pc = [x \in Threads |-> IF x \in sent THEN "new" ELSE "done"]
  /\ prior = [x \in Threads |-> None]
  /\ amendment = [r \in Requests |-> None] /\ reply = [r \in Requests |-> None]

Working(x) == pc[x] \notin {"new", "done"}
Quiet == \A x \in Threads : ~Working(x)
Goto(x, label) == pc' = [pc EXCEPT ![x] = label]
\* A request of the desk is authenticated by its token, which goes with the row.
Arrives(x) == pc[x] = "new" /\ desk /\ (Concurrent \/ Quiet)
\* DestroyDesk removes the container in its first step.
ContainerUp == desk /\ \A x \in Destroys : ~Working(x)

ActiveOf(kinds) == {r \in Requests : lease[r] = "active" /\ Kind[r] \in kinds}
Secrets == {"own_secret", "cross_secret"}

\* Mutant: the UPDATE has lost its "AND revoked = 0".
RevokedAgain(l, reason) == [lease EXCEPT ![l] = reason]

\* Registry.revoke_lease: only a row that is not revoked changes.
Revoked(l, reason) == [lease EXCEPT ![l] = IF @ = "active" THEN reason ELSE @]
-----------------------------------------------------------------------------
(* RequestCapability *)

Receive(r) ==
  /\ Arrives(r)
  /\ Goto(r, IF Kind[r] = "aws" THEN "supersede" ELSE "policy")
  /\ UNCHANGED <<desk, lease, bytes, prior, record>>

\* Mutant: only an earlier lease of the request's own capability type is looked for.
FindPriorOfType(r) ==
  /\ pc[r] = "supersede" /\ Goto(r, "policy")
  /\ UNCHANGED <<desk, lease, bytes, prior, record>>

\* The supersede loop: find_active_aws_lease, and on to the policy if none.
FindPrior(r) ==
  /\ pc[r] = "supersede"
  /\ \/ \E l \in ActiveOf({"aws"}) :
          prior' = [prior EXCEPT ![r] = l] /\ Goto(r, "revoke_prior")
     \/ ActiveOf({"aws"}) = {} /\ Goto(r, "policy") /\ UNCHANGED prior
  /\ UNCHANGED <<desk, lease, bytes, record>>

RevokePrior(r) ==
  /\ pc[r] = "revoke_prior"
  /\ lease' = Revoked(prior[r], "superseded")
  /\ Goto(r, "supersede")
  /\ UNCHANGED <<desk, bytes, prior, record>>

\* Mutant: the lease is recorded before its bytes are there.
AllowAndInsert(r) ==
  /\ pc[r] = "policy" /\ desk
  /\ Kind[r] = "own_secret" => secret # None
  /\ lease' = [lease EXCEPT ![r] = "active"]
  /\ Goto(r, "materialize")
  /\ UNCHANGED <<desk, bytes, prior, record>>

\* The desk's policy allows it, its container is up and the backend gives the secret
\* or mints the credentials.
Allow(r) ==
  /\ pc[r] = "policy" /\ desk
  /\ Kind[r] = "own_secret" => secret # None
  /\ Goto(r, "materialize")
  /\ UNCHANGED <<desk, lease, bytes, prior, record>>

\* The thread of r answers why; _emit_capability_amendment may fail silently.
Refused(r, why, status) ==
  /\ reply' = [reply EXCEPT ![r] = why]
  /\ amendment' \in {amendment, [amendment EXCEPT ![r] = status]}
  /\ Goto(r, "done")

\* _check_capability raises; or the request is wider than what is delegated; or the
\* desk or its container is gone, or the backend refuses.
Deny(r) ==
  /\ pc[r] = "policy"
  /\ \/ desk /\ Refused(r, "capability_not_granted", None)
     \/ desk /\ Refused(r, "narrowness_violated", "escalated")
     \/ Refused(r, "failed", None)
  /\ UNCHANGED <<desk, lease, bytes, prior>>

\* The bytes go to the desk's secret directory, or the domain to its firewall.
\* A secret of the desk's own is already there.
Materialize(r) ==
  /\ pc[r] = "materialize"
  /\ Kind[r] = "network" => ContainerUp
  /\ aws' = IF Kind[r] = "aws" THEN r ELSE aws
  /\ secret' = IF Kind[r] = "cross_secret" THEN "copy" ELSE secret
  /\ open' = IF Kind[r] = "network" THEN open \union {r} ELSE open
  /\ Goto(r, "insert")
  /\ UNCHANGED <<desk, lease, prior, record>>

\* An OSError or a failed docker exec, which may come after some of the four
\* aws_* files are written.
MaterializeFails(r) ==
  /\ pc[r] = "materialize" /\ Kind[r] # "own_secret"
  /\ aws' \in IF Kind[r] = "aws" THEN {aws, r} ELSE {aws}
  /\ Refused(r, "failed", None)
  /\ UNCHANGED <<desk, lease, secret, open, prior>>

\* Mutant: the row is written with the type's name where the state belongs.
InsertLeaseUntyped(r) ==
  /\ pc[r] = "insert"
  /\ lease' = [lease EXCEPT ![r] = Kind[r]]
  /\ Goto(r, "amend")
  /\ UNCHANGED <<desk, bytes, prior, record>>

InsertLease(r) ==
  /\ pc[r] = "insert"
  /\ lease' = [lease EXCEPT ![r] = "active"]
  /\ Goto(r, "amend")
  /\ UNCHANGED <<desk, bytes, prior, record>>

\* The amendment is recorded and the lease is returned to the client.
Amend(r) ==
  /\ pc[r] = "amend"
  /\ reply' = [reply EXCEPT ![r] = "granted"]
  /\ amendment' \in {amendment, [amendment EXCEPT ![r] = "auto_approved"]}
  /\ Goto(r, "done")
  /\ UNCHANGED <<desk, lease, bytes, prior>>

Request(r) ==
  \/ Receive(r) \/ FindPrior(r) \/ RevokePrior(r) \/ Allow(r) \/ Deny(r)
  \/ Materialize(r) \/ MaterializeFails(r) \/ InsertLease(r) \/ Amend(r)
-----------------------------------------------------------------------------
(* ReleaseCapability *)

\* get_lease and revoke_lease: nothing more happens if it was revoked before.
ReleaseRevoke(q) ==
  LET l == Target[q] IN
  /\ Arrives(q) /\ lease[l] # "none"
  /\ lease' = Revoked(l, "released")
  /\ prior' = [prior EXCEPT ![q] = IF lease[l] = "active" THEN l ELSE None]
  /\ Goto(q, IF lease[l] = "active" THEN "still_active" ELSE "done")
  /\ UNCHANGED <<desk, bytes, record>>

\* Mutant: the files go whatever leases remain.
StillActiveUnasked(q) ==
  /\ pc[q] = "still_active"
  /\ Goto(q, IF Kind[Target[q]] \in {"aws", "cross_secret"} THEN "remove" ELSE "done")
  /\ UNCHANGED <<desk, lease, bytes, prior, record>>

\* The files stay while another active lease needs them.  Only copies of another
\* desk's secret are removed, and a firewall opening never is.
StillActive(q) ==
  LET l == Target[q]
      others == CASE Kind[l] = "aws" -> ActiveOf({"aws"})
                  [] Kind[l] = "cross_secret" -> ActiveOf(Secrets)
                  [] OTHER -> {}
  IN
  /\ pc[q] = "still_active"
  /\ Goto(q, IF Kind[l] \in {"aws", "cross_secret"} /\ others = {} THEN "remove" ELSE "done")
  /\ UNCHANGED <<desk, lease, bytes, prior, record>>

\* A file that cannot be removed is only logged.
RemoveFiles(q) ==
  /\ pc[q] = "remove"
  /\ aws' \in IF Kind[Target[q]] = "aws" THEN {None, aws} ELSE {aws}
  /\ secret' \in IF Kind[Target[q]] = "cross_secret" THEN {None, secret} ELSE {secret}
  /\ Goto(q, "done")
  /\ UNCHANGED <<desk, lease, open, prior, record>>

Release(q) == ReleaseRevoke(q) \/ StillActive(q) \/ RemoveFiles(q)
-----------------------------------------------------------------------------
(* DestroyDesk, as far as leases are concerned; and what follows it *)

\* The container, with its firewall, goes first.
DestroyContainer(x) ==
  /\ Arrives(x)
  /\ open' = {} /\ Goto(x, "revoke_leases")
  /\ UNCHANGED <<desk, lease, aws, secret, prior, record>>

\* revoke_leases_for_desk: one UPDATE over the active leases of the desk.
DestroyLeases(x) ==
  /\ pc[x] = "revoke_leases"
  /\ lease' = [r \in Requests |-> IF lease[r] = "active" THEN "desk_destroyed" ELSE lease[r]]
  /\ Goto(x, "delete_row")
  /\ UNCHANGED <<desk, bytes, prior, record>>

\* The secret directory is left alone unless it is empty.
DestroyRow(x) ==
  /\ pc[x] = "delete_row"
  /\ desk' = FALSE /\ Goto(x, "done")
  /\ UNCHANGED <<lease, bytes, prior, record>>

Destroy(x) == DestroyContainer(x) \/ DestroyLeases(x) \/ DestroyRow(x)

\* CreateDesk under the same name, hence the same id and secret directory.
CreateAgain ==
  /\ ~desk /\ (Concurrent \/ Quiet) /\ desk' = TRUE
  /\ UNCHANGED <<lease, bytes, pc, prior, record>>

\* StopDesk and a CreateDesk that resumes: the firewall starts again from the policy.
Restart ==
  /\ ContainerUp /\ (Concurrent \/ Quiet) /\ open' = {}
  /\ UNCHANGED <<desk, lease, aws, secret, pc, prior, record>>

\* The daemon dies and starts again.  Recovery, before any request is served, runs an
\* interrupted DestroyDesk to its end and records an interrupted RequestCapability as
\* failed; ReleaseCapability is not logged.
Crash ==
  LET again == desk /\ \E x \in Destroys : Working(x) IN
  /\ pc' = [x \in Threads |-> IF Working(x) THEN "done" ELSE pc[x]]
  /\ desk' = (desk /\ ~again)
  /\ lease' = [r \in Requests |->
                 IF again /\ lease[r] = "active" THEN "desk_destroyed" ELSE lease[r]]
  /\ open' = IF again THEN {} ELSE open
  /\ UNCHANGED <<aws, secret, prior, record>>

Next ==
  \/ \E r \in Requests : Request(r)
  \/ \E q \in Releases : Release(q)
  \/ \E x \in Destroys : Destroy(x)
  \/ CreateAgain \/ Restart \/ Crash

Spec == Init /\ [][Next]_vars
-----------------------------------------------------------------------------
(* Properties *)

\* Lease rows, files and thread locals stay within their types.
TypeOK ==
  /\ desk \in BOOLEAN
  /\ lease \in [Requests -> {"none", "active"} \union Reasons]
  /\ aws \in Requests \union {None} /\ secret \in {None, "own", "copy"}
  /\ open \subseteq Requests
  /\ pc \in [Threads -> {"new", "supersede", "revoke_prior", "policy", "materialize",
                         "insert", "amend", "still_active", "remove", "revoke_leases",
                         "delete_row", "done"}]
  /\ prior \in [Threads -> Requests \union {None}]
  /\ amendment \in [Requests -> {None} \union Verdicts]
  /\ reply \in [Requests -> {None} \union Answers]

\* What an active lease promises is there: its credentials, and no other's, in the
\* aws_* files, the copy of the other desk's secret; and the desk exists.  So of two
\* AWS leases one at most is active, and no release takes the bytes from under a lease
\* that still needs them.  Requests one at a time, crashes anywhere.
LeaseIsBacked ==
  \A r \in Requests : lease[r] = "active" =>
    /\ Kind[r] = "aws" => aws = r
    /\ Kind[r] = "cross_secret" => secret = "copy"
    /\ desk

\* The answer, the lease table and the amendment tell one story, wherever a request
\* fails: an error means there never was a lease, an approval on record means the
\* lease was inserted and returned, an escalation that the request was refused.
AnswerTruthful ==
  \A r \in Requests :
    /\ reply[r] \in Answers \ {"granted"} =>
         lease[r] = "none" /\ amendment[r] # "auto_approved"
    /\ amendment[r] = "auto_approved" => reply[r] = "granted"
    /\ reply[r] = "granted" => lease[r] # "none" /\ amendment[r] # "escalated"

\* A revocation is final, its reason included, whichever of a release, a superseding
\* request and a destroy come to the lease at the same time.
FirstRevocationWins ==
  [][\A r \in Requests : lease[r] \in Reasons => lease'[r] = lease[r]]_vars
-----------------------------------------------------------------------------
(* What documents and comments say and the code does not do *)

\* release_capability: the aws_* files are removed so that revoked credentials are
\* not used on.  So with nothing in flight, what the files hold is not revoked.
NoRevokedCredentials == Quiet /\ aws # None => lease[aws] \notin Reasons
=============================================================================
