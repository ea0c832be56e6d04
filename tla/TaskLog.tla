------------------------------ MODULE TaskLog ------------------------------
(***************************************************************************)
(* The task log: how the daemon makes its state-changing RPCs safe to      *)
(* retry (daemon/rpc_common.py with_task_log), with the daemon's threads,  *)
(* its crashes, the recovery sweep it runs at startup (recovery.py         *)
(* recover_in_progress) and the eviction of old rows that follows it       *)
(* (registry.py evict_old_task_log).                                       *)
(*                                                                         *)
(* Every SQL statement commits by itself, so each is one step.  What a     *)
(* handler does between the INSERT and the final UPDATE is the subject of  *)
(* the other modules; here it is one interval in which it may return,      *)
(* raise _RpcError, raise anything else, or die with the daemon.           *)
(***************************************************************************)
EXTENDS Naturals, FiniteSets

CONSTANTS Requests,  \* request ids; a client may send one any number of times
          Threads,   \* connection threads of the daemon (ThreadingMixIn)
          Method     \* Method[r]: the RPC method r was issued for

\* The methods that server.py wraps in with_task_log.
Methods == {"CreateDesk", "SpawnChild", "DestroyDesk", "RequestCapability",
            "RegisterWorkload", "ReleaseWorkload", "AuditorAction"}

ASSUME MethodAssumption == Method \in [Requests -> Methods]

\* A handler's outcome: it returned ("ok"), it returned with partial_failures
\* ("partial", DestroyDesk only), or it raised _RpcError ("error").  The
\* recovery sweep records outcomes of the same kinds.
Outcomes == [kind : {"ok", "partial", "error"}, by : {"handler", "recovery"}]

\* A reply: a JSON-RPC result or error carrying the outcome.
Replies == [form : {"result", "error"}, outcome : Outcomes]

NoOutcome == [kind |-> "none", by |-> "none"]

VARIABLES
  log,     \* log[r]: task_log row, [status, outcome]; status "absent" if none
  phase,   \* the daemon process: "down", "recovering" or "serving"
  pc,      \* pc[t]: where connection thread t is in with_task_log
  arg,     \* arg[t]: the request id t is handling
  res,     \* res[t]: what the handler gave back to with_task_log
  old,     \* rows whose completed_at is more than 24 hours ago
  runs,    \* history: how often the handler was entered since r's row exists
  seen,    \* history: settled replies sent for r since its row exists
  stuck    \* history: rows left in_progress by an unforeseen exception

vars == <<log, phase, pc, arg, res, old, runs, seen, stuck>>

Absent == [status |-> "absent", outcome |-> NoOutcome]
Terminal(r) == log[r].status \in {"completed", "failed"}

Init ==
  /\ log = [r \in Requests |-> Absent]
  /\ phase = "down"
  /\ pc = [t \in Threads |-> "idle"]
  /\ arg \in [Threads -> Requests]
  /\ res = [t \in Threads |-> NoOutcome]
  /\ old = {}
  /\ runs = [r \in Requests |-> 0]
  /\ seen = [r \in Requests |-> {}]
  /\ stuck = {}
-----------------------------------------------------------------------------
(* with_task_log *)

\* A connection thread starts on a request: a first delivery or a retry.
Receive(t, r) ==
  /\ phase = "serving" /\ pc[t] = "idle"
  /\ pc' = [pc EXCEPT ![t] = "select"]
  /\ arg' = [arg EXCEPT ![t] = r]
  /\ UNCHANGED <<log, phase, res, old, runs, seen, stuck>>

\* Mutant: without the special case for destroyed = True.
ReplayWithoutDestroyCase(row) ==
  [form |-> IF row.status = "completed" THEN "result" ELSE "error",
   outcome |-> row.outcome]

\* What _replay_cached_outcome makes of a settled row.
Replay(row) ==
  [form |-> IF row.status = "completed" \/ row.outcome.kind = "partial"
              THEN "result" ELSE "error",
   outcome |-> row.outcome]

\* The SELECT finds a row: the cached outcome is replayed, or
\* request_in_progress is raised; neither runs the handler.
SelectFound(t) ==
  LET r == arg[t] IN
  /\ pc[t] = "select" /\ log[r].status # "absent"
  /\ pc' = [pc EXCEPT ![t] = "idle"]
  /\ seen' = [seen EXCEPT ![r] =
                @ \union (IF Terminal(r) THEN {Replay(log[r])} ELSE {})]
  /\ UNCHANGED <<log, phase, arg, res, old, runs, stuck>>

SelectNothing(t) ==
  /\ pc[t] = "select" /\ log[arg[t]].status = "absent"
  /\ pc' = [pc EXCEPT ![t] = "insert"]
  /\ UNCHANGED <<log, phase, arg, res, old, runs, seen, stuck>>

\* Mutant: INSERT OR REPLACE.
InsertOrReplace(t) ==
  LET r == arg[t] IN
  /\ pc[t] = "insert"
  /\ log' = [log EXCEPT ![r] = [status |-> "in_progress", outcome |-> NoOutcome]]
  /\ pc' = [pc EXCEPT ![t] = "handler"]
  /\ runs' = [runs EXCEPT ![r] = @ + 1]
  /\ UNCHANGED <<phase, arg, res, old, seen, stuck>>

\* The INSERT commits the in_progress row and the handler is entered.
Insert(t) ==
  LET r == arg[t] IN
  /\ pc[t] = "insert" /\ log[r].status = "absent"
  /\ log' = [log EXCEPT ![r] = [status |-> "in_progress", outcome |-> NoOutcome]]
  /\ pc' = [pc EXCEPT ![t] = "handler"]
  /\ runs' = [runs EXCEPT ![r] = @ + 1]
  /\ UNCHANGED <<phase, arg, res, old, seen, stuck>>

\* Another thread inserted first: the primary key refuses the INSERT and the
\* client gets "Internal error".
InsertRefused(t) ==
  /\ pc[t] = "insert" /\ log[arg[t]].status # "absent"
  /\ pc' = [pc EXCEPT ![t] = "idle"]
  /\ UNCHANGED <<log, phase, arg, res, old, runs, seen, stuck>>

HandlerKinds(r) ==
  {"ok", "error"} \union (IF Method[r] = "DestroyDesk" THEN {"partial"} ELSE {})

\* The handler returns or raises _RpcError.
HandlerDone(t) ==
  /\ pc[t] = "handler"
  /\ \E k \in HandlerKinds(arg[t]) :
       res' = [res EXCEPT ![t] = [kind |-> k, by |-> "handler"]]
  /\ pc' = [pc EXCEPT ![t] = "finish"]
  /\ UNCHANGED <<log, phase, arg, old, runs, seen, stuck>>

\* Mutant: the row is deleted so that the client can try again.
HandlerRaisesOtherDropsRow(t) ==
  /\ pc[t] = "handler"
  /\ pc' = [pc EXCEPT ![t] = "idle"]
  /\ log' = [log EXCEPT ![arg[t]] = Absent]
  /\ UNCHANGED <<phase, arg, res, old, runs, seen, stuck>>

\* Any other exception passes through with_task_log: no UPDATE, the client
\* gets "Internal error", and the row stays in_progress.
HandlerRaisesOther(t) ==
  /\ pc[t] = "handler"
  /\ pc' = [pc EXCEPT ![t] = "idle"]
  /\ stuck' = stuck \union {arg[t]}
  /\ UNCHANGED <<log, phase, arg, res, old, runs, seen>>

\* Mutant: the outcome's kind is stored as the row's status.
StatusForKind(o) == IF o.kind = "ok" THEN "completed" ELSE o.kind

\* status_for: DestroyDesk with partial_failures is recorded as failed.
StatusFor(o) == IF o.kind = "ok" THEN "completed" ELSE "failed"

\* _finish_task_log: an UPDATE by request id that does not look at the status.
FinishTaskLog(r, o) ==
  log' = [log EXCEPT ![r] = IF @.status = "absent" THEN @
                            ELSE [status |-> StatusFor(o), outcome |-> o]]

\* The UPDATE commits; the thread then answers its own client, with a result
\* when the handler returned and with an error when it raised.
Finish(t) ==
  LET r == arg[t]
      reply == [form |-> IF res[t].kind = "error" THEN "error" ELSE "result",
                outcome |-> res[t]]
  IN
  /\ pc[t] = "finish"
  /\ FinishTaskLog(r, res[t])
  /\ seen' \in {seen, [seen EXCEPT ![r] = @ \union {reply}]}
  /\ pc' = [pc EXCEPT ![t] = "idle"]
  /\ res' = [res EXCEPT ![t] = NoOutcome]
  /\ UNCHANGED <<phase, arg, old, runs, stuck>>
-----------------------------------------------------------------------------
(* The daemon process: crash, startup recovery, eviction *)

\* The process dies: its threads are gone, the database stays.
Crash ==
  /\ phase # "down"
  /\ phase' = "down"
  /\ pc' = [t \in Threads |-> "idle"]
  /\ res' = [t \in Threads |-> NoOutcome]
  /\ stuck' = {}
  /\ UNCHANGED <<log, arg, old, runs, seen>>

Boot ==
  /\ phase = "down"
  /\ phase' = "recovering"
  /\ UNCHANGED <<log, pc, arg, res, old, runs, seen, stuck>>

\* What the sweep can conclude about an interrupted request: a create is
\* completed or rolled back, a destroy is replayed, any other method is failed.
RecoveryKinds(r) ==
  CASE Method[r] \in {"CreateDesk", "SpawnChild"} -> {"ok", "error"}
    [] Method[r] = "DestroyDesk" -> {"ok", "partial"}
    [] OTHER -> {"error"}

\* Mutant: the sweep does not select by status.
RecoverAnyRow(r) ==
  /\ phase = "recovering" /\ log[r].status # "absent"
  /\ \E k \in RecoveryKinds(r) : FinishTaskLog(r, [kind |-> k, by |-> "recovery"])
  /\ UNCHANGED <<phase, pc, arg, res, old, runs, seen, stuck>>

\* Mutant: rows of methods the sweep does not know are skipped.
RecoverKnownRow(r) ==
  /\ phase = "recovering" /\ log[r].status = "in_progress"
  /\ Method[r] \in {"CreateDesk", "SpawnChild", "DestroyDesk"}
  /\ \E k \in RecoveryKinds(r) : FinishTaskLog(r, [kind |-> k, by |-> "recovery"])
  /\ UNCHANGED <<phase, pc, arg, res, old, runs, seen, stuck>>

\* One iteration of recover_in_progress.
RecoverRow(r) ==
  /\ phase = "recovering" /\ log[r].status = "in_progress"
  /\ \E k \in RecoveryKinds(r) : FinishTaskLog(r, [kind |-> k, by |-> "recovery"])
  /\ UNCHANGED <<phase, pc, arg, res, old, runs, seen, stuck>>

\* Mutant: the socket is served before the sweep is done.
EvictAndServeEarly ==
  LET gone == {r \in old : Terminal(r)} IN
  /\ phase = "recovering"
  /\ phase' = "serving"
  /\ log' = [r \in Requests |-> IF r \in gone THEN Absent ELSE log[r]]
  /\ runs' = [r \in Requests |-> IF r \in gone THEN 0 ELSE runs[r]]
  /\ seen' = [r \in Requests |-> IF r \in gone THEN {} ELSE seen[r]]
  /\ old' = old \ gone
  /\ UNCHANGED <<pc, arg, res, stuck>>

\* The sweep is done: settled rows older than 24 hours are deleted and the
\* socket is served.
EvictAndServe ==
  LET gone == {r \in old : Terminal(r)} IN
  /\ phase = "recovering"
  /\ \A r \in Requests : log[r].status # "in_progress"
  /\ phase' = "serving"
  /\ log' = [r \in Requests |-> IF r \in gone THEN Absent ELSE log[r]]
  /\ runs' = [r \in Requests |-> IF r \in gone THEN 0 ELSE runs[r]]
  /\ seen' = [r \in Requests |-> IF r \in gone THEN {} ELSE seen[r]]
  /\ old' = old \ gone
  /\ UNCHANGED <<pc, arg, res, stuck>>

\* 24 hours pass over a settled row.
Age(r) ==
  /\ Terminal(r) /\ r \notin old
  /\ old' = old \union {r}
  /\ UNCHANGED <<log, phase, pc, arg, res, runs, seen, stuck>>
-----------------------------------------------------------------------------
WithTaskLog(t) ==
  \/ SelectFound(t) \/ SelectNothing(t)
  \/ Insert(t) \/ InsertRefused(t)
  \/ HandlerDone(t) \/ HandlerRaisesOther(t)
  \/ Finish(t)

Next ==
  \/ \E t \in Threads : WithTaskLog(t) \/ \E r \in Requests : Receive(t, r)
  \/ \E r \in Requests : RecoverRow(r) \/ Age(r)
  \/ Boot \/ EvictAndServe \/ Crash

Spec == Init /\ [][Next]_vars

\* Threads run, and the service manager restarts a dead daemon
\* (base/drydock.service: Restart=on-failure); crashes, retries and the
\* passing of a day are never owed.
Fairness ==
  /\ \A t \in Threads : WF_vars(WithTaskLog(t))
  /\ \A r \in Requests : WF_vars(RecoverRow(r))
  /\ WF_vars(Boot) /\ WF_vars(EvictAndServe)

FairSpec == Spec /\ Fairness
-----------------------------------------------------------------------------
\* The task_log rows and the locals of with_task_log stay within their types.
TypeOK ==
  /\ log \in [Requests ->
       [status : {"absent", "in_progress", "completed", "failed"},
        outcome : Outcomes \union {NoOutcome}]]
  /\ phase \in {"down", "recovering", "serving"}
  /\ pc \in [Threads -> {"idle", "select", "insert", "handler", "finish"}]
  /\ arg \in [Threads -> Requests]
  /\ res \in [Threads -> Outcomes \union {NoOutcome}]
  /\ old \in SUBSET Requests
  /\ runs \in [Requests -> Nat]
  /\ seen \in [Requests -> SUBSET Replies]
  /\ stuck \in SUBSET Requests

Working(t) == pc[t] \in {"handler", "finish"}

\* A request id never has two executions under way, whatever the retries,
\* the race between SELECT and INSERT, crashes and recovery do: threads past
\* the INSERT hold distinct ids, and the row of each is in_progress.
ExclusiveExecution ==
  \A t \in Threads : Working(t) =>
    /\ phase = "serving"
    /\ log[arg[t]].status = "in_progress"
    /\ \A u \in Threads : Working(u) /\ arg[u] = arg[t] => u = t

\* "client retries replay the cached outcome instead of re-applying side
\* effects": between the INSERT of a row and its eviction the handler is
\* entered once.
AtMostOnce == \A r \in Requests : runs[r] <= 1

\* All settled replies ever sent for a row say the same, and once the row is
\* settled they say what the row says; recovery after a crash never
\* contradicts a reply a client already has.
ReplayConsistent ==
  \A r \in Requests : \A a \in seen[r] : Terminal(r) /\ a = Replay(log[r])

\* While the socket is served, an in_progress row is somebody's: a thread is
\* working on it, or its handler died of an unforeseen exception since the
\* last startup.  A restart never serves with rows it did not recover.
InProgressOwned ==
  phase = "serving" =>
    \A r \in Requests : log[r].status = "in_progress" =>
      r \in stuck \/ \E t \in Threads : Working(t) /\ arg[t] = r

\* A retry answered request_in_progress is not put off for ever: provided the
\* daemon stops crashing, the row of a request whose handler does not die of
\* an unforeseen exception settles, through its thread or through the recovery
\* that follows the crash.
RequestsSettle ==
  <>[][~Crash]_vars =>
    \A r \in Requests :
      log[r].status = "in_progress" ~> Terminal(r) \/ r \in stuck

\* A request is new until its row is inserted and answered when it is settled.
Life ==
  [r \in Requests |-> IF log[r].status = "absent" THEN "new"
                      ELSE IF Terminal(r) THEN "answered" ELSE "working"]

SettledAnswer ==
  [r \in Requests |-> IF Terminal(r) THEN Replay(log[r]) ELSE "unanswered"]

Idem == INSTANCE Idempotency WITH
  Answers <- Replies, Unanswered <- "unanswered",
  life <- Life, answer <- SettledAnswer, told <- seen

\* Every behaviour of the task log is one Idempotency allows: a request id is
\* worked on once and has one answer, until its row is evicted.
ImplementsIdempotency == Idem!Spec
=============================================================================
