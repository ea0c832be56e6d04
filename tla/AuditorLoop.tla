----------------------------- MODULE AuditorLoop -----------------------------
(***************************************************************************)
(* The Port Auditor's watch loop and the switch that watches it            *)
(* (core/auditor: daemon.py, watch.py, signature.py, scheduler.py,         *)
(* deep.py, heartbeat.py; scripts/auditor-deadman; the clarifications of   *)
(* daemon/clarification_handlers.py).  Each tick the loop snapshots the    *)
(* Harbor and either recognises a state the LLM was asked about recently   *)
(* (a "deduplicated" tick) or asks again; a reachable LLM and a            *)
(* deduplicated tick touch the heartbeat file, whose age the deadman       *)
(* script compares with its threshold.  The LLM may be out of reach, the   *)
(* loop dies and is restarted, and workers change what there is to see.    *)
(*                                                                         *)
(* Time is counted in units; a step of the loop or of the script takes     *)
(* none of it.  Ages stop counting where no comparison tells them apart.   *)
(***************************************************************************)
EXTENDS Integers, FiniteSets, Sequences

CONSTANTS
  Harbors,         \* the snapshots compute_signature tells apart
  MaxNotes,        \* bound: clarifications registered
  TTLs,            \* lifetimes of clarifications after the clamp
  Responsive, NearResponsive, Default, Quiet,   \* the cadences
  ThreadWindow,    \* how long a Telegram message keeps a thread open
  ForceRefresh,    \* FORCE_REFRESH_SECONDS
  Threshold,       \* --threshold-seconds of the deadman script
  Period,          \* how often the deadman script runs
  None

\* What is assumed of them.
AuditorLoopAssumption ==
  /\ MaxNotes \in Nat /\ TTLs \subseteq Nat \ {0}
  /\ {Responsive, NearResponsive, Default, Quiet, Period} \subseteq Nat \ {0}
  /\ {ThreadWindow, Threshold} \subseteq Nat /\ ForceRefresh \in Nat \ {0}
  /\ Responsive <= Quiet /\ NearResponsive <= Quiet /\ Default <= Quiet
  /\ Quiet <= Threshold

VARIABLES
  harbor,    \* what a snapshot shows now
  notes,     \* notes[i]: time clarification i has left, 0 once expired
  saved,     \* last_signature.json: signature and age of the call it is from
  hb,        \* age of the heartbeat file, None when there is none
  thread,    \* age of last_telegram_send, ThreadWindow + 1 when closed
  loop,      \* the loop: its step and the sleep it has left
  verdict,   \* the last tick: what it recorded, and whether it touched the heartbeat
  stop,      \* stop_requested
  deadman,   \* the script: time to its next run, and whether the last run alerted
  asked,     \* history: one signature, any, and the age of the last answer about it
  answered   \* history: age of the last answer

world == <<harbor, notes>>
history == <<asked, answered>>
vars == <<world, saved, hb, thread, loop, verdict, stop, deadman, history>>

Signatures == Harbors \X SUBSET (1..MaxNotes)
NoState == [sig |-> None, age |-> ForceRefresh]
Closed == ThreadWindow + 1
Stale == Threshold + 1
LongAgo == ForceRefresh + Threshold

\* compute_signature over the snapshot and the ids of the active clarifications.
Signature == <<harbor, {i \in DOMAIN notes : notes[i] > 0}>>

Init ==
  /\ harbor \in Harbors /\ notes = << >>
  /\ saved = NoState /\ hb = None /\ thread = Closed
  /\ loop = [at |-> "stopped", left |-> 0] /\ stop = FALSE
  /\ verdict = [kind |-> "none", beat |-> FALSE]
  /\ deadman = [due |-> 0, alert |-> FALSE]
  /\ asked \in [sig : Signatures, age : {ForceRefresh}] /\ answered = LongAgo

At(step) == [at |-> step, left |-> 0]
Stopped == [at |-> "stopped", left |-> 1]

\* next_cadence: an open Telegram thread first; the audit log and the time of day
\* decide between the others.
Cadences(sent) ==
  IF sent <= ThreadWindow THEN {Responsive} ELSE {NearResponsive, Default, Quiet}

\* The end of an iteration of daemon.run: out of the loop, or asleep.
Rest(sent) ==
  IF stop THEN {Stopped} ELSE {[at |-> "sleep", left |-> c] : c \in Cadences(sent)}
-----------------------------------------------------------------------------
(* watch_once *)

\* Mutant: the age of the last call does not count.
SkipAnyAge == saved.sig = Signature

\* Mutant: only the Harbor is compared, not the clarifications.
SkipSameHarbor == saved.sig # None /\ saved.sig[1] = harbor /\ saved.age < ForceRefresh

\* should_skip_llm on the state load_state returns.
ShouldSkip == saved.sig = Signature /\ saved.age < ForceRefresh

\* touch_heartbeat; its failure is logged and forgotten.
Touch(kind) ==
  \/ hb' = 0 /\ verdict' = [kind |-> kind, beat |-> TRUE]
  \/ hb' = hb /\ verdict' = [kind |-> kind, beat |-> FALSE]

\* Mutant: a deduplicated tick leaves the heartbeat alone.
DeduplicateQuietly ==
  /\ loop.at = "tick" /\ ShouldSkip
  /\ verdict' = [kind |-> "deduplicated", beat |-> TRUE] /\ loop' \in Rest(thread)
  /\ UNCHANGED <<world, saved, hb, thread, stop, deadman, history>>

Deduplicate ==
  /\ loop.at = "tick" /\ ShouldSkip
  /\ Touch("deduplicated") /\ loop' \in Rest(thread)
  /\ UNCHANGED <<world, saved, thread, stop, deadman, history>>

\* The LLM answers: parse_verdict finds a verdict in the answer or records an
\* error; the heartbeat is touched and the signature saved (best effort) in
\* either case.  "anomaly_suspected" and "unsure" both lead to deep analysis.
Answers == {"routine", "flagged", "error"}

Judge ==
  /\ loop.at = "tick" /\ ~ShouldSkip
  /\ \E a \in Answers :
       /\ Touch(a)
       /\ loop' \in IF a = "flagged" THEN {At("deep")} ELSE Rest(thread)
  /\ saved' \in {saved, [sig |-> Signature, age |-> 0]}
  /\ asked' = IF asked.sig = Signature THEN [asked EXCEPT !.age = 0] ELSE asked
  /\ answered' = 0
  /\ UNCHANGED <<world, thread, stop, deadman>>

\* Mutant: an unreachable LLM counts as a heartbeat.
UnavailableBeats ==
  /\ loop.at = "tick" /\ ~ShouldSkip
  /\ verdict' = [kind |-> "error", beat |-> TRUE] /\ loop' \in Rest(thread) /\ hb' = 0
  /\ UNCHANGED <<world, saved, thread, stop, deadman, history>>

\* LLMUnavailableError: neither heartbeat nor signature.
Unavailable ==
  /\ loop.at = "tick" /\ ~ShouldSkip
  /\ verdict' = [kind |-> "error", beat |-> FALSE] /\ loop' \in Rest(thread)
  /\ UNCHANGED <<world, saved, hb, thread, stop, deadman, history>>
-----------------------------------------------------------------------------
(* daemon.run *)

\* deep_analyze: whatever fails in it is swallowed; an escalation that was sent
\* opens the Telegram thread.
DeepAnalyze ==
  /\ loop.at = "deep"
  /\ thread' \in {thread, 0}
  /\ loop' \in Rest(thread')
  /\ UNCHANGED <<world, saved, hb, verdict, stop, deadman, history>>

\* Mutant: a sleep interrupted by a signal starts over.
WakeRearmed ==
  /\ loop.at = "sleep" /\ loop.left = 0
  /\ loop' = IF stop THEN [loop EXCEPT !.left = Quiet] ELSE At("tick")
  /\ UNCHANGED <<world, saved, hb, thread, verdict, stop, deadman, history>>

\* A signal does not cut time.sleep short: the stop is honoured at its end.
Wake ==
  /\ loop.at = "sleep" /\ loop.left = 0
  /\ loop' = IF stop THEN Stopped ELSE At("tick")
  /\ UNCHANGED <<world, saved, hb, thread, verdict, stop, deadman, history>>

\* An exception watch_once does not catch (the registry is unreachable, the
\* answer's body is not JSON) ends the process.
Raise ==
  /\ loop.at = "tick" /\ loop' = Stopped
  /\ UNCHANGED <<world, saved, hb, thread, verdict, stop, deadman, history>>

LoopStep == Deduplicate \/ Judge \/ Unavailable \/ DeepAnalyze \/ Wake \/ Raise

\* SIGTERM or SIGINT: the handler only sets the flag.
StopSignal ==
  /\ loop.at # "stopped" /\ ~stop /\ stop' = TRUE
  /\ UNCHANGED <<world, saved, hb, thread, loop, verdict, deadman, history>>

\* The supervisor, or the principal, starts the loop; not at the very moment it
\* stopped.
Start ==
  /\ loop = At("stopped") /\ loop' = At("tick") /\ stop' = FALSE
  /\ UNCHANGED <<world, saved, hb, thread, verdict, deadman, history>>
-----------------------------------------------------------------------------
(* The deadman script *)

\* is_stale: a heartbeat file that was never written is not stale.
IsStale == hb # None /\ hb > Threshold

DeadmanRun ==
  /\ deadman.due = 0
  /\ deadman' = [due |-> Period, alert |-> IsStale]
  /\ UNCHANGED <<world, saved, hb, thread, loop, verdict, stop, history>>
-----------------------------------------------------------------------------
(* The world around *)

\* Desks, leases, metrics, the audit log or the project files change.
HarborChanges ==
  /\ \E h \in Harbors \ {harbor} : harbor' = h
  /\ UNCHANGED <<notes, saved, hb, thread, loop, verdict, stop, deadman, history>>

\* register_clarification: a row with an id of its own and a clamped lifetime;
\* a repeated request is a second row.
RegisterClarification ==
  /\ Len(notes) < MaxNotes
  /\ \E ttl \in TTLs : notes' = Append(notes, ttl)
  /\ UNCHANGED <<harbor, saved, hb, thread, loop, verdict, stop, deadman, history>>

Older(age, limit) == IF age < limit THEN age + 1 ELSE limit

\* A unit of time passes, unless the loop or the script is due.
Pass ==
  /\ loop.at = "stopped" \/ (loop.at = "sleep" /\ loop.left > 0)
  /\ deadman.due > 0
  /\ notes' = [i \in DOMAIN notes |-> IF notes[i] > 0 THEN notes[i] - 1 ELSE 0]
  /\ saved' = [saved EXCEPT !.age = Older(@, ForceRefresh)]
  /\ hb' = IF hb = None THEN None ELSE Older(hb, Stale)
  /\ thread' = Older(thread, Closed)
  /\ loop' = [loop EXCEPT !.left = IF @ > 0 THEN @ - 1 ELSE 0]
  /\ deadman' = [deadman EXCEPT !.due = @ - 1]
  /\ asked' = [asked EXCEPT !.age = Older(@, ForceRefresh)]
  /\ answered' = Older(answered, LongAgo)
  /\ UNCHANGED <<harbor, verdict, stop>>

Next ==
  \/ LoopStep \/ StopSignal \/ Start \/ DeadmanRun \/ Pass
  \/ HarborChanges \/ RegisterClarification

Spec == Init /\ [][Next]_vars
FairSpec == Spec /\ WF_vars(LoopStep) /\ WF_vars(DeadmanRun) /\ WF_vars(Pass)
-----------------------------------------------------------------------------
(* Properties *)

\* A tick that asks nobody stands for an answer: the LLM was asked, less than
\* FORCE_REFRESH_SECONDS ago, about exactly this Harbor with exactly these
\* clarifications, however states came and went, files failed to be written and the
\* loop was restarted in between.
DedupIsFresh ==
  [][loop.at = "tick" /\ loop'.at = "sleep" /\ verdict'.kind = "deduplicated"
       /\ asked.sig = Signature => asked.age < ForceRefresh]_vars

\* A fresh heartbeat vouches for the LLM too: while the deadman script is content, the
\* LLM answered at most FORCE_REFRESH_SECONDS before the heartbeat was touched.
HeartbeatHonest ==
  hb # None /\ hb <= Threshold => answered < hb + ForceRefresh

\* The deadman script raises no false alarm: when it alerts, the loop was down, or its
\* last tick failed to touch the heartbeat.
NoFalseAlarm ==
  [][~deadman.alert /\ deadman'.alert => loop.at # "sleep" \/ ~verdict.beat]_vars

\* If from some time on the LLM never answers, because it is out of reach or because
\* the loop is down or starts only to die, the script ends up
\* alerting for good, unless there never was a heartbeat: no deduplicated tick keeps
\* the heartbeat alive for ever.
SilenceAlerted ==
  <>[][~Judge]_vars => <>[](hb = None) \/ <>[]deadman.alert

\* A stop request ends the loop, wherever it finds it.
StopHonoured == stop ~> loop.at = "stopped"
=============================================================================
