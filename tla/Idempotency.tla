---------------------------- MODULE Idempotency ----------------------------
(***************************************************************************)
(* What the daemon promises for a request that carries a request id        *)
(* (rpc_common.py, module docstring: "client retries replay the cached     *)
(* outcome instead of re-applying side effects"), without saying how: a    *)
(* request is worked on once, gets one answer, every client that is told   *)
(* an outcome is told that answer, and an answered request may be          *)
(* forgotten, after which the id is as good as new.                        *)
(***************************************************************************)
CONSTANTS Requests,   \* request ids
          Answers,    \* what a settled request can be answered with
          Unanswered  \* stands for no answer yet

VARIABLES life,    \* life[r]: "new", "working" or "answered"
          answer,  \* answer[r]: the one answer of r
          told     \* told[r]: what clients have been told about r

vars == <<life, answer, told>>

Init ==
  /\ life = [r \in Requests |-> "new"]
  /\ answer = [r \in Requests |-> Unanswered]
  /\ told = [r \in Requests |-> {}]

\* The side effects of r start: only for an id that is new.
Work(r) ==
  /\ life[r] = "new"
  /\ life' = [life EXCEPT ![r] = "working"]
  /\ UNCHANGED <<answer, told>>

\* The work on r is settled with one answer, and the client may hear it.
Answer(r, a) ==
  /\ life[r] = "working"
  /\ life' = [life EXCEPT ![r] = "answered"]
  /\ answer' = [answer EXCEPT ![r] = a]
  /\ told' \in {told, [told EXCEPT ![r] = @ \union {a}]}

\* A client that asks again is told the recorded answer.
Tell(r) ==
  /\ life[r] = "answered"
  /\ told' = [told EXCEPT ![r] = @ \union {answer[r]}]
  /\ UNCHANGED <<life, answer>>

\* Answered requests are forgotten.
Forget(S) ==
  /\ \A r \in S : life[r] = "answered"
  /\ life' = [r \in Requests |-> IF r \in S THEN "new" ELSE life[r]]
  /\ answer' = [r \in Requests |-> IF r \in S THEN Unanswered ELSE answer[r]]
  /\ told' = [r \in Requests |-> IF r \in S THEN {} ELSE told[r]]

Next ==
  \/ \E r \in Requests : Work(r) \/ Tell(r) \/ \E a \in Answers : Answer(r, a)
  \/ \E S \in SUBSET Requests : Forget(S)

Spec == Init /\ [][Next]_vars
=============================================================================
