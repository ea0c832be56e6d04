----------------------------- MODULE MCTaskLog -----------------------------
(***************************************************************************)
(* TaskLog for TLC: three threads and two requests, a DestroyDesk, which   *)
(* recovery replays, and a method that recovery does not know.             *)
(***************************************************************************)
EXTENDS TaskLog, TLC

CONSTANTS t1, t2, t3, r1, r2

ThreadsMC == {t1, t2, t3}
RequestsMC == {r1, r2}
MethodMC == (r1 :> "DestroyDesk") @@ (r2 :> "RegisterWorkload")
=============================================================================
