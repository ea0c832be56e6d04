----------------------------- MODULE MCCommands -----------------------------
(***************************************************************************)
(* The principal's commands: those of Records, on two desks and two yards  *)
(* whose names have one slug ("a-b" and "a_b"), or those that start and    *)
(* stop the daemon (DaemonProcess).  The two share no state, so that a     *)
(* behaviour is of one or of the other.                                    *)
(***************************************************************************)
EXTENDS Records, TLC

CONSTANTS dashed, underscored, Commands, MaxDaemons, MaxRuns

VARIABLES part, daemon, signal, sock, pidFile, cmd, runs, overlapped, unlisted

processes == <<daemon, signal, sock, pidFile, cmd, runs, overlapped, unlisted>>
Process == INSTANCE DaemonProcess

ASSUME CommandsAssumption == None \notin Process!Pids

MCSlug == dashed :> "yd_a_b" @@ underscored :> "yd_a_b"
Symmetry == Permutations(Procs) \union Permutations(Desks) \union Permutations(Commands)

MCInit == Init /\ Process!Init /\ part \in {"records", "daemon"}
MCNext ==
  \/ part = "records" /\ Next /\ UNCHANGED <<part, processes>>
  \/ part = "daemon" /\ Process!Next /\ UNCHANGED <<part, vars>>
MCSpec == MCInit /\ [][MCNext]_<<vars, processes, part>>

\* No other daemon is alive while one recovers (DaemonProcess).
RecoversAlone == Process!RecoversAlone

\* The daemon in the pid file answers on the socket (DaemonProcess).
ListedIsReachable == Process!ListedIsReachable
=============================================================================
