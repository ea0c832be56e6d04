---------------------------- MODULE DaemonProcess ----------------------------
(***************************************************************************)
(* Starting, stopping and restarting the daemon: `drydock daemon start`,   *)
(* `stop`, `reload` and `status` (cli/daemon.py), `start --foreground` as  *)
(* systemd runs it, and the process itself from its start to its exit      *)
(* (daemon/__main__.py, server.serve).  They find each other through two   *)
(* files: daemon.pid, which only `start` and `reload` write and every      *)
(* command may remove, and the socket, which every daemon removes and      *)
(* binds anew.                                                             *)
(*                                                                         *)
(* Commands may overlap and be killed; a daemon may die at any time.       *)
(* Process ids are not used again.                                         *)
(***************************************************************************)
EXTENDS Integers, FiniteSets

CONSTANTS
  Commands,   \* processes that run a command
  MaxDaemons, \* bound: daemons started
  MaxRuns,    \* bound: commands started
  None

VARIABLES
  daemon,   \* daemon[p]: what process p is doing
  signal,   \* processes that SIGTERM was sent to
  sock,     \* the process that bound the socket's path, None when there is no file
  pidFile,  \* the process named in daemon.pid, None when there is no file
  cmd,      \* cmd[c]: the command a process runs: its step and what it knows
  runs,     \* commands started so far
  overlapped, \* history: two commands overlapped
  unlisted    \* history: daemons left by a command that did not record their pid

files == <<sock, pidFile>>
history == <<overlapped, unlisted>>
vars == <<daemon, signal, files, cmd, runs, history>>

Pids == 1..MaxDaemons
Alive(p) == p # None /\ daemon[p] \notin {"none", "dead"}
Idle == [at |-> "idle"]
Kinds == {"start", "foreground", "stop", "reload", "status"}

Init ==
  /\ daemon = [p \in Pids |-> "none"] /\ signal = {}
  /\ sock = None /\ pidFile = None
  /\ cmd = [c \in Commands |-> Idle] /\ runs = 0
  /\ overlapped = FALSE /\ unlisted = {}
-----------------------------------------------------------------------------
(* server.serve *)

Become(p, state) == daemon' = [daemon EXCEPT ![p] = state]

\* The socket of another daemon, alive or not, is taken away.
Boot(p) ==
  /\ daemon[p] = "booting" /\ p \notin signal
  /\ Become(p, "recovering") /\ sock' = None
  /\ UNCHANGED <<signal, pidFile, cmd, runs, history>>

\* Recovery is done; a path that exists again cannot be bound.
Bind(p) ==
  /\ daemon[p] = "recovering" /\ p \notin signal
  /\ IF sock = None THEN Become(p, "serving") /\ sock' = p
                    ELSE Become(p, "dead") /\ UNCHANGED sock
  /\ UNCHANGED <<signal, pidFile, cmd, runs, history>>

\* KeyboardInterrupt out of serve_forever: the path is removed, whoever bound it.
Shutdown(p) ==
  /\ daemon[p] = "serving" /\ p \in signal
  /\ Become(p, "closing") /\ sock' = None
  /\ UNCHANGED <<signal, pidFile, cmd, runs, history>>

\* Interrupted before it served, at its end, or for no fault of its own.
Exit(p) ==
  /\ Alive(p) /\ Become(p, "dead")
  /\ UNCHANGED <<signal, files, cmd, runs, history>>
-----------------------------------------------------------------------------
(* The commands *)

At(c, step) == cmd[c].at = step
Goto(c, step) == cmd' = [cmd EXCEPT ![c] = step] /\ UNCHANGED runs
Step(c, at) == Goto(c, [cmd[c] EXCEPT !.at = at])

Run(c) ==
  /\ cmd[c] = Idle /\ runs < MaxRuns /\ runs' = runs + 1
  /\ \E kind \in Kinds : cmd' = [cmd EXCEPT ![c] = [at |-> "read", kind |-> kind, pid |-> None]]
  /\ overlapped' = (overlapped \/ \E e \in Commands : cmd[e] # Idle)
  /\ UNCHANGED <<daemon, signal, files, unlisted>>

\* _read_pid and _process_alive: a live daemon is left alone, or is the one to stop.
ReadPid(c) ==
  /\ At(c, "read")
  /\ CASE ~Alive(pidFile) -> Step(c, "clear")
       [] Alive(pidFile) /\ cmd[c].kind \in {"stop", "reload"} ->
            Goto(c, [cmd[c] EXCEPT !.at = "terminate", !.pid = pidFile])
       [] OTHER -> Goto(c, Idle)
  /\ UNCHANGED <<daemon, signal, files, history>>

\* A pid file without a live process is removed; by now it may be a newer one.
Clear(c) ==
  /\ At(c, "clear") /\ pidFile' = None
  /\ IF cmd[c].kind \in {"stop", "status"} THEN Goto(c, Idle) ELSE Step(c, "spawn")
  /\ UNCHANGED <<daemon, signal, sock, history>>

\* SIGTERM; a process that is gone by now makes os.kill raise.
Terminate(c) ==
  /\ At(c, "terminate")
  /\ IF Alive(cmd[c].pid) THEN signal' = signal \union {cmd[c].pid} /\ Step(c, "exit")
                          ELSE Goto(c, Idle) /\ UNCHANGED signal
  /\ UNCHANGED <<daemon, files, history>>

\* Mutant: at its timeout the command goes on.
WaitForExitOrNot(c) ==
  /\ At(c, "exit") /\ Step(c, "remove")
  /\ UNCHANGED <<daemon, signal, files, history>>

\* _wait_for_exit; at its timeout SIGKILL, which may come too late and raise.
WaitForExit(c) ==
  /\ At(c, "exit")
  /\ IF Alive(cmd[c].pid) THEN Become(cmd[c].pid, "dead") /\ Step(c, "remove")
     ELSE (Step(c, "remove") \/ Goto(c, Idle)) /\ UNCHANGED daemon
  /\ UNCHANGED <<signal, files, history>>

\* The pid file goes, whatever it says by now.
Remove(c) ==
  /\ At(c, "remove") /\ pidFile' = None
  /\ IF cmd[c].kind = "stop" THEN Goto(c, Idle) ELSE Step(c, "spawn")
  /\ UNCHANGED <<daemon, signal, sock, history>>

\* Mutant: the file of a daemon that did not clean up is left to its successor.
SpawnKeepsSocket(c) ==
  /\ At(c, "spawn")
  /\ \E p \in Pids :
       /\ daemon[p] = "none" /\ \A q \in Pids : q < p => daemon[q] # "none"
       /\ Become(p, "booting")
       /\ IF cmd[c].kind = "foreground"
          THEN Goto(c, Idle) /\ unlisted' = unlisted \union {p}
          ELSE Goto(c, [cmd[c] EXCEPT !.at = "wait", !.pid = p]) /\ UNCHANGED unlisted
  /\ UNCHANGED <<signal, files, overlapped>>

\* In the background: the socket's file is removed, the daemon started and waited for.
\* In the foreground the command becomes the daemon.
Spawn(c) ==
  /\ At(c, "spawn")
  /\ \E p \in Pids :
       /\ daemon[p] = "none" /\ \A q \in Pids : q < p => daemon[q] # "none"
       /\ Become(p, "booting")
       /\ IF cmd[c].kind = "foreground"
          THEN Goto(c, Idle) /\ unlisted' = unlisted \union {p} /\ UNCHANGED sock
          ELSE Goto(c, [cmd[c] EXCEPT !.at = "wait", !.pid = p]) /\ sock' = None /\ UNCHANGED unlisted
  /\ UNCHANGED <<signal, pidFile, overlapped>>

\* _wait_for_socket looks for the file only.
Started(c) ==
  /\ At(c, "wait") /\ sock # None /\ Step(c, "write")
  /\ UNCHANGED <<daemon, signal, files, history>>

\* The daemon died, or the time is up: it is told to go; reload does not wait for that.
NotStarted(c) ==
  LET p == cmd[c].pid IN
  /\ At(c, "wait") /\ sock = None
  /\ signal' = IF Alive(p) THEN signal \union {p} ELSE signal
  /\ IF cmd[c].kind = "start" /\ Alive(p) THEN Step(c, "reap") /\ UNCHANGED unlisted
     ELSE Goto(c, Idle) /\ unlisted' = IF Alive(p) THEN unlisted \union {p} ELSE unlisted
  /\ UNCHANGED <<daemon, files, overlapped>>

\* proc.wait, and proc.kill after a second.
Reap(c) ==
  /\ At(c, "reap") /\ Become(cmd[c].pid, "dead") /\ Goto(c, Idle)
  /\ UNCHANGED <<signal, files, history>>

WritePid(c) ==
  /\ At(c, "write") /\ pidFile' = cmd[c].pid /\ Goto(c, Idle)
  /\ UNCHANGED <<daemon, signal, sock, history>>

\* The command is killed; a daemon it has started lives on.
Kill(c) ==
  /\ cmd[c] # Idle /\ Goto(c, Idle)
  /\ unlisted' = IF cmd[c].at \in {"wait", "write", "reap"} THEN unlisted \union {cmd[c].pid} ELSE unlisted
  /\ UNCHANGED <<daemon, signal, files, overlapped>>
-----------------------------------------------------------------------------
Next ==
  \/ \E p \in Pids : Boot(p) \/ Bind(p) \/ Shutdown(p) \/ Exit(p)
  \/ \E c \in Commands :
       \/ Run(c) \/ ReadPid(c) \/ Clear(c) \/ Terminate(c) \/ WaitForExit(c) \/ Remove(c)
       \/ Spawn(c) \/ Started(c) \/ NotStarted(c) \/ Reap(c) \/ WritePid(c) \/ Kill(c)

Spec == Init /\ [][Next]_vars
-----------------------------------------------------------------------------
(* Properties *)

\* Recovery has the registry to itself, as TaskLog, DeskLifecycle and Migration assume:
\* no other daemon is alive while one recovers, however daemons die and commands are
\* killed, time out and follow each other, unless commands overlapped or one of
\* the daemons was never recorded in the pid file.
RecoversAlone ==
  ~overlapped =>
    \A p, q \in Pids \ unlisted : p # q /\ daemon[p] = "recovering" => ~Alive(q)

\* The daemon in the pid file answers: once it serves, the socket leads to it, and no
\* dying daemon's clean-up takes the socket away, unless commands overlapped or there
\* was a daemon that was never recorded.
ListedIsReachable ==
  ~overlapped /\ unlisted = {} /\ Alive(pidFile) /\ pidFile \notin signal => sock = pidFile
=============================================================================
