---------------------------- MODULE MCAuditorLoop ----------------------------
(***************************************************************************)
(* Instances of AuditorLoop for TLC: the cadences, windows and thresholds  *)
(* keep the order they have in the code.                                   *)
(***************************************************************************)
EXTENDS Integers, Sequences

CONSTANTS Harbors, MaxNotes, TTLs, Responsive, NearResponsive, Default, Quiet,
          ThreadWindow, ForceRefresh, Threshold, Period, None, h1, h2

VARIABLES harbor, notes, saved, hb, thread, loop, verdict, stop, deadman, asked, answered

Loop == INSTANCE AuditorLoop

ASSUME LoopConstants == Loop!AuditorLoopAssumption

LoopSpec == Loop!FairSpec

\* A tick that asks nobody stands for a fresh answer about the same state (AuditorLoop).
DedupIsFresh == Loop!DedupIsFresh

\* A fresh heartbeat vouches for a recent answer of the LLM (AuditorLoop).
HeartbeatHonest == Loop!HeartbeatHonest

\* The deadman script raises no false alarm (AuditorLoop).
NoFalseAlarm == Loop!NoFalseAlarm

\* An LLM that stays silent ends in an alert that stays (AuditorLoop).
SilenceAlerted == Loop!SilenceAlerted

\* A stop request ends the loop (AuditorLoop).
StopHonoured == Loop!StopHonoured
=============================================================================
