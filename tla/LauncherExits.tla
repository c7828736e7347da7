----------------------------- MODULE LauncherExits -----------------------------
(* What a user learns from a command that has ended: from run, open and install *)
(* (LauncherRun), from the other commands (LauncherCommands), and from the      *)
(* launch of a system app (SystemApps).  One command is one of the three.       *)
EXTENDS LauncherRun, LauncherCommands, SystemApps

ExitsSpec == LauncherSpec /\ CommandSpec /\ SystemSpec

\* The exit code, and what a command writes down of itself, tell what became of
\* it: run, open and install; the other commands; the system apps.
ExitCodeTells == RunTells /\ CommandTells /\ LaunchTells
=============================================================================
