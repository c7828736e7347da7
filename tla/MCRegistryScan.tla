----------------------------- MODULE MCRegistryScan -----------------------------
(***************************************************************************)
(* RegistryScan for TLC: a Linux application and a flatpak, two processes, *)
(* and the sessions of other programs that change the entries' source,     *)
(* state and protection.                                                   *)
(***************************************************************************)
EXTENDS RegistryScan, TLC

CONSTANTS lin, flat, d1

MCIds   == {lin, flat}
MCDirs  == {d1}
MCClass == [i \in Ids |-> IF i = lin THEN "linux" ELSE "flatpak"]

\* What strawwu-registry-scan --all, and a scan by hand, ask for.
FullScans == {{"linux", "flatpak"}}
\* What the apt hook and the flatpak trigger ask for.
HookScans == {{"linux"}, {"flatpak"}}
AllScans  == FullScans \union HookScans

Ask(cmd, id, kind, source, protected) ==
    [cmd |-> cmd, id |-> id, kind |-> kind, source |-> source,
     protected |-> protected, dir |-> NoDir, found |-> {}]

MCOthers == {Ask("register", lin, "native", "seed", TRUE),
             Ask("launch", lin, "linux", "launcher", FALSE),
             Ask("remove", lin, "linux", "manual", FALSE),
             Ask("launch", flat, "win32", "launcher", FALSE),
             Ask("pending", flat, "win32", "installer", FALSE),
             Ask("remove", flat, "win32", "installer", FALSE)}

Symmetry == Permutations(Proc)
================================================================================
