------------------------------ MODULE SystemApps ------------------------------
(* The dedicated system apps (strawnt-sysapps launch.rs) and the compatibility *)
(* matrix (strawnt-engine matrix.rs), which one of them fills.  A launch does   *)
(* what its role is for, then writes last-run.json and LAUNCHED, and answers.   *)
(* One command at a time; it may fail or be killed between any two writes.      *)
EXTENDS FiniteSets

CONSTANTS
    Golden,     \* the rows that seed_golden writes, in this order
    OtherKey,   \* a row of some other program
    Words       \* what matrix set is given for a status

ASSUME GoldenAssumption == OtherKey \notin {Golden[1], Golden[2]}

VARIABLES
    rows,       \* compat-matrix.json: the status of each row
    cut,        \* or the file is cut short, and no command reads it again
    role,       \* the system app that is launched: others share the matrix only
    lastRun,    \* the status in its last-run.json
    stamped,    \* its LAUNCHED is there
    bottles,    \* the prefixes sys-run and sys-files that exist
    world,      \* Wine, the repository, and whether the catalog install works
    launch,     \* the command under way
    answer      \* the last answer of a launch

systemVars == <<rows, cut, role, lastRun, stamped, bottles, world, launch, answer>>

Roles == {"settings", "run_dialog", "installer_wizard", "app_library", "compat_center",
          "task_manager", "file_manager"}
Worlds == [repo : BOOLEAN, wine : {"none", "broken", "works"}, catalog : BOOLEAN]
Key == {Golden[1], Golden[2], OtherKey}
NoRows == [k \in Key |-> "none"]
\* purpose: whether a seed is part of a launch.
Quiet == [at |-> "idle", purpose |-> "launch", status |-> "PASS"]

SystemInit(w, r) ==
    /\ rows = NoRows /\ cut = FALSE /\ role = r /\ lastRun = "none" /\ stamped = FALSE /\ bottles = {}
    /\ world = w /\ launch = Quiet /\ answer = "none"

\* Mutation: the word is stored as it was given.
NormalizeNot(word) == word

\* normalize: any other word is UNKNOWN.
Normalize(word) == IF word \in {"PASS", "PARTIAL", "FAIL"} THEN word ELSE "UNKNOWN"

\* set_entry reads the file, replaces the row, and writes the file in place.
SetEntry(k, word, whole) ==
    /\ ~cut /\ cut' = ~whole
    /\ rows' = IF whole THEN [rows EXCEPT ![k] = Normalize(word)] ELSE rows

MatrixSet(k, word, whole) ==
    /\ launch.at = "idle" /\ SetEntry(k, word, whole)
    /\ UNCHANGED <<role, lastRun, stamped, bottles, world, launch, answer>>

\* The system apps are first put into the data base of AppManager.
LaunchRole ==
    /\ launch.at = "idle" /\ launch' = [Quiet EXCEPT !.at = "detail"] /\ answer' = "none"
    /\ UNCHANGED <<role, rows, cut, lastRun, stamped, bottles, world>>

Launches(r) == launch.at = "detail" /\ role = r
Detailed(status) == launch' = [launch EXCEPT !.at = "last run", !.status = status]

LaunchSettings ==
    /\ Launches("settings") /\ world.repo /\ Detailed("PASS")
    /\ UNCHANGED <<role, rows, cut, lastRun, stamped, bottles, world, answer>>

\* Win+R: its argument is recorded, and never run; the same echo always is.
\* Whether the prefix could be created does not matter.
LaunchRunDialog ==
    /\ Launches("run_dialog") /\ world.repo
    /\ IF world.wine = "none" THEN Detailed("FAIL") /\ UNCHANGED bottles
       ELSE /\ bottles' = bottles \union {"sys-run"}
            /\ Detailed(IF world.wine = "works" THEN "PASS" ELSE "FAIL")
    /\ UNCHANGED <<role, rows, cut, lastRun, stamped, world, answer>>

\* An install from the catalog that fails is PARTIAL in the detail.
LaunchInstaller ==
    /\ Launches("installer_wizard")
    /\ Detailed(IF world.catalog /\ world.repo THEN "PASS" ELSE "PARTIAL")
    /\ UNCHANGED <<role, rows, cut, lastRun, stamped, bottles, world, answer>>

LaunchHostView ==
    /\ Launches("app_library") \/ Launches("task_manager")
    /\ Detailed("PASS")
    /\ UNCHANGED <<role, rows, cut, lastRun, stamped, bottles, world, answer>>

LaunchFileManager ==
    /\ Launches("file_manager") /\ world.repo
    /\ bottles' \in {bottles} \union
           (IF world.wine = "none" THEN {} ELSE {bottles \union {"sys-files"}})
    /\ Detailed("PASS")
    /\ UNCHANGED <<role, rows, cut, lastRun, stamped, world, answer>>

\* The compatibility centre seeds a matrix that has no rows.
LaunchCompat ==
    /\ Launches("compat_center") /\ ~cut
    /\ IF rows = NoRows THEN world.repo /\ launch' = [launch EXCEPT !.at = "seed"]
       ELSE Detailed("PASS")
    /\ UNCHANGED <<role, rows, cut, lastRun, stamped, bottles, world, answer>>

\* seed_golden: by the compatibility centre, or as a command.
StartSeed ==
    /\ launch.at = "idle" /\ world.repo
    /\ launch' = [Quiet EXCEPT !.at = "seed", !.purpose = "seed"]
    /\ UNCHANGED <<role, rows, cut, lastRun, stamped, bottles, world, answer>>

SeedFirst ==
    /\ launch.at = "seed" /\ SetEntry(Golden[1], "PARTIAL", TRUE)
    /\ launch' = [launch EXCEPT !.at = "seed more"]
    /\ UNCHANGED <<role, lastRun, stamped, bottles, world, answer>>

SeedSecond ==
    /\ launch.at = "seed more" /\ SetEntry(Golden[2], "PARTIAL", TRUE)
    /\ IF launch.purpose = "launch" THEN Detailed("PASS") ELSE launch' = Quiet
    /\ UNCHANGED <<role, lastRun, stamped, bottles, world, answer>>

\* write_side_effect: what is not FAIL is written down as PASS.
Outcome == IF launch.status = "FAIL" THEN "FAIL" ELSE "PASS"

WriteLastRun ==
    /\ launch.at = "last run" /\ launch' = [launch EXCEPT !.at = "stamp"]
    /\ lastRun' = Outcome
    /\ UNCHANGED <<role, rows, cut, stamped, bottles, world, answer>>

Stamp ==
    /\ launch.at = "stamp" /\ launch' = Quiet
    /\ stamped' = TRUE /\ answer' = Outcome
    /\ UNCHANGED <<role, rows, cut, lastRun, bottles, world>>

\* An error of any step, or a kill; a file being written is cut short.
LaunchStops ==
    /\ launch.at # "idle" /\ launch' = Quiet
    /\ cut' = (cut \/ launch.at \in {"seed", "seed more"}) \/ cut' = cut
    /\ lastRun' \in {lastRun} \union
           (IF launch.at = "last run" THEN {"torn"} ELSE {})
    /\ UNCHANGED <<role, rows, stamped, bottles, world, answer>>

SystemNext ==
    \/ \E k \in Key, word \in Words, whole \in BOOLEAN : MatrixSet(k, word, whole)
    \/ LaunchRole
    \/ LaunchSettings \/ LaunchRunDialog \/ LaunchInstaller \/ LaunchHostView
    \/ LaunchFileManager \/ LaunchCompat \/ StartSeed \/ SeedFirst \/ SeedSecond
    \/ WriteLastRun \/ Stamp \/ LaunchStops

SystemSpec ==
    /\ \E w \in Worlds, r \in Roles : SystemInit(w, r)
    /\ [][SystemNext]_systemVars

-----------------------------------------------------------------------------
SystemTypeOK ==
    /\ cut \in BOOLEAN /\ rows \in [Key -> {"none", "PASS", "PARTIAL", "FAIL", "UNKNOWN"}]
    /\ lastRun \in {"none", "torn", "PASS", "FAIL"} /\ stamped \in BOOLEAN
    /\ bottles \subseteq {"sys-run", "sys-files"} /\ world \in Worlds
    /\ role \in Roles /\ answer \in {"none", "PASS", "FAIL"}

\* A launch that answered is written down with what it answered; the run dialog
\* answers PASS only if Wine ran its echo; and after the compatibility centre
\* answered PASS the matrix has rows, or a later command cut it short.
LaunchTells ==
    /\ answer # "none" =>
        /\ stamped /\ lastRun = answer
        /\ role = "run_dialog" /\ answer = "PASS" => world.wine = "works" /\ "sys-run" \in bottles
        /\ role = "compat_center" /\ answer = "PASS" => rows # NoRows
    /\ stamped => lastRun # "none"
=============================================================================
