--------------------------- MODULE LauncherCommands ---------------------------
(* What the other commands of the launcher answer and with which exit code     *)
(* (main.rs), and what they ask of the machine first: the repository they find, *)
(* the pinned engine and its Wine (strawnt-engine lib.rs, optimize.rs).  One    *)
(* command per run; a command that is killed tells nothing.                     *)

CONSTANTS Machines      \* see MachineType

VARIABLES
    machine,    \* what is there
    scratch,    \* the prefix in the temporary directory made by engine hello
    bench,      \* what bench has managed so far
    told        \* the command, what it reported, and its exit code

commandVars == <<machine, scratch, bench, told>>

\* A PIN file may lack a key.  Wine may be missing, say nothing of its version,
\* say it but run nothing, or work.
MachineType ==
    [override : {"unset", "good", "bad"}, cwd : BOOLEAN, crate : BOOLEAN,
     pinned : BOOLEAN, wine : {"none", "silent", "answers", "works"},
     cache : BOOLEAN, spec : BOOLEAN]

ASSUME MachinesAssumption == Machines \subseteq MachineType

Reports == {"PASS", "PARTIAL", "FAIL", "error"}
NotTold == [command |-> "none", report |-> "none", code |-> 0]

CommandInit(m) ==
    machine = m /\ scratch = "none" /\ bench = "none" /\ told = NotTold

\* find_repo_root: STRAWNT_ROOT alone if it is set, or else a directory above the
\* current one, or the one this program was built in.
FindRepoRoot ==
    CASE machine.override = "good" -> "override"
      [] machine.override = "bad" -> "none"
      [] machine.override = "unset" /\ machine.cwd -> "cwd"
      [] machine.override = "unset" /\ ~machine.cwd /\ machine.crate -> "crate"
      [] OTHER -> "none"

LoadPin == FindRepoRoot # "none" /\ machine.pinned
HasWine == LoadPin /\ machine.wine # "none"
ProbeVersion == HasWine /\ machine.wine # "silent"
RunsPrograms == HasWine /\ machine.wine = "works"

\* The commands whose exit code tells a report of FAIL, and those that succeed
\* with PASS only.  What the others report does not matter.
FailOnFail == {"apps install", "apps launch", "apps launch role", "engine status",
               "prefix create", "recipes apply", "bench", "sysapps launch"}
FailUnlessPass == {"apps smoke", "mfp smoke", "engine hello", "matrix seed",
                   "interop status", "interop smoke", "sysapps smoke"}

ExitCode(command, report) ==
    IF \/ report = "error"
       \/ report = "FAIL" /\ command \in FailOnFail
       \/ report # "PASS" /\ command \in FailUnlessPass
    THEN 1 ELSE 0

Tells(command, report) ==
    told' = [command |-> command, report |-> report, code |-> ExitCode(command, report)]

Starts == told = NotTold /\ scratch = "none" /\ bench = "none"
Alone(command, reports) ==
    /\ Starts /\ \E r \in reports : Tells(command, r)
    /\ UNCHANGED <<machine, scratch, bench>>
\* require_repo_root, before anything else.
Rooted(command, reports) ==
    Alone(command, IF FindRepoRoot = "none" THEN {"error"} ELSE reports)

\* The App Manager's commands; the file system may fail any of them.
Apps ==
    \/ \E c \in {"apps status", "apps list", "apps show", "apps install", "apps uninstall",
                 "apps prefix", "apps channel", "apps permissions", "apps compat",
                 "apps catalog", "apps sysapps"} : Rooted(c, {"PASS", "error"})
    \/ Rooted("apps recipes", Reports)
    \/ Rooted("apps smoke", Reports)

\* apps launch of a system app with a role launches the role, which needs
\* neither repository nor Wine (SystemApps).  Any other system app is PARTIAL;
\* an app needs Wine, a staged program, and that program to say its word.
AppsLaunch ==
    \/ Alone("apps launch role", {"PASS", "FAIL", "error"})
    \/ Alone("apps launch", {"PARTIAL", "error"})
    \/ Rooted("apps launch",
              IF HasWine THEN {"FAIL"} \union (IF RunsPrograms THEN {"PASS"} ELSE {}) ELSE {"error"})

DevicesMfp ==
    \/ Alone("devices list", {"PASS", "error"})
    \/ Alone("mfp smoke", {"PASS", "FAIL", "error"})

Stubs ==
    \E c \in {"profile", "repair", "config", "interop grant", "recipes list"} : Alone(c, {"PASS"})
Status == Alone("status", {"PASS", "error"})

EngineReport ==
    CASE ~LoadPin -> "error"
      [] LoadPin /\ ProbeVersion -> "PASS"
      [] LoadPin /\ ~ProbeVersion /\ machine.cache -> "PARTIAL"
      [] OTHER -> "FAIL"

EngineStatus == Alone("engine status", {EngineReport})

\* doctor takes a missing Wine for a failure, whatever engine_status reports.
Doctor ==
    /\ Starts
    /\ told' = [command |-> "doctor", report |-> EngineReport,
                code |-> IF EngineReport \in {"error", "FAIL"} \/ ~HasWine THEN 1 ELSE 0]
    /\ UNCHANGED <<machine, scratch, bench>>

\* engine hello: the prefix is made once Wine was found, and whatever comes of
\* it, it is removed; a failure of that is passed over.
StartHello ==
    /\ Starts /\ HasWine /\ scratch' = "there" /\ UNCHANGED <<machine, bench, told>>

\* No repository, no Wine, or no room for the prefix.
HelloNotStarted == Alone("engine hello", {"error"})

EndHello ==
    /\ scratch = "there" /\ scratch' \in {"removed", "left"}
    /\ \E r \in {IF RunsPrograms THEN "PASS" ELSE "FAIL", "error"} : Tells("engine hello", r)
    /\ UNCHANGED <<machine, bench>>

\* create_prefix and apply_recipe are EnginePrefix and EngineRecipes.
PrefixCommands ==
    \/ Rooted("prefix create", {"PASS", "FAIL", "error"})
    \/ Alone("prefix list", {"PASS", "error"})

RecipeCommands ==
    \/ Alone("recipes plan", {"PASS", "error"})
    \/ Rooted("recipes apply", Reports)

\* get answers the status of the row: no exit code tells it.
MatrixCommands ==
    \/ Alone("matrix list", {"PASS", "error"}) \/ Alone("matrix set", {"PASS", "error"})
    \/ Alone("matrix get", Reports \union {"UNKNOWN"})
    \/ Rooted("matrix seed", IF LoadPin THEN {"PASS", "error"} ELSE {"error"})

\* run_bench: a prefix, by wineboot or from the template; a cold start of Wine
\* in it; and the memory Wine holds after it.
StartBench(create) ==
    /\ Starts /\ LoadPin
    /\ create = "created" => machine.wine # "none"
    /\ bench' = create /\ UNCHANGED <<machine, scratch, told>>

BenchError == Starts /\ Rooted("bench", {"FAIL", "error"})

ColdStart ==
    /\ bench = "created"
    /\ bench' \in {"no start"} \union (IF RunsPrograms THEN {"started"} ELSE {})
    /\ UNCHANGED <<machine, scratch, told>>

\* No process found after the idle time makes the measure PARTIAL, and bench
\* reports PASS all the same; an error of the wait ends it without a report.
EndBench ==
    /\ bench \in {"not created", "no start", "started"} /\ bench' = "ended"
    /\ \/ Tells("bench", IF bench = "started" THEN "PASS"
                         ELSE IF bench = "no start" THEN "PARTIAL" ELSE "FAIL")
       \/ bench = "no start" /\ Tells("bench", "error")
    /\ UNCHANGED <<machine, scratch>>

InteropStatus == Rooted("interop status", IF machine.spec THEN {"PASS"} ELSE {"FAIL"})
InteropSmoke == Rooted("interop smoke", Reports)

SysappsCommands ==
    \/ Alone("sysapps list", {"PASS", "error"}) \/ Alone("sysapps manifest", {"PASS", "error"})
    \/ Alone("sysapps launch", {"PASS", "FAIL", "error"})
    \/ Alone("sysapps smoke", Reports)

CommandNext ==
    \/ Apps \/ AppsLaunch \/ DevicesMfp \/ Stubs \/ Status \/ EngineStatus \/ Doctor
    \/ StartHello \/ HelloNotStarted \/ EndHello
    \/ PrefixCommands \/ RecipeCommands \/ MatrixCommands
    \/ StartBench("created") \/ StartBench("not created") \/ BenchError \/ ColdStart \/ EndBench
    \/ InteropStatus \/ InteropSmoke \/ SysappsCommands

CommandSpec == (\E m \in Machines : CommandInit(m)) /\ [][CommandNext]_commandVars

-----------------------------------------------------------------------------
CommandTypeOK ==
    /\ machine \in Machines /\ scratch \in {"none", "there", "removed", "left"}
    /\ bench \in {"none", "created", "not created", "no start", "started", "ended"}
    /\ told.code \in {0, 1}

\* An exit code of 0 is not given for nothing: after doctor there is a Wine of
\* the pinned engine, after hello and a bench that reports PASS it ran a
\* program, after engine status it told its version or its archive is there, and
\* after an app that is no system app was launched it ran it.  A command that
\* asks for the repository fails without one.  PASS never comes with an exit
\* code of 1, and hello has tried to remove its prefix.
CommandTells ==
    /\ told.code = 0 =>
        /\ told.command = "doctor" => HasWine
        /\ told.command = "engine hello" => RunsPrograms
        /\ told.command = "engine status" => LoadPin /\ (ProbeVersion \/ machine.cache)
        /\ told.command \in {"bench", "apps launch"} /\ told.report = "PASS" => RunsPrograms
        /\ told.command \in {"bench", "prefix create", "recipes apply", "apps list"} =>
               FindRepoRoot # "none"
    /\ told.report = "PASS" => told.code = 0
    /\ told.command = "engine hello" => scratch # "there"
=============================================================================
