------------------------------ MODULE MCLauncher ------------------------------
(* What a user starts the system with: the launcher's command line, its run,    *)
(* open and install, what its other commands answer, the programs and recipes   *)
(* the App Manager puts into Wine prefixes, the system apps, and the registry   *)
(* with the files of two processes that install, launch and remove.  No two of  *)
(* these parts share a variable, so an invariant about one needs that one       *)
(* alone: an initial state picks the part that moves.                           *)
EXTENDS InstallWorld, LauncherCli, LauncherExits, AppPrograms, EngineRecipes, TLC

SeqExt == INSTANCE SequencesExt

CONSTANTS i1, i2, d1, d2, b1, b2
VARIABLE part       \* the part that moves

Parts == {"disk", "cli", "run", "commands", "programs", "recipes", "system apps"}

\* Two apps of two files each, of which the second is also launched from the
\* directory of the first; its own directory is outside the allow list.
MCOwn == i1 :> d1 @@ i2 :> d2
MCLaunchable == {<<i1, d1>>, <<i2, d1>>}
\* The two processes are alike, and so are the two prefixes.
Symmetry == Permutations(Proc) \union Permutations(Bottle)

\* Command lines: up to three chunks of the words a subcommand knows, some of
\* them incomplete or unknown to it.
MCDashed == Flags \union {"--what"}
Shared == {<<"--json">>, <<"--home", "h">>, <<"-p", "x">>, <<"x">>, <<"--what">>}
Own2(cmd) ==
    CASE cmd = "interop grant" -> {<<"--token", "t">>, <<"--channel", "c">>, <<"--prefix", "y">>}
      [] cmd = "bench" -> {<<"--profile", "baseline">>, <<"optimized">>}
      [] cmd = "prefix create" -> {<<"--force">>, <<"--arch", "win32">>, <<"--arch">>}
      [] cmd = "recipes apply" -> {<<"y">>, <<"--prefix">>}
      [] cmd = "matrix set" -> {<<"PASS">>, <<"--status", "FAIL">>, <<"--notes", "n">>}
      [] cmd = "engine" -> {<<"status">>, <<"hello">>}
      [] cmd = "devices" -> {<<"list">>} [] cmd = "mfp" -> {<<"smoke">>}
      [] cmd = "open" -> {<<"--install">>, <<"--run">>, <<"y">>}
      [] cmd = "run" -> {<<"--backend", "wine">>, <<"--bundle", "b">>, <<"--">>, <<"y">>}
      [] cmd = "apps" -> {<<"install">>, <<"permissions">>, <<"recipes">>,
                          <<"--set", "s">>, <<"--apply", "r">>, <<"--grant", "g">>}
      [] OTHER -> {<<"y">>}
CommandNames == {"sysapps list", "sysapps smoke", "interop status", "interop smoke",
    "prefix list", "recipes list", "matrix list", "matrix seed", "sysapps launch",
    "sysapps manifest", "interop grant", "bench", "prefix create", "recipes plan",
    "recipes apply", "matrix get", "matrix set", "engine", "doctor", "devices", "mfp",
    "open", "run", "install", "repair", "profile inspect", "config set", "apps"}
MCLines ==
    UNION {[cmd : {c}, words : {SeqExt!FlattenSeq(s) :
        s \in UNION {[1 .. n -> Shared \union Own2(c)] : n \in 0 .. 3}}] : c \in CommandNames}

\* Files by content and name, with and without a mark of an installer, and with
\* what the package unpacks to.
MCContents == {"missing", "junk", "elf", "gui", "console", "broken", "exe package", "msi package"}
MCNames == {"app.exe", "setup.exe", "app.msi", "app.bin", "app"}
MCFiles ==
    {f \in [content : MCContents, name : MCNames, marked : BOOLEAN,
            inside : {"console", "broken", "junk"}] :
        /\ f.inside # "console" => f.content \in PackageFile
        /\ f.marked => f.content # "missing" /\ f.name = "app.exe"}
MCEnvs == [smoke : BOOLEAN, requireReal : BOOLEAN, backend : {"wine", "other"}]
MCFile == [content |-> "gui", name |-> "app", marked |-> FALSE, inside |-> "console"]
MCEnv == [smoke |-> FALSE, requireReal |-> FALSE, backend |-> "wine"]

MCMachine == [override |-> "unset", cwd |-> TRUE, crate |-> FALSE, pinned |-> TRUE,
              wine |-> "works", cache |-> TRUE, spec |-> TRUE]
MCWorld == [repo |-> TRUE, wine |-> "works", catalog |-> TRUE]
MCWorlds == {w \in Worlds : w.catalog \/ w = [MCWorld EXCEPT !.catalog = FALSE]}
MCGolden == <<"line.exe", "steam.exe">>

MCEmpty == [filled |-> "empty", sys32 |-> FALSE, wow64 |-> FALSE]
MCPrefixes == {MCEmpty, [MCEmpty EXCEPT !.filled = "looks initialized"],
               [filled |-> "booted", sys32 |-> TRUE, wow64 |-> FALSE]}
MCTools == [dlls |-> Shim, wine |-> TRUE, winetricks |-> TRUE]

\* The constants hold the fixed values that the initial states are made of.
ASSUME MCAssumption ==
    /\ MCContents \subseteq Contents /\ MCNames \subseteq Names /\ "other" \in BackendNames
    /\ [cmd |-> "doctor", words |-> << >>] \in Lines
    /\ MCMachine \in Machines

mcVars == <<part, vars, cliVars, launcherVars, commandVars, programVars, recipeVars, systemVars>>

\* The choices among the initial states of a part are made where it moves.
MCInit ==
    /\ part \in Parts /\ Init
    /\ \E l \in IF part = "cli" THEN Lines ELSE {[cmd |-> "doctor", words |-> << >>]} : CliInit(l)
    /\ \E f \in IF part = "run" THEN MCFiles ELSE {MCFile} :
       \E e \in IF part = "run" THEN MCEnvs ELSE {MCEnv} : LauncherInit(f, e)
    /\ \E m \in IF part = "commands" THEN Machines ELSE {MCMachine} : CommandInit(m)
    /\ ProgramsInit
    /\ \E h \in IF part = "recipes" THEN MCPrefixes ELSE {MCEmpty} : RecipesInit(h, MCTools)
    /\ \E w \in IF part = "system apps" THEN MCWorlds ELSE {MCWorld} :
       \E r \in IF part = "system apps" THEN Roles ELSE {"settings"} : SystemInit(w, r)

DiskMoves ==
    /\ part = "disk" /\ Next
    /\ UNCHANGED <<part, cliVars, launcherVars, commandVars, programVars, recipeVars, systemVars>>
CliMoves ==
    /\ part = "cli" /\ CliNext
    /\ UNCHANGED <<part, vars, launcherVars, commandVars, programVars, recipeVars, systemVars>>
RunMoves ==
    /\ part = "run" /\ LauncherNext
    /\ UNCHANGED <<part, vars, cliVars, commandVars, programVars, recipeVars, systemVars>>
CommandsMove ==
    /\ part = "commands" /\ CommandNext
    /\ UNCHANGED <<part, vars, cliVars, launcherVars, programVars, recipeVars, systemVars>>
ProgramsMove ==
    /\ part = "programs" /\ ProgramsNext
    /\ UNCHANGED <<part, vars, cliVars, launcherVars, commandVars, recipeVars, systemVars>>
RecipesMove ==
    /\ part = "recipes" /\ RecipesNext
    /\ UNCHANGED <<part, vars, cliVars, launcherVars, commandVars, programVars, systemVars>>
SystemMoves ==
    /\ part = "system apps" /\ SystemNext
    /\ UNCHANGED <<part, vars, cliVars, launcherVars, commandVars, programVars, recipeVars>>

MCNext ==
    \/ DiskMoves \/ CliMoves \/ RunMoves \/ CommandsMove
    \/ ProgramsMove \/ RecipesMove \/ SystemMoves

MCSpec == MCInit /\ [][MCNext]_mcVars

-----------------------------------------------------------------------------
\* Every part keeps its types: registry and files, command, runs, commands,
\* programs, recipes and system apps.
PartsTypeOK ==
    /\ TypeOK /\ CliTypeOK /\ LauncherTypeOK /\ CommandTypeOK
    /\ ProgramsTypeOK /\ RecipesTypeOK /\ SystemTypeOK
=============================================================================
