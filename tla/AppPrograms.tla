----------------------------- MODULE AppPrograms -----------------------------
(* The App Manager and the programs it stages (lifecycle.rs, lib.rs): a prefix  *)
(* is created, a program copied into its drive_c, and then the entry is saved.  *)
(* One command at a time, for one app (AppManager has the races over the data   *)
(* base and its files); a command may fail or be killed between any two writes. *)
(* create_prefix and apply_recipe are here what they leave behind; EnginePrefix *)
(* and EngineRecipes have their steps.                                          *)
EXTENDS FiniteSets

CONSTANTS
    Bottle,     \* names of prefixes
    CatalogExe, \* what the catalog calls the app's program
    OwnExe,     \* what the user's file of that app is called
    NoBottle

ASSUME ExeAssumption == CatalogExe # OwnExe /\ NoBottle \notin Bottle

VARIABLES
    filling,    \* how far a prefix is: "looks" if its drive_c or its first files
                \* are there, which is all that is_initialized asks for
    program,    \* the files in the app's directory of a prefix
    app,        \* the entry of the data base
    mirrored,   \* the app registry lists the app
    deed,       \* the command under way
    removed     \* history: the prefix of the entry was replaced since it was saved

programVars == <<filling, program, app, mirrored, deed, removed>>

Exe == {CatalogExe, OwnExe}
NoFiles == [x \in Exe |-> "none"]
NoDeed == [at |-> "idle", what |-> "none", bottle |-> NoBottle, exe |-> CatalogExe]
NotInstalled == [state |-> "none", source |-> "none", bottle |-> NoBottle, home |-> NoBottle,
                 exe |-> CatalogExe]

ProgramsInit ==
    /\ filling = [b \in Bottle |-> "none"] /\ program = [b \in Bottle |-> NoFiles]
    /\ app = NotInstalled /\ mirrored = FALSE
    /\ deed = NoDeed /\ removed = FALSE

LooksInitialized(b) == filling[b] # "none"
Listed == app.state = "installed"

Does(at) == deed.at = at
Proceeds(at) == deed' = [deed EXCEPT !.at = at]
Over == deed' = NoDeed

StartDeed(what, b, x) ==
    /\ Does("idle")
    /\ deed' = [at |-> "create", what |-> what, bottle |-> b, exe |-> x]
    /\ UNCHANGED <<filling, program, app, mirrored, removed>>

\* apps install by catalog id or by path, apps prefix --set, prefix create --force.
InstallCatalog(b) == StartDeed("catalog", b, CatalogExe)
InstallPath(b, x) == StartDeed("path", b, x)
SetPrefix(b) == Listed /\ StartDeed("prefix", b, CatalogExe)
ForceCreate(b) == StartDeed("force", b, CatalogExe)

GoesOn ==
    CASE deed.what = "catalog" -> Proceeds("recipe") [] deed.what = "path" -> Proceeds("stage")
      [] deed.what = "prefix" -> Proceeds("save") [] deed.what = "force" -> Over

\* create_prefix: a FAIL is an answer like PASS to its callers, and the command
\* goes on; only an error (a timeout, no Wine) ends it.
UseCreated ==
    /\ Does("create") /\ deed.what # "force" /\ LooksInitialized(deed.bottle)
    /\ GoesOn
    /\ UNCHANGED <<filling, program, app, mirrored, removed>>

Fills(b, how) == filling' = [filling EXCEPT ![b] = how]

\* wineboot adds to what is there; what it leaves when it fails is in how.
CreateByWineboot(how, passes) ==
    /\ Does("create")
    /\ deed.what = "force" \/ ~LooksInitialized(deed.bottle)
    /\ how = "looks" => filling[deed.bottle] = "none"
    /\ passes => how = "booted"
    /\ how # "same" => Fills(deed.bottle, how)
    /\ how = "same" => UNCHANGED filling
    /\ GoesOn \/ (~passes /\ Over)
    /\ UNCHANGED <<program, app, mirrored, removed>>

\* Without a template nothing is touched, and the answer is the FAIL of
\* CreateByWineboot; with one the prefix is removed first, programs and all.
CreateByClone(how) ==
    /\ Does("create")
    /\ deed.what = "force" \/ ~LooksInitialized(deed.bottle)
    /\ Fills(deed.bottle, how)
    /\ program' = [program EXCEPT ![deed.bottle] = NoFiles]
    /\ removed' = (removed \/ app.home = deed.bottle)
    /\ IF how = "booted" THEN GoesOn ELSE Over
    /\ UNCHANGED <<app, mirrored>>

\* The recommended crypt32 recipe: it boots a prefix that does not look
\* initialized.  Whatever becomes of it the install goes on, and so it does after
\* the row of the matrix (SystemApps) was replaced or was not.
RecommendedRecipe ==
    /\ Does("recipe")
    /\ \/ UNCHANGED filling
       \/ /\ ~LooksInitialized(deed.bottle)
          /\ \E how \in {"looks", "booted"} : Fills(deed.bottle, how)
    /\ Proceeds("stage")
    /\ UNCHANGED <<program, app, mirrored, removed>>

\* The directory is made, and drive_c with it: a prefix that could not be created
\* looks initialized from now on.
StageDir ==
    /\ Does("stage")
    /\ filling' = [filling EXCEPT ![deed.bottle] = IF LooksInitialized(deed.bottle) THEN @ ELSE "looks"]
    /\ Proceeds("copy")
    /\ UNCHANGED <<program, app, mirrored, removed>>

CopyResult(how) ==
    program' = [program EXCEPT ![deed.bottle][deed.exe] = IF how = "none" THEN @ ELSE how]

\* Mutation: a copy that fails does not end the install.
StagePeBestEffort(how) ==
    /\ Does("copy") /\ deed.what = "catalog" /\ CopyResult(how)
    /\ Proceeds("save")
    /\ UNCHANGED <<filling, app, mirrored, removed>>

\* install_catalog: without the stub program nothing is copied; a copy that
\* fails leaves a file cut short, and ends the install.
StagePe(how) ==
    /\ Does("copy") /\ deed.what = "catalog" /\ CopyResult(how)
    /\ IF how = "whole" THEN Proceeds("save") ELSE Over
    /\ UNCHANGED <<filling, app, mirrored, removed>>

\* install_path: "best-effort staging".
StageOwn(how) ==
    /\ Does("copy") /\ deed.what = "path" /\ CopyResult(how) /\ Proceeds("save")
    /\ UNCHANGED <<filling, app, mirrored, removed>>

SaveEntry ==
    /\ Does("save") /\ deed.what \in {"catalog", "path"}
    /\ app' = [state |-> "installed", source |-> deed.what, bottle |-> deed.bottle,
               home |-> deed.bottle, exe |-> deed.exe]
    /\ removed' = FALSE /\ Proceeds("mirror")
    /\ UNCHANGED <<filling, program, mirrored>>

\* apps prefix: the prefix changes, the program stays where it is.
SavePrefix ==
    /\ Does("save") /\ deed.what = "prefix"
    /\ app' = [app EXCEPT !.bottle = deed.bottle] /\ Over
    /\ UNCHANGED <<filling, program, mirrored, removed>>

\* mirror_registry_launch, if the registry can be written.
Mirror ==
    /\ Does("mirror") /\ mirrored' \in {mirrored, TRUE} /\ Over
    /\ UNCHANGED <<filling, program, app, removed>>

\* An error, or a kill.
DeedStops ==
    /\ deed.at # "idle" /\ Over
    /\ UNCHANGED <<filling, program, app, mirrored, removed>>

\* Neither the prefix nor the program nor the registry entry goes.
UninstallApp ==
    /\ Does("idle") /\ app.state # "none" /\ app' = [app EXCEPT !.state = "removed"]
    /\ UNCHANGED <<filling, program, mirrored, deed, removed>>

\* launch_app: the program where the entry says it is, in the prefix the entry
\* names now, which Wine fills on its first use; without the program, FAIL.
LaunchApp ==
    /\ Does("idle") /\ Listed /\ program[app.home][app.exe] # "none"
    /\ Fills(app.bottle, "booted")
    /\ UNCHANGED <<program, app, mirrored, deed, removed>>

Copy == {"none", "cut", "whole"}

ProgramsNext ==
    \/ \E b \in Bottle : InstallCatalog(b) \/ SetPrefix(b) \/ ForceCreate(b)
                         \/ \E x \in Exe : InstallPath(b, x)
    \/ UseCreated \/ \E how \in {"none", "looks", "booted"} : CreateByClone(how)
    \/ \E how \in {"same", "looks", "booted"}, passes \in BOOLEAN :
           CreateByWineboot(how, passes)
    \/ RecommendedRecipe \/ StageDir
    \/ \E how \in Copy : StagePe(how) \/ StageOwn(how)
    \/ SaveEntry \/ SavePrefix \/ Mirror \/ DeedStops
    \/ UninstallApp \/ LaunchApp

ProgramsSpec == ProgramsInit /\ [][ProgramsNext]_programVars

-----------------------------------------------------------------------------
ProgramsTypeOK ==
    /\ filling \in [Bottle -> {"none", "looks", "booted"}]
    /\ program \in [Bottle -> [Exe -> Copy]]
    /\ app \in [state : {"none", "installed", "removed"}, source : {"none", "catalog", "path"},
                bottle : Bottle \union {NoBottle}, home : Bottle \union {NoBottle}, exe : Exe]
    /\ mirrored \in BOOLEAN /\ removed \in BOOLEAN
    /\ deed \in [at : {"idle", "create", "recipe", "stage", "copy", "save", "mirror"},
                what : {"none", "catalog", "path", "prefix", "force"},
                bottle : Bottle \union {NoBottle}, exe : Exe]

\* "Registration-only INSTALLED.json without a PE is not a real install"
\* (lifecycle.rs:204): an app installed from the catalog has its program where
\* its entry says, whatever failed or was killed before (cut short at worst by
\* a later install), unless its prefix was replaced since; and a prefix with
\* a program in it always looks initialized.
CatalogEntryHasPe ==
    /\ Listed /\ app.source = "catalog" /\ ~removed => program[app.home][app.exe] # "none"
    /\ \A b \in Bottle : program[b] # NoFiles => LooksInitialized(b)
=============================================================================
