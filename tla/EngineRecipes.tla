---------------------------- MODULE EngineRecipes ----------------------------
(* apply_recipe of strawnt-engine (recipes.rs) on one prefix: wineboot if the   *)
(* prefix looks empty, then the wintrust shim file by file or winetricks, then  *)
(* the record of what was applied.  One command at a time; each write may fail, *)
(* and the command may be killed before each.                                   *)
EXTENDS FiniteSets

CONSTANTS
    Shim,       \* the wintrust DLLs: for system32 and for syswow64
    Sys32,      \* the one for system32
    Verbs,      \* recipes for winetricks
    Network     \* those that load something

ASSUME ShimAssumption ==
    Sys32 \in Shim /\ "crypt32" \notin Verbs /\ Network \subseteq Verbs

VARIABLES
    has,        \* what the prefix holds: how far it is, and its directories
    shims,      \* the DLLs in it: "none", "cut" or "whole"
    regFiles,   \* the .reg files in its temp directory
    marker,     \* strawnt-crypt32-signature.json
    applied,    \* strawnt-recipes.json: a status per recipe
    torn,       \* or the file is cut short
    vendored,   \* the DLLs in the repository; and whether Wine and winetricks are there
    step        \* of the command under way, its recipe and what it installed

recipeVars == <<has, shims, regFiles, marker, applied, torn, vendored, step>>

Recipe == Verbs \union {"crypt32"}
NoStep == [at |-> "idle", recipe |-> "crypt32", installed |-> {}, status |-> "none"]
NothingApplied == [r \in Recipe |-> "none"]
\* A prefix in which a program was staged looks initialized, and so does one in
\* which wineboot stopped half way; neither need have a system32.
HasType == [filled : {"empty", "looks initialized", "booted"},
            sys32 : BOOLEAN, wow64 : BOOLEAN]

RecipesInit(h, v) ==
    /\ has = h /\ vendored = v
    /\ shims = [s \in Shim |-> "none"]
    /\ regFiles = {} /\ marker = FALSE
    /\ applied = NothingApplied /\ torn = FALSE /\ step = NoStep

Now(at) == step.at = at
Then(at) == step' = [step EXCEPT !.at = at]
\* An error, or a kill: what was written stays.
Ends == step' = NoStep

ApplyRecipe(r) ==
    /\ Now("idle")
    /\ step' = [NoStep EXCEPT !.recipe = r,
           !.at = IF has.filled = "empty" THEN "boot"
                  ELSE IF r = "crypt32" THEN "check" ELSE "winetricks"]
    /\ UNCHANGED <<has, shims, regFiles, marker, applied, torn, vendored>>

\* wineboot_init.  If it fails the command does too, and records nothing.
Wineboot(ok) ==
    /\ Now("boot")
    /\ IF ok THEN /\ vendored.wine /\ has' = [filled |-> "booted", sys32 |-> TRUE, wow64 |-> TRUE]
                  /\ Then(IF step.recipe = "crypt32" THEN "check" ELSE "winetricks")
             ELSE /\ has' \in {has} \union
                         IF vendored.wine THEN [filled : {"looks initialized"}, sys32 : BOOLEAN,
                                                wow64 : {FALSE}] ELSE {}
                  /\ Ends
    /\ UNCHANGED <<shims, regFiles, marker, applied, torn, vendored>>

\* The end of apply_crypt32_shim, or of winetricks: the status to record.
Records(status) == step' = [step EXCEPT !.at = "record", !.status = status]

CheckShim ==
    /\ Now("check")
    /\ IF vendored.dlls = {} \/ ~has.sys32 THEN Records("FAIL") ELSE Then("copy")
    /\ UNCHANGED <<has, shims, regFiles, marker, applied, torn, vendored>>

Copyable == {s \in vendored.dlls : s = Sys32 \/ has.wow64} \ step.installed

\* fs::copy, first to system32; a copy that fails leaves a file cut short.
CopyShim(s, whole) ==
    /\ Now("copy") /\ s \in Copyable /\ (Sys32 \in Copyable => s = Sys32)
    /\ shims' = [shims EXCEPT ![s] = IF whole THEN "whole" ELSE "cut"]
    /\ IF whole THEN step' = [step EXCEPT !.installed = @ \union {s}] ELSE Ends
    /\ UNCHANGED <<has, regFiles, marker, applied, torn, vendored>>

\* Mutation: that no DLL was installed is not noticed.
CopiedAny ==
    /\ Now("copy") /\ Copyable = {} /\ Then("override")
    /\ UNCHANGED <<has, shims, regFiles, marker, applied, torn, vendored>>

Copied ==
    /\ Now("copy") /\ Copyable = {}
    /\ IF step.installed = {} THEN Records("FAIL") ELSE Then("override")
    /\ UNCHANGED <<has, shims, regFiles, marker, applied, torn, vendored>>

\* A .reg file and run_wine_regedit.  The exit code of regedit does not matter.
Import(file, next) ==
    /\ Now(file)
    /\ regFiles' = regFiles \union {file}
    /\ IF vendored.wine THEN Then(next) ELSE Ends
    /\ UNCHANGED <<has, shims, marker, applied, torn, vendored>>

WriteMarker ==
    /\ Now("marker") /\ marker' = TRUE /\ Records("PASS")
    /\ UNCHANGED <<has, shims, regFiles, applied, torn, vendored>>

\* apply_winetricks: without winetricks or Wine a recipe that needs the network
\* is PARTIAL, and one that does not is an error.
Winetricks ==
    /\ Now("winetricks")
    /\ IF vendored.winetricks /\ vendored.wine
       THEN \E status \in {"PASS", "FAIL"} : Records(status)
       ELSE IF step.recipe \in Network THEN Records("PARTIAL") ELSE Ends
    /\ UNCHANGED <<has, shims, regFiles, marker, applied, torn, vendored>>

\* read_recipes_state takes a file that cannot be parsed for an empty one: the
\* other recipes are forgotten.
Record(whole) ==
    /\ Now("record") /\ Ends
    /\ torn' = ~whole
    /\ applied' = IF whole THEN [applied EXCEPT ![step.recipe] = step.status]
                  ELSE NothingApplied
    /\ UNCHANGED <<has, shims, regFiles, marker, vendored>>

Stopped ==
    /\ ~Now("idle") /\ Ends
    /\ UNCHANGED <<has, shims, regFiles, marker, applied, torn, vendored>>

\* Between commands: create_prefix --force from a template replaces the prefix;
\* Wine, winetricks and the DLLs come and go.
Recreated ==
    /\ Now("idle") /\ has' = [filled |-> "booted", sys32 |-> TRUE, wow64 |-> TRUE]
    /\ shims' = [s \in Shim |-> "none"] /\ regFiles' = {}
    /\ marker' = FALSE /\ applied' = NothingApplied /\ torn' = FALSE
    /\ UNCHANGED <<vendored, step>>

ToolsChange(v) ==
    /\ Now("idle") /\ vendored' = v
    /\ UNCHANGED <<has, shims, regFiles, marker, applied, torn, step>>

Tools == [dlls : SUBSET Shim, wine : BOOLEAN, winetricks : BOOLEAN]

RecipesNext ==
    \/ \E r \in Recipe : ApplyRecipe(r)
    \/ \E ok \in BOOLEAN : Wineboot(ok)
    \/ CheckShim \/ Copied \/ \E s \in Shim, whole \in BOOLEAN : CopyShim(s, whole)
    \/ Import("override", "line") \/ Import("line", "marker") \/ WriteMarker
    \/ Winetricks
    \/ \E whole \in BOOLEAN : Record(whole)
    \/ Stopped \/ Recreated \/ \E v \in Tools : ToolsChange(v)

RecipesSpec ==
    /\ \E h \in HasType, v \in Tools : RecipesInit(h, v)
    /\ [][RecipesNext]_recipeVars

-----------------------------------------------------------------------------
RecipesTypeOK ==
    /\ has \in HasType /\ shims \in [Shim -> {"none", "cut", "whole"}]
    /\ regFiles \subseteq {"override", "line"}
    /\ marker \in BOOLEAN /\ vendored \in Tools
    /\ torn \in BOOLEAN /\ applied \in [Recipe -> {"none", "PASS", "PARTIAL", "FAIL"}]
    /\ step \in [at : {"idle", "boot", "check", "copy", "override", "line", "marker",
                       "winetricks", "record"},
                recipe : Recipe, installed : SUBSET Shim,
                status : {"none", "PASS", "PARTIAL", "FAIL"}]

\* Whatever failed or was killed before, a prefix with the marker of the shim
\* has a DLL of it (cut short at worst by a later copy) and both .reg files; and
\* a recorded PASS of the recipe has its marker.
MarkerMeansShim ==
    /\ marker => /\ \E s \in Shim : shims[s] # "none"
                 /\ regFiles = {"override", "line"}
    /\ applied["crypt32"] = "PASS" => marker
=============================================================================
