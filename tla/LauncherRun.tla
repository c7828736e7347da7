----------------------------- MODULE LauncherRun -----------------------------
(* run, open and install of the launcher (main.rs), one call after another on   *)
(* one file: what is registered and written to the menu, what is executed, and  *)
(* the exit code.  Whatever the backend is named, the program is executed by    *)
(* the processor of this process (launch_via_native); the name is checked and   *)
(* stored.  --bundle and --profile are read and not used.                       *)
EXTENDS Naturals

CONSTANTS
    Contents,       \* what a file holds: see Pe below
    Names,          \* what it is called
    BackendNames,   \* values of --backend and of the environment
    MaxCalls        \* bound on calls

ASSUME MaxCallsAssumption == MaxCalls \in Nat

VARIABLES
    file,           \* the file named on the command line
    env,            \* STRAWWU_SMOKE, REQUIRE_REAL_EXEC, and the default backend
    entry,          \* registry entries: of the file and of the main.exe unpacked
    menu,           \* what the .desktop file of an id runs
    unpacked,       \* the install directory holds main.exe
    call,           \* the call under way
    ran,            \* history: what the call executed and how it ended
    callCount       \* calls so far

launcherVars == <<file, env, entry, menu, unpacked, call, ran, callCount>>

FileType == [content : Contents, name : Names, marked : BOOLEAN, inside : Contents]
EnvType == [smoke : BOOLEAN, requireReal : BOOLEAN, backend : BackendNames \union {"wine"}]

AppIds == {"file", "main"}      \* slugs of the two file names
NoEntry == [state |-> "none", source |-> "none", backend |-> "none"]
NoCall == [step |-> "done", code |-> 0, binary |-> "file", backend |-> "unset",
           update |-> TRUE, shortcut |-> FALSE, bytes |-> "none"]

Pe == {"gui", "console", "broken", "exe package"}
PackageFile == {"exe package", "msi package"}
Runnable == {"gui", "console", "exe package"}
KnownBackend == {"wine", "native", "container", "microvm"}

\* detect_format: by the first bytes; neither MSI files nor OLE packages are
\* known.
FormatOf(content) ==
    CASE content \in Pe -> "PE" [] content = "elf" -> "ELF" [] OTHER -> "unknown"

\* detect_from_path: by the extension, or by the bytes.
Format ==
    CASE file.name \in {"app.exe", "setup.exe", "app.msi"} -> "PE"
      [] file.name = "app.bin" -> "ELF"
      [] OTHER -> FormatOf(file.content)

\* looks_like_installer: by its name, or by a mark in the file.
LooksLikeInstaller == file.name \in {"setup.exe", "app.msi"} \/ file.marked

\* resolve_backend: the flag, or else the environment.
Resolved(backend) == IF backend = "unset" THEN env.backend ELSE backend

LauncherInit(f, e) ==
    /\ file = f /\ env = e
    /\ entry = [i \in AppIds |-> NoEntry] /\ menu = [i \in AppIds |-> "none"]
    /\ unpacked = FALSE /\ call = NoCall /\ ran = "none" /\ callCount = 0

\* A call of launch_pe_with_registry.
LaunchOf(binary, backend, update) ==
    [NoCall EXCEPT !.step = "validate", !.binary = binary, !.backend = backend,
                   !.update = update]

StartsCall(first) ==
    /\ call.step = "done" /\ callCount < MaxCalls /\ callCount' = callCount + 1
    /\ call' = first /\ ran' = "none"
    /\ UNCHANGED <<file, env, entry, menu, unpacked>>

RunCall(backend) == StartsCall(LaunchOf("file", backend, TRUE))

\* The command of the menu entry; it registers main.exe under its own name.
RunMenu(id) == menu[id] # "none" /\ StartsCall(LaunchOf(menu[id], "wine", TRUE))

InstallStep == IF file.content \in PackageFile THEN "unpack" ELSE "pending"

OpenCall(mode) ==
    IF mode = "install" \/ (mode = "auto" /\ LooksLikeInstaller)
    THEN StartsCall([NoCall EXCEPT !.step = InstallStep])
    ELSE StartsCall(LaunchOf("file", "unset", TRUE))

InstallCall == StartsCall([NoCall EXCEPT !.step = InstallStep, !.shortcut = TRUE])

CallGoes(next) == call' = next /\ UNCHANGED <<file, env, ran, callCount>>
CallFails == CallGoes([call EXCEPT !.step = "done", !.code = 1])

\* native_install: the directory is cleared and filled, the shortcut written,
\* the entry finalized; an error ends it where it is.
UnpackFails ==
    /\ call.step = "unpack" /\ unpacked' \in BOOLEAN /\ menu' = menu
    /\ CallFails /\ UNCHANGED entry

FinalizeFails ==
    /\ call.step = "unpack" /\ unpacked' = TRUE
    /\ menu' \in {menu, [menu EXCEPT !["file"] = "main"]}
    /\ CallFails /\ UNCHANGED entry

NativeInstall ==
    /\ call.step = "unpack" /\ unpacked' = TRUE
    /\ menu' = [menu EXCEPT !["file"] = "main"]
    /\ entry' = [entry EXCEPT !["file"] =
           [state |-> "installed", source |-> "installer", backend |-> "native"]]
    /\ CallGoes(LaunchOf("main", "native", FALSE))

\* register_install, and then the shortcut of install, which may be skipped.
RegisterPending ==
    /\ call.step = "pending"
    /\ \/ CallFails /\ UNCHANGED <<entry, menu>>
       \/ /\ entry' = [entry EXCEPT !["file"] =
                 [state |-> "pending", source |-> "installer", backend |-> "wine"]]
          /\ menu' \in {menu} \union
                 (IF call.shortcut THEN {[menu EXCEPT !["file"] = "file"]} ELSE {})
          /\ CallGoes(LaunchOf("file", "unset", TRUE))
    /\ UNCHANGED unpacked

\* LaunchRequest::validate.
Valid ==
    /\ call.binary = "file" => Format # "unknown"
    /\ Resolved(call.backend) \in KnownBackend

Validate ==
    /\ call.step = "validate"
    /\ IF Valid THEN CallGoes([call EXCEPT !.step = IF call.update THEN "register" ELSE "load"])
       ELSE CallFails
    /\ UNCHANGED <<entry, menu, unpacked>>

\* The shortcut, which may be skipped, and register_launch: before the file is
\* read.
RecordLaunch ==
    /\ call.step = "register"
    /\ menu' \in {menu, [menu EXCEPT ![call.binary] = call.binary]}
    /\ \/ CallFails /\ UNCHANGED entry
       \/ /\ entry' = [entry EXCEPT ![call.binary] = [state |-> "installed",
                 source |-> "launcher", backend |-> Resolved(call.backend)]]
          /\ CallGoes([call EXCEPT !.step = "load"])
    /\ UNCHANGED unpacked

Held == IF call.binary = "file" THEN file.content
           ELSE IF unpacked THEN file.inside ELSE "missing"

\* Mutation: the stub does not ask for the smoke mode.
LoadBytesAnyway(content) ==
    IF FormatOf(content) # "unknown" THEN {content} ELSE {"stub"}

\* load_pe_bytes: a file of a known format, or in smoke mode a stub for any
\* other.
LoadBytes(content) ==
    IF FormatOf(content) # "unknown" THEN {content}
    ELSE IF env.smoke /\ (call.binary = "file" => Format = "PE") THEN {"stub"} ELSE {}

LoadImage ==
    /\ call.step = "load"
    /\ IF LoadBytes(Held) = {} THEN CallFails
       ELSE \E bytes \in LoadBytes(Held) :
               CallGoes([call EXCEPT !.step = "execute", !.bytes = bytes])
    /\ UNCHANGED <<entry, menu, unpacked>>

\* execute_pe: an image that does not load fails; a program that ran is "real"
\* if it ended by itself and did something, and "simulated" if not, or if its
\* entry holds no code.  The window of a fixed size that is then made for a GUI
\* program (maybe_run_gui_smoke) cannot fail.
Execute(mode) ==
    /\ call.step = "execute"
    /\ mode = "failed" \/ call.bytes \in Runnable \union {"stub"}
    /\ call.bytes = "stub" => mode # "real"
    /\ ran' = IF mode = "failed" THEN "none" ELSE mode
    /\ call' = [call EXCEPT !.step = "done",
           !.code = IF mode = "failed" \/ (mode = "simulated" /\ env.requireReal)
                    THEN 1 ELSE 0]
    /\ UNCHANGED <<file, env, entry, menu, unpacked, callCount>>

\* Between two calls the file may go.
FileGoes ==
    /\ call.step = "done" /\ file' = [file EXCEPT !.content = "missing", !.marked = FALSE]
    /\ UNCHANGED <<env, entry, menu, unpacked, call, ran, callCount>>

LauncherNext ==
    \/ \E b \in BackendNames \union {"unset"} : RunCall(b)
    \/ \E id \in AppIds : RunMenu(id)
    \/ \E mode \in {"auto", "run", "install"} : OpenCall(mode)
    \/ InstallCall \/ UnpackFails \/ FinalizeFails \/ NativeInstall \/ RegisterPending
    \/ Validate \/ RecordLaunch \/ LoadImage \/ FileGoes
    \/ \E mode \in {"real", "simulated", "failed"} : Execute(mode)

LauncherSpec ==
    /\ \E f \in FileType, e \in EnvType : LauncherInit(f, e)
    /\ [][LauncherNext]_launcherVars

-----------------------------------------------------------------------------
LauncherTypeOK ==
    /\ entry \in [AppIds -> [state : {"none", "pending", "installed"},
           source : {"none", "installer", "launcher"}, backend : KnownBackend \union {"none"}]]
    /\ menu \in [AppIds -> {"none", "file", "main"}] /\ unpacked \in BOOLEAN
    /\ call.step \in {"done", "unpack", "pending", "validate", "register", "load", "execute"}
    /\ ran \in {"none", "real", "simulated"} /\ callCount \in 0 .. MaxCalls

\* An exit code of 0 of run, open or install tells that a program was executed,
\* from a file that was there or, in the smoke mode only, from the stub; if a
\* real execution is required, that it was one; and that the registry lists it.
\* After an install of a package the entry is the installer's and the menu runs
\* what was unpacked: the launch that ends the install changed neither.  An
\* exit code of 1 never hides a real execution.
RunTells ==
    call.step = "done" /\ callCount > 0 =>
        IF call.code = 1 THEN ran # "real"
        ELSE /\ ran # "none"
             /\ call.bytes = "stub" => env.smoke
             /\ call.bytes # "stub" => call.bytes \in Runnable
             /\ env.requireReal => ran = "real"
             /\ IF call.update THEN entry[call.binary].state = "installed"
                ELSE /\ unpacked /\ menu["file"] = "main"
                     /\ entry["file"].source = "installer"
                     /\ entry["file"].state = "installed"
=============================================================================
