----------------------------- MODULE EnginePrefix -----------------------------
(* The Wine prefixes of strawnt-engine: create_prefix, by wineboot or from a   *)
(* template (prefix.rs, optimize.rs), and the index of prefixes (paths.rs).     *)
(* Commands are processes; they share the directories and the index and take    *)
(* no lock.  wineboot and cp -a fill a directory bit by bit and may fail or be  *)
(* killed at any point; one architecture, so there is one template.             *)
EXTENDS Naturals, FiniteSets

CONSTANTS
    Command,    \* create_prefix commands, each run once
    Prefix,     \* names of prefixes
    Template    \* the template directory

ASSUME TemplateAssumption == Template \notin Prefix

VARIABLES
    dir,        \* what a directory holds
    maker,      \* history: the command that last started to fill a directory
    index,      \* the status of a prefix in the index
    cmd,        \* a command: its step, arguments and what it knows; clean, a
                \* history: nothing had been stopped half way when it started
    overlap,    \* history: two commands were ever under way together
    stopped,    \* history: wineboot or cp was ever stopped half way
    result      \* history: the answer of a command, and the prefix at that time

prefixVars == <<dir, maker, index, cmd, overlap, stopped, result>>

Dir == Prefix \union {Template}
\* "bare": the directory exists.  is_initialized sees no more than the first
\* files of a prefix, which a "partial" one has too.
Filling == {"none", "bare", "partial", "complete"}
Initialized(d) == dir[d] \in {"partial", "complete"}
IndexStatus == {"none", "PASS", "FAIL"}
Mode == {"wineboot", "template_clone"}
CmdStep == {"new", "begin", "ensure", "boot", "clone", "copy", "read", "write", "end"}
NoResult == [status |-> "none", found |-> "none"]

PrefixTypeOK ==
    /\ dir \in [Dir -> Filling] /\ maker \in [Dir -> SUBSET Command]
    /\ index \in [Prefix -> IndexStatus]
    /\ cmd \in [Command ->
           [step : CmdStep, name : Prefix, mode : Mode, force : BOOLEAN,
            boots : Dir, source : Filling, ok : BOOLEAN, clean : BOOLEAN,
            seen : [Prefix -> IndexStatus]]]
    /\ overlap \in BOOLEAN /\ stopped \in BOOLEAN
    /\ result \in [Command -> [status : IndexStatus, found : Filling]]

PrefixInit ==
    /\ dir = [d \in Dir |-> "none"] /\ maker = [d \in Dir |-> {}]
    /\ index = [n \in Prefix |-> "none"]
    /\ \E n \in Prefix : cmd = [c \in Command |->
           [step |-> "new", name |-> n, mode |-> "wineboot", force |-> FALSE, boots |-> Template,
            source |-> "none", ok |-> FALSE, clean |-> TRUE, seen |-> index]]
    /\ overlap = FALSE /\ stopped = FALSE
    /\ result = [c \in Command |-> NoResult]

Stands(c, step) == cmd[c].step = step
Becomes(c, changes) == cmd' = [cmd EXCEPT ![c] = changes]
Underway(c) == cmd[c].step \notin {"new", "end"}

StartCommand(c, name, mode, force) ==
    /\ Stands(c, "new")
    /\ Becomes(c, [cmd[c] EXCEPT !.step = "begin", !.name = name, !.mode = mode,
                                !.force = force, !.clean = ~stopped])
    /\ overlap' = (overlap \/ \E b \in Command \ {c} : Underway(b))
    /\ UNCHANGED <<dir, maker, index, stopped, result>>

\* The command ends and says so.
Answers(c, status) ==
    /\ Becomes(c, [cmd[c] EXCEPT !.step = "end"])
    /\ result' = [result EXCEPT ![c] = [status |-> status, found |-> dir[cmd[c].name]]]

\* create_prefix: a prefix that exists is left alone.
AlreadyExists(c) ==
    /\ Stands(c, "begin") /\ Initialized(cmd[c].name) /\ ~cmd[c].force
    /\ Answers(c, "PASS")
    /\ UNCHANGED <<dir, maker, index, overlap, stopped>>

\* wineboot_init makes the directory and starts wineboot, which works on
\* whatever the directory holds.
StartBoot(c, d) ==
    /\ dir' = [dir EXCEPT ![d] = IF @ = "none" THEN "bare" ELSE @]
    /\ maker' = [maker EXCEPT ![d] = {c}]
    /\ Becomes(c, [cmd[c] EXCEPT !.step = "boot", !.boots = d])
    /\ UNCHANGED <<index, overlap, stopped, result>>

BootPrefix(c) ==
    /\ Stands(c, "begin") /\ ~(Initialized(cmd[c].name) /\ ~cmd[c].force)
    /\ cmd[c].mode = "wineboot" /\ StartBoot(c, cmd[c].name)

\* ensure_template: a template that looks initialized is used.
EnsureTemplate(c) ==
    /\ Stands(c, "begin") /\ ~(Initialized(cmd[c].name) /\ ~cmd[c].force)
    /\ cmd[c].mode = "template_clone"
    /\ IF Initialized(Template)
       THEN /\ Becomes(c, [cmd[c] EXCEPT !.step = "clone"])
            /\ UNCHANGED <<dir, maker, index, overlap, stopped, result>>
       ELSE StartBoot(c, Template)

\* wineboot has written the first files.
BootProgress(c) ==
    /\ Stands(c, "boot") /\ dir[cmd[c].boots] = "bare"
    /\ dir' = [dir EXCEPT ![cmd[c].boots] = "partial"]
    /\ UNCHANGED <<maker, index, cmd, overlap, stopped, result>>

AfterBoot(c, ok) ==
    IF ~ok \/ cmd[c].boots # Template THEN [cmd[c] EXCEPT !.step = "read", !.ok = ok]
    ELSE [cmd[c] EXCEPT !.step = "clone"]

BootExit(c) ==
    /\ Stands(c, "boot") /\ Initialized(cmd[c].boots)
    /\ dir' = [dir EXCEPT ![cmd[c].boots] =
           IF maker[cmd[c].boots] = {c} THEN "complete" ELSE @]
    /\ Becomes(c, AfterBoot(c, TRUE))
    /\ UNCHANGED <<maker, index, overlap, stopped, result>>

\* Mutation: the exit code of wineboot is not looked at.
BootFailsUnseen(c) ==
    /\ Stands(c, "boot") /\ stopped' = TRUE
    /\ Becomes(c, AfterBoot(c, Initialized(cmd[c].boots)))
    /\ UNCHANGED <<dir, maker, index, overlap, result>>

\* wineboot exits with an error, and leaves what it wrote.
BootFails(c) ==
    /\ Stands(c, "boot") /\ stopped' = TRUE
    /\ Becomes(c, AfterBoot(c, FALSE))
    /\ UNCHANGED <<dir, maker, index, overlap, result>>

\* The wall clock runs out: an error, and no entry in the index.
BootTimeout(c) ==
    /\ Stands(c, "boot") /\ stopped' = TRUE /\ Answers(c, "FAIL")
    /\ UNCHANGED <<dir, maker, index, overlap>>

\* The target is removed, by create_prefix and again by cp_a, and copied from
\* what the template holds now.
CopyTemplate(c) ==
    /\ Stands(c, "clone")
    /\ dir' = [dir EXCEPT ![cmd[c].name] = "partial"]
    /\ maker' = [maker EXCEPT ![cmd[c].name] = {c}]
    /\ Becomes(c, [cmd[c] EXCEPT !.step = "copy", !.source = dir[Template]])
    /\ UNCHANGED <<index, overlap, stopped, result>>

CopyDone(c) ==
    /\ Stands(c, "copy")
    /\ dir' = [dir EXCEPT ![cmd[c].name] = IF maker[cmd[c].name] = {c} THEN cmd[c].source ELSE @]
    /\ Becomes(c, [cmd[c] EXCEPT !.step = "read", !.ok = Initialized(cmd[c].name)])
    /\ UNCHANGED <<maker, index, overlap, stopped, result>>

\* cp -a fails: an error, and no entry in the index.
CopyFails(c) ==
    /\ Stands(c, "copy") /\ stopped' = TRUE /\ Answers(c, "FAIL")
    /\ UNCHANGED <<dir, maker, index, overlap>>

ReadIndex(c) ==
    /\ Stands(c, "read") /\ Becomes(c, [cmd[c] EXCEPT !.step = "write", !.seen = index])
    /\ UNCHANGED <<dir, maker, index, overlap, stopped, result>>

Status(ok) == IF ok THEN "PASS" ELSE "FAIL"

WriteIndex(c) ==
    /\ Stands(c, "write")
    /\ index' = [cmd[c].seen EXCEPT ![cmd[c].name] = Status(cmd[c].ok)]
    /\ Answers(c, Status(cmd[c].ok))
    /\ UNCHANGED <<dir, maker, overlap, stopped>>

\* The command is killed, and wineboot or cp with it.
KillCommand(c) ==
    /\ Underway(c) /\ Becomes(c, [cmd[c] EXCEPT !.step = "end"])
    /\ stopped' = (stopped \/ cmd[c].step \in {"boot", "copy"})
    /\ UNCHANGED <<dir, maker, index, overlap, result>>

PrefixNext ==
    \E c \in Command :
        \/ \E n \in Prefix, m \in Mode, f \in BOOLEAN : StartCommand(c, n, m, f)
        \/ AlreadyExists(c) \/ BootPrefix(c) \/ EnsureTemplate(c)
        \/ BootProgress(c) \/ BootExit(c) \/ BootFails(c) \/ BootTimeout(c)
        \/ CopyTemplate(c) \/ CopyDone(c) \/ CopyFails(c)
        \/ ReadIndex(c) \/ WriteIndex(c) \/ KillCommand(c)

PrefixSpec == PrefixInit /\ [][PrefixNext]_prefixVars

-----------------------------------------------------------------------------
\* "Ensure a reusable win64/win32 template exists (wineboot once)"
\* (optimize.rs:157): what ensure_template accepts and a command then copies
\* is a complete prefix.
TemplateReusable == \A c \in Command : Stands(c, "copy") => cmd[c].source = "complete"

\* A command that answers PASS leaves a complete prefix, if commands run one at
\* a time and neither wineboot nor cp had been stopped half way when it started:
\* it notices itself that they fail.  And as long as nothing was stopped, a
\* prefix the index lists as PASS is complete between commands, whatever was
\* created, forced and killed before.
PassMeansPrefix ==
    ~overlap =>
        /\ \A c \in Command :
               result[c].status = "PASS" /\ cmd[c].clean => result[c].found = "complete"
        /\ ~stopped /\ (\A c \in Command : ~Underway(c)) =>
               \A n \in Prefix : index[n] = "PASS" => dir[n] = "complete"
=============================================================================
