--------------------------- MODULE RuntimeSessions ---------------------------
(* The orchestrator of strawwu-runtime: subsystem sessions, the processes in  *)
(* them, and execute_pe, which starts a Windows program.  The orchestrator is *)
(* borrowed mutably for the whole of execute_pe, so nothing else runs between *)
(* its steps; they are separate because each may be the last one.             *)
EXTENDS ProcessGraph, FiniteSets

CONSTANTS
    App,        \* app ids; an app also names its session isolated-{app_id}
    Default,    \* the session id "default"
    Other,      \* any other id a caller of create_session may choose
    None        \* no session

ASSUME SessionIdAssumption ==
    Default \notin App /\ Other \notin App /\ None \notin App \union {Default, Other}

VARIABLES
    sessions,   \* RuntimeOrchestrator.sessions: state and process_ids, by id
    default,    \* default_session_id
    ctx,        \* the ExecutionContext of the execute_pe under way
    home,       \* history: the session each process was launched into
    report      \* history: the ExecResult returned for each process

runtimeVars == <<node, nextPid, sessions, default, ctx, home, report>>

SessionId == App \union {Default, Other}
NoSession == [state |-> "none", procs |-> {}]
Idle == [step |-> "idle", pid |-> 0, session |-> None, pipes |-> {}]
NoReport == [session |-> None, state |-> "none"]

\* Wine and native share the default session, container and microvm isolate.
Backend == {"wine", "native", "container", "microvm", "unknown"}
SharedBackend == {"wine", "native"}
Profile == [app : App, backend : Backend, scope : {"shared", "isolated"}]

RuntimeTypeOK ==
    /\ GraphTypeOK
    /\ sessions \in [SessionId ->
           [state : {"none", "Active", "Idle"}, procs : SUBSET Pid]]
    /\ default \in SessionId \union {None}
    /\ ctx \in [step : {"idle", "joined", "loaded", "registered"}, pid : 0 .. LastPid,
                session : SessionId \union {None}, pipes : SUBSET Pid]
    /\ home \in [Pid -> [id : SessionId \union {None}, since : BOOLEAN]]
    /\ report \in [Pid -> [session : SessionId \union {None},
                           state : {"none", "Running", "Failed"}]]

RuntimeInit ==
    /\ GraphInit
    /\ sessions = [s \in SessionId |-> NoSession]
    /\ default = None
    /\ ctx = Idle
    /\ home = [p \in Pid |-> [id |-> None, since |-> FALSE]]
    /\ report = [p \in Pid |-> NoReport]

\* AppProfile::validate.
Valid(profile) ==
    /\ profile.backend # "unknown"
    /\ ~(profile.scope = "isolated" /\ profile.backend = "native")

Fresh == [state |-> "Active", procs |-> {}]

\* The default session after create_session(id, backend).
DefaultAfter(id, backend) ==
    IF backend \in SharedBackend /\ default = None THEN id ELSE default

\* Every process launched into id is no longer in the session of that name.
Forgotten(id) == [p \in Pid |->
    IF home[p].id = id THEN [id |-> id, since |-> TRUE] ELSE home[p]]

\* create_session: a session of that id is replaced, with its process list.
CreateSession(id, backend) ==
    /\ ctx.step = "idle"
    /\ default' = DefaultAfter(id, backend)
    /\ sessions' = [sessions EXCEPT ![id] = Fresh]
    /\ home' = Forgotten(id)
    /\ UNCHANGED <<graphVars, ctx, report>>

Joined(session, p) ==
    [state |-> IF session.state = "Idle" THEN "Active" ELSE session.state,
     procs |-> session.procs \union {p}]

Without(session, p) ==
    LET rest == session.procs \ {p}
    IN  [state |-> IF rest = {} /\ session.state = "Active" THEN "Idle"
                   ELSE session.state,
         procs |-> rest]

\* launch_app: the session it works on, created anew unless the default one
\* exists; then the process is spawned and listed there.
TargetSession(profile) ==
    IF profile.backend \in SharedBackend
    THEN IF default = None THEN Default ELSE default
    ELSE profile.app

Reused(profile) == profile.backend \in SharedBackend /\ default # None

LaunchApp(profile) ==
    LET id == TargetSession(profile)
        session == IF Reused(profile) THEN sessions[id] ELSE Fresh
    IN  /\ Valid(profile)
        /\ Spawn(NoParent)
        /\ sessions' = [sessions EXCEPT ![id] = Joined(session, nextPid)]
        /\ default' = IF Reused(profile) THEN default
                      ELSE DefaultAfter(id, profile.backend)
        /\ home' = [(IF Reused(profile) THEN home ELSE Forgotten(id))
                       EXCEPT ![nextPid] = [id |-> id, since |-> FALSE]]

Launch(profile) ==
    ctx.step = "idle" /\ LaunchApp(profile) /\ UNCHANGED <<ctx, report>>

\* Mutation: the process stays in the list of its session.
TerminateAppOnly(p) ==
    /\ ctx.step = "idle"
    /\ Terminate(p)
    /\ UNCHANGED <<sessions, default, ctx, home, report>>

\* terminate_app: the process leaves every session that lists it.
TerminateApp(p) ==
    /\ ctx.step = "idle"
    /\ Terminate(p)
    /\ sessions' = [s \in SessionId |-> Without(sessions[s], p)]
    /\ UNCHANGED <<default, ctx, home, report>>

-----------------------------------------------------------------------------
(* execute_pe.  The context, its pipe namespace included, is made on entry    *)
(* and dropped on return.                                                     *)

\* The session execute_pe reports is derived from the backend alone.
ReportedSession(profile) ==
    IF profile.backend \in SharedBackend THEN Default ELSE profile.app

ExecuteLaunch(profile) ==
    /\ ctx.step = "idle"
    /\ LaunchApp(profile)
    /\ ctx' = [step |-> "joined", pid |-> nextPid,
               session |-> ReportedSession(profile), pipes |-> {}]
    /\ UNCHANGED report

Step(from, to) ==
    ctx.step = from /\ ctx' = [ctx EXCEPT !.step = to]
        /\ UNCHANGED <<graphVars, sessions, default, home, report>>

ExecuteReturn(from, state) ==
    /\ ctx.step \in from
    /\ report' = [report EXCEPT ![ctx.pid] = [session |-> ctx.session, state |-> state]]
    /\ ctx' = Idle
    /\ UNCHANGED <<graphVars, sessions, default, home>>

LoadImage == Step("joined", "loaded")

\* create_pipe, in the namespace of the context.
RegisterPipe ==
    /\ ctx.step = "loaded"
    /\ ctx' = [ctx EXCEPT !.step = "registered", !.pipes = @ \union {ctx.pid}]
    /\ UNCHANGED <<graphVars, sessions, default, home, report>>

\* The image does not load, or the processor cannot be set up.  Neither
\* terminates the process that was launched for it.
ExecuteFails == ExecuteReturn({"joined", "registered"}, "Failed")

\* The program ran to its halt, or its entry holds no code.
ExecuteEnds == ExecuteReturn({"registered"}, "Running")

RuntimeNext ==
    \/ \E id \in {Default, Other}, b \in Backend \ {"unknown"} : CreateSession(id, b)
    \/ \E profile \in Profile : Launch(profile) \/ ExecuteLaunch(profile)
    \/ \E p \in Pid : TerminateApp(p)
    \/ LoadImage \/ RegisterPipe \/ ExecuteFails \/ ExecuteEnds

RuntimeSpec == RuntimeInit /\ [][RuntimeNext]_runtimeVars

-----------------------------------------------------------------------------
\* Sessions, process table and reports agree: a live process is listed by the
\* session it was launched into and by no other, unless a session of that name
\* was created again since (then by none); a terminated process is listed
\* nowhere; a session that went idle lists nobody; and execute_pe reports the
\* session the process was launched into, as long as the default session is the
\* one launch_app itself creates.  Launches, failed executions, terminations and
\* relaunches of isolated apps happen in any order.
LiveIsListed ==
    /\ \A p \in Pid, s \in SessionId :
           p \in sessions[s].procs <=> Live(p) /\ home[p].id = s /\ ~home[p].since
    /\ \A s \in SessionId : sessions[s].state = "Idle" => sessions[s].procs = {}
    /\ \A p \in Pid :
           report[p].state # "none" /\ default \in {None, Default}
               => report[p].session = home[p].id
=============================================================================
