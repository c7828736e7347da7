----------------------------- MODULE HostProofs -----------------------------
(***************************************************************************)
(* Theorems about what runs beside the guest: its sessions and processes   *)
(* (RuntimeSessions), the devices it is given (DeviceProxy), the objects   *)
(* it draws with (Graphics) and the prefixes of other programs             *)
(* (EnginePrefix).  No two of them share a variable.  At the end, the      *)
(* guest and they together (MCSubsystems).                                 *)
(*                                                                         *)
(* Sessions, for any number of pids, any apps and any ids of sessions.     *)
(* LiveIsListed is not inductive.  RuntimeInv adds that a pid not given    *)
(* out yet has no node and no report, so that a launch finds it in no      *)
(* session, and that the execution under way will report the session its   *)
(* process was launched into.                                              *)
(***************************************************************************)
EXTENDS GuestProofs, MCSubsystems, FiniteSetTheorems, SequenceTheorems, TLAPS

\* A pid that was not given out is known to nobody.
Unused ==
    \A p \in Pid : p >= nextPid => node[p].state = "none" /\ report[p].state = "none"

\* What the execution under way knows of its process.
ContextInv ==
    ctx.step # "idle" =>
        /\ ctx.pid \in Pid /\ ctx.pid < nextPid
        /\ default \in {None, Default} => ctx.session = home[ctx.pid].id

RuntimeInv == RuntimeTypeOK /\ LiveIsListed /\ Unused /\ ContextInv

-----------------------------------------------------------------------------
\* Any backend has a session to run in, and only a session id becomes the
\* default one.
LEMMA Targets ==
    ASSUME RuntimeTypeOK, NEW profile \in Profile
    PROVE  /\ TargetSession(profile) \in SessionId
           /\ DefaultAfter(TargetSession(profile), profile.backend) \in SessionId \union {None}
  BY DEF RuntimeTypeOK, Profile, TargetSession, DefaultAfter, SessionId

\* The session execute_pe reports is the one launch_app joins, as long as the
\* default session has the id that launch_app itself would give it; and it was
\* so before the launch if it is so after.
LEMMA ReportsTarget ==
    ASSUME NEW profile \in Profile,
           (IF Reused(profile) THEN default
            ELSE DefaultAfter(TargetSession(profile), profile.backend)) \in {None, Default}
    PROVE  /\ default \in {None, Default}
           /\ ReportedSession(profile) = TargetSession(profile)
  BY SessionIdAssumption DEF Reused, DefaultAfter, TargetSession, ReportedSession, Profile

LEMMA InitRuntime == RuntimeInit => RuntimeInv
<1> SUFFICES ASSUME RuntimeInit PROVE RuntimeInv
    OBVIOUS
<1>1. RuntimeTypeOK
    BY LastPidAssumption
    DEF RuntimeInit, GraphInit, RuntimeTypeOK, GraphTypeOK, ProcessNode, Unspawned, NoParent,
        NoSession, Idle, NoReport, SessionId
<1>2. LiveIsListed
    BY DEF RuntimeInit, GraphInit, LiveIsListed, Live, Unspawned, NoSession, NoReport
<1>3. Unused /\ ContextInv
    BY DEF RuntimeInit, GraphInit, Unused, ContextInv, Unspawned, NoReport, Idle
<1> QED
    BY <1>1, <1>2, <1>3 DEF RuntimeInv

\* A session is created or created again: who was in it is listed no more.
LEMMA CreateSessionStep ==
    ASSUME RuntimeInv, NEW id \in {Default, Other}, NEW b \in Backend, CreateSession(id, b)
    PROVE  RuntimeInv'
<1> USE DEF RuntimeInv
<1>1. RuntimeTypeOK'
    <2>1. sessions' \in [SessionId -> [state : {"none", "Active", "Idle"}, procs : SUBSET Pid]]
        BY DEF CreateSession, Fresh, RuntimeTypeOK
    <2>2. home' \in [Pid -> [id : SessionId \union {None}, since : BOOLEAN]]
        BY DEF CreateSession, Forgotten, RuntimeTypeOK
    <2>3. default' \in SessionId \union {None}
        BY DEF CreateSession, DefaultAfter, RuntimeTypeOK, SessionId
    <2> QED
        BY <2>1, <2>2, <2>3 DEF CreateSession, RuntimeTypeOK, GraphTypeOK, graphVars
<1>2. \A p \in Pid : home'[p].id = home[p].id
    BY DEF CreateSession, Forgotten, RuntimeTypeOK
<1>3. default' \in {None, Default} => default \in {None, Default}
    BY DEF CreateSession, DefaultAfter
<1>4. LiveIsListed'
    <2>1. ASSUME NEW p \in Pid, NEW s \in SessionId
          PROVE  p \in sessions'[s].procs <=> Live(p)' /\ home'[p].id = s /\ ~home'[p].since
        <3>1. CASE s = id
            BY <3>1 DEF CreateSession, Forgotten, Fresh, RuntimeTypeOK
        <3>2. CASE s # id
            BY <3>2 DEF CreateSession, Forgotten, Live, graphVars, LiveIsListed, RuntimeTypeOK
        <3> QED
            BY <3>1, <3>2
    <2>2. \A s \in SessionId : sessions'[s].state = "Idle" => sessions'[s].procs = {}
        BY DEF CreateSession, Fresh, LiveIsListed, RuntimeTypeOK
    <2> QED
        BY <2>1, <2>2, <1>2, <1>3 DEF LiveIsListed, CreateSession
<1>5. Unused' /\ ContextInv'
    BY <1>2, <1>3 DEF CreateSession, graphVars, Unused, ContextInv
<1> QED
    BY <1>1, <1>4, <1>5

\* A launch, on its own or as the first step of execute_pe.
LEMMA LaunchStep ==
    ASSUME RuntimeInv, NEW profile \in Profile, LaunchApp(profile),
           UNCHANGED report
    PROVE  /\ LiveIsListed' /\ Unused'
           /\ sessions' \in [SessionId -> [state : {"none", "Active", "Idle"}, procs : SUBSET Pid]]
           /\ home' \in [Pid -> [id : SessionId \union {None}, since : BOOLEAN]]
           /\ default' \in SessionId \union {None} /\ GraphTypeOK'
           /\ nextPid \in Pid /\ nextPid' = nextPid + 1
           /\ \A p \in Pid \ {nextPid} : home'[p].id = home[p].id
           /\ home'[nextPid].id = TargetSession(profile)
           /\ default' \in {None, Default} =>
                  default \in {None, Default} /\ ReportedSession(profile) = TargetSession(profile)
<1> USE DEF RuntimeInv
<1> DEFINE id == TargetSession(profile)
           session == IF Reused(profile) THEN sessions[id] ELSE Fresh
<1>1. id \in SessionId /\ default' \in SessionId \union {None}
    BY Targets DEF LaunchApp, RuntimeTypeOK
<1>2. nextPid \in Pid /\ nextPid' = nextPid + 1 /\ GraphTypeOK'
    BY LastPidAssumption
    DEF LaunchApp, Spawn, RuntimeTypeOK, GraphTypeOK, Pid, ProcessNode, NoParent
<1>3. session \in [state : {"none", "Active", "Idle"}, procs : SUBSET Pid]
    BY <1>1 DEF Fresh, RuntimeTypeOK
<1>4. /\ sessions' = [sessions EXCEPT ![id] = Joined(session, nextPid)]
      /\ sessions' \in [SessionId -> [state : {"none", "Active", "Idle"}, procs : SUBSET Pid]]
    BY <1>1, <1>2, <1>3 DEF LaunchApp, Joined, RuntimeTypeOK
<1>5. /\ home' \in [Pid -> [id : SessionId \union {None}, since : BOOLEAN]]
      /\ home'[nextPid] = [id |-> id, since |-> FALSE]
      /\ \A p \in Pid \ {nextPid} :
             IF ~Reused(profile) /\ home[p].id = id
             THEN home'[p] = [id |-> id, since |-> TRUE] ELSE home'[p] = home[p]
    <2>1. CASE Reused(profile)
        BY <2>1, <1>1, <1>2 DEF LaunchApp, RuntimeTypeOK
    <2>2. CASE ~Reused(profile)
        <3>1. home' = [Forgotten(id) EXCEPT ![nextPid] = [id |-> id, since |-> FALSE]]
            BY <2>2 DEF LaunchApp
        <3> QED
            BY <3>1, <2>2, <1>1, <1>2 DEF Forgotten, RuntimeTypeOK
    <2> QED
        BY <2>1, <2>2
<1>6. \A p \in Pid \ {nextPid} : home'[p].id = home[p].id
    BY <1>5 DEF RuntimeTypeOK
<1>7. default' \in {None, Default} =>
          default \in {None, Default} /\ ReportedSession(profile) = TargetSession(profile)
    BY ReportsTarget DEF LaunchApp
<1>8. Unused'
    BY <1>2 DEF Unused, LaunchApp, Spawn, RuntimeTypeOK, GraphTypeOK, Pid
<1>9. LiveIsListed'
    <2>1. ~Live(nextPid) /\ \A s \in SessionId : nextPid \notin sessions[s].procs
        BY <1>2 DEF Unused, LiveIsListed, Live, RuntimeTypeOK, GraphTypeOK
    <2>2. /\ node'[nextPid].state = "Running"
          /\ \A p \in Pid \ {nextPid} : node'[p] = node[p]
        BY <1>2 DEF LaunchApp, Spawn, RuntimeTypeOK, GraphTypeOK
    <2>3. ASSUME NEW p \in Pid, NEW s \in SessionId
          PROVE  p \in sessions'[s].procs <=> Live(p)' /\ home'[p].id = s /\ ~home'[p].since
        <3>1. CASE p = nextPid
            BY <3>1, <2>1, <2>2, <1>1, <1>4, <1>5 DEF Joined, Live, RuntimeTypeOK
        <3>2. CASE p # nextPid
            <4>1. Live(p)' <=> Live(p)
                BY <3>2, <2>2 DEF Live
            <4>2. p \in sessions[s].procs <=> Live(p) /\ home[p].id = s /\ ~home[p].since
                BY DEF LiveIsListed
            <4>3. s # id => sessions'[s] = sessions[s]
                BY <1>4, <1>1 DEF RuntimeTypeOK
            <4>4. s = id => (p \in sessions'[s].procs <=> p \in session.procs)
                <5>1. sessions'[id] = Joined(session, nextPid)
                    BY <1>4, <1>1 DEF RuntimeTypeOK
                <5> QED
                    BY <5>1, <3>2 DEF Joined
            <4>5. CASE s # id
                BY <4>5, <4>1, <4>2, <4>3, <3>2, <1>5
            <4>6. CASE s = id /\ Reused(profile)
                <5>1. session = sessions[s] /\ home'[p] = home[p]
                    BY <4>6, <3>2, <1>5
                <5> HIDE DEF id, session
                <5> QED
                    BY <5>1, <4>6, <4>1, <4>2, <4>4
            <4>7. CASE s = id /\ ~Reused(profile)
                <5>1. session.procs = {}
                    BY <4>7 DEF Fresh
                <5>2. home'[p] = IF home[p].id = id THEN [id |-> id, since |-> TRUE] ELSE home[p]
                    BY <4>7, <3>2, <1>5
                <5> HIDE DEF id, session
                <5> QED
                    BY <5>1, <5>2, <4>7, <4>4
            <4> QED
                BY <4>5, <4>6, <4>7
        <3> QED
            BY <3>1, <3>2
    <2>4. \A s \in SessionId : sessions'[s].state = "Idle" => sessions'[s].procs = {}
        BY <1>1, <1>4 DEF LiveIsListed, Joined, RuntimeTypeOK
    <2>5. ASSUME NEW p \in Pid, report'[p].state # "none", default' \in {None, Default}
          PROVE  report'[p].session = home'[p].id
        <3>1. p # nextPid
            BY <2>5, <1>2 DEF Unused, RuntimeTypeOK, GraphTypeOK
        <3> QED
            BY <3>1, <2>5, <1>6, <1>7 DEF LiveIsListed
    <2> QED
        BY <2>3, <2>4, <2>5 DEF LiveIsListed
<1> QED
    BY <1>1, <1>2, <1>4, <1>5, <1>6, <1>7, <1>8, <1>9

\* terminate_app: the process leaves the session that lists it.
LEMMA TerminateStep ==
    ASSUME RuntimeInv, NEW q \in Pid, TerminateApp(q)
    PROVE  RuntimeInv'
<1> USE DEF RuntimeInv
<1>1. /\ node' \in [Pid -> ProcessNode] /\ nextPid' = nextPid
      /\ node'[q].state = "Terminated" /\ node[q].state # "none"
      /\ \A p \in Pid \ {q} : node'[p] = node[p]
    <2> DEFINE ended == [node[q] EXCEPT !.state = "Terminated"]
    <2>1. /\ node' = [node EXCEPT ![q] = ended]
          /\ nextPid' = nextPid /\ node[q].state # "none"
        BY DEF TerminateApp, Terminate, Move
    <2>2. ended \in ProcessNode /\ ended.state = "Terminated"
        BY DEF RuntimeTypeOK, GraphTypeOK, ProcessNode
    <2> QED
        BY <2>1, <2>2 DEF RuntimeTypeOK, GraphTypeOK
<1>2. ASSUME NEW s \in SessionId
      PROVE  /\ sessions'[s] \in [state : {"none", "Active", "Idle"}, procs : SUBSET Pid]
             /\ sessions'[s].procs = sessions[s].procs \ {q}
             /\ sessions'[s].state = "Idle" => sessions'[s].procs = {}
    BY DEF TerminateApp, Without, RuntimeTypeOK, LiveIsListed
<1>3. RuntimeTypeOK'
    <2>1. sessions' \in [SessionId -> [state : {"none", "Active", "Idle"}, procs : SUBSET Pid]]
        BY <1>2 DEF TerminateApp
    <2>2. UNCHANGED <<default, ctx, home, report>>
        BY DEF TerminateApp
    <2>3. GraphTypeOK'
        BY <1>1 DEF RuntimeTypeOK, GraphTypeOK
    <2> QED
        BY <2>1, <2>2, <2>3 DEF RuntimeTypeOK
<1>4. LiveIsListed'
    <2>1. UNCHANGED <<default, home, report>>
        BY DEF TerminateApp
    <2>2. \A p \in Pid : (node'[p].state \in {"Running", "Suspended"}) <=> Live(p) /\ p # q
        BY <1>1 DEF Live
    <2>3. ASSUME NEW p \in Pid, NEW s \in SessionId
          PROVE  p \in sessions'[s].procs
                     <=> node'[p].state \in {"Running", "Suspended"}
                             /\ home'[p].id = s /\ ~home'[p].since
        BY <2>1, <2>2, <1>2 DEF LiveIsListed
    <2> QED
        BY <2>1, <2>3, <1>2 DEF LiveIsListed, Live
<1>5. Unused' /\ ContextInv'
    BY <1>1 DEF Unused, ContextInv, TerminateApp
<1> QED
    BY <1>3, <1>4, <1>5

\* The steps of execute_pe behind the launch, and its returns.
LEMMA ExecuteStep ==
    ASSUME RuntimeInv, LoadImage \/ RegisterPipe \/ ExecuteFails \/ ExecuteEnds
    PROVE  RuntimeInv'
<1> USE DEF RuntimeInv
<1>1. CASE LoadImage \/ RegisterPipe
    <2>1. ctx' \in [step : {"idle", "joined", "loaded", "registered"}, pid : 0 .. LastPid,
                    session : SessionId \union {None}, pipes : SUBSET Pid]
        <3>1. CASE LoadImage
            BY <3>1 DEF LoadImage, Step, RuntimeTypeOK
        <3>2. CASE RegisterPipe
            BY <3>2 DEF RegisterPipe, RuntimeTypeOK, ContextInv
        <3> QED
            BY <1>1, <3>1, <3>2
    <2>2. ctx'.pid = ctx.pid /\ ctx'.session = ctx.session /\ ctx.step # "idle"
        BY <1>1 DEF LoadImage, Step, RegisterPipe, RuntimeTypeOK
    <2>3. UNCHANGED <<graphVars, sessions, default, home, report>>
        BY <1>1 DEF LoadImage, Step, RegisterPipe
    <2> QED
        BY <2>1, <2>2, <2>3
        DEF RuntimeTypeOK, GraphTypeOK, graphVars, LiveIsListed, Live, Unused, ContextInv
<1>2. CASE ExecuteFails \/ ExecuteEnds
    <2>1. PICK state \in {"Failed", "Running"} :
              /\ ctx.step # "idle"
              /\ report' = [report EXCEPT ![ctx.pid] = [session |-> ctx.session, state |-> state]]
              /\ ctx' = Idle
              /\ UNCHANGED <<graphVars, sessions, default, home>>
        BY <1>2 DEF ExecuteFails, ExecuteEnds, ExecuteReturn
    <2>2. RuntimeTypeOK'
        <3>1. report' \in [Pid -> [session : SessionId \union {None},
                                   state : {"none", "Running", "Failed"}]]
            BY <2>1 DEF RuntimeTypeOK, ContextInv
        <3>2. ctx' \in [step : {"idle", "joined", "loaded", "registered"}, pid : 0 .. LastPid,
                        session : SessionId \union {None}, pipes : SUBSET Pid]
            BY <2>1, LastPidAssumption DEF Idle
        <3> QED
            BY <2>1, <3>1, <3>2 DEF RuntimeTypeOK, GraphTypeOK, graphVars
    <2>3. ctx.pid \in Pid /\ ctx.pid < nextPid /\ report'[ctx.pid].session = ctx.session
        BY <2>1 DEF ContextInv, RuntimeTypeOK
    <2>4. \A p \in Pid : p # ctx.pid => report'[p] = report[p]
        BY <2>1 DEF RuntimeTypeOK
    <2>5. LiveIsListed'
        BY <2>1, <2>3, <2>4 DEF LiveIsListed, Live, graphVars, ContextInv
    <2>6. Unused'
        BY <2>1, <2>3, <2>4 DEF Unused, graphVars, RuntimeTypeOK, GraphTypeOK, Pid
    <2> QED
        BY <2>1, <2>2, <2>5, <2>6 DEF ContextInv, Idle
<1> QED
    BY <1>1, <1>2

LEMMA NextRuntime == RuntimeInv /\ [RuntimeNext]_runtimeVars => RuntimeInv'
<1> SUFFICES ASSUME RuntimeInv, [RuntimeNext]_runtimeVars PROVE RuntimeInv'
    OBVIOUS
<1>1. CASE \E id \in {Default, Other}, b \in Backend \ {"unknown"} : CreateSession(id, b)
    BY <1>1, CreateSessionStep
<1>2. ASSUME NEW profile \in Profile, Launch(profile) PROVE RuntimeInv'
    <2>1. LaunchApp(profile) /\ UNCHANGED <<ctx, report>> /\ ctx.step = "idle"
        BY <1>2 DEF Launch
    <2>2. RuntimeTypeOK'
        BY <2>1, LaunchStep DEF RuntimeTypeOK, RuntimeInv
    <2> QED
        BY <2>1, <2>2, LaunchStep DEF RuntimeInv, ContextInv
<1>3. ASSUME NEW profile \in Profile, ExecuteLaunch(profile) PROVE RuntimeInv'
    <2>1. /\ LaunchApp(profile) /\ UNCHANGED report
          /\ ctx' = [step |-> "joined", pid |-> nextPid,
                     session |-> ReportedSession(profile), pipes |-> {}]
        BY <1>3 DEF ExecuteLaunch
    <2>2. ReportedSession(profile) \in SessionId
        BY DEF ReportedSession, Profile, SessionId
    <2>3. RuntimeTypeOK'
        BY <2>1, <2>2, LaunchStep DEF RuntimeTypeOK, RuntimeInv, Pid
    <2>4. ContextInv'
        BY <2>1, LaunchStep DEF ContextInv, RuntimeInv, RuntimeTypeOK, GraphTypeOK
    <2> QED
        BY <2>1, <2>3, <2>4, LaunchStep DEF RuntimeInv
<1>4. CASE \E p \in Pid : TerminateApp(p)
    BY <1>4, TerminateStep
<1>5. CASE LoadImage \/ RegisterPipe \/ ExecuteFails \/ ExecuteEnds
    BY <1>5, ExecuteStep
<1>6. CASE UNCHANGED runtimeVars
    BY <1>6
    DEF runtimeVars, RuntimeInv, RuntimeTypeOK, GraphTypeOK, LiveIsListed, Live, Unused, ContextInv
<1> QED
    BY <1>1, <1>2, <1>3, <1>4, <1>5, <1>6 DEF RuntimeNext

-----------------------------------------------------------------------------
\* Whatever is launched, executed, terminated and created again, and whichever
\* executions fail, a live process is listed by the session it was launched
\* into, nobody else is listed, and execute_pe reports that session while the
\* default one has the id launch_app gives it.
THEOREM SessionsListLive == RuntimeSpec => []LiveIsListed
<1>1. RuntimeInv => LiveIsListed
    BY DEF RuntimeInv
<1> QED
    BY <1>1, InitRuntime, NextRuntime, PTL DEF RuntimeSpec

\* Every variable of the orchestrator keeps its type.
THEOREM RuntimeTypes == RuntimeSpec => []RuntimeTypeOK
<1>1. RuntimeInv => RuntimeTypeOK
    BY DEF RuntimeInv
<1> QED
    BY <1>1, InitRuntime, NextRuntime, PTL DEF RuntimeSpec

-----------------------------------------------------------------------------
(* The process table alone.  A pid that is still to be given out is in no     *)
(* state, so that spawn takes none that was used.                             *)

TableInv == GraphTypeOK /\ \A p \in Pid : p >= nextPid => node[p].state = "none"

LEMMA TableStep ==
    ASSUME TableInv, [GraphNext]_graphVars
    PROVE  /\ TableInv'
           /\ \A p \in Pid : node[p].state = "Terminated" => node'[p].state = "Terminated"
<1> USE LastPidAssumption DEF TableInv, GraphTypeOK, Pid, ProcessNode
<1>1. ASSUME NEW parent \in 0 .. LastPid, Spawn(parent)
      PROVE  /\ TableInv'
             /\ \A p \in Pid : node[p].state = "Terminated" => node'[p].state = "Terminated"
    BY <1>1 DEF Spawn
<1>2. ASSUME NEW p \in Pid, NEW from, NEW to \in {"Running", "Suspended", "Terminated"},
             Move(p, from, to), from \subseteq {"Running", "Suspended", "Terminated"},
             "Terminated" \in from => to = "Terminated"
      PROVE  /\ TableInv'
             /\ \A q \in Pid : node[q].state = "Terminated" => node'[q].state = "Terminated"
    BY <1>2 DEF Move
<1>3. ASSUME NEW p \in Pid, NEW parent \in Pid, Reparent(p, parent)
      PROVE  /\ TableInv'
             /\ \A q \in Pid : node[q].state = "Terminated" => node'[q].state = "Terminated"
    BY <1>3 DEF Reparent, Known, Live
<1>4. ASSUME UNCHANGED graphVars
      PROVE  /\ TableInv'
             /\ \A q \in Pid : node[q].state = "Terminated" => node'[q].state = "Terminated"
    BY <1>4 DEF graphVars
<1>5. ASSUME NEW p \in Pid, Terminate(p) \/ Suspend(p) \/ Resume(p)
      PROVE  /\ TableInv'
             /\ \A q \in Pid : node[q].state = "Terminated" => node'[q].state = "Terminated"
    BY <1>5, <1>2 DEF Terminate, Suspend, Resume
<1> QED
    BY <1>1, <1>3, <1>4, <1>5 DEF GraphNext, NoParent

\* In whatever order processes are spawned, suspended, resumed, terminated and
\* moved: one that was terminated stays so, and its pid is not given out again.
THEOREM PidsAreNotReused == GraphSpec => TerminatedIsFinal
<1>1. GraphInit => TableInv
    BY LastPidAssumption
    DEF GraphInit, TableInv, GraphTypeOK, Pid, ProcessNode, Unspawned, NoParent
<1>2. TableInv /\ [GraphNext]_graphVars => TableInv'
    BY TableStep
<1>3. TableInv /\ [GraphNext]_graphVars =>
          [\A p \in Pid : node[p].state = "Terminated" => node'[p].state = "Terminated"]_graphVars
    BY TableStep
<1> QED
    BY <1>1, <1>2, <1>3, PTL DEF GraphSpec, TerminatedIsFinal

-----------------------------------------------------------------------------
(* The VFIO manager, for any addresses, any IOMMU groups and any list of        *)
(* devices.  GroupsAdmitted is not inductive: an old scan decides what is       *)
(* attached, so that the invariant has to say what a scan that admitted a group *)
(* still means after devices were added, bound and unbound.                     *)

\* Of the first n entries, those of group g lead to devices free of the bridge.
Seen(n, g) ==
    \A i \in DOMAIN devices :
        i <= n /\ devices[i].group = g => ~OnBridge(devices[i].device)

\* The last scan, and the scan that each attached group was admitted on, still
\* hold for the entries they saw.
ScansHold ==
    /\ scanned <= Len(devices)
    /\ \A g \in IommuGroup : viable[g] = "yes" => Seen(scanned, g)
    /\ \A g \in attached : admitted[g] <= Len(devices) /\ Seen(admitted[g], g)

\* What a bound entry was bound beside.
BindingsHold ==
    /\ \A i \in DOMAIN devices : devices[i].known <= Len(devices)
    /\ \A i, j \in DOMAIN devices :
           /\ j <= devices[i].known /\ devices[j].group = devices[i].group
           /\ devices[j].device # devices[i].device
           => devices[j].state \notin HostBound

\* What needs an open container, and what needs an IOMMU.
ContainerInv ==
    /\ attached # {} \/ dma # {} => container # "Closed"
    /\ ~iommu => container = "Closed" /\ \A i \in DOMAIN devices : devices[i].known = 0

VfioInv == VfioTypeOK /\ ScansHold /\ BindingsHold /\ ContainerInv

-----------------------------------------------------------------------------
\* Facts every step starts from.
LEMMA DeviceFacts ==
    ASSUME VfioTypeOK
    PROVE  /\ MaxDevices \in Nat /\ devices \in Seq(Entry) /\ Len(devices) \in Nat
           /\ Len(devices) <= MaxDevices /\ DOMAIN devices = 1 .. Len(devices)
           /\ \A i \in DOMAIN devices :
                  /\ devices[i] \in Entry /\ devices[i].device \in PciDevice
                  /\ devices[i].group \in IommuGroup /\ devices[i].state \in BindState
                  /\ devices[i].known \in 0 .. MaxDevices
<1>1. /\ MaxDevices \in Nat /\ devices \in Seq(Entry) /\ Len(devices) \in Nat
      /\ Len(devices) <= MaxDevices /\ DOMAIN devices = 1 .. Len(devices)
    BY DeviceProxyAssumption DEF VfioTypeOK
<1>2. \A i \in DOMAIN devices : devices[i] \in Entry
    BY <1>1, ElementOfSeq
<1> QED
    BY <1>1, <1>2 DEF Entry, EntryCount

\* An entry is put at the end: lookups of the addresses that were there find
\* what they found.
LEMMA AddDeviceStep ==
    ASSUME VfioInv, NEW d \in PciDevice, NEW g \in IommuGroup, NEW state \in BindState,
           AddDevice(d, g, state)
    PROVE  VfioInv'
<1> DEFINE size == Len(devices)
<1> DEFINE new == [device |-> d, group |-> g, state |-> state, known |-> 0]
<1>1. /\ MaxDevices \in Nat /\ devices \in Seq(Entry) /\ size \in Nat
      /\ DOMAIN devices = 1 .. size
      /\ \A i \in DOMAIN devices : devices[i].known \in 0 .. MaxDevices
    BY DeviceFacts DEF VfioInv
<1>2. /\ size < MaxDevices /\ devices' = Append(devices, new)
      /\ UNCHANGED <<iommu, viable, scanned, container, attached, admitted, dma, routed>>
    BY DEF AddDevice
<1>3. new \in Entry
    BY <1>1 DEF Entry, EntryCount
<1>4. /\ devices' \in Seq(Entry) /\ Len(devices') = size + 1
      /\ DOMAIN devices' = 1 .. size + 1 /\ devices'[size + 1] = new
      /\ \A i \in 1 .. size : devices'[i] = devices[i]
    BY <1>1, <1>2, <1>3
<1> HIDE DEF new
<1>5. VfioTypeOK'
    BY <1>1, <1>2, <1>4 DEF VfioInv, VfioTypeOK
<1>6. \A i \in 1 .. size : IsFirst(i)' <=> IsFirst(i)
    BY <1>1, <1>4 DEF IsFirst
<1>7. ASSUME NEW i \in 1 .. size, NEW e \in PciDevice, e = devices[i].device, ~OnBridge(e)
      PROVE  ~OnBridge(e)'
    <2>1. SUFFICES ASSUME NEW k \in 1 .. size + 1, IsFirst(k)', devices'[k].device = e,
                          devices'[k].state = "bridge"
                   PROVE  FALSE
        BY <1>1, <1>4 DEF OnBridge
    <2>2. CASE k \in 1 .. size
        BY <2>1, <2>2, <1>1, <1>4, <1>6, <1>7 DEF OnBridge
    <2>3. CASE k = size + 1
        <3>1. i \in 1 .. k - 1 /\ devices'[i].device = devices'[k].device
            BY <2>1, <2>3, <1>1, <1>4, <1>7
        <3> QED
            BY <2>1, <3>1 DEF IsFirst
    <2> QED
        BY <2>2, <2>3, <1>1
<1>8. ASSUME NEW n \in 0 .. size, NEW h \in IommuGroup, Seen(n, h) PROVE Seen(n, h)'
    <2> SUFFICES ASSUME NEW i \in DOMAIN devices', i <= n, devices'[i].group = h
                 PROVE  ~OnBridge(devices[i].device)'
        BY DEF Seen
    <2>1. i \in 1 .. size /\ devices'[i] = devices[i]
        BY <1>1, <1>4
    <2>2. ~OnBridge(devices[i].device)
        BY <2>1, <1>1, <1>8 DEF Seen
    <2>3. devices[i].device \in PciDevice
        BY <2>1, DeviceFacts DEF VfioInv
    <2> QED
        BY <2>1, <2>2, <2>3, <1>7
<1>9. ScansHold'
    BY <1>1, <1>2, <1>4, <1>8 DEF VfioInv, VfioTypeOK, EntryCount, ScansHold
<1>10. BindingsHold'
    <2>1. \A i \in DOMAIN devices' : devices'[i].known <= Len(devices')
        BY <1>1, <1>4 DEF VfioInv, BindingsHold, new
    <2>2. ASSUME NEW i \in DOMAIN devices', NEW j \in DOMAIN devices',
                 j <= devices'[i].known, devices'[j].group = devices'[i].group,
                 devices'[j].device # devices'[i].device
          PROVE  devices'[j].state \notin HostBound
        <3>1. i \in 1 .. size
            BY <2>2, <1>1, <1>4 DEF new
        <3>2. devices[i].known <= size /\ devices'[i] = devices[i]
            BY <3>1, <1>1, <1>4 DEF VfioInv, BindingsHold
        <3>3. j \in 1 .. size /\ devices'[j] = devices[j]
            BY <2>2, <3>1, <3>2, <1>1, <1>4
        <3> QED
            BY <2>2, <3>1, <3>2, <3>3, <1>1 DEF VfioInv, BindingsHold
    <2> QED
        BY <2>1, <2>2 DEF BindingsHold
<1>11. ContainerInv'
    BY <1>1, <1>2, <1>4 DEF VfioInv, ContainerInv, new
<1> QED
    BY <1>5, <1>9, <1>10, <1>11 DEF VfioInv

\* An entry is bound or unbound: no entry comes to a host driver by it.
LEMMA BindingStep ==
    ASSUME VfioInv, NEW k \in DOMAIN devices, NEW state \in {"vfio", "unbound"},
           NEW known \in 0 .. Len(devices), known # 0 => iommu,
           \A j \in DOMAIN devices :
               /\ j <= known /\ devices[j].group = devices[k].group
               /\ devices[j].device # devices[k].device
               => devices[j].state \notin HostBound,
           devices' = [devices EXCEPT ![k] = [@ EXCEPT !.state = state, !.known = known]],
           UNCHANGED <<iommu, viable, scanned, container, attached, admitted, dma, routed>>
    PROVE  VfioInv'
<1> DEFINE size == Len(devices)
<1> DEFINE moved == [devices[k] EXCEPT !.state = state, !.known = known]
<1>1. /\ MaxDevices \in Nat /\ devices \in Seq(Entry) /\ size \in Nat /\ size <= MaxDevices
      /\ DOMAIN devices = 1 .. size /\ devices[k] \in Entry
    BY DeviceFacts DEF VfioInv
<1>2. /\ moved \in Entry /\ moved.device = devices[k].device /\ moved.group = devices[k].group
      /\ moved.state = state /\ moved.known = known
    <2>1. known \in EntryCount /\ state \in BindState
        BY <1>1 DEF EntryCount, BindState
    <2> QED
        BY <1>1, <2>1 DEF Entry
<1> HIDE DEF moved
<1>3. devices' = [devices EXCEPT ![k] = moved]
    BY DEF moved
<1>4. /\ devices' \in Seq(Entry) /\ Len(devices') = size /\ DOMAIN devices' = 1 .. size
      /\ devices'[k] = moved /\ \A i \in (1 .. size) \ {k} : devices'[i] = devices[i]
    BY <1>1, <1>2, <1>3
<1>5. VfioTypeOK'
    BY <1>1, <1>4 DEF VfioInv, VfioTypeOK
<1>6. \A i \in 1 .. size : /\ devices'[i].device = devices[i].device
                           /\ devices'[i].group = devices[i].group
                           /\ devices'[i].state \in HostBound => devices'[i] = devices[i]
    BY <1>2, <1>4 DEF HostBound
<1>7. \A i \in 1 .. size : IsFirst(i)' <=> IsFirst(i)
    BY <1>1, <1>4, <1>6 DEF IsFirst
<1>8. \A e \in PciDevice : ~OnBridge(e) => ~OnBridge(e)'
    BY <1>1, <1>4, <1>6, <1>7 DEF OnBridge, HostBound
<1>9. ASSUME NEW n, NEW h \in IommuGroup, Seen(n, h) PROVE Seen(n, h)'
    <2> SUFFICES ASSUME NEW i \in DOMAIN devices', i <= n, devices'[i].group = h
                 PROVE  ~OnBridge(devices[i].device)'
        BY DEF Seen
    <2>1. /\ i \in DOMAIN devices /\ devices'[i].device = devices[i].device
          /\ devices[i].group = h
        BY <1>1, <1>4, <1>6
    <2>2. devices[i].device \in PciDevice
        BY <2>1, DeviceFacts DEF VfioInv
    <2>3. ~OnBridge(devices[i].device)
        BY <2>1, <1>9 DEF Seen
    <2> QED
        BY <2>1, <2>2, <2>3, <1>8
<1>10. ScansHold'
    BY <1>4, <1>9 DEF VfioInv, VfioTypeOK, ScansHold
<1>11. BindingsHold'
    <2>1. \A i \in DOMAIN devices' : devices'[i].known <= Len(devices')
        BY <1>1, <1>2, <1>4 DEF VfioInv, BindingsHold
    <2>2. ASSUME NEW i \in DOMAIN devices', NEW j \in DOMAIN devices',
                 j <= devices'[i].known, devices'[j].group = devices'[i].group,
                 devices'[j].device # devices'[i].device
          PROVE  devices'[j].state \notin HostBound
        <3>1. /\ i \in DOMAIN devices /\ j \in DOMAIN devices
              /\ devices[j].group = devices[i].group /\ devices[j].device # devices[i].device
            BY <2>2, <1>1, <1>4, <1>6
        <3>2. devices[j].state \notin HostBound
            <4>1. CASE i = k
                BY <2>2, <3>1, <4>1, <1>2, <1>4
            <4>2. CASE i # k
                BY <2>2, <3>1, <4>2, <1>1, <1>4 DEF VfioInv, BindingsHold
            <4> QED
                BY <4>1, <4>2
        <3> QED
            BY <3>1, <3>2, <1>1, <1>6
    <2> QED
        BY <2>1, <2>2 DEF BindingsHold
<1>12. ContainerInv'
    BY <1>1, <1>2, <1>4 DEF VfioInv, ContainerInv
<1> QED
    BY <1>5, <1>10, <1>11, <1>12 DEF VfioInv

LEMMA InitVfio == VfioInit => VfioInv
<1> SUFFICES ASSUME VfioInit PROVE VfioInv
    OBVIOUS
<1>1. devices = << >> /\ Len(devices) = 0 /\ DOMAIN devices = {} /\ devices \in Seq(Entry)
    BY DEF VfioInit
<1>2. MaxDevices \in Nat
    BY DeviceProxyAssumption
<1>3. VfioTypeOK
    BY <1>1, <1>2 DEF VfioInit, VfioTypeOK, EntryCount, ContainerState
<1>4. ScansHold /\ BindingsHold /\ ContainerInv
    BY <1>1 DEF VfioInit, ScansHold, Seen, BindingsHold, ContainerInv
<1> QED
    BY <1>3, <1>4 DEF VfioInv

\* A step that leaves the list alone leaves what lookups find alone.
LEMMA SameDevices ==
    ASSUME UNCHANGED devices
    PROVE  /\ \A d : OnBridge(d)' <=> OnBridge(d)
           /\ \A n, g : Seen(n, g)' <=> Seen(n, g)
           /\ BindingsHold' <=> BindingsHold
<1>1. \A d : OnBridge(d)' <=> OnBridge(d)
    BY DEF OnBridge, IsFirst
<1> QED
    BY <1>1 DEF Seen, BindingsHold

LEMMA NextVfio == VfioInv /\ [VfioNext]_vfioVars => VfioInv'
<1> SUFFICES ASSUME VfioInv, [VfioNext]_vfioVars PROVE VfioInv'
    OBVIOUS
<1> USE DEF VfioInv
<1>1. CASE ScanIommuGroups
    <2>1. /\ UNCHANGED <<iommu, devices, container, attached, admitted, dma, routed>>
          /\ scanned' = Len(devices) /\ viable' = [g \in IommuGroup |-> Viability(g)]
        BY <1>1 DEF ScanIommuGroups
    <2>2. VfioTypeOK'
        <3>1. \A g \in IommuGroup : Viability(g) \in {"unknown", "yes", "no"}
            BY DEF Viability
        <3>2. Len(devices) \in EntryCount
            BY DeviceFacts DEF EntryCount
        <3> QED
            BY <2>1, <3>1, <3>2 DEF VfioTypeOK
    <2>3. ASSUME NEW g \in IommuGroup, viable'[g] = "yes" PROVE Seen(scanned', g)
        <3>1. Viability(g) = "yes"
            BY <2>1, <2>3
        <3>2. \A i \in EntriesOf(g) : ~OnBridge(devices[i].device)
            BY <3>1 DEF Viability
        <3> QED
            BY <3>2 DEF Seen, EntriesOf
    <2>4. ScansHold'
        <3>1. scanned' <= Len(devices') /\ Len(devices') = Len(devices)
            BY <2>1, DeviceFacts
        <3>2. \A g \in IommuGroup : viable'[g] = "yes" => Seen(scanned, g)'
            BY <2>1, <2>3 DEF Seen, OnBridge, IsFirst
        <3>3. \A g \in attached' : admitted'[g] <= Len(devices') /\ Seen(admitted[g], g)'
            BY <2>1 DEF ScansHold, Seen, OnBridge, IsFirst
        <3> QED
            BY <3>1, <3>2, <3>3 DEF ScansHold
    <2> QED
        BY <2>1, <2>2, <2>4, SameDevices DEF ContainerInv
<1>2. CASE OpenContainer
    BY <1>2, SameDevices DEF OpenContainer, VfioTypeOK, ContainerState, ScansHold, Seen, ContainerInv
<1>3. CASE SetIommu
    BY <1>3, SameDevices DEF SetIommu, VfioTypeOK, ContainerState, ScansHold, Seen, ContainerInv
<1>4. ASSUME NEW k \in DOMAIN devices, BindToVfio(k) PROVE VfioInv'
    <2>1. /\ iommu
          /\ \A j \in EntriesOf(devices[k].group) :
                 devices[j].device # devices[k].device => devices[j].state \notin HostBound
          /\ devices' = [devices EXCEPT ![k] = [@ EXCEPT !.state = "vfio", !.known = Len(devices)]]
          /\ UNCHANGED <<iommu, viable, scanned, container, attached, admitted, dma, routed>>
        BY <1>4 DEF BindToVfio
    <2>2. \A j \in DOMAIN devices :
              /\ j <= Len(devices) /\ devices[j].group = devices[k].group
              /\ devices[j].device # devices[k].device
              => devices[j].state \notin HostBound
        BY <2>1 DEF EntriesOf
    <2>3. Len(devices) \in 0 .. Len(devices)
        BY DeviceFacts
    <2> QED
        BY <2>1, <2>2, <2>3, BindingStep
<1>5. ASSUME NEW k \in DOMAIN devices, UnbindFromVfio(k) PROVE VfioInv'
    <2>1. /\ devices' = [devices EXCEPT ![k] = [@ EXCEPT !.state = "unbound", !.known = 0]]
          /\ UNCHANGED <<iommu, viable, scanned, container, attached, admitted, dma, routed>>
        BY <1>5 DEF UnbindFromVfio
    <2>2. 0 \in 0 .. Len(devices) /\ \A j \in DOMAIN devices : ~(j <= 0)
        BY DeviceFacts
    <2> QED
        BY <2>1, <2>2, BindingStep
<1>6. ASSUME NEW k \in DOMAIN devices, SetupInterrupts(k) PROVE VfioInv'
    <2>1. /\ UNCHANGED <<iommu, devices, viable, scanned, container, attached, admitted, dma>>
          /\ routed' = routed \union {devices[k].device} /\ devices[k].device \in PciDevice
        BY <1>6, DeviceFacts DEF SetupInterrupts
    <2> QED
        BY <2>1, SameDevices DEF VfioTypeOK, ScansHold, Seen, ContainerInv
<1>7. ASSUME NEW g \in IommuGroup, AttachGroup(g) PROVE VfioInv'
    <2>1. VfioTypeOK'
        BY <1>7 DEF AttachGroup, VfioTypeOK, ContainerState
    <2>2. /\ UNCHANGED <<devices, viable, scanned, iommu, dma>> /\ container' # "Closed" /\ iommu
          /\ viable[g] = "yes" /\ attached' = attached \union {g}
          /\ admitted' = [admitted EXCEPT ![g] = IF g \in attached THEN @ ELSE scanned]
        BY <1>7 DEF AttachGroup, ContainerInv
    <2>3. ASSUME NEW h \in attached'
          PROVE  admitted'[h] <= Len(devices) /\ Seen(admitted'[h], h)
        <3>1. CASE h \in attached
            BY <2>2, <3>1 DEF VfioTypeOK, ScansHold
        <3>2. CASE h \notin attached
            BY <2>2, <2>3, <3>2 DEF VfioTypeOK, ScansHold
        <3> QED
            BY <3>1, <3>2
    <2>4. ScansHold'
        BY <2>2, <2>3 DEF ScansHold, Seen, OnBridge, IsFirst
    <2> QED
        BY <2>1, <2>2, <2>4, SameDevices DEF ContainerInv
<1>8. ASSUME NEW a \in Iova, MapDma(a) \/ UnmapDma(a) PROVE VfioInv'
    BY <1>8, SameDevices DEF MapDma, UnmapDma, SetDma, VfioTypeOK, ScansHold, Seen, ContainerInv
<1>9. CASE UNCHANGED vfioVars
    BY <1>9, SameDevices DEF vfioVars, VfioTypeOK, ScansHold, Seen, ContainerInv
<1> QED
    BY <1>1, <1>2, <1>3, <1>4, <1>5, <1>6, <1>7, <1>8, <1>9, AddDeviceStep DEF VfioNext

LEMMA VfioShows == VfioInv => GroupsAdmitted
  BY DEF VfioInv, ScansHold, Seen, EntriesOf, BindingsHold, ContainerInv, GroupsAdmitted

-----------------------------------------------------------------------------
\* Whatever order devices are added, bound and unbound in, addresses added twice,
\* groups scanned and attached and the container opened in: no device that the
\* scan saw which admitted an attached group is on the bridge driver, none
\* beside a bound device on a host driver; nothing is attached or mapped without
\* an open container, nothing bound without an IOMMU.
THEOREM AttachedAreAdmitted == VfioSpec => []GroupsAdmitted
  BY VfioShows, InitVfio, NextVfio, PTL DEF VfioSpec

\* Every variable of the VFIO manager keeps its type.
THEOREM VfioTypes == VfioSpec => []VfioTypeOK
<1>1. VfioInv => VfioTypeOK
    BY DEF VfioInv
<1> QED
    BY <1>1, InitVfio, NextVfio, PTL DEF VfioSpec

-----------------------------------------------------------------------------
(* The objects of the Vulkan ICD and the contexts of the WGL bridge, for any    *)
(* bounds on the handles.  ObjectsAlive and the types are inductive together.   *)

\* Handles are given out in increasing order, so that a new one is no handle of
\* an object that exists.
LEMMA MakeOne ==
    ASSUME VkTypeOK, NEW first \in VkObject, Make(first, {})
    PROVE  /\ vk' = [vk EXCEPT ![first] = vkNext] /\ vkNext' = vkNext + 1
           /\ vkNext <= LastObject
<1>1. Cardinality({}) = 0
    BY FS_EmptySet
<1>2. vkNext' = vkNext + 1 /\ vkNext <= LastObject
    BY <1>1, GraphicsAssumption DEF Make, VkTypeOK
<1>3. vk' = [o \in VkObject |-> IF o = first THEN vkNext ELSE vk[o]]
    BY DEF Make
<1>4. vk' = [vk EXCEPT ![first] = vkNext]
    BY <1>3 DEF VkTypeOK
<1> QED
    BY <1>2, <1>4

\* create_device makes the device and its two queues.
LEMMA MakeDevice ==
    ASSUME VkTypeOK, Make("device", {"graphicsQueue", "presentQueue"})
    PROVE  /\ vk' = [vk EXCEPT !["device"] = vkNext, !["graphicsQueue"] = vkNext + 1,
                               !["presentQueue"] = vkNext + 2]
           /\ vkNext' = vkNext + 3 /\ vkNext + 2 <= LastObject
<1>1. Cardinality({"graphicsQueue", "presentQueue"}) = 2
    <2>1. IsFiniteSet({"graphicsQueue"}) /\ Cardinality({"graphicsQueue"}) = 1
        BY FS_Singleton
    <2>2. {"graphicsQueue", "presentQueue"} = {"graphicsQueue"} \union {"presentQueue"}
        OBVIOUS
    <2>3. "presentQueue" \notin {"graphicsQueue"}
        OBVIOUS
    <2> QED
        BY <2>1, <2>2, <2>3, FS_AddElement
<1>2. vkNext' = vkNext + 3 /\ vkNext + 2 <= LastObject
    BY <1>1 DEF Make, VkTypeOK
<1>3. vk' = [vk EXCEPT !["device"] = vkNext, !["graphicsQueue"] = vkNext + 1,
                       !["presentQueue"] = vkNext + 2]
    BY DEF Make, VkTypeOK, VkObject
<1> QED
    BY <1>2, <1>3

GraphicsInv == VkTypeOK /\ WglTypeOK /\ ObjectsAlive

\* What ObjectsAlive says of the ICD and of the bridge.
VkAlive ==
    /\ Made("swapchain") => Made("device") /\ Made("surface")
    /\ Made("device") => Made("graphicsQueue") /\ Made("presentQueue")
    /\ \A o \in VkObject : Made(o) => Made("instance") /\ vk[o] < vkNext
    /\ \A o, q \in VkObject : Made(o) /\ vk[o] = vk[q] => o = q

CurrentAlive == current # 0 => current \in Context

LEMMA InitGraphics == GraphicsInit => GraphicsInv
<1> SUFFICES ASSUME GraphicsInit PROVE GraphicsInv
    OBVIOUS
<1>1. VkTypeOK /\ WglTypeOK
    BY GraphicsAssumption DEF GraphicsInit, VkInit, WglInit, VkTypeOK, WglTypeOK
<1>2. ObjectsAlive
    BY DEF GraphicsInit, VkInit, WglInit, ObjectsAlive, Made, VkObject
<1> QED
    BY <1>1, <1>2 DEF GraphicsInv

\* The steps of the ICD: what is made gets a handle none had, and what is
\* destroyed is destroyed with all that depends on it.
LEMMA NextVk == VkTypeOK /\ VkAlive /\ [VkNext]_vkVars => VkTypeOK' /\ VkAlive'
<1> SUFFICES ASSUME VkTypeOK, VkAlive, [VkNext]_vkVars PROVE VkTypeOK' /\ VkAlive'
    OBVIOUS
<1>1. ASSUME NEW first \in VkObject, Make(first, {}), physical' \in 0 .. MaxPhysical,
             UNCHANGED presented,
             first # "instance" => Made("instance"),
             first = "swapchain" => Made("device") /\ Made("surface"),
             first # "device"
      PROVE  VkTypeOK' /\ VkAlive'
    <2>1. /\ vk' = [vk EXCEPT ![first] = vkNext] /\ vkNext' = vkNext + 1
          /\ vkNext <= LastObject
        BY <1>1, MakeOne
    <2>2. VkTypeOK'
        BY <1>1, <2>1, GraphicsAssumption DEF VkTypeOK
    <2>3. vk'[first] = vkNext /\ \A o \in VkObject \ {first} : vk'[o] = vk[o]
        BY <2>1 DEF VkTypeOK
    <2>4. \A o \in VkObject : Made(o) => Made(o)'
        BY <2>3 DEF VkTypeOK, Made
    <2>5. \A o \in VkObject : o # first => (Made(o)' <=> Made(o))
        BY <2>3 DEF Made
    <2>6. /\ Made("swapchain")' => Made("device")' /\ Made("surface")'
          /\ Made("device")' => Made("graphicsQueue")' /\ Made("presentQueue")'
        BY <1>1, <2>4, <2>5 DEF VkAlive, VkObject
    <2>7. ASSUME NEW o \in VkObject, Made(o)' PROVE Made("instance")' /\ vk'[o] < vkNext'
        <3>1. Made("instance")'
            BY <1>1, <2>4, <2>5, <2>7 DEF VkAlive, VkObject
        <3>2. vk'[o] < vkNext'
            BY <2>1, <2>3, <2>7 DEF VkAlive, VkTypeOK, Made
        <3> QED
            BY <3>1, <3>2
    <2>8. ASSUME NEW o \in VkObject, NEW q \in VkObject, Made(o)', vk'[o] = vk'[q] PROVE o = q
        BY <2>3, <2>8 DEF VkAlive, VkTypeOK, Made
    <2> QED
        BY <2>2, <2>6, <2>7, <2>8 DEF VkAlive
<1>2. CASE CreateInstance \/ InitializeIcd
    <2>1. /\ physical < MaxPhysical /\ physical' = physical + 1 /\ UNCHANGED presented
          /\ Make("instance", {})
        BY <1>2 DEF CreateInstance, InitializeIcd
    <2>2. physical' \in 0 .. MaxPhysical
        BY <2>1, GraphicsAssumption DEF VkTypeOK
    <2> QED
        BY <1>1, <2>1, <2>2 DEF VkObject
<1>3. CASE CreateSurface
    BY <1>1, <1>3 DEF CreateSurface, VkTypeOK, VkObject
<1>4. CASE \E w, h \in 0 .. 1 : CreateSwapchain(w, h)
    <2>1. /\ Made("device") /\ Made("surface") /\ Make("swapchain", {})
          /\ UNCHANGED <<physical, presented>>
        BY <1>4 DEF CreateSwapchain
    <2> QED
        BY <1>1, <2>1 DEF VkAlive, VkTypeOK, VkObject
<1>5. CASE CreateCommandPool
    <2>1. Made("instance")
        BY <1>5 DEF CreateCommandPool, VkAlive, VkObject
    <2> QED
        BY <1>1, <1>5, <2>1 DEF CreateCommandPool, VkTypeOK, VkObject
<1>6. CASE CreateDevice
    <2>1. /\ vk' = [vk EXCEPT !["device"] = vkNext, !["graphicsQueue"] = vkNext + 1,
                              !["presentQueue"] = vkNext + 2]
          /\ vkNext' = vkNext + 3 /\ vkNext + 2 <= LastObject
          /\ Made("instance") /\ UNCHANGED <<physical, presented>>
        BY <1>6, MakeDevice DEF CreateDevice
    <2>2. VkTypeOK'
        <3>1. /\ vkNext \in Nat /\ LastObject \in Nat /\ vkNext >= 1 /\ vk \in [VkObject -> 0 .. LastObject]
            BY GraphicsAssumption DEF VkTypeOK
        <3>2. {vkNext, vkNext + 1, vkNext + 2} \subseteq 0 .. LastObject
            BY <2>1, <3>1
        <3>3. vk' \in [VkObject -> 0 .. LastObject]
            BY <2>1, <3>1, <3>2
        <3>4. vkNext' \in 1 .. LastObject + 1
            BY <2>1, <3>1
        <3> QED
            BY <2>1, <3>3, <3>4 DEF VkTypeOK
    <2>3. /\ vk'["device"] = vkNext /\ vk'["graphicsQueue"] = vkNext + 1
          /\ vk'["presentQueue"] = vkNext + 2
          /\ \A o \in VkObject \ {"device", "graphicsQueue", "presentQueue"} : vk'[o] = vk[o]
        BY <2>1 DEF VkTypeOK, VkObject
    <2>4. \A o \in VkObject : Made(o) => Made(o)'
        BY <2>3 DEF VkTypeOK, Made
    <2>5. /\ Made("swapchain")' => Made("device")' /\ Made("surface")'
          /\ Made("device")' => Made("graphicsQueue")' /\ Made("presentQueue")'
        <3>1. Made("swapchain")' <=> Made("swapchain")
            BY <2>3 DEF Made, VkObject
        <3>2. Made("graphicsQueue")' /\ Made("presentQueue")'
            BY <2>3 DEF Made, VkTypeOK
        <3> QED
            BY <2>4, <3>1, <3>2 DEF VkAlive, VkObject
    <2>6. ASSUME NEW o \in VkObject, Made(o)' PROVE Made("instance")' /\ vk'[o] < vkNext'
        <3>1. Made("instance")'
            BY <2>1, <2>4 DEF VkObject
        <3>2. vk'[o] < vkNext'
            BY <2>1, <2>3, <2>6 DEF VkAlive, VkTypeOK, Made
        <3> QED
            BY <3>1, <3>2
    <2>7. ASSUME NEW o \in VkObject, NEW q \in VkObject, Made(o)', vk'[o] = vk'[q] PROVE o = q
        BY <2>3, <2>7 DEF VkAlive, VkTypeOK, Made
    <2> QED
        BY <2>2, <2>5, <2>6, <2>7 DEF VkAlive
<1>7. CASE QueuePresent
    <2>1. /\ presented < LastObject /\ presented' = presented + 1
          /\ UNCHANGED <<vk, vkNext, physical>>
        BY <1>7 DEF QueuePresent
    <2>2. VkTypeOK'
        BY <2>1, GraphicsAssumption DEF VkTypeOK
    <2> QED
        BY <2>1, <2>2 DEF VkAlive, Made
<1>8. CASE Destroy
    <2>1. vk' = [o \in VkObject |-> 0] /\ UNCHANGED <<vkNext, physical, presented>>
        BY <1>8 DEF Destroy
    <2>2. VkTypeOK'
        BY <2>1, GraphicsAssumption DEF VkTypeOK
    <2>3. \A o \in VkObject : ~Made(o)'
        BY <2>1 DEF Made
    <2> QED
        BY <2>2, <2>3 DEF VkAlive, VkObject
<1>9. CASE UNCHANGED vkVars
    BY <1>9 DEF vkVars, VkTypeOK, VkAlive, Made
<1> QED
    BY <1>2, <1>3, <1>4, <1>5, <1>6, <1>7, <1>8, <1>9 DEF VkNext

\* The steps of the bridge: the context that is deleted is current no more.
LEMMA NextWgl == WglTypeOK /\ CurrentAlive /\ [WglNext]_wglVars => WglTypeOK' /\ CurrentAlive'
<1> SUFFICES ASSUME WglTypeOK, CurrentAlive, [WglNext]_wglVars
             PROVE  WglTypeOK' /\ CurrentAlive'
    OBVIOUS
<1> USE DEF WglTypeOK, CurrentAlive, Context, GlState
<1>1. CASE WglCreateContext
    <2>1. /\ ctxNext <= LastContext /\ ctxNext' = ctxNext + 1 /\ UNCHANGED current
          /\ glContexts' = [glContexts EXCEPT ![ctxNext] = "default"]
        BY <1>1 DEF WglCreateContext
    <2>2. ctxNext \in 1 .. LastContext /\ ctxNext' \in 1 .. LastContext + 1
        BY <2>1, GraphicsAssumption
    <2> QED
        BY <2>1, <2>2
<1>2. ASSUME NEW c \in 1 .. LastContext, WglMakeCurrent(c) PROVE WglTypeOK' /\ CurrentAlive'
    BY <1>2 DEF WglMakeCurrent
<1>3. ASSUME NEW c \in 1 .. LastContext, WglDeleteContext(c) PROVE WglTypeOK' /\ CurrentAlive'
    BY <1>3, GraphicsAssumption DEF WglDeleteContext
<1>4. ASSUME NEW state \in GlState \ {"default"}, GlSet(state) PROVE WglTypeOK' /\ CurrentAlive'
    BY <1>4 DEF GlSet
<1>5. CASE UNCHANGED wglVars
    BY <1>5 DEF wglVars
<1> QED
    BY <1>1, <1>2, <1>3, <1>4, <1>5 DEF WglNext

LEMMA NextGraphics ==
    GraphicsInv /\ [GraphicsNext]_<<vkVars, wglVars, d3dVars>> => GraphicsInv'
<1> SUFFICES ASSUME GraphicsInv, [GraphicsNext]_<<vkVars, wglVars, d3dVars>> PROVE GraphicsInv'
    OBVIOUS
<1>1. [VkNext]_vkVars /\ [WglNext]_wglVars
    BY DEF GraphicsNext
<1>2. GraphicsInv <=> VkTypeOK /\ VkAlive /\ WglTypeOK /\ CurrentAlive
    BY DEF GraphicsInv, ObjectsAlive, VkAlive, CurrentAlive
<1>3. (VkTypeOK /\ VkAlive /\ WglTypeOK /\ CurrentAlive)'
    BY <1>1, <1>2, NextVk, NextWgl
<1> QED
    BY <1>3 DEF GraphicsInv, ObjectsAlive, VkAlive, CurrentAlive

\* After any order of creations, presents and destructions, of contexts made
\* current and deleted: what exists has all it depends on, no two objects share
\* a handle, and the current context is one that exists.
THEOREM GraphicsObjectsAlive == GraphicsSpec => []ObjectsAlive
<1>1. GraphicsInv => ObjectsAlive
    BY DEF GraphicsInv
<1> QED
    BY <1>1, InitGraphics, NextGraphics, PTL DEF GraphicsSpec
-----------------------------------------------------------------------------
(* Names made by counting.  PathsApart is not inductive: a path made from the  *)
(* number of devices is new only if the paths say where their devices stand,   *)
(* which is so of those that came after the last removal.                      *)

\* A device that stands has the number of those before it, and so have all
\* devices behind it.
Standing ==
    \A i \in DOMAIN plugged : plugged[i].kind = "stands" =>
        /\ plugged[i].linux \in Subsystem \X {i - 1}
        /\ \A j \in DOMAIN plugged : i < j => plugged[j].kind = "stands"

OnePathEach == \A i, j \in DOMAIN plugged : i < j => plugged[i].path # plugged[j].path

PlugInv == PlugTypeOK /\ Standing /\ OnePathEach

LEMMA InitPlug == PlugInit => PlugInv
<1> SUFFICES ASSUME PlugInit PROVE PlugInv
    OBVIOUS
<1>1. /\ Builtin \in Seq([path : DevicePath, linux : HostPath])
      /\ MaxPlugged \in Nat /\ Len(Builtin) <= MaxPlugged
    BY DeviceProxyAssumption, BuiltinAssumption
<1>2. /\ DOMAIN Builtin = 1 .. Len(Builtin) /\ DOMAIN plugged = 1 .. Len(Builtin)
      /\ Len(Builtin) \in Nat
      /\ \A i \in DOMAIN plugged : plugged[i] =
             [path |-> Builtin[i].path, linux |-> Builtin[i].linux, kind |-> "builtin"]
    BY <1>1 DEF PlugInit
<1>3. \A i \in DOMAIN plugged : plugged[i] \in Device
    <2> SUFFICES ASSUME NEW i \in DOMAIN plugged PROVE plugged[i] \in Device
        OBVIOUS
    <2>1. Builtin[i] \in [path : DevicePath, linux : HostPath]
        BY <1>1, <1>2, ElementOfSeq
    <2> QED
        BY <2>1, <1>2 DEF Device, LinuxPath
<1>4. plugged \in Seq(Device)
    BY <1>1, <1>2, <1>3 DEF PlugInit
<1>5. Len(plugged) = Len(Builtin)
    BY <1>2, <1>4
<1>6. OnePathEach
    BY <1>2, BuiltinAssumption DEF OnePathEach
<1>7. Standing
    BY <1>2 DEF Standing
<1> QED
    BY <1>1, <1>4, <1>5, <1>6, <1>7 DEF PlugInv, PlugTypeOK

LEMMA AddStep ==
    ASSUME PlugInv, NEW path \in DevicePath, NEW sub \in Subsystem, HotplugAdd(path, sub)
    PROVE  PlugInv'
<1> DEFINE size == Len(plugged)
<1> DEFINE last == [path |-> path, linux |-> <<sub, size>>, kind |-> "stands"]
<1>1. /\ plugged \in Seq(Device) /\ size < MaxPlugged /\ size \in Nat
      /\ DOMAIN plugged = 1 .. size
      /\ plugged' = Append(plugged, last) /\ MaxPlugged \in Nat
    BY DeviceProxyAssumption DEF PlugInv, PlugTypeOK, HotplugAdd
<1>2. last \in Device
    BY <1>1 DEF Device, LinuxPath
<1>3. /\ plugged' \in Seq(Device)
      /\ Len(plugged') = size + 1 /\ plugged'[size + 1] = last
      /\ \A i \in 1 .. size : plugged'[i] = plugged[i]
      /\ DOMAIN plugged' = 1 .. size + 1
    BY <1>1, <1>2
<1>4. \A i \in 1 .. size : plugged[i].path # path
    BY <1>1 DEF HotplugAdd, Paths
<1>5. Standing'
    <2> SUFFICES ASSUME NEW i \in 1 .. size + 1, plugged'[i].kind = "stands"
                 PROVE  /\ plugged'[i].linux \in Subsystem \X {i - 1}
                        /\ \A j \in 1 .. size + 1 : i < j => plugged'[j].kind = "stands"
        BY <1>3 DEF Standing
    <2>1. CASE i \in 1 .. size
        <3>1. /\ plugged[i].linux \in Subsystem \X {i - 1}
              /\ \A j \in 1 .. size : i < j => plugged[j].kind = "stands"
            BY <2>1, <1>1, <1>3 DEF PlugInv, Standing
        <3> QED
            BY <2>1, <3>1, <1>1, <1>3
    <2>2. CASE i = size + 1
        BY <2>2, <1>1, <1>3
    <2> QED
        BY <2>1, <2>2, <1>1
<1>6. OnePathEach'
    <2> SUFFICES ASSUME NEW i \in 1 .. size + 1, NEW j \in 1 .. size + 1, i < j
                 PROVE  plugged'[i].path # plugged'[j].path
        BY <1>3 DEF OnePathEach
    <2>1. i \in 1 .. size /\ plugged'[i] = plugged[i]
        BY <1>1, <1>3
    <2>2. CASE j \in 1 .. size
        BY <2>1, <2>2, <1>1, <1>3 DEF PlugInv, OnePathEach
    <2>3. CASE j = size + 1
        BY <2>1, <2>3, <1>3, <1>4
    <2> QED
        BY <2>2, <2>3, <1>1
<1> QED
    BY <1>1, <1>3, <1>5, <1>6 DEF PlugInv, PlugTypeOK

LEMMA RemoveStep ==
    ASSUME PlugInv, NEW path \in DevicePath, HotplugRemove(path) PROVE PlugInv'
<1>1. /\ plugged \in Seq(Device) /\ Len(plugged) <= MaxPlugged
      /\ DOMAIN plugged = 1 .. Len(plugged) /\ Len(plugged) \in Nat
      /\ MaxPlugged \in Nat
    BY DeviceProxyAssumption DEF PlugInv, PlugTypeOK
<1>2. PICK k \in DOMAIN plugged :
          plugged' = [i \in 1 .. Len(plugged) - 1 |-> Moved(plugged[IF i < k THEN i ELSE i + 1])]
    BY DEF HotplugRemove
<1> DEFINE from(i) == IF i < k THEN i ELSE i + 1
<1>3. /\ \A i \in 1 .. Len(plugged) - 1 : from(i) \in DOMAIN plugged
      /\ \A i, j \in 1 .. Len(plugged) - 1 : i < j => from(i) < from(j)
      /\ Len(plugged) - 1 \in Nat
    BY SMTT(30), <1>1, <1>2
<1>4. DOMAIN plugged' = 1 .. Len(plugged) - 1
      /\ \A i \in 1 .. Len(plugged) - 1 : plugged'[i] = Moved(plugged[from(i)])
    BY <1>2
<1> HIDE DEF from
<1>5. \A d \in Device : /\ Moved(d) \in Device /\ Moved(d).kind # "stands"
                        /\ Moved(d).path = d.path
    BY DEF Moved, Device
<1>6. \A i \in 1 .. Len(plugged) - 1 :
          /\ plugged'[i] \in Device /\ plugged'[i].kind # "stands"
          /\ plugged'[i].path = plugged[from(i)].path
    <2>1. \A i \in DOMAIN plugged : plugged[i] \in Device
        BY <1>1, ElementOfSeq
    <2> QED
        BY <1>3, <1>4, <1>5, <2>1
<1>7. plugged' \in Seq(Device)
    <2>1. plugged' = [i \in 1 .. Len(plugged) - 1 |-> plugged'[i]]
        BY <1>2, <1>4
    <2> QED
        BY <2>1, <1>3, <1>6
<1>8. Len(plugged') = Len(plugged) - 1
    BY <1>3, <1>4, <1>7
<1>9. OnePathEach'
    <2> SUFFICES ASSUME NEW i \in DOMAIN plugged', NEW j \in DOMAIN plugged', i < j
                 PROVE  plugged'[i].path # plugged'[j].path
        BY DEF OnePathEach
    <2>1. /\ from(i) \in DOMAIN plugged /\ from(j) \in DOMAIN plugged /\ from(i) < from(j)
          /\ plugged'[i].path = plugged[from(i)].path /\ plugged'[j].path = plugged[from(j)].path
        BY <1>3, <1>4, <1>6
    <2> QED
        BY <2>1 DEF OnePathEach, PlugInv
<1>10. Standing'
    BY <1>4, <1>6 DEF Standing
<1> QED
    BY <1>1, <1>7, <1>8, <1>9, <1>10 DEF PlugInv, PlugTypeOK

LEMMA NextPlug == PlugInv /\ [PlugNext]_plugVars => PlugInv'
<1>1. PlugInv /\ UNCHANGED plugVars => PlugInv'
    BY DEF plugVars, PlugInv, PlugTypeOK, Standing, OnePathEach
<1> QED
    BY <1>1, AddStep, RemoveStep DEF PlugNext

LEMMA PlugShows == PlugInv => PathsApart
<1> SUFFICES ASSUME PlugInv, NEW i \in DOMAIN plugged, NEW j \in DOMAIN plugged, i < j
             PROVE  /\ plugged[i].path # plugged[j].path
                    /\ plugged[i].kind = "stands" => plugged[i].linux # plugged[j].linux
    BY DEF PathsApart
<1>1. plugged[i].path # plugged[j].path
    BY DEF PlugInv, OnePathEach
<1>2. ASSUME plugged[i].kind = "stands" PROVE plugged[i].linux # plugged[j].linux
    <2>1. plugged[i].linux \in Subsystem \X {i - 1} /\ plugged[j].linux \in Subsystem \X {j - 1}
        BY <1>2 DEF PlugInv, Standing
    <2>2. plugged[i].linux[2] = i - 1 /\ plugged[j].linux[2] = j - 1
        BY <2>1
    <2>3. i \in Int /\ j \in Int /\ i - 1 # j - 1
        BY DEF PlugInv, PlugTypeOK
    <2> QED
        BY <2>2, <2>3
<1> QED
    BY <1>1, <1>2

(* Streams.  As long as the newest is released first, the open streams form a   *)
(* stack: their ids are 1 to active_streams, in the order of the callers.       *)

Stacked ==
    newestFirst =>
        /\ \A c \in Opened : callers[c].id \in 1 .. active /\ callers[c].alone
        /\ \A c, d \in Opened : c < d => callers[c].id < callers[d].id
        /\ \A s \in 1 .. active : \E c \in Opened : callers[c].id = s

\* Every ring is within its size, and every caller alone reads after it wrote.
Counted ==
    /\ active <= Len(callers) /\ Len(callers) <= MaxStreams
    /\ \A s \in StreamId : Len(buffers[s]) <= BufferSize
    /\ \A c \in Opened : callers[c].alone => callers[c].got <= callers[c].put

\* What the caller c wrote into its ring and did not read.
Waiting(caller, c) == [i \in 1 .. caller.put - caller.got |-> <<c, caller.got + i>>]

\* Whoever is alone has its id and its ring.
Rings ==
    \A c \in Opened : callers[c].alone =>
        /\ callers[c].id \in inMap
        /\ \A d \in Opened : callers[d].id = callers[c].id => d = c
        /\ buffers[callers[c].id] = Waiting(callers[c], c)

AudioInv == AudioTypeOK /\ Stacked /\ Counted /\ Rings

LEMMA InitAudio == AudioInit => AudioInv
<1> SUFFICES ASSUME AudioInit PROVE AudioInv
    OBVIOUS
<1>1. callers = << >> /\ Opened = {} /\ active = 0 /\ newestFirst = TRUE
    BY DEF AudioInit, Opened, Callers
<1>2. \A s \in StreamId : buffers[s] = << >>
    BY DEF AudioInit
<1>3. buffers \in [StreamId -> Seq(Sample)]
    <2>1. << >> \in Seq(Sample)
        OBVIOUS
    <2> QED
        BY <2>1 DEF AudioInit
<1>4. callers \in Seq(Caller)
    BY <1>1
<1>5. AudioTypeOK
    <2>1. active \in 0 .. MaxStreams
        BY <1>1, AudioAssumption
    <2>2. ready \in BOOLEAN /\ newestFirst \in BOOLEAN /\ inMap \subseteq StreamId
        BY DEF AudioInit
    <2> QED
        BY <1>3, <1>4, <2>1, <2>2 DEF AudioTypeOK
<1> QED
    BY <1>1, <1>2, <1>5, AudioAssumption DEF AudioInv, Stacked, Counted, Rings

\* Facts every step starts from.
LEMMA AudioFacts ==
    ASSUME AudioInv
    PROVE  /\ MaxStreams \in Nat /\ BufferSize \in Nat /\ MaxSamples \in Nat
           /\ callers \in Seq(Caller) /\ Len(callers) \in Nat /\ Len(callers) <= MaxStreams
           /\ Callers = 1 .. Len(callers) /\ active \in 0 .. Len(callers)
           /\ \A c \in Callers : callers[c] \in Caller
           /\ \A s \in StreamId :
                  /\ buffers[s] \in Seq(Sample) /\ Len(buffers[s]) \in 0 .. BufferSize
<1>1. /\ MaxStreams \in Nat /\ BufferSize \in Nat /\ MaxSamples \in Nat
      /\ callers \in Seq(Caller) /\ Len(callers) \in Nat /\ Len(callers) <= MaxStreams
      /\ Callers = 1 .. Len(callers) /\ active \in 0 .. Len(callers)
    BY AudioAssumption DEF AudioInv, AudioTypeOK, Counted, Callers
<1>2. \A c \in Callers : callers[c] \in Caller
    BY <1>1, ElementOfSeq
<1>3. \A s \in StreamId : buffers[s] \in Seq(Sample) /\ Len(buffers[s]) \in 0 .. BufferSize
    BY <1>1 DEF AudioInv, AudioTypeOK, Counted
<1> QED
    BY <1>1, <1>2, <1>3

\* Who is told that its id is handed out again moves in nothing else.
LEMMA CallerAlone ==
    ASSUME NEW caller \in Caller, NEW b, NEW w, w = [caller EXCEPT !.alone = @ /\ b]
    PROVE  /\ w \in Caller /\ w.id = caller.id /\ w.open = caller.open
           /\ w.put = caller.put /\ w.got = caller.got /\ w.alone = (caller.alone /\ b)
  BY Zenon DEF Caller

LEMMA CreateStreamStep == ASSUME AudioInv, CreateStream PROVE AudioInv'
<1> DEFINE size == Len(callers)
<1> DEFINE s == active + 1
<1> DEFINE warned(c) == [callers[c] EXCEPT !.alone = @ /\ c \notin Holders(s)]
<1> DEFINE old == [c \in Callers |-> warned(c)]
<1> DEFINE new == [id |-> s, open |-> TRUE, alone |-> Holders(s) = {}, put |-> 0, got |-> 0]
<1>1. /\ size < MaxStreams /\ active' = s
      /\ buffers' = [buffers EXCEPT ![s] = << >>]
      /\ inMap' = inMap \union {s} /\ callers' = Append(old, new)
      /\ ready' = ready /\ newestFirst' = newestFirst
    BY DEF CreateStream
<1>2. /\ MaxStreams \in Nat /\ BufferSize \in Nat /\ MaxSamples \in Nat
      /\ callers \in Seq(Caller) /\ size \in Nat /\ Callers = 1 .. size
      /\ active \in 0 .. size /\ \A c \in Callers : callers[c] \in Caller
      /\ \A t \in StreamId : buffers[t] \in Seq(Sample) /\ Len(buffers[t]) \in 0 .. BufferSize
    BY AudioFacts
<1>3. s \in StreamId
    BY <1>1, <1>2 DEF StreamId
<1>4. new \in Caller
    BY <1>2, <1>3 DEF Caller
<1>5. ASSUME NEW c \in Callers
      PROVE  /\ warned(c) \in Caller /\ warned(c).id = callers[c].id
             /\ warned(c).open = callers[c].open /\ warned(c).put = callers[c].put
             /\ warned(c).got = callers[c].got
             /\ warned(c).alone = (callers[c].alone /\ c \notin Holders(s))
    <2> DEFINE b == c \notin Holders(s)
    <2>1. callers[c] \in Caller /\ warned(c) = [callers[c] EXCEPT !.alone = @ /\ b]
        BY <1>2
    <2> HIDE DEF b, warned
    <2>2. /\ warned(c) \in Caller /\ warned(c).id = callers[c].id
          /\ warned(c).open = callers[c].open /\ warned(c).put = callers[c].put
          /\ warned(c).got = callers[c].got
          /\ warned(c).alone = (callers[c].alone /\ b)
        BY <2>1, CallerAlone
    <2> QED
        BY <2>2 DEF b
<1>6. /\ new.id = s /\ new.open = TRUE /\ new.put = 0 /\ new.got = 0
      /\ new.alone <=> Holders(s) = {}
    OBVIOUS
<1> HIDE DEF warned, new
<1>7. /\ old \in Seq(Caller) /\ Len(old) = size /\ \A c \in 1 .. size : old[c] = warned(c)
    <2>1. old = [c \in 1 .. size |-> warned(c)] /\ \A c \in 1 .. size : warned(c) \in Caller
        BY <1>2, <1>5
    <2> HIDE DEF old
    <2> QED
        BY <2>1, <1>2
<1> HIDE DEF old
<1>8. /\ callers' \in Seq(Caller) /\ Len(callers') = size + 1 /\ callers'[size + 1] = new
      /\ \A c \in 1 .. size : callers'[c] = warned(c)
      /\ Callers' = 1 .. size + 1
    BY <1>1, <1>2, <1>4, <1>7 DEF Callers
<1>9. /\ Opened' = Opened \union {size + 1} /\ Opened \subseteq 1 .. size
      /\ \A c \in Opened :
             /\ callers'[c].id = callers[c].id /\ callers'[c].put = callers[c].put
             /\ callers'[c].got = callers[c].got
             /\ callers'[c].alone <=> callers[c].alone /\ callers[c].id # s
    <2>1. Opened \subseteq 1 .. size /\ Opened' \subseteq 1 .. size + 1
        BY <1>2, <1>8 DEF Opened
    <2>2. \A c \in 1 .. size : c \in Opened' <=> c \in Opened
        BY <1>2, <1>5, <1>8 DEF Opened
    <2>3. size + 1 \in Opened'
        BY <1>2, <1>6, <1>8 DEF Opened
    <2>4. \A c \in Opened : c \in Holders(s) <=> callers[c].id = s
        BY DEF Holders
    <2>5. \A c \in Opened : /\ c \in Callers /\ callers'[c] = warned(c)
        BY <2>1, <1>2, <1>8
    <2>6. \A c \in Opened : callers'[c].alone <=> callers[c].alone /\ callers[c].id # s
        BY Zenon, <2>4, <2>5, <1>5
    <2>7. Opened' = Opened \union {size + 1}
        <3>1. \A c : c \in 1 .. size + 1 <=> c \in 1 .. size \/ c = size + 1
            BY <1>2
        <3> QED
            BY <2>1, <2>2, <2>3, <3>1
    <2> QED
        BY <2>1, <2>5, <2>6, <2>7, <1>5
<1>10. buffers \in [StreamId -> Seq(Sample)]
    BY DEF AudioInv, AudioTypeOK
<1>11. /\ buffers'[s] = << >> /\ \A t \in StreamId \ {s} : buffers'[t] = buffers[t]
       /\ buffers' \in [StreamId -> Seq(Sample)]
    <2>1. << >> \in Seq(Sample)
        OBVIOUS
    <2> QED
        BY <1>1, <1>3, <1>10, <2>1
<1>12. AudioTypeOK'
    BY <1>1, <1>2, <1>3, <1>8, <1>11 DEF AudioInv, AudioTypeOK
<1>13. Counted'
    <2>1. \A t \in StreamId : Len(buffers'[t]) <= BufferSize
        BY SMTT(30), <1>2, <1>11
    <2>2. \A c \in Opened' : callers'[c].alone => callers'[c].got <= callers'[c].put
        BY <1>6, <1>8, <1>9 DEF AudioInv, Counted
    <2>3. active' <= Len(callers') /\ Len(callers') <= MaxStreams
        BY <1>1, <1>2, <1>8
    <2> QED
        BY <2>1, <2>2, <2>3 DEF Counted
<1>14. ASSUME newestFirst
       PROVE  /\ \A c \in Opened : callers[c].id \in 1 .. active /\ callers[c].alone
              /\ \A c, d \in Opened : c < d => callers[c].id < callers[d].id
              /\ \A t \in 1 .. active : \E c \in Opened : callers[c].id = t
    BY <1>14 DEF AudioInv, Stacked
<1>15. Stacked'
    <2> SUFFICES ASSUME newestFirst
                 PROVE  /\ \A c \in Opened' : callers'[c].id \in 1 .. s /\ callers'[c].alone
                        /\ \A c, d \in Opened' : c < d => callers'[c].id < callers'[d].id
                        /\ \A t \in 1 .. s : \E c \in Opened' : callers'[c].id = t
        BY <1>1 DEF Stacked
    <2>1. \A c \in Opened' : callers'[c].id \in 1 .. s /\ callers'[c].alone
        <3>1. \A c \in Opened : callers'[c].id \in 1 .. s /\ callers'[c].alone
            BY <1>2, <1>9, <1>14
        <3>2. Holders(s) = {}
            BY <1>2, <1>14 DEF Holders
        <3> QED
            BY <3>1, <3>2, <1>2, <1>6, <1>8, <1>9
    <2>2. \A c, d \in Opened' : c < d => callers'[c].id < callers'[d].id
        <3> SUFFICES ASSUME NEW c \in Opened', NEW d \in Opened', c < d
                     PROVE  callers'[c].id < callers'[d].id
            OBVIOUS
        <3>1. c \in Opened
            BY <1>2, <1>9
        <3>2. callers'[c].id = callers[c].id /\ callers[c].id \in 1 .. active
            BY <3>1, <1>9, <1>14
        <3>3. CASE d \in Opened
            BY <3>1, <3>2, <3>3, <1>9, <1>14
        <3>4. CASE d = size + 1
            BY <3>2, <3>4, <1>2, <1>6, <1>8
        <3> QED
            BY <3>3, <3>4, <1>9
    <2>3. \A t \in 1 .. s : \E c \in Opened' : callers'[c].id = t
        <3> SUFFICES ASSUME NEW t \in 1 .. s
                     PROVE  \E c \in Opened' : callers'[c].id = t
            OBVIOUS
        <3>1. CASE t = s
            BY <3>1, <1>6, <1>8, <1>9
        <3>2. CASE t \in 1 .. active
            BY <3>2, <1>9, <1>14
        <3> QED
            BY <3>1, <3>2, <1>2
    <2> QED
        BY <2>1, <2>2, <2>3
<1>16. Rings'
    <2> SUFFICES ASSUME NEW c \in Opened', callers'[c].alone
                 PROVE  /\ callers'[c].id \in inMap'
                        /\ \A d \in Opened' : callers'[d].id = callers'[c].id => d = c
                        /\ buffers'[callers'[c].id] = Waiting(callers'[c], c)
        BY DEF Rings
    <2>1. CASE c \in Opened
        <3>1. /\ callers[c].alone /\ callers[c].id # s /\ callers'[c].id = callers[c].id
              /\ callers'[c].put = callers[c].put /\ callers'[c].got = callers[c].got
            BY <2>1, <1>9
        <3>2. /\ callers[c].id \in inMap
              /\ \A d \in Opened : callers[d].id = callers[c].id => d = c
              /\ buffers[callers[c].id] = Waiting(callers[c], c)
            BY <2>1, <3>1 DEF AudioInv, Rings
        <3>3. callers[c].id \in StreamId
            BY <2>1, <1>2, <1>9 DEF Caller
        <3>4. \A d \in Opened' : callers'[d].id = callers'[c].id => d = c
            BY <3>1, <3>2, <1>6, <1>8, <1>9
        <3>5. Waiting(callers'[c], c) = Waiting(callers[c], c)
            BY <3>1 DEF Waiting
        <3> QED
            BY <3>1, <3>2, <3>3, <3>4, <3>5, <1>1, <1>11
    <2>2. CASE c = size + 1
        <3>1. callers'[c] = new /\ Holders(s) = {}
            BY <2>2, <1>6, <1>8
        <3>2. \A d \in Opened : callers'[d].id # s
            BY <3>1, <1>9 DEF Holders
        <3>3. Waiting(new, c) = << >>
            BY <1>6 DEF Waiting
        <3> QED
            BY <2>2, <3>1, <3>2, <3>3, <1>1, <1>6, <1>9, <1>11
    <2> QED
        BY <2>1, <2>2, <1>9
<1> QED
    BY <1>12, <1>13, <1>15, <1>16 DEF AudioInv

\* A release empties one ring and counts down, whoever asks for it.
LEMMA ReleaseTypes ==
    ASSUME AudioInv, NEW s \in StreamId, Release(s)
    PROVE  /\ ready' \in BOOLEAN /\ active' \in 0 .. Len(callers) /\ active' \in 0 .. MaxStreams
           /\ active > 0 => active' = active - 1
           /\ buffers' \in [StreamId -> Seq(Sample)] /\ inMap' = inMap \ {s}
           /\ buffers'[s] = << >> /\ \A t \in StreamId \ {s} : buffers'[t] = buffers[t]
           /\ \A t \in StreamId : Len(buffers'[t]) <= BufferSize
<1>1. /\ MaxStreams \in Nat /\ BufferSize \in Nat
      /\ Len(callers) \in Nat /\ Len(callers) <= MaxStreams /\ active \in 0 .. Len(callers)
      /\ \A t \in StreamId : buffers[t] \in Seq(Sample) /\ Len(buffers[t]) \in 0 .. BufferSize
    BY AudioFacts
<1>2. ready \in BOOLEAN /\ buffers \in [StreamId -> Seq(Sample)]
    BY DEF AudioInv, AudioTypeOK
<1>3. /\ active' = IF active > 0 THEN active - 1 ELSE 0
      /\ buffers' = [buffers EXCEPT ![s] = << >>] /\ inMap' = inMap \ {s} /\ ready' = ready
    BY DEF Release
<1>4. /\ buffers' \in [StreamId -> Seq(Sample)]
      /\ buffers'[s] = << >> /\ \A t \in StreamId \ {s} : buffers'[t] = buffers[t]
    <2>1. << >> \in Seq(Sample)
        OBVIOUS
    <2> QED
        BY <1>2, <1>3, <2>1
<1>5. \A t \in StreamId : Len(buffers'[t]) <= BufferSize
    BY <1>1, <1>4
<1>6. active' \in 0 .. Len(callers) /\ active' \in 0 .. MaxStreams /\ (active > 0 => active' = active - 1)
    BY <1>1, <1>3
<1> QED
    BY <1>2, <1>3, <1>4, <1>5, <1>6

LEMMA ReleaseStrayStep ==
    ASSUME AudioInv, NEW s \in StreamId, ReleaseStray(s) PROVE AudioInv'
<1>1. newestFirst' = FALSE /\ callers' = callers /\ Release(s) /\ Holders(s) = {}
    BY DEF ReleaseStray
<1>2. /\ ready' \in BOOLEAN /\ active' \in 0 .. Len(callers) /\ active' \in 0 .. MaxStreams
      /\ buffers' \in [StreamId -> Seq(Sample)] /\ inMap' = inMap \ {s}
      /\ \A t \in StreamId \ {s} : buffers'[t] = buffers[t]
      /\ \A t \in StreamId : Len(buffers'[t]) <= BufferSize
    BY <1>1, ReleaseTypes
<1>3. Len(callers) <= MaxStreams /\ inMap \subseteq StreamId /\ callers \in Seq(Caller)
    BY DEF AudioInv, AudioTypeOK, Counted
<1>4. AudioTypeOK'
    BY <1>1, <1>2, <1>3 DEF AudioTypeOK
<1>5. Opened' = Opened /\ Opened \subseteq Callers
    BY <1>1 DEF Opened, Callers
<1>6. Counted'
    BY <1>1, <1>2, <1>3, <1>5 DEF AudioInv, Counted
<1>7. \A c \in Opened : callers[c].id \in StreamId \ {s}
    BY <1>1, <1>5, AudioFacts DEF Holders, Caller
<1>8. Rings'
    BY <1>1, <1>2, <1>5, <1>7 DEF AudioInv, Rings
<1> QED
    BY <1>1, <1>4, <1>6, <1>8 DEF AudioInv, Stacked

LEMMA ReleaseStreamStep ==
    ASSUME AudioInv, NEW r \in Callers, ReleaseStream(r) PROVE AudioInv'
<1> DEFINE s == callers[r].id
<1>1. /\ r \in Opened /\ Release(s) /\ callers' = [callers EXCEPT ![r].open = FALSE]
      /\ newestFirst' = (newestFirst /\ Newest(r))
    BY DEF ReleaseStream
<1>2. /\ callers \in Seq(Caller) /\ Len(callers) \in Nat /\ Len(callers) <= MaxStreams
      /\ Callers = 1 .. Len(callers) /\ active \in 0 .. Len(callers)
      /\ \A c \in Callers : callers[c] \in Caller
    BY AudioFacts
<1>3. s \in StreamId
    BY <1>2 DEF Caller
<1>4. /\ ready' \in BOOLEAN /\ active' \in 0 .. Len(callers) /\ active' \in 0 .. MaxStreams
      /\ active > 0 => active' = active - 1
      /\ buffers' \in [StreamId -> Seq(Sample)] /\ inMap' = inMap \ {s}
      /\ \A t \in StreamId \ {s} : buffers'[t] = buffers[t]
      /\ \A t \in StreamId : Len(buffers'[t]) <= BufferSize
    BY <1>1, <1>3, ReleaseTypes
<1>5. [callers[r] EXCEPT !.open = FALSE] \in Caller
    BY <1>2 DEF Caller
<1>6. /\ callers' \in Seq(Caller) /\ Len(callers') = Len(callers) /\ Callers' = Callers
      /\ callers'[r] = [callers[r] EXCEPT !.open = FALSE]
      /\ \A c \in Callers \ {r} : callers'[c] = callers[c]
    BY <1>1, <1>2, <1>5 DEF Callers
<1>7. Opened' = Opened \ {r} /\ Opened \subseteq Callers
    BY <1>2, <1>6 DEF Opened, Caller
<1>8. \A c \in Opened \ {r} : callers'[c] = callers[c]
    BY <1>6, <1>7
<1>9. newestFirst \in BOOLEAN /\ newestFirst' \in BOOLEAN /\ inMap \subseteq StreamId
    BY <1>1 DEF AudioInv, AudioTypeOK, Newest
<1>10. AudioTypeOK'
    BY <1>4, <1>6, <1>9 DEF AudioTypeOK
<1>11. Counted'
    <2>1. \A c \in Opened' : callers'[c].alone => callers'[c].got <= callers'[c].put
        BY <1>7, <1>8 DEF AudioInv, Counted
    <2>2. active' <= Len(callers') /\ Len(callers') <= MaxStreams
        BY <1>2, <1>4, <1>6
    <2> QED
        BY <1>4, <2>1, <2>2 DEF Counted
<1>12. ASSUME newestFirst'
       PROVE  /\ \A c \in Opened : callers[c].id \in 1 .. active /\ callers[c].alone
              /\ \A c, d \in Opened : c < d => callers[c].id < callers[d].id
              /\ \A t \in 1 .. active : \E c \in Opened : callers[c].id = t
              /\ \A d \in Opened : d <= r
    BY <1>1, <1>12 DEF AudioInv, Stacked, Newest
<1>13. newestFirst' => \A c \in Opened' : callers[c].id < s
    BY <1>1, <1>2, <1>7, <1>12
<1>14. newestFirst' => s = active /\ active' = active - 1
    <2> SUFFICES ASSUME newestFirst' PROVE s = active /\ active' = active - 1
        OBVIOUS
    <2>1. s \in 1 .. active
        BY <1>1, <1>12
    <2>2. PICK c \in Opened : callers[c].id = active
        BY <2>1, <1>2, <1>12
    <2>3. c = r
        BY <2>1, <2>2, <1>2, <1>7, <1>13
    <2> QED
        BY <2>1, <2>2, <2>3, <1>2, <1>4
<1>15. Stacked'
    <2> SUFFICES ASSUME newestFirst'
                 PROVE  /\ \A c \in Opened' : callers'[c].id \in 1 .. active' /\ callers'[c].alone
                        /\ \A c, d \in Opened' : c < d => callers'[c].id < callers'[d].id
                        /\ \A t \in 1 .. active' : \E c \in Opened' : callers'[c].id = t
        BY DEF Stacked
    <2>1. \A c \in Opened' : callers'[c].id \in 1 .. active' /\ callers'[c].alone
        <3>1. \A c \in Opened' : callers'[c].id \in 1 .. active'
            BY SMTT(30), <1>2, <1>7, <1>8, <1>12, <1>13, <1>14
        <3> QED
            BY <3>1, <1>7, <1>8, <1>12
    <2>2. \A c, d \in Opened' : c < d => callers'[c].id < callers'[d].id
        BY <1>7, <1>8, <1>12
    <2>3. \A t \in 1 .. active' : \E c \in Opened' : callers'[c].id = t
        <3> SUFFICES ASSUME NEW t \in 1 .. active' PROVE \E c \in Opened' : callers'[c].id = t
            OBVIOUS
        <3>1. t \in 1 .. active /\ t # active
            BY <1>2, <1>14
        <3>2. PICK c \in Opened : callers[c].id = t
            BY <3>1, <1>12
        <3>3. c # r
            BY <3>1, <3>2, <1>14
        <3> QED
            BY <3>2, <3>3, <1>7, <1>8
    <2> QED
        BY <2>1, <2>2, <2>3
<1>16. Rings'
    <2> SUFFICES ASSUME NEW c \in Opened', callers'[c].alone
                 PROVE  /\ callers'[c].id \in inMap'
                        /\ \A d \in Opened' : callers'[d].id = callers'[c].id => d = c
                        /\ buffers'[callers'[c].id] = Waiting(callers'[c], c)
        BY DEF Rings
    <2>1. c \in Opened /\ c # r /\ callers'[c] = callers[c] /\ callers[c].alone
        BY <1>7, <1>8
    <2>2. /\ callers[c].id \in inMap
          /\ \A d \in Opened : callers[d].id = callers[c].id => d = c
          /\ buffers[callers[c].id] = Waiting(callers[c], c)
        BY <2>1 DEF AudioInv, Rings
    <2>3. callers[c].id # s /\ callers[c].id \in StreamId
        BY <2>1, <2>2, <1>1, <1>2, <1>7 DEF Caller
    <2> QED
        BY <2>1, <2>2, <2>3, <1>4, <1>7, <1>8
<1> QED
    BY <1>10, <1>11, <1>15, <1>16 DEF AudioInv

\* A caller that wrote or read moved in its own ring; nobody else's is touched.
LEMMA CallerStep ==
    ASSUME AudioInv, NEW r \in Opened, NEW moved \in Caller, NEW ring \in Seq(Sample),
           moved.id = callers[r].id, moved.open = TRUE, moved.alone = callers[r].alone,
           Len(ring) <= BufferSize,
           callers' = [callers EXCEPT ![r] = moved],
           buffers' = [buffers EXCEPT ![moved.id] = ring],
           UNCHANGED <<ready, active, inMap, newestFirst>>,
           moved.alone => moved.got <= moved.put /\ ring = Waiting(moved, r)
    PROVE  AudioInv'
<1> DEFINE s == moved.id
<1>1. /\ callers \in Seq(Caller) /\ Len(callers) \in Nat /\ Len(callers) <= MaxStreams
      /\ Callers = 1 .. Len(callers) /\ active \in 0 .. Len(callers)
      /\ \A c \in Callers : callers[c] \in Caller
      /\ \A t \in StreamId : buffers[t] \in Seq(Sample) /\ Len(buffers[t]) \in 0 .. BufferSize
    BY AudioFacts
<1>2. r \in Callers /\ Opened \subseteq Callers /\ s \in StreamId
    BY DEF Opened, Caller
<1>3. /\ callers' \in Seq(Caller) /\ Len(callers') = Len(callers) /\ Callers' = Callers
      /\ callers'[r] = moved /\ \A c \in Callers \ {r} : callers'[c] = callers[c]
    BY <1>1, <1>2 DEF Callers
<1>4. Opened' = Opened
    BY <1>2, <1>3 DEF Opened
<1>5. buffers \in [StreamId -> Seq(Sample)]
    BY DEF AudioInv, AudioTypeOK
<1>6. /\ buffers' \in [StreamId -> Seq(Sample)] /\ buffers'[s] = ring
      /\ \A t \in StreamId \ {s} : buffers'[t] = buffers[t]
    BY <1>2, <1>5
<1>7. AudioTypeOK'
    BY <1>3, <1>6 DEF AudioInv, AudioTypeOK
<1>8. \A c \in Opened : callers'[c].id = callers[c].id /\ callers'[c].alone = callers[c].alone
    BY <1>2, <1>3
<1>9. Stacked'
    BY <1>4, <1>8 DEF AudioInv, Stacked
<1>10. Counted'
    <2>1. \A t \in StreamId : Len(buffers'[t]) <= BufferSize
        BY <1>1, <1>6
    <2>2. \A c \in Opened' : callers'[c].alone => callers'[c].got <= callers'[c].put
        BY <1>2, <1>3, <1>4 DEF AudioInv, Counted
    <2>3. active' <= Len(callers') /\ Len(callers') <= MaxStreams
        BY <1>1, <1>3
    <2> QED
        BY <2>1, <2>2, <2>3 DEF Counted
<1>11. Rings'
    <2> SUFFICES ASSUME NEW c \in Opened, callers'[c].alone
                 PROVE  /\ callers'[c].id \in inMap'
                        /\ \A d \in Opened : callers'[d].id = callers'[c].id => d = c
                        /\ buffers'[callers'[c].id] = Waiting(callers'[c], c)
        BY <1>4 DEF Rings
    <2>1. /\ callers[c].alone /\ callers[c].id \in inMap
          /\ \A d \in Opened : callers[d].id = callers[c].id => d = c
          /\ buffers[callers[c].id] = Waiting(callers[c], c)
        BY <1>8 DEF AudioInv, Rings
    <2>2. callers'[c].id \in inMap' /\ \A d \in Opened : callers'[d].id = callers'[c].id => d = c
        BY <2>1, <1>8
    <2>3. CASE c = r
        BY <2>2, <2>3, <1>3, <1>2, <1>6
    <2>4. CASE c # r
        <3>1. callers[c].id \in StreamId \ {s} /\ callers'[c] = callers[c]
            BY <2>1, <2>4, <1>1, <1>2, <1>3 DEF Caller
        <3> QED
            BY <2>1, <2>2, <3>1, <1>6
    <2> QED
        BY <2>2, <2>3, <2>4
<1> QED
    BY <1>7, <1>9, <1>10, <1>11 DEF AudioInv

LEMMA Smaller ==
    ASSUME NEW a \in Nat, NEW b \in Nat
    PROVE  SmallerOf(a, b) \in Nat /\ SmallerOf(a, b) <= a /\ SmallerOf(a, b) <= b
  BY DEF SmallerOf

LEMMA CallerPut ==
    ASSUME NEW caller \in Caller, NEW samples \in 0 .. MaxSamples,
           NEW moved, moved = [caller EXCEPT !.put = samples]
    PROVE  /\ moved \in Caller /\ moved.id = caller.id /\ moved.open = caller.open
           /\ moved.alone = caller.alone /\ moved.put = samples /\ moved.got = caller.got
  BY DEF Caller

LEMMA CallerGot ==
    ASSUME NEW caller \in Caller, NEW samples \in 0 .. MaxSamples,
           NEW moved, moved = [caller EXCEPT !.got = samples]
    PROVE  /\ moved \in Caller /\ moved.id = caller.id /\ moved.open = caller.open
           /\ moved.alone = caller.alone /\ moved.put = caller.put /\ moved.got = samples
  BY DEF Caller

LEMMA WriteBufferStep ==
    ASSUME AudioInv, NEW r \in Callers, NEW n \in 1 .. BufferSize, WriteBuffer(r, n)
    PROVE  AudioInv'
<1> DEFINE s == callers[r].id
<1> DEFINE taken == SmallerOf(n, BufferSize - Len(buffers[s]))
<1> DEFINE put == callers[r].put
<1> DEFINE got == callers[r].got
<1> DEFINE more == [i \in 1 .. taken |-> <<r, put + i>>]
<1> DEFINE moved == [callers[r] EXCEPT !.put = put + taken]
<1>1. /\ r \in Opened /\ s \in inMap /\ put + taken <= MaxSamples
      /\ buffers' = [buffers EXCEPT ![s] = buffers[s] \o more]
      /\ callers' = [callers EXCEPT ![r] = moved]
      /\ UNCHANGED <<ready, active, inMap, newestFirst>>
    BY DEF WriteBuffer
<1>2. /\ MaxStreams \in Nat /\ BufferSize \in Nat /\ MaxSamples \in Nat
      /\ Len(callers) \in Nat /\ Len(callers) <= MaxStreams
      /\ Callers = 1 .. Len(callers) /\ callers[r] \in Caller
      /\ \A t \in StreamId : buffers[t] \in Seq(Sample) /\ Len(buffers[t]) \in 0 .. BufferSize
    BY AudioFacts
<1>3. s \in StreamId /\ put \in 0 .. MaxSamples /\ got \in 0 .. MaxSamples /\ callers[r].open = TRUE
    BY <1>1, <1>2 DEF Caller, Opened
<1>4. buffers[s] \in Seq(Sample) /\ Len(buffers[s]) \in 0 .. BufferSize
    BY <1>2, <1>3
<1>5. taken \in Nat /\ taken <= BufferSize - Len(buffers[s])
    <2>1. n \in Nat /\ BufferSize - Len(buffers[s]) \in Nat
        BY <1>2, <1>4
    <2> QED
        BY <2>1, Smaller
<1>6. /\ moved \in Caller /\ moved.id = s /\ moved.open = TRUE
      /\ moved.alone = callers[r].alone /\ moved.put = put + taken /\ moved.got = got
    <2>1. put + taken \in 0 .. MaxSamples
        BY <1>1, <1>3, <1>5
    <2>2. moved = [callers[r] EXCEPT !.put = put + taken]
        OBVIOUS
    <2> HIDE DEF moved, taken
    <2> QED
        BY <2>1, <2>2, <1>2, <1>3, CallerPut
<1> HIDE DEF taken
<1>7. more \in Seq(Sample) /\ Len(more) = taken
    <2>1. \A i \in 1 .. taken : put + i \in 1 .. MaxSamples
        <3>1. put + taken <= MaxSamples /\ put \in Nat /\ MaxSamples \in Nat /\ taken \in Nat
            BY <1>1, <1>2, <1>3, <1>5
        <3> HIDE DEF put
        <3> QED
            BY <3>1
    <2>2. r \in StreamId
        BY <1>2 DEF StreamId
    <2>3. \A i \in 1 .. taken : <<r, put + i>> \in Sample
        BY <2>1, <2>2 DEF Sample
    <2> QED
        BY <2>3, <1>5
<1> HIDE DEF more
<1>8. /\ buffers[s] \o more \in Seq(Sample) /\ Len(buffers[s] \o more) = Len(buffers[s]) + taken
      /\ \A i \in 1 .. Len(buffers[s]) + taken : (buffers[s] \o more)[i] =
             IF i <= Len(buffers[s]) THEN buffers[s][i] ELSE more[i - Len(buffers[s])]
    BY <1>4, <1>7, ConcatProperties
<1>9. ASSUME callers[r].alone
      PROVE  moved.got <= moved.put /\ buffers[s] \o more = Waiting(moved, r)
    <2>1. buffers[s] = Waiting(callers[r], r) /\ got <= put
        BY <1>1, <1>9 DEF AudioInv, Rings, Counted
    <2>2. Len(buffers[s]) = put - got /\ \A i \in 1 .. put - got : buffers[s][i] = <<r, got + i>>
        BY <2>1, <1>3, <1>4 DEF Waiting
    <2>3. \A i \in 1 .. put - got + taken : (buffers[s] \o more)[i] = <<r, got + i>>
        <3> SUFFICES ASSUME NEW i \in 1 .. put - got + taken
                     PROVE  (buffers[s] \o more)[i] = <<r, got + i>>
            OBVIOUS
        <3>1. CASE i <= put - got
            <4>1. i \in 1 .. Len(buffers[s]) + taken /\ i <= Len(buffers[s]) /\ i \in 1 .. put - got
                BY <3>1, <2>2, <1>3, <1>5
            <4> QED
                BY <4>1, <2>2, <1>8
        <3>2. CASE i > put - got
            <4>1. i - (put - got) \in 1 .. taken
                BY <3>2, <2>1, <1>3, <1>5
            <4>2. (buffers[s] \o more)[i] = more[i - (put - got)]
                BY <3>2, <2>2, <1>8
            <4>3. more[i - (put - got)] = <<r, put + (i - (put - got))>>
                BY <4>1 DEF more
            <4>4. put + (i - (put - got)) = got + i
                BY <4>1, <1>3
            <4> QED
                BY <4>2, <4>3, <4>4
        <3>3. i <= put - got \/ i > put - got
            BY <1>3, <1>5
        <3> QED
            BY <3>1, <3>2, <3>3
    <2>4. buffers[s] \o more = [i \in 1 .. put - got + taken |-> <<r, got + i>>]
        <3> DEFINE whole == buffers[s] \o more
        <3>1. DOMAIN whole = 1 .. put - got + taken /\ whole \in Seq(Sample)
            BY <2>2, <1>8
        <3> HIDE DEF whole
        <3>2. whole = [i \in DOMAIN whole |-> whole[i]]
            BY <3>1
        <3> QED
            BY <3>1, <3>2, <2>3 DEF whole
    <2>5. moved.put - moved.got = put - got + taken /\ moved.got <= moved.put
        BY <2>1, <1>3, <1>5, <1>6
    <2> QED
        BY <2>4, <2>5, <1>6 DEF Waiting
<1>10. Len(buffers[s] \o more) <= BufferSize
    BY <1>2, <1>4, <1>5, <1>8
<1> HIDE DEF moved
<1> QED
    BY <1>1, <1>6, <1>8, <1>9, <1>10, CallerStep

LEMMA ReadBufferStep ==
    ASSUME AudioInv, NEW r \in Callers, NEW n \in 1 .. BufferSize, ReadBuffer(r, n)
    PROVE  AudioInv'
<1> DEFINE s == callers[r].id
<1> DEFINE drained == SmallerOf(n, Len(buffers[s]))
<1> DEFINE put == callers[r].put
<1> DEFINE got == callers[r].got
<1> DEFINE ring == SubSeq(buffers[s], drained + 1, Len(buffers[s]))
<1> DEFINE moved == [callers[r] EXCEPT !.got = got + drained]
<1>1. /\ r \in Opened /\ s \in inMap /\ got + drained <= MaxSamples
      /\ buffers' = [buffers EXCEPT ![s] = ring]
      /\ callers' = [callers EXCEPT ![r] = moved]
      /\ UNCHANGED <<ready, active, inMap, newestFirst>>
    BY DEF ReadBuffer
<1>2. /\ BufferSize \in Nat /\ MaxSamples \in Nat /\ callers[r] \in Caller
      /\ \A t \in StreamId : buffers[t] \in Seq(Sample) /\ Len(buffers[t]) \in 0 .. BufferSize
    BY AudioFacts
<1>3. s \in StreamId /\ put \in 0 .. MaxSamples /\ got \in 0 .. MaxSamples /\ callers[r].open = TRUE
    BY <1>1, <1>2 DEF Caller, Opened
<1>4. buffers[s] \in Seq(Sample) /\ Len(buffers[s]) \in 0 .. BufferSize
    BY <1>2, <1>3
<1>5. drained \in 0 .. Len(buffers[s])
    BY <1>2, <1>4 DEF SmallerOf
<1>6. /\ moved \in Caller /\ moved.id = s /\ moved.open = TRUE
      /\ moved.alone = callers[r].alone /\ moved.put = put /\ moved.got = got + drained
    <2>1. got + drained \in 0 .. MaxSamples
        BY <1>1, <1>3, <1>4, <1>5
    <2>2. moved = [callers[r] EXCEPT !.got = got + drained]
        OBVIOUS
    <2> HIDE DEF moved, drained
    <2> QED
        BY <2>1, <2>2, <1>2, <1>3, CallerGot
<1> HIDE DEF drained
<1>7. /\ ring \in Seq(Sample) /\ Len(ring) = Len(buffers[s]) - drained
      /\ \A i \in 1 .. Len(buffers[s]) - drained : ring[i] = buffers[s][drained + i]
    <2>1. \A i \in drained + 1 .. Len(buffers[s]) : buffers[s][i] \in Sample
        BY <1>4, <1>5, ElementOfSeq
    <2>2. /\ ring \in Seq(Sample)
          /\ Len(ring) = IF drained + 1 <= Len(buffers[s])
                         THEN Len(buffers[s]) - (drained + 1) + 1 ELSE 0
          /\ \A i \in 1 .. Len(buffers[s]) - (drained + 1) + 1 :
                 ring[i] = buffers[s][drained + 1 + i - 1]
        BY <2>1, <1>4, <1>5, SubSeqProperties
    <2> HIDE DEF ring
    <2> QED
        BY <2>2, <1>4, <1>5
<1>8. ASSUME callers[r].alone
      PROVE  moved.got <= moved.put /\ ring = Waiting(moved, r)
    <2>1. buffers[s] = Waiting(callers[r], r) /\ got <= put
        BY <1>1, <1>8 DEF AudioInv, Rings, Counted
    <2>2. Len(buffers[s]) = put - got /\ \A i \in 1 .. put - got : buffers[s][i] = <<r, got + i>>
        BY <2>1, <1>3, <1>4 DEF Waiting
    <2>3. \A i \in 1 .. put - got - drained : ring[i] = <<r, got + drained + i>>
        <3> SUFFICES ASSUME NEW i \in 1 .. put - got - drained
                     PROVE  ring[i] = <<r, got + drained + i>>
            OBVIOUS
        <3>1. ring[i] = buffers[s][drained + i] /\ drained + i \in 1 .. put - got
            BY <2>2, <1>3, <1>5, <1>7
        <3>2. got + (drained + i) = got + drained + i
            BY <3>1, <1>3, <1>4, <1>5
        <3> QED
            BY <3>1, <3>2, <2>2
    <2> HIDE DEF ring
    <2>4. ring = [i \in 1 .. put - got - drained |-> <<r, got + drained + i>>]
        <3>1. DOMAIN ring = 1 .. put - got - drained
            BY <2>2, <1>7
        <3>2. ring = [i \in DOMAIN ring |-> ring[i]]
            BY <1>7
        <3> QED
            BY <3>1, <3>2, <2>3
    <2>5. moved.put - moved.got = put - got - drained /\ moved.got <= moved.put
        BY <2>1, <2>2, <1>3, <1>5, <1>6
    <2> QED
        BY <2>4, <2>5, <1>6 DEF Waiting
<1>9. Len(ring) <= BufferSize
    BY <1>2, <1>4, <1>5, <1>7
<1> HIDE DEF ring, moved
<1> QED
    BY <1>1, <1>6, <1>7, <1>8, <1>9, CallerStep

LEMMA NextAudio == AudioInv /\ [AudioNext]_audioVars => AudioInv'
<1> SUFFICES ASSUME AudioInv, [AudioNext]_audioVars PROVE AudioInv'
    OBVIOUS
<1>1. CASE Initialize
    <2>1. ready' \in BOOLEAN /\ UNCHANGED <<active, buffers, inMap, callers, newestFirst>>
        BY <1>1 DEF Initialize
    <2>2. AudioTypeOK' /\ Counted'
        BY <2>1 DEF AudioInv, AudioTypeOK, Counted, Opened, Callers
    <2>3. Stacked' /\ Rings'
        BY <2>1 DEF AudioInv, Stacked, Rings, Opened, Callers
    <2> QED
        BY <2>2, <2>3 DEF AudioInv
<1>2. CASE UNCHANGED audioVars
    BY <1>2 DEF audioVars, AudioInv, AudioTypeOK, Stacked, Counted, Rings, Opened, Callers
<1> QED
    BY <1>1, <1>2, CreateStreamStep, ReleaseStreamStep, ReleaseStrayStep, WriteBufferStep,
       ReadBufferStep DEF AudioNext

LEMMA AudioShows == AudioInv => StreamsApart
<1> SUFFICES ASSUME AudioInv PROVE StreamsApart
    OBVIOUS
<1>1. newestFirst => \A c \in Opened : callers[c].alone
    BY DEF AudioInv, Stacked
<1>2. ASSUME NEW c \in Opened, callers[c].alone
      PROVE  /\ callers[c].id \in inMap /\ Holders(callers[c].id) = {c}
             /\ buffers[callers[c].id] = Waiting(callers[c], c)
    BY <1>2 DEF AudioInv, Rings, Holders
<1> QED
    BY <1>1, <1>2 DEF StreamsApart, Waiting

\* However devices are plugged in and removed: no two have one win32 path, and
\* no device that came after the last removal has the Linux path of another that
\* was plugged in.  However streams are opened, released, written and read in
\* pieces: a caller whose id no other open caller was given has a ring of its
\* own, with what it wrote and did not read in order; and if streams are
\* released newest first that is every caller.
THEOREM NamesStayApart == NamesSpec => []NamesApart
<1>1. PlugSpec => []PathsApart
    BY PlugShows, InitPlug, NextPlug, PTL DEF PlugSpec
<1>2. AudioSpec => []StreamsApart
    BY AudioShows, InitAudio, NextAudio, PTL DEF AudioSpec
<1>3. PathsApart /\ StreamsApart => NamesApart
    BY DEF NamesApart
<1> QED
    BY <1>1, <1>2, <1>3, PTL DEF NamesSpec

-----------------------------------------------------------------------------
(* Prefixes, for any commands and names.  PassMeansPrefix speaks of commands    *)
(* that run one at a time, so that the invariant is about the one under way:    *)
(* what it fills it fills alone, and if nothing had been stopped before it,     *)
(* what it will copy, index and answer is complete.                             *)

\* A command that was never beside another one, and what it knows.
Alone == \A b, c \in Command : Underway(b) /\ Underway(c) => b = c

Works(c) ==
    /\ Stands(c, "boot") => maker[cmd[c].boots] = {c} /\ cmd[c].boots \in {cmd[c].name, Template}
    /\ Stands(c, "copy") => maker[cmd[c].name] = {c} /\ Initialized(cmd[c].name)
    /\ Stands(c, "new") => result[c] = NoResult
    /\ cmd[c].clean /\ cmd[c].step \in {"begin", "boot", "clone", "copy"} => ~stopped
    /\ cmd[c].clean /\ Stands(c, "clone") => dir[Template] = "complete"
    /\ cmd[c].clean /\ Stands(c, "copy") => cmd[c].source = "complete"
    /\ cmd[c].clean /\ cmd[c].step \in {"read", "write"} /\ cmd[c].ok =>
           dir[cmd[c].name] = "complete"
    /\ result[c].status = "PASS" /\ cmd[c].clean => result[c].found = "complete"

\* As long as nothing was stopped half way, only a directory that is being
\* filled is partial, and only one that is being copied to is listed before it
\* is complete.
Whole ==
    ~stopped =>
        /\ \A c \in Command : cmd[c].clean
        /\ \A d \in Dir : dir[d] = "partial" =>
               \E c \in Command : \/ Stands(c, "boot") /\ cmd[c].boots = d
                                  \/ Stands(c, "copy") /\ cmd[c].name = d
        /\ \A n \in Prefix : index[n] = "PASS" =>
               dir[n] = "complete" \/ \E c \in Command : Stands(c, "copy") /\ cmd[c].name = n
        /\ \A c \in Command : Stands(c, "write") =>
               \A n \in Prefix : cmd[c].seen[n] = "PASS" => dir[n] = "complete"

\* The same of one command, when no other is under way.
WholeFor(c) ==
    ~stopped =>
        /\ cmd[c].clean
        /\ \A d \in Dir : dir[d] = "partial" =>
               \/ Stands(c, "boot") /\ cmd[c].boots = d
               \/ Stands(c, "copy") /\ cmd[c].name = d
        /\ \A n \in Prefix : index[n] = "PASS" =>
               dir[n] = "complete" \/ (Stands(c, "copy") /\ cmd[c].name = n)
        /\ Stands(c, "write") =>
               \A n \in Prefix : cmd[c].seen[n] = "PASS" => dir[n] = "complete"

PrefixInv == PrefixTypeOK /\ (~overlap => Alone /\ (\A c \in Command : Works(c)) /\ Whole)

CommandRecord ==
    [step : CmdStep, name : Prefix, mode : Mode, force : BOOLEAN,
     boots : Dir, source : Filling, ok : BOOLEAN, clean : BOOLEAN,
     seen : [Prefix -> IndexStatus]]

\* A step of a command changes what that command knows, and no other.
LEMMA CommandChanges ==
    ASSUME PrefixTypeOK, NEW c \in Command, NEW r, Becomes(c, r)
    PROVE  cmd'[c] = r /\ \A b \in Command \ {c} : cmd'[b] = cmd[b]
  BY DEF PrefixTypeOK, Becomes

\* A command answers with a status and what it finds.
LEMMA AnswerChanges ==
    ASSUME PrefixTypeOK, NEW c \in Command, NEW status \in IndexStatus, Answers(c, status)
    PROVE  /\ cmd'[c] = [cmd[c] EXCEPT !.step = "end"]
           /\ result'[c] = [status |-> status, found |-> dir[cmd[c].name]]
           /\ \A b \in Command \ {c} : cmd'[b] = cmd[b] /\ result'[b] = result[b]
           /\ cmd' \in [Command -> CommandRecord]
           /\ result' \in [Command -> [status : IndexStatus, found : Filling]]
<1>1. cmd[c] \in CommandRecord /\ dir[cmd[c].name] \in Filling
    BY DEF PrefixTypeOK, CommandRecord, Dir
<1>2. [cmd[c] EXCEPT !.step = "end"] \in CommandRecord
    BY <1>1 DEF CommandRecord, CmdStep
<1>3. /\ cmd' = [cmd EXCEPT ![c] = [cmd[c] EXCEPT !.step = "end"]]
      /\ result' = [result EXCEPT ![c] = [status |-> status, found |-> dir[cmd[c].name]]]
    BY DEF Answers, Becomes
<1>4. cmd \in [Command -> CommandRecord]
    BY DEF PrefixTypeOK, CommandRecord
<1>5. result \in [Command -> [status : IndexStatus, found : Filling]]
    BY DEF PrefixTypeOK
<1>6. cmd' \in [Command -> CommandRecord]
    BY <1>2, <1>3, <1>4
<1>7. result' \in [Command -> [status : IndexStatus, found : Filling]]
    BY <1>1, <1>3, <1>5
<1> QED
    BY <1>3, <1>4, <1>5, <1>6, <1>7

\* What keeps every part of the type but the command's own keeps it all, if what
\* the command then knows is of its type.
LEMMA PrefixTypes ==
    ASSUME PrefixTypeOK, NEW c \in Command, NEW r \in CommandRecord, Becomes(c, r),
           dir' \in [Dir -> Filling], maker' \in [Dir -> SUBSET Command],
           index' \in [Prefix -> IndexStatus], overlap' \in BOOLEAN, stopped' \in BOOLEAN,
           result' = result
    PROVE  PrefixTypeOK'
<1>1. cmd' \in [Command -> CommandRecord]
    BY DEF PrefixTypeOK, Becomes, CommandRecord
<1> QED
    BY <1>1 DEF PrefixTypeOK, CommandRecord

\* What is left to show of a step of c when no other command is under way: that
\* it was and stays the only one, and that the others know what they knew.
LEMMA OnlyOneMoves ==
    ASSUME PrefixInv, ~overlap, NEW c \in Command, PrefixTypeOK', Works(c)', WholeFor(c)',
           stopped => stopped',
           \A b \in Command \ {c} : cmd'[b] = cmd[b] /\ result'[b] = result[b] /\ ~Underway(b)
    PROVE  PrefixInv'
<1>1. Alone'
    BY DEF Alone, Underway
<1>2. ASSUME NEW b \in Command \ {c} PROVE Works(b)'
    <2>1. Works(b) /\ cmd'[b] = cmd[b] /\ result'[b] = result[b]
        BY DEF PrefixInv
    <2>2. cmd[b].step \in {"new", "end"}
        BY DEF Underway
    <2> QED
        BY <2>1, <2>2 DEF Works, Stands
<1>3. Whole'
    <2>1. ~stopped' => \A b \in Command : cmd[b].clean
        BY DEF PrefixInv, Whole
    <2>2. ~stopped' => \A b \in Command : cmd'[b].clean
        BY <2>1 DEF WholeFor
    <2>3. \A b \in Command \ {c} : cmd'[b].step \in {"new", "end"}
        BY DEF Underway
    <2> QED
        BY <2>2, <2>3 DEF Whole, WholeFor, Stands
<1> QED
    BY <1>1, <1>2, <1>3 DEF PrefixInv

\* What Whole says of the only command under way.
LEMMA WholeForOne ==
    ASSUME Whole, NEW c \in Command, \A b \in Command \ {c} : ~Underway(b)
    PROVE  WholeFor(c)
<1>1. \A b \in Command \ {c} : cmd[b].step \in {"new", "end"}
    BY DEF Underway
<1>2. ASSUME ~stopped, NEW d \in Dir, dir[d] = "partial"
      PROVE  (Stands(c, "boot") /\ cmd[c].boots = d) \/ (Stands(c, "copy") /\ cmd[c].name = d)
    BY <1>1, <1>2 DEF Whole, Stands
<1>3. ASSUME ~stopped, NEW n \in Prefix, index[n] = "PASS"
      PROVE  dir[n] = "complete" \/ (Stands(c, "copy") /\ cmd[c].name = n)
    BY <1>1, <1>3 DEF Whole, Stands
<1>4. ~stopped => cmd[c].clean
    BY DEF Whole
<1>5. ASSUME ~stopped, Stands(c, "write"), NEW n \in Prefix, cmd[c].seen[n] = "PASS"
      PROVE  dir[n] = "complete"
    BY <1>5 DEF Whole
<1> QED
    BY <1>2, <1>3, <1>4, <1>5 DEF WholeFor

\* Every variable keeps its type.
LEMMA NextPrefixTypes == PrefixTypeOK /\ [PrefixNext]_prefixVars => PrefixTypeOK'
<1> SUFFICES ASSUME PrefixTypeOK, [PrefixNext]_prefixVars PROVE PrefixTypeOK'
    OBVIOUS
<1>1. CASE UNCHANGED prefixVars
    BY <1>1 DEF prefixVars, PrefixTypeOK
<1>2. ASSUME NEW c \in Command,
             \/ \E n \in Prefix, m \in Mode, f \in BOOLEAN : StartCommand(c, n, m, f)
             \/ AlreadyExists(c) \/ BootPrefix(c) \/ EnsureTemplate(c)
             \/ BootProgress(c) \/ BootExit(c) \/ BootFails(c) \/ BootTimeout(c)
             \/ CopyTemplate(c) \/ CopyDone(c) \/ CopyFails(c)
             \/ ReadIndex(c) \/ WriteIndex(c) \/ KillCommand(c)
      PROVE  PrefixTypeOK'
    <2>0. /\ cmd[c] \in CommandRecord /\ cmd[c].name \in Dir /\ Template \in Dir /\ cmd[c].boots \in Dir
          /\ dir \in [Dir -> Filling] /\ maker \in [Dir -> SUBSET Command]
          /\ index \in [Prefix -> IndexStatus] /\ overlap \in BOOLEAN /\ stopped \in BOOLEAN
          /\ {"partial", "bare", "complete", "none"} = Filling
          /\ cmd[c].seen \in [Prefix -> IndexStatus] /\ cmd[c].name \in Prefix
          /\ cmd[c].ok \in BOOLEAN /\ cmd[c].source \in Filling
        BY DEF PrefixTypeOK, CommandRecord, Dir, Filling
    <2>1. ASSUME NEW n \in Prefix, NEW m \in Mode, NEW f \in BOOLEAN, StartCommand(c, n, m, f)
          PROVE  PrefixTypeOK'
        <3> DEFINE r == [cmd[c] EXCEPT !.step = "begin", !.name = n, !.mode = m,
                                       !.force = f, !.clean = ~stopped]
        <3>1. r \in CommandRecord
            BY <2>0 DEF CommandRecord, CmdStep
        <3>2. /\ Becomes(c, r) /\ overlap' \in BOOLEAN
              /\ UNCHANGED <<dir, maker, index, stopped, result>>
            BY <2>0, <2>1 DEF StartCommand
        <3> QED
            BY <2>0, <3>1, <3>2, PrefixTypes
    <2>2. ASSUME NEW status \in IndexStatus, Answers(c, status),
                 UNCHANGED <<dir, maker, overlap>>, index' \in [Prefix -> IndexStatus],
                 stopped' \in BOOLEAN
          PROVE  PrefixTypeOK'
        BY <2>0, <2>2, AnswerChanges DEF PrefixTypeOK, CommandRecord
    <2>3. CASE AlreadyExists(c)
        BY <2>0, <2>2, <2>3 DEF AlreadyExists, IndexStatus
    <2>4. CASE BootTimeout(c) \/ CopyFails(c)
        BY <2>0, <2>2, <2>4 DEF BootTimeout, CopyFails, IndexStatus
    <2>5. CASE WriteIndex(c)
        BY <2>0, <2>2, <2>5 DEF WriteIndex, Status, IndexStatus
    <2>6. ASSUME NEW d \in Dir, StartBoot(c, d) PROVE PrefixTypeOK'
        <3>1. [cmd[c] EXCEPT !.step = "boot", !.boots = d] \in CommandRecord
            BY <2>0 DEF CommandRecord, CmdStep
        <3>2. /\ dir' \in [Dir -> Filling] /\ maker' \in [Dir -> SUBSET Command]
              /\ UNCHANGED <<index, overlap, stopped, result>>
            BY <2>0, <2>6 DEF StartBoot, Filling
        <3>3. Becomes(c, [cmd[c] EXCEPT !.step = "boot", !.boots = d])
            BY <2>6 DEF StartBoot
        <3> QED
            BY <2>0, <3>1, <3>2, <3>3, PrefixTypes
    <2>7. CASE BootPrefix(c)
        BY <2>0, <2>6, <2>7 DEF BootPrefix
    <2>8. CASE EnsureTemplate(c)
        <3>1. [cmd[c] EXCEPT !.step = "clone"] \in CommandRecord
            BY <2>0 DEF CommandRecord, CmdStep
        <3>2. \/ StartBoot(c, Template)
              \/ /\ Becomes(c, [cmd[c] EXCEPT !.step = "clone"])
                 /\ UNCHANGED <<dir, maker, index, overlap, stopped, result>>
            BY <2>8 DEF EnsureTemplate
        <3> QED
            BY <2>0, <2>6, <3>1, <3>2, PrefixTypes
    <2>9. CASE BootProgress(c)
        <3>1. /\ dir' \in [Dir -> Filling]
              /\ UNCHANGED <<maker, index, cmd, overlap, stopped, result>>
            BY <2>0, <2>9 DEF BootProgress, Filling
        <3> QED
            BY <3>1 DEF PrefixTypeOK
    <2>10. ASSUME NEW ok \in BOOLEAN PROVE AfterBoot(c, ok) \in CommandRecord
        BY <2>0 DEF AfterBoot, CommandRecord, CmdStep
    <2>11. CASE BootExit(c)
        <3>1. dir' \in [Dir -> Filling] /\ Becomes(c, AfterBoot(c, TRUE))
              /\ UNCHANGED <<maker, index, overlap, stopped, result>>
            BY <2>0, <2>11 DEF BootExit, Filling
        <3> QED
            BY <2>0, <2>10, <3>1, PrefixTypes
    <2>12. CASE BootFails(c)
        <3>1. /\ Becomes(c, AfterBoot(c, FALSE)) /\ stopped' = TRUE
              /\ UNCHANGED <<dir, maker, index, overlap, result>>
            BY <2>12 DEF BootFails
        <3> QED
            BY <2>0, <2>10, <3>1, PrefixTypes
    <2>13. CASE CopyTemplate(c)
        <3>1. [cmd[c] EXCEPT !.step = "copy", !.source = dir[Template]] \in CommandRecord
            BY <2>0 DEF CommandRecord, CmdStep
        <3>2. /\ dir' \in [Dir -> Filling] /\ maker' \in [Dir -> SUBSET Command]
              /\ Becomes(c, [cmd[c] EXCEPT !.step = "copy", !.source = dir[Template]])
              /\ UNCHANGED <<index, overlap, stopped, result>>
            BY <2>0, <2>13 DEF CopyTemplate, Filling
        <3> QED
            BY <2>0, <3>1, <3>2, PrefixTypes
    <2>14. CASE CopyDone(c)
        <3>1. [cmd[c] EXCEPT !.step = "read", !.ok = Initialized(cmd[c].name)] \in CommandRecord
            <4>1. Initialized(cmd[c].name) \in BOOLEAN
                BY DEF Initialized
            <4> QED
                BY <2>0, <4>1 DEF CommandRecord, CmdStep
        <3>2. /\ dir' \in [Dir -> Filling]
              /\ Becomes(c, [cmd[c] EXCEPT !.step = "read", !.ok = Initialized(cmd[c].name)])
              /\ UNCHANGED <<maker, index, overlap, stopped, result>>
            BY <2>0, <2>14 DEF CopyDone
        <3> QED
            BY <2>0, <3>1, <3>2, PrefixTypes
    <2>15. CASE ReadIndex(c)
        <3>1. [cmd[c] EXCEPT !.step = "write", !.seen = index] \in CommandRecord
            BY <2>0 DEF CommandRecord, CmdStep
        <3> QED
            BY <2>0, <2>15, <3>1, PrefixTypes DEF ReadIndex
    <2>16. CASE KillCommand(c)
        <3>1. [cmd[c] EXCEPT !.step = "end"] \in CommandRecord
            BY <2>0 DEF CommandRecord, CmdStep
        <3> QED
            BY <2>0, <2>16, <3>1, PrefixTypes DEF KillCommand
    <2> QED
        BY <1>2, <2>1, <2>3, <2>4, <2>5, <2>7, <2>8, <2>9, <2>11, <2>12, <2>13, <2>14, <2>15,
           <2>16
<1> QED
    BY <1>1, <1>2 DEF PrefixNext

LEMMA InitPrefix == PrefixInit => PrefixInv
<1> SUFFICES ASSUME PrefixInit PROVE PrefixInv
    OBVIOUS
<1>1. PICK n \in Prefix : cmd = [c \in Command |->
           [step |-> "new", name |-> n, mode |-> "wineboot", force |-> FALSE, boots |-> Template,
            source |-> "none", ok |-> FALSE, clean |-> TRUE, seen |-> index]]
    BY DEF PrefixInit
<1>2. index \in [Prefix -> IndexStatus]
    BY DEF PrefixInit, IndexStatus
<1>3. cmd \in [Command -> CommandRecord]
    BY <1>1, <1>2 DEF CommandRecord, CmdStep, Mode, Dir, Filling
<1>4. PrefixTypeOK
    BY <1>2, <1>3 DEF PrefixInit, PrefixTypeOK, CommandRecord, NoResult, Filling, IndexStatus
<1>5. \A c \in Command : cmd[c].step = "new" /\ cmd[c].clean /\ result[c] = NoResult
    BY <1>1 DEF PrefixInit
<1>6. Alone /\ \A c \in Command : Works(c)
    BY <1>5 DEF Alone, Underway, Works, Stands, NoResult
<1>7. Whole
    BY <1>5 DEF Whole, Stands, PrefixInit
<1> QED
    BY <1>4, <1>6, <1>7 DEF PrefixInv

\* Every step keeps PrefixInv; only steps of commands that were never beside
\* another one have to be looked at.
LEMMA NextPrefix == PrefixInv /\ [PrefixNext]_prefixVars => PrefixInv'
<1> SUFFICES ASSUME PrefixInv, [PrefixNext]_prefixVars PROVE PrefixInv'
    OBVIOUS
<1>0. PrefixTypeOK /\ PrefixTypeOK'
    BY NextPrefixTypes DEF PrefixInv
<1>1. CASE UNCHANGED prefixVars
    BY <1>0, <1>1 DEF PrefixInv, prefixVars, Alone, Underway, Works, Whole, Stands, Initialized
<1>2. CASE overlap'
    BY <1>0, <1>2 DEF PrefixInv
<1>3. ASSUME NEW c \in Command, ~overlap,
             \A b \in Command \ {c} : ~Underway(b),
             \/ \E n \in Prefix, m \in Mode, f \in BOOLEAN : StartCommand(c, n, m, f)
             \/ AlreadyExists(c) \/ BootPrefix(c) \/ EnsureTemplate(c)
             \/ BootProgress(c) \/ BootExit(c) \/ BootFails(c) \/ BootTimeout(c)
             \/ CopyTemplate(c) \/ CopyDone(c) \/ CopyFails(c)
             \/ ReadIndex(c) \/ WriteIndex(c) \/ KillCommand(c)
      PROVE  PrefixInv'
    <2>0. /\ Works(c) /\ WholeFor(c) /\ stopped \in BOOLEAN /\ Template \notin Prefix /\ Template \in Dir
          /\ cmd[c] \in CommandRecord /\ cmd[c].name \in Prefix /\ cmd[c].name \in Dir
          /\ cmd[c].boots \in Dir
          /\ dir \in [Dir -> Filling] /\ maker \in [Dir -> SUBSET Command]
          /\ index \in [Prefix -> IndexStatus]
        BY <1>0, <1>3, TemplateAssumption, WholeForOne DEF PrefixInv, PrefixTypeOK, CommandRecord, Dir
    <2>1. \A b \in Command \ {c} : cmd[b].step \in {"new", "end"}
        BY <1>3 DEF Underway
    <2>2. ASSUME UNCHANGED result, NEW r, Becomes(c, r), Works(c)', WholeFor(c)', stopped => stopped' PROVE PrefixInv'
        BY <1>0, <1>3, <2>2, CommandChanges, OnlyOneMoves
    <2>3. ASSUME NEW status \in IndexStatus, Answers(c, status), Works(c)', WholeFor(c)',
                 stopped => stopped'
          PROVE  PrefixInv'
        BY <1>0, <1>3, <2>3, AnswerChanges, OnlyOneMoves
    <2>4. ASSUME NEW n \in Prefix, NEW m \in Mode, NEW f \in BOOLEAN, StartCommand(c, n, m, f)
          PROVE  PrefixInv'
        <3> DEFINE r == [cmd[c] EXCEPT !.step = "begin", !.name = n, !.mode = m,
                                       !.force = f, !.clean = ~stopped]
        <3>1. Stands(c, "new") /\ Becomes(c, r) /\ UNCHANGED <<dir, maker, index, stopped, result>>
            BY <2>4 DEF StartCommand
        <3>2. cmd'[c] = r /\ \A b \in Command \ {c} : cmd'[b] = cmd[b]
            BY <1>0, <3>1, CommandChanges
        <3>3. cmd'[c].step = "begin" /\ (cmd'[c].clean <=> ~stopped)
            BY <2>0, <3>2 DEF CommandRecord
        <3>4. result'[c].status = "none"
            BY <2>0, <3>1 DEF Works, NoResult
        <3>5. Works(c)'
            BY <2>0, <3>1, <3>3, <3>4 DEF Works, Stands
        <3>6. WholeFor(c)'
            BY <2>0, <3>1, <3>2, <3>3 DEF WholeFor, Stands
        <3> QED
            BY <2>2, <3>1, <3>5, <3>6
    <2>5. ASSUME Answers(c, "PASS"), Stands(c, "begin"), Initialized(cmd[c].name),
                 UNCHANGED <<dir, maker, index, overlap, stopped>>
          PROVE  PrefixInv'
        <3>1. /\ cmd'[c] = [cmd[c] EXCEPT !.step = "end"]
              /\ result'[c] = [status |-> "PASS", found |-> dir[cmd[c].name]]
              /\ \A b \in Command \ {c} : cmd'[b] = cmd[b]
            BY <1>0, <2>5, AnswerChanges DEF IndexStatus
        <3>2. cmd'[c].step = "end" /\ cmd'[c].clean = cmd[c].clean
            BY <2>0, <3>1 DEF CommandRecord
        <3>3. cmd[c].clean => dir[cmd[c].name] = "complete"
            BY <2>0, <2>1, <2>5 DEF Works, WholeFor, Stands, Initialized
        <3>4. Works(c)'
            BY <3>1, <3>2, <3>3 DEF Works, Stands
        <3>5. WholeFor(c)'
            BY <2>0, <2>5, <3>1, <3>2 DEF WholeFor, Stands
        <3> QED
            BY <2>3, <2>5, <3>4, <3>5 DEF IndexStatus
    <2>6. ASSUME Answers(c, "FAIL"), stopped', UNCHANGED <<dir, maker, index>>
          PROVE  PrefixInv'
        <3>1. /\ cmd'[c] = [cmd[c] EXCEPT !.step = "end"]
              /\ result'[c] = [status |-> "FAIL", found |-> dir[cmd[c].name]]
            BY <1>0, <2>6, AnswerChanges DEF IndexStatus
        <3>2. cmd'[c].step = "end"
            BY <2>0, <3>1 DEF CommandRecord
        <3>3. Works(c)'
            BY <3>1, <3>2 DEF Works, Stands
        <3>4. WholeFor(c)'
            BY <2>6 DEF WholeFor
        <3> QED
            BY <2>3, <2>6, <3>3, <3>4 DEF IndexStatus
    <2>7. ASSUME NEW d \in {cmd[c].name, Template}, StartBoot(c, d), Stands(c, "begin")
          PROVE  PrefixInv'
        <3>1. /\ dir' = [dir EXCEPT ![d] = IF @ = "none" THEN "bare" ELSE @]
              /\ maker' = [maker EXCEPT ![d] = {c}]
              /\ Becomes(c, [cmd[c] EXCEPT !.step = "boot", !.boots = d])
              /\ UNCHANGED <<index, stopped, result>>
            BY <2>7 DEF StartBoot
        <3>2. /\ cmd'[c] = [cmd[c] EXCEPT !.step = "boot", !.boots = d]
              /\ \A b \in Command \ {c} : cmd'[b] = cmd[b]
            BY <1>0, <3>1, CommandChanges
        <3>3. /\ cmd'[c].step = "boot" /\ cmd'[c].boots = d /\ cmd'[c].clean = cmd[c].clean
              /\ cmd'[c].name = cmd[c].name
            BY <2>0, <3>2 DEF CommandRecord
        <3>4. d \in Dir /\ maker'[d] = {c}
            BY <2>0, <2>7, <3>1
        <3>5. Works(c)'
            BY <2>0, <2>7, <3>1, <3>3, <3>4 DEF Works, Stands
        <3>6. \A e \in Dir : /\ dir'[e] = "partial" <=> dir[e] = "partial"
                             /\ dir[e] = "complete" <=> dir'[e] = "complete"
            BY <2>0, <3>1
        <3>7. WholeFor(c)'
            BY <2>0, <2>1, <2>7, <3>1, <3>2, <3>3, <3>6 DEF WholeFor, Stands, Dir
        <3> QED
            BY <2>2, <3>1, <3>5, <3>7
    <2>8. CASE EnsureTemplate(c) /\ Initialized(Template)
        <3>1. /\ Becomes(c, [cmd[c] EXCEPT !.step = "clone"]) /\ Stands(c, "begin")
              /\ UNCHANGED <<dir, maker, index, stopped, result>>
            BY <2>8 DEF EnsureTemplate
        <3>2. /\ cmd'[c] = [cmd[c] EXCEPT !.step = "clone"]
              /\ \A b \in Command \ {c} : cmd'[b] = cmd[b]
            BY <1>0, <3>1, CommandChanges
        <3>3. cmd'[c].step = "clone" /\ cmd'[c].clean = cmd[c].clean
            BY <2>0, <3>2 DEF CommandRecord
        <3>4. cmd[c].clean => ~stopped /\ dir[Template] = "complete"
            BY <2>0, <2>1, <2>8, <3>1 DEF Works, WholeFor, Stands, Initialized
        <3>5. Works(c)'
            BY <2>0, <3>1, <3>3, <3>4 DEF Works, Stands
        <3>6. WholeFor(c)'
            BY <2>0, <2>1, <3>1, <3>2, <3>3 DEF WholeFor, Stands
        <3> QED
            BY <2>2, <3>1, <3>5, <3>6
    <2>9. CASE BootProgress(c)
        <3>1. /\ Stands(c, "boot") /\ dir[cmd[c].boots] = "bare"
              /\ dir' = [dir EXCEPT ![cmd[c].boots] = "partial"]
              /\ UNCHANGED <<maker, index, cmd, stopped, result>>
            BY <2>9 DEF BootProgress
        <3>2. Works(c)'
            BY <2>0, <3>1 DEF Works, Stands
        <3>3. /\ dir'[cmd[c].boots] = "partial"
              /\ \A e \in Dir \ {cmd[c].boots} : dir'[e] = dir[e]
            BY <2>0, <3>1
        <3>4. WholeFor(c)'
            BY <2>0, <2>1, <3>1, <3>3 DEF WholeFor, Stands, Dir
        <3> QED
            BY <1>0, <1>3, <3>1, <3>2, <3>4, OnlyOneMoves
    <2>10. CASE BootExit(c)
        <3>1. /\ Stands(c, "boot") /\ maker[cmd[c].boots] = {c}
              /\ dir' = [dir EXCEPT ![cmd[c].boots] = "complete"]
              /\ Becomes(c, AfterBoot(c, TRUE))
              /\ UNCHANGED <<maker, index, stopped, result>>
            BY <2>0, <2>10 DEF BootExit, Works
        <3>2. cmd'[c] = AfterBoot(c, TRUE) /\ \A b \in Command \ {c} : cmd'[b] = cmd[b]
            BY <1>0, <3>1, CommandChanges
        <3>3. /\ cmd[c].boots # Template =>
                     cmd'[c].step = "read"
              /\ cmd[c].boots = Template => cmd'[c].step = "clone"
              /\ cmd'[c].clean = cmd[c].clean /\ cmd'[c].name = cmd[c].name
            BY <2>0, <3>2 DEF CommandRecord, AfterBoot
        <3>4. /\ dir'[cmd[c].boots] = "complete"
              /\ \A e \in Dir \ {cmd[c].boots} : dir'[e] = dir[e]
            BY <2>0, <3>1
        <3>5. Works(c)'
            BY <2>0, <3>1, <3>3, <3>4 DEF Works, Stands
        <3>6. WholeFor(c)'
            BY <2>0, <2>1, <3>1, <3>2, <3>3, <3>4 DEF WholeFor, Stands, Dir
        <3> QED
            BY <2>2, <3>1, <3>5, <3>6
    <2>11. CASE BootFails(c)
        <3>1. /\ Becomes(c, AfterBoot(c, FALSE)) /\ stopped' /\ Stands(c, "boot")
              /\ UNCHANGED <<dir, maker, index, result>>
            BY <2>11 DEF BootFails
        <3>2. cmd'[c] = [cmd[c] EXCEPT !.step = "read", !.ok = FALSE]
            BY <1>0, <3>1, CommandChanges DEF AfterBoot
        <3>3. cmd'[c].step = "read" /\ ~cmd'[c].ok /\ cmd'[c].clean = cmd[c].clean
            BY <2>0, <3>2 DEF CommandRecord
        <3>4. Works(c)' /\ WholeFor(c)'
            BY <2>0, <3>1, <3>3 DEF Works, WholeFor, Stands
        <3> QED
            BY <2>2, <3>1, <3>4
    <2>12. CASE CopyTemplate(c)
        <3>1. /\ Stands(c, "clone")
              /\ dir' = [dir EXCEPT ![cmd[c].name] = "partial"]
              /\ maker' = [maker EXCEPT ![cmd[c].name] = {c}]
              /\ Becomes(c, [cmd[c] EXCEPT !.step = "copy", !.source = dir[Template]])
              /\ UNCHANGED <<index, stopped, result>>
            BY <2>12 DEF CopyTemplate
        <3>2. /\ cmd'[c] = [cmd[c] EXCEPT !.step = "copy", !.source = dir[Template]]
              /\ \A b \in Command \ {c} : cmd'[b] = cmd[b]
            BY <1>0, <3>1, CommandChanges
        <3>3. /\ cmd'[c].step = "copy" /\ cmd'[c].source = dir[Template]
              /\ cmd'[c].clean = cmd[c].clean /\ cmd'[c].name = cmd[c].name
            BY <2>0, <3>2 DEF CommandRecord
        <3>4. /\ dir'[cmd[c].name] = "partial" /\ maker'[cmd[c].name] = {c}
              /\ \A e \in Dir \ {cmd[c].name} : dir'[e] = dir[e]
            BY <2>0, <3>1
        <3>5. Works(c)'
            BY <2>0, <3>1, <3>3, <3>4 DEF Works, Stands, Initialized
        <3>6. WholeFor(c)'
            BY <2>0, <2>1, <3>1, <3>2, <3>3, <3>4 DEF WholeFor, Stands, Dir
        <3> QED
            BY <2>2, <3>1, <3>5, <3>6
    <2>13. CASE CopyDone(c)
        <3>1. /\ Stands(c, "copy") /\ maker[cmd[c].name] = {c}
              /\ dir' = [dir EXCEPT ![cmd[c].name] = cmd[c].source]
              /\ Becomes(c, [cmd[c] EXCEPT !.step = "read", !.ok = Initialized(cmd[c].name)])
              /\ UNCHANGED <<maker, index, stopped, result>>
            BY <2>0, <2>13 DEF CopyDone, Works
        <3>2. /\ cmd'[c] = [cmd[c] EXCEPT !.step = "read", !.ok = Initialized(cmd[c].name)]
              /\ \A b \in Command \ {c} : cmd'[b] = cmd[b]
            BY <1>0, <3>1, CommandChanges
        <3>3. /\ cmd'[c].step = "read"
              /\ cmd'[c].clean = cmd[c].clean /\ cmd'[c].name = cmd[c].name
            BY <2>0, <3>2 DEF CommandRecord
        <3>4. /\ dir'[cmd[c].name] = cmd[c].source
              /\ \A e \in Dir \ {cmd[c].name} : dir'[e] = dir[e]
            BY <2>0, <3>1
        <3>5. Works(c)'
            BY <2>0, <3>1, <3>3, <3>4 DEF Works, Stands
        <3>6. ~stopped => cmd[c].source = "complete"
            BY <2>0, <3>1 DEF Works, WholeFor, Stands
        <3>7. WholeFor(c)'
            BY <2>0, <2>1, <3>1, <3>2, <3>3, <3>4, <3>6 DEF WholeFor, Stands, Dir
        <3> QED
            BY <2>2, <3>1, <3>5, <3>7
    <2>14. CASE ReadIndex(c)
        <3>1. /\ Stands(c, "read") /\ Becomes(c, [cmd[c] EXCEPT !.step = "write", !.seen = index])
              /\ UNCHANGED <<dir, maker, index, stopped, result>>
            BY <2>14 DEF ReadIndex
        <3>2. /\ cmd'[c] = [cmd[c] EXCEPT !.step = "write", !.seen = index]
              /\ \A b \in Command \ {c} : cmd'[b] = cmd[b]
            BY <1>0, <3>1, CommandChanges
        <3>3. /\ cmd'[c].step = "write" /\ cmd'[c].seen = index /\ cmd'[c].ok = cmd[c].ok
              /\ cmd'[c].clean = cmd[c].clean /\ cmd'[c].name = cmd[c].name
            BY <2>0, <3>2 DEF CommandRecord
        <3>4. Works(c)'
            BY <2>0, <3>1, <3>3 DEF Works, Stands
        <3>5. WholeFor(c)'
            BY <2>0, <2>1, <3>1, <3>2, <3>3 DEF WholeFor, Stands
        <3> QED
            BY <2>2, <3>1, <3>4, <3>5
    <2>15. CASE WriteIndex(c)
        <3>1. /\ Stands(c, "write") /\ Answers(c, Status(cmd[c].ok))
              /\ index' = [cmd[c].seen EXCEPT ![cmd[c].name] = Status(cmd[c].ok)]
              /\ UNCHANGED <<dir, maker, stopped>>
            BY <2>15 DEF WriteIndex
        <3>2. /\ Status(cmd[c].ok) \in IndexStatus
              /\ Status(cmd[c].ok) = "PASS" <=> cmd[c].ok
            BY DEF Status, IndexStatus
        <3>3. /\ cmd'[c] = [cmd[c] EXCEPT !.step = "end"]
              /\ result'[c] = [status |-> Status(cmd[c].ok), found |-> dir[cmd[c].name]]
              /\ \A b \in Command \ {c} : cmd'[b] = cmd[b]
            BY <1>0, <3>1, <3>2, AnswerChanges
        <3>4. cmd'[c].step = "end" /\ cmd'[c].clean = cmd[c].clean
            BY <2>0, <3>3 DEF CommandRecord
        <3>5. Works(c)'
            BY <2>0, <3>1, <3>2, <3>3, <3>4 DEF Works, Stands
        <3>6. cmd[c].seen \in [Prefix -> IndexStatus]
            BY <2>0 DEF CommandRecord
        <3>7. \A n \in Prefix : ~stopped /\ index'[n] = "PASS" => dir[n] = "complete"
            BY <2>0, <3>1, <3>2, <3>6 DEF Works, WholeFor, Stands
        <3>8. WholeFor(c)'
            BY <2>0, <2>1, <3>1, <3>3, <3>4, <3>7 DEF WholeFor, Stands
        <3> QED
            BY <2>3, <3>1, <3>2, <3>5, <3>8
    <2>16. CASE KillCommand(c)
        <3>1. /\ Becomes(c, [cmd[c] EXCEPT !.step = "end"]) /\ Underway(c)
              /\ stopped => stopped'
              /\ cmd[c].step \in {"boot", "copy"} => stopped'
              /\ UNCHANGED <<dir, maker, index, result>>
            BY <2>16 DEF KillCommand
        <3>2. /\ cmd'[c] = [cmd[c] EXCEPT !.step = "end"]
              /\ \A b \in Command \ {c} : cmd'[b] = cmd[b]
            BY <1>0, <3>1, CommandChanges
        <3>3. cmd'[c].step = "end" /\ cmd'[c].clean = cmd[c].clean
            BY <2>0, <3>2 DEF CommandRecord
        <3>4. Works(c)'
            BY <2>0, <3>1, <3>3 DEF Works, Stands
        <3>5. WholeFor(c)'
            BY <2>0, <2>1, <3>1, <3>2, <3>3 DEF WholeFor, Stands
        <3> QED
            BY <2>2, <3>1, <3>4, <3>5
    <2>17. CASE AlreadyExists(c) \/ BootTimeout(c) \/ CopyFails(c)
        BY <2>5, <2>6, <2>17 DEF AlreadyExists, BootTimeout, CopyFails
    <2>18. CASE BootPrefix(c) \/ (EnsureTemplate(c) /\ ~Initialized(Template))
        BY <2>0, <2>7, <2>18 DEF BootPrefix, EnsureTemplate
    <2> QED
        BY <1>3, <2>4, <2>8, <2>9, <2>10, <2>11, <2>12, <2>13, <2>14, <2>15, <2>16, <2>17, <2>18
<1>4. ASSUME NEW c \in Command, Underway(c), ~overlap
      PROVE  \A b \in Command \ {c} : ~Underway(b)
    BY <1>4 DEF PrefixInv, Alone
<1>5. ASSUME NEW c \in Command, ~overlap',
             \/ \E n \in Prefix, m \in Mode, f \in BOOLEAN : StartCommand(c, n, m, f)
             \/ AlreadyExists(c) \/ BootPrefix(c) \/ EnsureTemplate(c)
             \/ BootProgress(c) \/ BootExit(c) \/ BootFails(c) \/ BootTimeout(c)
             \/ CopyTemplate(c) \/ CopyDone(c) \/ CopyFails(c)
             \/ ReadIndex(c) \/ WriteIndex(c) \/ KillCommand(c)
      PROVE  PrefixInv'
    <2>1. CASE \E n \in Prefix, m \in Mode, f \in BOOLEAN : StartCommand(c, n, m, f)
        <3>1. ~overlap /\ \A b \in Command \ {c} : ~Underway(b)
            BY <1>5, <2>1 DEF StartCommand
        <3> QED
            BY <1>3, <2>1, <3>1
    <2>2. CASE \/ AlreadyExists(c) \/ BootPrefix(c) \/ EnsureTemplate(c)
               \/ BootProgress(c) \/ BootExit(c) \/ BootFails(c) \/ BootTimeout(c)
               \/ CopyTemplate(c) \/ CopyDone(c) \/ CopyFails(c)
               \/ ReadIndex(c) \/ WriteIndex(c) \/ KillCommand(c)
        <3>1. Underway(c) /\ overlap' = overlap
            BY <2>2 DEF AlreadyExists, BootPrefix, EnsureTemplate, StartBoot, BootProgress, BootExit,
                        BootFails, BootTimeout, CopyTemplate, CopyDone, CopyFails, ReadIndex,
                        WriteIndex, KillCommand, Stands, Underway
        <3> QED
            BY <1>3, <1>4, <1>5, <2>2, <3>1
    <2> QED
        BY <1>5, <2>1, <2>2
<1> QED
    BY <1>1, <1>2, <1>5 DEF PrefixNext

\* The invariant of the commands says what PASS means.
LEMMA PrefixShows == PrefixInv => PassMeansPrefix
<1> SUFFICES ASSUME PrefixInv PROVE PassMeansPrefix
    OBVIOUS
<1>1. ASSUME ~overlap, ~stopped, \A c \in Command : ~Underway(c),
             NEW n \in Prefix, index[n] = "PASS"
      PROVE  dir[n] = "complete"
    <2>1. \A c \in Command : ~Stands(c, "copy")
        BY <1>1 DEF Underway, Stands
    <2> QED
        BY <1>1, <2>1 DEF PrefixInv, Whole
<1> QED
    BY <1>1 DEF PrefixInv, Works, PassMeansPrefix

\* A command that ran alone and answers PASS leaves a complete prefix, and the
\* index lists no other as PASS while nothing was stopped, for any commands and
\* names and whatever was killed, forced or failed between two steps.
THEOREM PassMeansComplete == PrefixSpec => []PassMeansPrefix
<1>1. PrefixInv => PassMeansPrefix
    BY PrefixShows
<1> QED
    BY <1>1, InitPrefix, NextPrefix, PTL DEF PrefixSpec

\* Every variable of the commands on prefixes keeps its type.
THEOREM PrefixTypesKept == PrefixSpec => []PrefixTypeOK
<1>1. PrefixInv => PrefixTypeOK
    BY DEF PrefixInv
<1> QED
    BY <1>1, InitPrefix, NextPrefix, PTL DEF PrefixSpec

-----------------------------------------------------------------------------
(* The parts that have no invariant of their own, only types: device controls, *)
(* controllers, and the resources of D3D11.                                    *)

IoctlInv == IoctlTypeOK /\ Len(rules) <= MaxRules

LEMMA NextIoctl == IoctlInv /\ [IoctlNext]_ioctlVars => IoctlInv'
<1> SUFFICES ASSUME IoctlInv, [IoctlNext]_ioctlVars PROVE IoctlInv'
    OBVIOUS
<1> DEFINE Decision == [call : Control, policy : Policy]
           Asked == [call : Control, policy : Policy, rules : 0 .. MaxRules]
<1>1. /\ rules \in Seq(Decision) /\ auditLog \in Seq(Decision) /\ asked \in Seq(Asked)
      /\ Len(rules) \in Nat /\ Len(rules) \in 0 .. MaxRules /\ MaxRules \in Nat
    BY DeviceProxyAssumption, LenProperties DEF IoctlInv, IoctlTypeOK
<1>2. ASSUME NEW call \in Control, NEW policy \in Policy, AddRule(call, policy) PROVE IoctlInv'
    <2> DEFINE r == [call |-> call, policy |-> policy]
    <2>1. r \in Decision /\ rules' = Append(rules, r) /\ Len(rules) < MaxRules
        BY <1>2 DEF AddRule
    <2>2. UNCHANGED <<auditLog, asked>>
        BY <1>2 DEF AddRule
    <2> HIDE DEF r, Decision, Asked
    <2>3. rules' \in Seq(Decision) /\ Len(rules') = Len(rules) + 1
        BY <1>1, <2>1, AppendProperties
    <2>4. Len(rules') <= MaxRules
        BY <1>1, <2>1, <2>3
    <2> QED
        BY <1>1, <2>2, <2>3, <2>4 DEF IoctlInv, IoctlTypeOK, Decision, Asked
<1>3. ASSUME NEW call \in Control, EvaluateWithAudit(call) PROVE IoctlInv'
    <2> DEFINE decided == Evaluate(call)
               policy == IF decided = {} THEN "Audit" ELSE CHOOSE p \in decided : TRUE
               r == [call |-> call, policy |-> policy]
               a == [call |-> call, policy |-> policy, rules |-> Len(rules)]
    <2>1. /\ asked' = Append(asked, a) /\ UNCHANGED rules
          /\ auditLog' = Append(auditLog, r) \/ UNCHANGED auditLog
        BY <1>3 DEF EvaluateWithAudit
    <2>2. decided \subseteq Policy /\ "Audit" \in Policy
        BY DEF Evaluate, Policy
    <2> HIDE DEF decided
    <2>3. policy \in Policy
        BY <2>2
    <2> HIDE DEF policy
    <2>4. r \in Decision /\ a \in Asked
        BY <1>1, <2>3
    <2> HIDE DEF r, a, Decision, Asked
    <2>5. Append(asked, a) \in Seq(Asked) /\ Append(auditLog, r) \in Seq(Decision)
        BY <1>1, <2>4, AppendProperties
    <2> QED
        BY <1>1, <2>1, <2>5 DEF IoctlInv, IoctlTypeOK, Decision, Asked
<1>4. CASE UNCHANGED ioctlVars
    BY <1>4 DEF ioctlVars, IoctlInv, IoctlTypeOK
<1> QED
    BY <1>2, <1>3, <1>4 DEF IoctlNext

LEMMA NextInput == InputTypeOK /\ [InputNext]_inputVars => InputTypeOK'
  BY DEF InputTypeOK, InputNext, inputVars, ConnectController, DisconnectController, SetState,
         SetVibration

\* Handles are given out from 1 on, without a gap.
D3dInv == D3dTypeOK /\ \E n \in 0 .. LastResource : Handles = 1 .. n

LEMMA InitD3d == D3dInit => D3dInv
<1> SUFFICES ASSUME D3dInit PROVE D3dInv
    OBVIOUS
<1>1. LastResource \in Nat
    BY GraphicsAssumption
<1>2. resources = << >> /\ Len(<< >>) = 0
    BY DEF D3dInit
<1>3. Handles = {} /\ Handles = 1 .. 0
    BY <1>2 DEF Handles
<1>4. D3dTypeOK
    BY <1>3 DEF D3dInit, D3dTypeOK
<1>5. 0 \in 0 .. LastResource
    BY <1>1
<1>6. \E n \in 0 .. LastResource : Handles = 1 .. n
    BY <1>3, <1>5
<1> QED
    BY <1>4, <1>6 DEF D3dInv

LEMMA NextD3d == D3dInv /\ [D3dNext]_d3dVars => D3dInv'
<1> SUFFICES ASSUME D3dInv, [D3dNext]_d3dVars PROVE D3dInv'
    OBVIOUS
<1>1. PICK n \in 0 .. LastResource : Handles = 1 .. n
    BY DEF D3dInv
<1>2. LastResource \in Nat /\ n \in Nat
    BY GraphicsAssumption
<1>3. ASSUME NEW kind \in Kind, CreateResource(kind) PROVE D3dInv'
    <2>1. Cardinality(1 .. n) = n
        BY <1>2, FS_Interval
    <2>2. n < LastResource
        BY <1>1, <1>3, <2>1 DEF CreateResource
    <2>3. resources' = [h \in 1 .. n + 1 |-> IF h \in Handles THEN resources[h] ELSE kind]
        BY <1>1, <1>3, <2>1 DEF CreateResource
    <2>4. Handles' = 1 .. n + 1
        BY <2>3 DEF Handles
    <2>5. \A h \in 1 .. n + 1 : resources'[h] \in Kind
        BY <1>1, <2>3 DEF D3dInv, D3dTypeOK
    <2>6. UNCHANGED <<factory, cleared>>
        BY <1>3 DEF CreateResource
    <2>7. n + 1 \in 0 .. LastResource
        BY <1>2, <2>2
    <2> QED
        BY <1>2, <2>2, <2>4, <2>5, <2>6, <2>7 DEF D3dInv, D3dTypeOK
<1>4. CASE CreateFactory
    BY <1>4 DEF CreateFactory, D3dInv, D3dTypeOK, Handles
<1>5. ASSUME NEW h \in 1 .. LastResource, ClearRenderTarget(h) PROVE D3dInv'
    BY <1>5 DEF ClearRenderTarget, D3dInv, D3dTypeOK, Handles
<1>6. CASE UNCHANGED d3dVars
    BY <1>6 DEF d3dVars, D3dInv, D3dTypeOK, Handles
<1> QED
    BY <1>3, <1>4, <1>5, <1>6 DEF D3dNext

-----------------------------------------------------------------------------
(* The parts together.  The invariant of the whole is the invariants of its    *)
(* parts: a step of one part leaves the variables of the others alone.  The    *)
(* process table is a part by itself, and the table of the sessions; where it  *)
(* moves by itself, no process was launched into a session.                    *)

NoLaunch ==
    /\ sessions = [s \in SessionId |-> NoSession] /\ default = None /\ ctx = Idle
    /\ home = [p \in Pid |-> [id |-> None, since |-> FALSE]]
    /\ report = [p \in Pid |-> NoReport]

LEMMA NextTable ==
    ASSUME RuntimeInv, NoLaunch, [GraphNext]_graphVars,
           UNCHANGED <<sessions, default, ctx, home, report>>
    PROVE  RuntimeInv' /\ NoLaunch'
<1>1. TableInv
    BY DEF RuntimeInv, RuntimeTypeOK, Unused, TableInv
<1>2. GraphTypeOK' /\ \A p \in Pid : p >= nextPid' => node'[p].state = "none"
    BY <1>1, TableStep DEF TableInv
<1>3. NoLaunch'
    BY DEF NoLaunch
<1>4. RuntimeTypeOK'
    BY <1>2 DEF RuntimeInv, RuntimeTypeOK
<1>5. LiveIsListed'
    <2>1. None \notin SessionId
        BY SessionIdAssumption DEF SessionId
    <2>2. \A p \in Pid : home'[p].id = None /\ report'[p].state = "none"
        BY <1>3 DEF NoLaunch, NoReport
    <2>3. \A s \in SessionId : sessions'[s].procs = {}
        BY <1>3 DEF NoLaunch, NoSession
    <2> QED
        BY <2>1, <2>2, <2>3 DEF LiveIsListed
<1>6. Unused' /\ ContextInv'
    BY <1>2, <1>3 DEF Unused, ContextInv, NoLaunch, NoReport, Idle
<1> QED
    BY <1>3, <1>4, <1>5, <1>6 DEF RuntimeInv

NamespaceInv == PipeInv /\ PipeFits /\ SectionInv /\ EventInv /\ PortInv
ProgramInv == MemoryInv /\ FilesInv /\ WindowsInv /\ CpuInv /\ ImageInv /\ PackageInv
DeviceInv == VfioInv /\ PlugInv /\ IoctlInv /\ AudioInv /\ InputTypeOK
DrawingInv == VkTypeOK /\ VkAlive /\ WglTypeOK /\ CurrentAlive /\ D3dInv

WholeInv ==
    /\ part \in Parts /\ RuntimeInv /\ (part = "processes" => NoLaunch)
    /\ NamespaceInv /\ ProgramInv /\ DeviceInv /\ DrawingInv /\ PrefixInv

\* The initial states of a part are among those that its own theorem starts from.
LEMMA InitWhole == Init => WholeInv
<1> SUFFICES ASSUME Init PROVE WholeInv
    OBVIOUS
<1>1. part \in Parts /\ RuntimeInv /\ NoLaunch
    BY InitRuntime DEF Init, RuntimeInit, NoLaunch
<1>2. NamespaceInv
    <2>1. Len(pipes) = 0
        BY DEF Init, PipeInit
    <2>2. PipeFits
        BY <2>1 DEF PipeFits
    <2> QED
        BY <2>2, InitPipe, InitSection, InitEvents, InitPort DEF Init, NamespaceInv
<1>3. ProgramInv
    <2>1. \E f \in Images : ImageInit(f)
        BY MCAssumption DEF Init
    <2>2. \E b \in Installers : PackageInit(b)
        BY MCAssumption DEF Init
    <2>3. ImageInv /\ PackageInv
        BY <2>1, <2>2, InitImage, InitPackage
    <2> QED
        BY <2>3, InitMemory, InitFiles, InitWindows, InitCpu DEF Init, ProgramInv
<1>4. DeviceInv
    <2>1. IoctlInv
        <3>1. Len(<< >>) = 0 /\ MaxRules \in Nat
            BY DeviceProxyAssumption
        <3> QED
            BY <3>1, EmptySeq DEF Init, IoctlInit, IoctlInv, IoctlTypeOK
    <2>2. InputTypeOK
        BY DEF Init, InputInit, InputTypeOK
    <2> QED
        BY <2>1, <2>2, InitVfio, InitPlug, InitAudio DEF Init, DeviceInv
<1>5. DrawingInv
    <2>1. GraphicsInv
        BY InitGraphics DEF Init, GraphicsInit
    <2>2. D3dInv
        BY InitD3d DEF Init
    <2> QED
        BY <2>1, <2>2 DEF DrawingInv, GraphicsInv, ObjectsAlive, VkAlive, CurrentAlive
<1>6. PrefixInv
    BY InitPrefix DEF Init
<1> QED
    BY <1>1, <1>2, <1>3, <1>4, <1>5, <1>6 DEF WholeInv

\* A step of the whole is a step of the specification of each part: of the one
\* that moves its own, of every other a stutter.
LEMMA EachMoves ==
    ASSUME [Next]_vars
    PROVE  /\ UNCHANGED part
           /\ \/ part = "processes" /\ [GraphNext]_graphVars
                     /\ UNCHANGED <<sessions, default, ctx, home, report>>
              \/ part # "processes" /\ [RuntimeNext]_runtimeVars
              \/ UNCHANGED runtimeVars
           /\ [PipeNext]_pipeVars /\ [SectionNext]_sectionVars
           /\ [EventNext]_eventVars /\ [PortNext]_portVars
           /\ [MemoryNext]_memoryVars /\ [FilesNext]_fileVars /\ [WindowsNext]_windowVars
           /\ [CpuNext]_cpuVars /\ [ImageNext]_imageVars /\ [PackageNext]_packageVars
           /\ [VfioNext]_vfioVars /\ [PlugNext]_plugVars /\ [IoctlNext]_ioctlVars
           /\ [AudioNext]_audioVars /\ [InputNext]_inputVars
           /\ [VkNext]_vkVars /\ [WglNext]_wglVars /\ [D3dNext]_d3dVars
           /\ [PrefixNext]_prefixVars
<1> USE DEF RuntimeStays, IpcStays, ProgramStays, ProxyStays, AudioStays, GraphicsStays,
            PrefixesStays
<1>1. CASE UNCHANGED vars
    BY <1>1 DEF vars
<1>2. CASE InProcesses
    BY <1>2 DEF InProcesses
<1>3. CASE InSessions
    BY <1>3 DEF InSessions
<1>4. CASE InPipes \/ InSections \/ InEvents \/ InPorts
    BY <1>4 DEF InPipes, InSections, InEvents, InPorts
<1>5. CASE InMemory \/ InFiles \/ InWindows \/ InCpu \/ InImage \/ InPackage
    BY <1>5 DEF InMemory, InFiles, InWindows, InCpu, InImage, InPackage
<1>6. CASE InVfio \/ InHotplug \/ InIoctl \/ InAudio \/ InInput
    BY <1>6 DEF InVfio, InHotplug, InIoctl, InAudio, InInput
<1>7. CASE InVulkan \/ InWgl \/ InD3d \/ InPrefixes
    BY <1>7 DEF InVulkan, InWgl, InD3d, InPrefixes
<1> QED
    BY <1>1, <1>2, <1>3, <1>4, <1>5, <1>6, <1>7 DEF Next

LEMMA NextWhole == WholeInv /\ [Next]_vars => WholeInv'
<1> SUFFICES ASSUME WholeInv, [Next]_vars PROVE WholeInv'
    OBVIOUS
<1>1. UNCHANGED part
    BY EachMoves
<1>2. RuntimeInv' /\ (part = "processes" => NoLaunch')
    <2>1. CASE part = "processes" /\ [GraphNext]_graphVars
                   /\ UNCHANGED <<sessions, default, ctx, home, report>>
        BY <2>1, NextTable DEF WholeInv
    <2>2. CASE part # "processes" /\ [RuntimeNext]_runtimeVars
        BY <2>2, NextRuntime DEF WholeInv
    <2>3. CASE UNCHANGED runtimeVars
        <3>1. UNCHANGED <<sessions, default, ctx, home, report>>
            BY <2>3 DEF runtimeVars
        <3> QED
            BY <2>3, <3>1, NextRuntime DEF WholeInv, NoLaunch
    <2> QED
        BY <2>1, <2>2, <2>3, EachMoves
<1>3. NamespaceInv'
    BY EachMoves, NextPipe, NextFits, NextSection, NextEvents, NextPort DEF WholeInv, NamespaceInv
<1>4. ProgramInv'
    BY EachMoves, NextMemory, NextFiles, NextWindows, NextCpu, NextImage, NextPackage
    DEF WholeInv, ProgramInv
<1>5. DeviceInv'
    BY EachMoves, NextVfio, NextPlug, NextIoctl, NextAudio, NextInput DEF WholeInv, DeviceInv
<1>6. DrawingInv'
    BY EachMoves, NextVk, NextWgl, NextD3d DEF WholeInv, DrawingInv
<1>7. PrefixInv'
    BY EachMoves, NextPrefix DEF WholeInv
<1> QED
    BY <1>1, <1>2, <1>3, <1>4, <1>5, <1>6, <1>7 DEF WholeInv

\* What the invariants of the parts say of their types.
LEMMA WholeTypes == WholeInv => TypeOK
<1> SUFFICES ASSUME WholeInv PROVE TypeOK
    OBVIOUS
<1>1. PipeTypeOK /\ SectionTypeOK /\ EventTypeOK /\ PortTypeOK
    BY PipeTypes DEF WholeInv, NamespaceInv, SectionInv, EventInv, PortInv
<1>2. MemoryTypeOK /\ FilesTypeOK /\ WindowsTypeOK /\ CpuTypeOK /\ PackageTypeOK
    BY DEF WholeInv, ProgramInv, MemoryInv, FilesInv, WindowsInv, CpuInv, PackageInv
<1>3. ImageTypeOK
    <2>1. ImageInv
        BY DEF WholeInv, ProgramInv
    <2>2. copied \in 0 .. Len(image.sections) /\ mapped \in [ImageAddress -> MemoryCell]
        BY <2>1 DEF ImageInv, MemoryCopied
    <2>3. nextStub = DynamicBase + Cardinality({i \in DOMAIN resolved : ~IsFixed(resolved[i].name)})
        BY <2>1 DEF ImageInv, Resolutions
    <2>4. imageStep \in {"Idle", "Parsing", "Mapping", "ResolvingImports", "Ready", "Peb", "Running"}
        BY <2>1 DEF ImageInv
    <2> QED
        BY <2>2, <2>3, <2>4 DEF MemoryCell, IsFixed, ImageTypeOK
<1>4. VfioTypeOK /\ PlugTypeOK /\ IoctlTypeOK /\ AudioTypeOK /\ InputTypeOK
    BY DEF WholeInv, DeviceInv, VfioInv, PlugInv, IoctlInv, AudioInv
<1>5. VkTypeOK /\ WglTypeOK /\ D3dTypeOK /\ PrefixTypeOK /\ RuntimeTypeOK /\ part \in Parts
    BY DEF WholeInv, DrawingInv, D3dInv, PrefixInv, RuntimeInv
<1> QED
    BY <1>1, <1>2, <1>3, <1>4, <1>5 DEF TypeOK

\* Whatever part moves of what a program is started, run and served by, every
\* part keeps its types.
THEOREM WholeTypesKept == Spec => []TypeOK
BY InitWhole, NextWhole, WholeTypes, PTL DEF Spec

\* And every part keeps what the runs check of it: sessions list what lives,
\* nothing written is lost, no wakeup is, regions and handles stay apart, windows
\* end once, calls nest, attached groups were admitted, names and objects are
\* those that exist, PASS means a complete prefix, calls reach their imports, and
\* a package is installed whole or refused.
THEOREM WholeKept ==
    Spec => [](/\ LiveIsListed /\ NothingLost /\ NoLostWakeup /\ RegionsApart /\ HandlesFresh
               /\ NothingAfterDestroy /\ FramesMatch /\ GroupsAdmitted /\ NamesApart
               /\ ObjectsAlive /\ PassMeansPrefix /\ CallsReachImports /\ WholeOrRefused)
<1>1. WholeInv => LiveIsListed /\ PassMeansPrefix
    BY PrefixShows DEF WholeInv, RuntimeInv
<1>2. WholeInv => NothingLost /\ NoLostWakeup
    BY NamespacesShow DEF WholeInv, NamespaceInv, EventInv
<1>3. WholeInv => RegionsApart /\ CallsReachImports /\ WholeOrRefused
    BY MemoryApart, ImageShows, PackageShows DEF WholeInv, ProgramInv
<1>4. WholeInv => HandlesFresh /\ NothingAfterDestroy /\ FramesMatch
    BY DEF WholeInv, ProgramInv, FilesInv, WindowsInv, CpuInv
<1>5. WholeInv => GroupsAdmitted
    BY VfioShows DEF WholeInv, DeviceInv
<1>6. WholeInv => NamesApart
    BY PlugShows, AudioShows DEF WholeInv, DeviceInv, NamesApart
<1>7. WholeInv => ObjectsAlive
    BY DEF WholeInv, DrawingInv, ObjectsAlive, VkAlive, CurrentAlive
<1> QED
    BY <1>1, <1>2, <1>3, <1>4, <1>5, <1>6, <1>7, InitWhole, NextWhole, PTL DEF Spec
=============================================================================
