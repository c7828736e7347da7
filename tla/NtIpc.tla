-------------------------------- MODULE NtIpc --------------------------------
(* The objects a SessionIpcManager keeps for the programs of a session        *)
(* (strawwu-nt, ipc.rs): named pipes, shared sections, events and ALPC ports.  *)
(* The four namespaces share no state, so each has variables, initial state   *)
(* and next-state relation of its own; an instance may explore them one by    *)
(* one.  An error return changes nothing and is not an action.                *)
EXTENDS Naturals, Sequences, FiniteSets, SequencesExt

CONSTANTS
    Client,     \* process ids that use the namespaces
    Name,       \* names of objects
    Byte,       \* what is written
    PipeSize,   \* max_buffer_size, 65536 in the code
    SectionSize,
    MaxObjects, \* bound on the pipes created
    MaxSent     \* bound on the bytes or messages sent under one name

ASSUME IpcSizeAssumption == {PipeSize, SectionSize, MaxObjects, MaxSent} \subseteq Nat \ {0}
ASSUME NameAssumption == Name \intersect {"awake", "stranded"} = {}

VARIABLES
    pipes,      \* PipeNamespace.pipes
    told,       \* history: bytes that writers of a name were told are written
    read,       \* history: bytes that readers of a name were given
    section,    \* SharedMemoryNamespace, by name
    stored,     \* history: the last byte a writer was told is at an offset
    event,      \* EventNamespace, by name
    asleep,     \* history: the event each process waits for since wait was FALSE
    port,       \* AlpcNamespace, by name
    posted,     \* history: messages sent to a port, with the sender's right to
    received    \* history: messages taken from a port

pipeVars == <<pipes, told, read>>
sectionVars == <<section, stored>>
eventVars == <<event, asleep>>
portVars == <<port, posted, received>>

Absent == "absent"
Awake == "awake"
SmallSeq(S, n) == UNION {[1 .. k -> S] : k \in 0 .. n}

-----------------------------------------------------------------------------
(* Named pipes.  Two pipes may have one name; a call means the first.         *)

Direction == {"In", "Out", "Duplex"}

PipeTypeOK ==
    /\ pipes \in Seq([name : Name, direction : Direction, peer : Client \union {Absent},
                      buffer : SmallSeq(Byte, PipeSize)])
    /\ told \in [Name -> Seq(Byte)] /\ read \in [Name -> Seq(Byte)]

PipeInit ==
    /\ pipes = << >>
    /\ told = [n \in Name |-> << >>] /\ read = [n \in Name |-> << >>]

\* The pipe a call with this name means: the first in the list.
IsPipe(i, n) ==
    i \in DOMAIN pipes /\ pipes[i].name = n /\ \A j \in 1 .. i - 1 : pipes[j].name # n

CreatePipe(n, d) ==
    /\ Len(pipes) < MaxObjects
    /\ pipes' = Append(pipes,
           [name |-> n, direction |-> d, peer |-> Absent, buffer |-> << >>])
    /\ UNCHANGED <<told, read>>

ConnectPipe(n, c) ==
    \E i \in DOMAIN pipes :
        /\ IsPipe(i, n) /\ pipes[i].peer = Absent
        /\ pipes' = [pipes EXCEPT ![i].peer = c]
        /\ UNCHANGED <<told, read>>

\* Mutation: the capacity is not looked at.
FittingAll(buffer, data) == data

\* The part of the data that the buffer has room for.
Fitting(buffer, data) ==
    LET room == PipeSize - Len(buffer)
    IN  SubSeq(data, 1, IF Len(data) < room THEN Len(data) ELSE room)

\* Mutation: the caller is told that everything was written.
WritePipeAll(n, data) ==
    \E i \in DOMAIN pipes :
        /\ IsPipe(i, n) /\ pipes[i].direction # "In"
        /\ Len(told[n]) + Len(data) <= MaxSent
        /\ pipes' = [pipes EXCEPT ![i].buffer = @ \o Fitting(@, data)]
        /\ told' = [told EXCEPT ![n] = @ \o data]
        /\ UNCHANGED read

\* write_pipe takes what fits and returns how much that was.
WritePipe(n, data) ==
    \E i \in DOMAIN pipes :
        LET part == Fitting(pipes[i].buffer, data)
        IN  /\ IsPipe(i, n) /\ pipes[i].direction # "In"
            /\ Len(told[n]) + Len(part) <= MaxSent
            /\ pipes' = [pipes EXCEPT ![i].buffer = @ \o part]
            /\ told' = [told EXCEPT ![n] = @ \o part]
            /\ UNCHANGED read

ReadPipe(n, max) ==
    \E i \in DOMAIN pipes :
        LET k == IF max < Len(pipes[i].buffer) THEN max ELSE Len(pipes[i].buffer)
        IN  /\ IsPipe(i, n) /\ pipes[i].direction # "Out"
            /\ read' = [read EXCEPT ![n] = @ \o SubSeq(pipes[i].buffer, 1, k)]
            /\ pipes' = [pipes EXCEPT ![i].buffer = SubSeq(@, k + 1, Len(@))]
            /\ UNCHANGED told

PipeNext ==
    \E n \in Name :
        \/ \E d \in Direction : CreatePipe(n, d)
        \/ \E c \in Client : ConnectPipe(n, c)
        \/ \E data \in SmallSeq(Byte, 2) : WritePipe(n, data)
        \/ \E max \in 1 .. 2 : ReadPipe(n, max)

PipeSpec == PipeInit /\ [][PipeNext]_pipeVars

-----------------------------------------------------------------------------
(* Shared sections.                                                           *)

Offset == 0 .. SectionSize - 1
Zero == [o \in Offset |-> 0]
NoSection == [size |-> 0, data |-> Zero, mapped |-> {}]

SectionTypeOK ==
    /\ section \in [Name -> [size : 0 .. SectionSize,
                             data : [Offset -> Byte \union {0}], mapped : SUBSET Client]]
    /\ stored \in [Name -> [Offset -> Byte \union {0}]]

SectionInit ==
    section = [n \in Name |-> NoSection] /\ stored = [n \in Name |-> Zero]

CreateSection(n, size, c) ==
    /\ section[n].size = 0
    /\ section' = [section EXCEPT ![n] = [size |-> size, data |-> Zero, mapped |-> {c}]]
    /\ UNCHANGED stored

MapView(n, c) ==
    /\ section[n].size > 0 /\ c \notin section[n].mapped
    /\ section' = [section EXCEPT ![n].mapped = @ \union {c}]
    /\ UNCHANGED stored

UnmapView(n, c) ==
    /\ c \in section[n].mapped
    /\ section' = [section EXCEPT ![n].mapped = @ \ {c}]
    /\ UNCHANGED stored

\* The offsets that a write or read of len bytes at offset reaches.
Reach(n, offset, len) ==
    {o \in Offset : offset <= o /\ o < offset + len /\ o < section[n].size}

\* write_section: any process may write, mapped or not, up to the end.
WriteSection(n, offset, b, len) ==
    /\ offset < section[n].size
    /\ section' = [section EXCEPT ![n].data =
           [o \in Offset |-> IF o \in Reach(n, offset, len) THEN b ELSE @[o]]]
    /\ stored' = [stored EXCEPT ![n] =
           [o \in Offset |-> IF o \in Reach(n, offset, len) THEN b ELSE @[o]]]

SectionNext ==
    \E n \in Name :
        \/ \E size \in 1 .. SectionSize, c \in Client : CreateSection(n, size, c)
        \/ \E c \in Client : MapView(n, c) \/ UnmapView(n, c)
        \/ \E o \in Offset, b \in Byte, len \in 1 .. 2 : WriteSection(n, o, b, len)

SectionSpec == SectionInit /\ [][SectionNext]_sectionVars

-----------------------------------------------------------------------------
(* Events.  A process for which wait returned FALSE sleeps until some signal   *)
(* returns it among the woken; it makes no call meanwhile.                    *)

NoEvent == [open |-> FALSE, signaled |-> FALSE, auto |-> FALSE, waiting |-> << >>]

EventTypeOK ==
    /\ event \in [Name -> [open : BOOLEAN, signaled : BOOLEAN, auto : BOOLEAN,
                           waiting : Seq(Client)]]
    /\ asleep \in [Client -> Name \union {Awake, "stranded"}]

EventInit == event = [n \in Name |-> NoEvent] /\ asleep = [c \in Client |-> Awake]

CreateEvent(n, auto) ==
    /\ ~event[n].open
    /\ event' = [event EXCEPT ![n] = [NoEvent EXCEPT !.open = TRUE, !.auto = auto]]
    /\ UNCHANGED asleep

Woken(n) == ToSet(event[n].waiting)

\* Mutation: one waiter is woken, the others stay in the list of a set event.
SignalOne(n) ==
    /\ event[n].open
    /\ event' = [event EXCEPT ![n].waiting = IF @ = << >> THEN @ ELSE Tail(@),
                              ![n].signaled = ~event[n].auto \/ Woken(n) = {}]
    /\ asleep' = [c \in Client |->
           IF Woken(n) # {} /\ c = Head(event[n].waiting) THEN Awake ELSE asleep[c]]

\* signal wakes every waiter; an auto-reset event that woke nobody stays set.
SignalEvent(n) ==
    /\ event[n].open
    /\ event' = [event EXCEPT ![n].waiting = << >>,
                              ![n].signaled = ~event[n].auto \/ Woken(n) = {}]
    /\ asleep' = [c \in Client |-> IF c \in Woken(n) THEN Awake ELSE asleep[c]]

ResetEvent(n) ==
    event[n].open /\ event' = [event EXCEPT ![n].signaled = FALSE] /\ UNCHANGED asleep

\* wait on a set event returns at once, and takes the signal if it resets itself.
WaitSet(n, c) ==
    /\ asleep[c] = Awake /\ event[n].open /\ event[n].signaled
    /\ event' = [event EXCEPT ![n].signaled = ~event[n].auto]
    /\ UNCHANGED asleep

WaitClear(n, c) ==
    /\ asleep[c] = Awake /\ event[n].open /\ ~event[n].signaled
    /\ event' = [event EXCEPT ![n].waiting = IF c \in ToSet(@) THEN @ ELSE Append(@, c)]
    /\ asleep' = [asleep EXCEPT ![c] = n]

\* close_event drops the event with its waiters, whom nothing can wake any more.
CloseEvent(n) ==
    /\ event[n].open
    /\ event' = [event EXCEPT ![n] = NoEvent]
    /\ asleep' = [c \in Client |-> IF asleep[c] = n THEN "stranded" ELSE asleep[c]]

EventNext ==
    \E n \in Name :
        \/ \E auto \in BOOLEAN : CreateEvent(n, auto)
        \/ \E c \in Client : WaitSet(n, c) \/ WaitClear(n, c)
        \/ SignalEvent(n) \/ ResetEvent(n) \/ CloseEvent(n)

EventSpec == EventInit /\ [][EventNext]_eventVars

-----------------------------------------------------------------------------
(* ALPC ports.                                                                *)

NoPort == [open |-> FALSE, server |-> Absent, clients |-> {}, queue |-> << >>, nextId |-> 1]
Message == [sender : Client, id : 1 .. MaxSent]

PortTypeOK ==
    /\ port \in [Name -> [open : BOOLEAN, server : Client \union {Absent},
                          clients : SUBSET Client, queue : Seq(Message),
                          nextId : 1 .. MaxSent + 1]]
    /\ posted \in [Name -> Seq(Message)] /\ received \in [Name -> Seq(Message)]

PortInit ==
    /\ port = [n \in Name |-> NoPort]
    /\ posted = [n \in Name |-> << >>] /\ received = [n \in Name |-> << >>]

CreatePort(n, c) ==
    /\ ~port[n].open
    /\ port' = [port EXCEPT ![n] = [NoPort EXCEPT !.open = TRUE, !.server = c]]
    /\ UNCHANGED <<posted, received>>

ConnectPort(n, c) ==
    /\ port[n].open /\ c \notin port[n].clients
    /\ port' = [port EXCEPT ![n].clients = @ \union {c}]
    /\ UNCHANGED <<posted, received>>

SendMessage(n, c) ==
    LET message == [sender |-> c, id |-> port[n].nextId]
    IN  /\ port[n].open /\ c \in port[n].clients \union {port[n].server}
        /\ port[n].nextId <= MaxSent
        /\ port' = [port EXCEPT ![n].queue = Append(@, message), ![n].nextId = @ + 1]
        /\ posted' = [posted EXCEPT ![n] = Append(@, message)]
        /\ UNCHANGED received

\* receive_message does not ask who receives: any process takes the oldest.
ReceiveMessage(n) ==
    /\ port[n].queue # << >>
    /\ port' = [port EXCEPT ![n].queue = Tail(@)]
    /\ received' = [received EXCEPT ![n] = Append(@, Head(port[n].queue))]
    /\ UNCHANGED posted

PortNext ==
    \E n \in Name :
        \/ \E c \in Client : CreatePort(n, c) \/ ConnectPort(n, c) \/ SendMessage(n, c)
        \/ ReceiveMessage(n)

PortSpec == PortInit /\ [][PortNext]_portVars

-----------------------------------------------------------------------------
\* What a writer was told is written is there, in order, until a reader takes
\* it, exactly once: for pipes under one name with full buffers and partial
\* writes, for pipes that share a name (the later one is never reached),
\* for sections written by several processes, and for ALPC messages, whose ids
\* follow the order of sending.
NothingLost ==
    /\ \A n \in Name : \A i \in DOMAIN pipes : pipes[i].name = n =>
           IF IsPipe(i, n) THEN told[n] = read[n] \o pipes[i].buffer
           ELSE pipes[i].buffer = << >>
    /\ \A n \in Name : section[n].data = stored[n]
    /\ \A n \in Name :
           /\ posted[n] = received[n] \o port[n].queue
           /\ \A i \in DOMAIN posted[n] : posted[n][i].id = i

\* No wake-up is lost: a process that sleeps is in the list of its event, which
\* is not set; only closing the event can strand it.  Nobody is listed who does
\* not sleep, and nobody twice.
NoLostWakeup ==
    \A n \in Name :
        /\ event[n].signaled => event[n].waiting = << >>
        /\ Woken(n) = {c \in Client : asleep[c] = n}
        /\ IsInjective(event[n].waiting)
=============================================================================
