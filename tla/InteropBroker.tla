----------------------------- MODULE InteropBroker -----------------------------
(***************************************************************************)
(* strawnt-interopd: the host broker that lets programs of two Wine        *)
(* prefixes exchange messages (strawnt-interop, broker.rs and the daemon). *)
(*                                                                         *)
(* One thread serves each connection; the threads, and the control loop    *)
(* that adds grants, share one Mutex<Inner> that is held for one auth,     *)
(* send or try_recv at a time.  A client sends one line and waits for the  *)
(* answer; RECV makes its thread poll the channel until a deadline.  The   *)
(* client may disappear at any moment and its thread notices that only     *)
(* when it next reads or writes.                                           *)
(***************************************************************************)
EXTENDS Sequences, FiniteSets, SequencesExt

CONSTANTS Conn,      \* connection slots
          Token, Prefix, Channel,
          Payload,   \* messages; each is sent at most once, so they can be told apart
          TooLarge,  \* those over MAX_PAYLOAD
          None

ASSUME NoneAssumption == None \notin Channel \union Payload \union Prefix
ASSUME TooLargeAssumption == TooLarge \subseteq Payload

VARIABLES
    grants,    \* Inner.grants: the grant of each token, or None
    queue,     \* Inner.channels: the queue of each channel
    stopped,   \* BrokerHandle.stop was called
    pc,        \* pc[c]: where the thread of connection c is
    alive,     \* alive[c]: the client of c is still there
    line,      \* line[c]: the line the client has sent and the thread not handled
    authed,    \* authed[c]: authed_channel of the thread
    held,      \* held[c]: the message try_recv returned, to be written to c
    \* what was done, for the properties
    granted,   \* <<prefix, channel>> pairs of every grant there ever was
    who,       \* who[c]: the prefix c's last successful AUTH named
    sent,      \* sent[ch]: every message enqueued on ch, in order
    taken,     \* taken[ch]: every message dequeued from ch, in order
    inbox,     \* inbox[c]: messages that reached a client of c, with their channel
    lost       \* messages taken for a client that had left

inner   == <<grants, queue>>
history == <<granted, who, sent, taken, inbox, lost>>
vars    == <<grants, queue, stopped, pc, alive, line, authed, held,
             granted, who, sent, taken, inbox, lost>>

\* insert_grant wants a list of at least two prefixes, but they may be the same
\* one twice: as a set, any but the empty one.
Grants == [channel : Channel, prefixes : SUBSET Prefix \ {{}}]

AuthLine == [verb : {"AUTH"}, token : Token, prefix : Prefix, channel : Channel]
SendLine == [verb : {"SEND"}, payload : Payload]
BareLine == [verb : {"RECV", "QUIT"}]
Lines    == AuthLine \union SendLine \union BareLine

ASSUME NoLineAssumption == None \notin Lines

Init ==
    /\ grants = [t \in Token |-> None]
    /\ queue = [ch \in Channel |-> <<>>]
    /\ stopped = FALSE
    /\ pc = [c \in Conn |-> "free"]
    /\ alive = [c \in Conn |-> FALSE]
    /\ line = [c \in Conn |-> None]
    /\ authed = [c \in Conn |-> None]
    /\ held = [c \in Conn |-> None]
    /\ granted = {}
    /\ who = [c \in Conn |-> None]
    /\ sent = queue
    /\ taken = queue
    /\ inbox = [c \in Conn |-> <<>>]
    /\ lost = {}

\* BrokerHandle::grant, from the control port: a token's new grant replaces
\* its old one; sessions that authenticated with the old one go on.
Grant(t, g) ==
    /\ grants' = [grants EXCEPT ![t] = g]
    /\ granted' = granted \union (g.prefixes \X {g.channel})
    /\ UNCHANGED <<queue, stopped, pc, alive, line, authed, held, who, sent, taken, inbox, lost>>

\* BrokerHandle::stop ends the accept loop; threads that run go on.
StopBroker ==
    /\ stopped' = TRUE
    /\ UNCHANGED <<inner, pc, alive, line, authed, held, history>>

\* accept_loop starts a thread for a new connection.
Accept(c) ==
    /\ ~stopped
    /\ pc[c] = "free"
    /\ pc' = [pc EXCEPT ![c] = "reading"]
    /\ alive' = [alive EXCEPT ![c] = TRUE]
    /\ UNCHANGED <<inner, stopped, line, authed, held, history>>

\* No client sends the same message as another: the histories tell them apart.
Fresh(m) ==
    /\ \A ch \in Channel : m \notin ToSet(sent[ch])
    /\ \A c \in Conn : line[c] # [verb |-> "SEND", payload |-> m]

\* The client sends a line; it has no other line outstanding.
ClientSends(c, l) ==
    /\ alive[c] /\ pc[c] = "reading" /\ line[c] = None
    /\ l.verb = "SEND" => Fresh(l.payload)
    /\ line' = [line EXCEPT ![c] = l]
    /\ UNCHANGED <<inner, stopped, pc, alive, authed, held, history>>

\* The client closes its socket, gives up waiting or is killed.
ClientLeaves(c) ==
    /\ alive[c]
    /\ alive' = [alive EXCEPT ![c] = FALSE]
    /\ UNCHANGED <<inner, stopped, pc, line, authed, held, history>>

Handling(c, verb) == pc[c] = "reading" /\ line[c] # None /\ line[c].verb = verb

\* Mutation: the prefix is not looked up in the grant.
AuthAnyPrefix(t, p, ch) == grants[t] # None /\ grants[t].channel = ch

\* Inner::auth
Auth(t, p, ch) ==
    /\ grants[t] # None
    /\ grants[t].channel = ch
    /\ p \in grants[t].prefixes

\* AUTH: a refused one leaves the session as it was.
HandleAuth(c) ==
    /\ Handling(c, "AUTH")
    /\ IF Auth(line[c].token, line[c].prefix, line[c].channel)
       THEN /\ authed' = [authed EXCEPT ![c] = line[c].channel]
            /\ who' = [who EXCEPT ![c] = line[c].prefix]
       ELSE UNCHANGED <<authed, who>>
    /\ line' = [line EXCEPT ![c] = None]
    /\ UNCHANGED <<inner, stopped, pc, alive, held, granted, sent, taken, inbox, lost>>

\* Mutation: push_front.
PushFront(q, m) == <<m>> \o q

\* Inner::send
PushBack(q, m) == Append(q, m)

\* SEND on the session's channel; an error when there is none, or when the
\* payload is too large.  A client that has left is enqueued for all the same.
HandleSend(c) ==
    /\ Handling(c, "SEND")
    /\ LET m == line[c].payload
           ch == authed[c]
       IN IF ch # None /\ m \notin TooLarge
          THEN /\ queue' = [queue EXCEPT ![ch] = PushBack(@, m)]
               /\ sent' = [sent EXCEPT ![ch] = Append(@, m)]
          ELSE UNCHANGED <<queue, sent>>
    /\ line' = [line EXCEPT ![c] = None]
    /\ UNCHANGED <<grants, stopped, pc, alive, authed, held, granted, who, taken, inbox, lost>>

\* RECV starts to poll; without a channel, or with a timeout of 0, it answers
\* an error without having looked at the queue.
HandleRecv(c) ==
    /\ Handling(c, "RECV")
    /\ \/ authed[c] # None /\ pc' = [pc EXCEPT ![c] = "polling"]
       \/ UNCHANGED pc
    /\ line' = [line EXCEPT ![c] = None]
    /\ UNCHANGED <<inner, stopped, alive, authed, held, history>>

\* Mutation: pop_back.
TryRecvLast(q) == [got |-> Last(q), rest |-> Front(q)]

\* Mutation: the message is read but stays in the queue.
TryRecvPeek(q) == [got |-> Head(q), rest |-> q]

\* Inner::try_recv on a queue with a message: what it returns and what it leaves.
TryRecv(q) == [got |-> Head(q), rest |-> Tail(q)]

\* One turn of the polling loop finds a message.
Poll(c) ==
    /\ pc[c] = "polling"
    /\ queue[authed[c]] # <<>>
    /\ LET ch == authed[c]
           r  == TryRecv(queue[ch])
       IN  /\ held' = [held EXCEPT ![c] = r.got]
           /\ taken' = [taken EXCEPT ![ch] = Append(@, r.got)]
           /\ queue' = [queue EXCEPT ![ch] = r.rest]
    /\ pc' = [pc EXCEPT ![c] = "answering"]
    /\ UNCHANGED <<grants, stopped, alive, line, authed, granted, who, sent, inbox, lost>>

\* Mutation: RECV has no deadline.
RecvTimeoutNever(c) == FALSE

\* The deadline passes after an empty turn; a message may have come since.
RecvTimeout(c) ==
    /\ pc[c] = "polling"
    /\ pc' = [pc EXCEPT ![c] = "reading"]
    /\ UNCHANGED <<inner, stopped, alive, line, authed, held, history>>

\* DATA is written.  If the client has left, the message goes nowhere: it is
\* not put back.
Answer(c) ==
    /\ pc[c] = "answering"
    /\ IF alive[c]
       THEN /\ inbox' = [inbox EXCEPT ![c] = Append(@, <<authed[c], held[c]>>)]
            /\ UNCHANGED lost
       ELSE /\ lost' = lost \union {held[c]}
            /\ UNCHANGED inbox
    /\ pc' = [pc EXCEPT ![c] = "reading"]
    /\ held' = [held EXCEPT ![c] = None]
    /\ UNCHANGED <<inner, stopped, alive, line, authed, granted, who, sent, taken>>

\* The thread ends: QUIT, end of file, 30 s without a line, or a failed write.
\* The client then finds the connection closed.
EndThread(c) ==
    /\ pc[c] = "reading"
    /\ line[c] = None \/ ~alive[c] \/ Handling(c, "QUIT")
    /\ pc' = [pc EXCEPT ![c] = "free"]
    /\ alive' = [alive EXCEPT ![c] = FALSE]
    /\ line' = [line EXCEPT ![c] = None]
    /\ authed' = [authed EXCEPT ![c] = None]
    /\ who' = [who EXCEPT ![c] = None]
    /\ UNCHANGED <<inner, stopped, held, granted, sent, taken, inbox, lost>>

Thread(c) ==
    \/ HandleAuth(c) \/ HandleSend(c) \/ HandleRecv(c)
    \/ Poll(c) \/ RecvTimeout(c) \/ Answer(c) \/ EndThread(c)

Next ==
    \/ \E t \in Token, g \in Grants : Grant(t, g)
    \/ StopBroker
    \/ \E c \in Conn :
          \/ Accept(c) \/ ClientLeaves(c) \/ Thread(c)
          \/ \E l \in Lines : ClientSends(c, l)

Spec == Init /\ [][Next]_vars

\* Every thread is scheduled; clients and the control port may do nothing.
FairSpec == Spec /\ \A c \in Conn : WF_vars(Thread(c))
--------------------------------------------------------------------------------
PcStates == {"free", "reading", "polling", "answering"}

TypeOK ==
    /\ grants \in [Token -> Grants \union {None}]
    /\ queue \in [Channel -> Seq(Payload)]
    /\ stopped \in BOOLEAN
    /\ pc \in [Conn -> PcStates]
    /\ alive \in [Conn -> BOOLEAN]
    /\ line \in [Conn -> Lines \union {None}]
    /\ authed \in [Conn -> Channel \union {None}]
    /\ held \in [Conn -> Payload \union {None}]
    /\ granted \subseteq Prefix \X Channel
    /\ who \in [Conn -> Prefix \union {None}]
    /\ sent \in [Channel -> Seq(Payload)]
    /\ taken \in [Channel -> Seq(Payload)]
    /\ inbox \in [Conn -> Seq(Channel \X Payload)]
    /\ lost \subseteq Payload

\* "Messages are queued per channel (FIFO)" (interop-win32-ipc.md:107): what was
\* dequeued, followed by what waits, is what was enqueued, in that order,
\* however many threads send and receive.
Fifo == \A ch \in Channel : sent[ch] = taken[ch] \o queue[ch]

\* "Only authenticated sessions for that channel may SEND/RECV"
\* (interop-win32-ipc.md:107): a session works on a channel that some grant gave
\* to the prefix it named, also while it polls or answers.
OnlyGranted ==
    \A c \in Conn :
        /\ authed[c] # None => <<who[c], authed[c]>> \in granted
        /\ pc[c] \in {"polling", "answering"} => authed[c] # None

\* A message reaches a client of its own channel, and clients that share a
\* channel see its messages in the order they were sent.
Precedes(s, x, y) == \E i, j \in DOMAIN s : i < j /\ s[i] = x /\ s[j] = y
InOrder ==
    \A c \in Conn : \A i, j \in DOMAIN inbox[c] :
        LET a == inbox[c][i]  b == inbox[c][j]
        IN  /\ a[2] \in ToSet(taken[a[1]])
            /\ i < j /\ a[1] = b[1] => Precedes(sent[a[1]], a[2], b[2])

\* Every message that was enqueued is in exactly one place: a queue, a thread
\* about to write it, one client's inbox, or it was taken for a client that
\* had left.  None is duplicated, none vanishes in another way.
Accounted ==
    \A ch \in Channel : \A m \in ToSet(sent[ch]) :
        Cardinality({x \in Channel : m \in ToSet(queue[x])})
        + Cardinality({c \in Conn : held[c] = m})
        + Cardinality({x \in UNION {{c} \X DOMAIN inbox[c] : c \in Conn} :
                          inbox[x[1]][x[2]][2] = m})
        + Cardinality(lost \intersect {m}) = 1

\* A client that waits for an answer gets one, or finds the connection closed:
\* no RECV blocks its thread for ever.
Answered == \A c \in Conn :
    (line[c] # None \/ pc[c] \in {"polling", "answering"})
        ~> (line[c] = None /\ pc[c] \in {"free", "reading"})
================================================================================
