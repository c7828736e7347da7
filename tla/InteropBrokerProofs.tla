-------------------------- MODULE InteropBrokerProofs --------------------------
(***************************************************************************)
(* Theorems about InteropBroker, for any number of connections, tokens,    *)
(* prefixes, channels and messages.                                        *)
(*                                                                         *)
(* BrokerInv is the inductive invariant: it adds to TypeOK and Fifo what   *)
(* the thread of a connection knows in each of its states, and that the    *)
(* grant map holds nothing that was not granted.                           *)
(***************************************************************************)
EXTENDS InteropBroker, SequenceTheorems, FiniteSetTheorems, TLAPS

\* A thread that polls or answers has a channel; one that answers holds a
\* message; a channel was authenticated under a prefix it was granted to; and
\* what auth will find in the grant map was granted.
SessionInv ==
    /\ OnlyGranted
    /\ \A c \in Conn : pc[c] = "answering" => held[c] # None
    /\ \A t \in Token : grants[t] # None =>
          \A p \in grants[t].prefixes : <<p, grants[t].channel>> \in granted

\* The tail of a sequence of messages, and what try_recv returns, are messages.
LEMMA TryRecvType ==
    ASSUME NEW S, NEW q \in Seq(S), q # <<>>
    PROVE  /\ TryRecv(q).got \in S
           /\ TryRecv(q).rest \in Seq(S)
           /\ q = <<TryRecv(q).got>> \o TryRecv(q).rest
  BY DEF TryRecv

\* Moving the head of the queue to the end of what was taken keeps their
\* concatenation, which is how a receiver keeps Fifo.
LEMMA MoveHead ==
    ASSUME NEW S, NEW a \in Seq(S), NEW q \in Seq(S), q # <<>>
    PROVE  a \o q = Append(a, TryRecv(q).got) \o TryRecv(q).rest
  BY DEF TryRecv

\* Adding a message at the end of the queue adds it at the end of the
\* concatenation, which is how a sender keeps Fifo.
LEMMA AddLast ==
    ASSUME NEW S, NEW a \in Seq(S), NEW q \in Seq(S), NEW m \in S
    PROVE  Append(a \o q, m) = a \o PushBack(q, m)
  BY DEF PushBack

\* The verb of a line decides which fields it has.
LEMMA LineFields ==
    ASSUME NEW l \in Lines
    PROVE  /\ l.verb = "AUTH" => l \in AuthLine
           /\ l.verb = "SEND" => l \in SendLine
  BY DEF Lines, AuthLine, SendLine, BareLine

BrokerInv == TypeOK /\ Fifo /\ SessionInv

\* The states the broker starts in satisfy the invariant.
LEMMA InitBroker == Init => BrokerInv
<1> SUFFICES ASSUME Init PROVE BrokerInv
    OBVIOUS
<1>1. TypeOK
    <2>1. <<>> \in Seq(Payload) /\ <<>> \in Seq(Channel \X Payload)
        OBVIOUS
    <2>2. /\ queue \in [Channel -> Seq(Payload)]
          /\ sent \in [Channel -> Seq(Payload)]
          /\ taken \in [Channel -> Seq(Payload)]
          /\ inbox \in [Conn -> Seq(Channel \X Payload)]
        BY <2>1 DEF Init
    <2>3. /\ grants \in [Token -> Grants \union {None}]
          /\ line \in [Conn -> Lines \union {None}]
          /\ authed \in [Conn -> Channel \union {None}]
          /\ held \in [Conn -> Payload \union {None}]
          /\ who \in [Conn -> Prefix \union {None}]
        BY DEF Init
    <2>4. /\ stopped \in BOOLEAN
          /\ pc \in [Conn -> PcStates]
          /\ alive \in [Conn -> BOOLEAN]
          /\ granted \subseteq Prefix \X Channel
          /\ lost \subseteq Payload
        BY DEF Init, PcStates
    <2> QED BY <2>2, <2>3, <2>4 DEF TypeOK
<1>2. Fifo
    BY DEF Init, Fifo
<1>3. SessionInv
    BY DEF Init, SessionInv, OnlyGranted
<1> QED BY <1>1, <1>2, <1>3 DEF BrokerInv

\* Every step keeps the types.
LEMMA NextTypes == BrokerInv /\ [Next]_vars => TypeOK'
<1> SUFFICES ASSUME BrokerInv, [Next]_vars PROVE TypeOK'
    OBVIOUS
<1>0. TypeOK /\ SessionInv
    BY DEF BrokerInv
<1> USE <1>0 DEF TypeOK, PcStates
<1>1. ASSUME NEW t \in Token, NEW g \in Grants, Grant(t, g) PROVE TypeOK'
    <2>1. g.prefixes \X {g.channel} \subseteq Prefix \X Channel
        BY DEF Grants
    <2> QED BY <1>1, <2>1 DEF Grant
<1>2. ASSUME StopBroker PROVE TypeOK'
    BY <1>2 DEF StopBroker, inner, history
<1>3. ASSUME NEW c \in Conn, Accept(c) PROVE TypeOK'
    BY <1>3 DEF Accept, inner, history
<1>4. ASSUME NEW c \in Conn, ClientLeaves(c) PROVE TypeOK'
    BY <1>4 DEF ClientLeaves, inner, history
<1>5. ASSUME NEW c \in Conn, NEW l \in Lines, ClientSends(c, l) PROVE TypeOK'
    BY <1>5 DEF ClientSends, inner, history
<1>6. ASSUME NEW c \in Conn, HandleAuth(c) PROVE TypeOK'
    <2>1. line[c] \in AuthLine
        BY <1>6, LineFields DEF HandleAuth, Handling
    <2> QED BY <1>6, <2>1 DEF HandleAuth, inner, AuthLine
<1>7. ASSUME NEW c \in Conn, HandleSend(c) PROVE TypeOK'
    <2>1. line[c] \in SendLine
        BY <1>7, LineFields DEF HandleSend, Handling
    <2>2. line[c].payload \in Payload
        BY <2>1 DEF SendLine
    <2>3. queue' \in [Channel -> Seq(Payload)] /\ sent' \in [Channel -> Seq(Payload)]
        <3>1. CASE authed[c] = None \/ line[c].payload \in TooLarge
            BY <1>7, <3>1 DEF HandleSend
        <3>2. CASE authed[c] # None /\ line[c].payload \notin TooLarge
            <4>1. authed[c] \in Channel
                BY <3>2
            <4>2. /\ Append(queue[authed[c]], line[c].payload) \in Seq(Payload)
                  /\ Append(sent[authed[c]], line[c].payload) \in Seq(Payload)
                BY <2>2, <4>1
            <4>3. /\ queue' = [queue EXCEPT ![authed[c]] = Append(@, line[c].payload)]
                  /\ sent' = [sent EXCEPT ![authed[c]] = Append(@, line[c].payload)]
                BY <1>7, <3>2 DEF HandleSend, PushBack
            <4> QED BY <4>1, <4>2, <4>3
        <3> QED BY <3>1, <3>2
    <2> QED BY <1>7, <2>3 DEF HandleSend
<1>8. ASSUME NEW c \in Conn, HandleRecv(c) PROVE TypeOK'
    BY <1>8 DEF HandleRecv, inner, history
<1>9. ASSUME NEW c \in Conn, Poll(c) PROVE TypeOK'
    <2>1. authed[c] \in Channel
        BY <1>9 DEF Poll, SessionInv, OnlyGranted
    <2>2. /\ TryRecv(queue[authed[c]]).got \in Payload
          /\ TryRecv(queue[authed[c]]).rest \in Seq(Payload)
        BY <1>9, <2>1, TryRecvType DEF Poll
    <2>3. queue' \in [Channel -> Seq(Payload)] /\ taken' \in [Channel -> Seq(Payload)]
        BY <1>9, <2>1, <2>2 DEF Poll
    <2> QED BY <1>9, <2>2, <2>3 DEF Poll
<1>10. ASSUME NEW c \in Conn, RecvTimeout(c) PROVE TypeOK'
    BY <1>10 DEF RecvTimeout, inner, history
<1>11. ASSUME NEW c \in Conn, Answer(c) PROVE TypeOK'
    <2>1. authed[c] \in Channel /\ held[c] \in Payload
        BY <1>11 DEF Answer, SessionInv, OnlyGranted
    <2>2. inbox' \in [Conn -> Seq(Channel \X Payload)] /\ lost' \subseteq Payload
        <3>1. <<authed[c], held[c]>> \in Channel \X Payload
            BY <2>1
        <3>2. Append(inbox[c], <<authed[c], held[c]>>) \in Seq(Channel \X Payload)
            BY <3>1
        <3>3. CASE alive[c]
            <4>1. /\ inbox' = [inbox EXCEPT ![c] = Append(@, <<authed[c], held[c]>>)]
                  /\ lost' = lost
                BY <1>11, <3>3 DEF Answer
            <4> QED BY <4>1, <3>2
        <3>4. CASE ~alive[c]
            BY <1>11, <2>1, <3>4 DEF Answer
        <3> QED BY <3>3, <3>4
    <2> QED BY <1>11, <2>2 DEF Answer, inner
<1>12. ASSUME NEW c \in Conn, EndThread(c) PROVE TypeOK'
    BY <1>12 DEF EndThread, inner
<1>13. CASE UNCHANGED vars
    BY <1>13 DEF vars
<1> QED
    BY <1>1, <1>2, <1>3, <1>4, <1>5, <1>6, <1>7, <1>8, <1>9, <1>10, <1>11, <1>12, <1>13
       DEF Next, Thread

\* Only SEND and a poll that finds a message touch what Fifo speaks of.
LEMMA NextFifo == BrokerInv /\ [Next]_vars => Fifo'
<1> SUFFICES ASSUME BrokerInv, [Next]_vars PROVE Fifo'
    OBVIOUS
<1>0. TypeOK /\ Fifo /\ SessionInv
    BY DEF BrokerInv
<1> USE <1>0
<1>1. ASSUME NEW c \in Conn, HandleSend(c), NEW ch \in Channel
      PROVE  sent'[ch] = taken'[ch] \o queue'[ch]
    <2>1. line[c].payload \in Payload
        BY <1>1, LineFields DEF HandleSend, Handling, TypeOK, SendLine
    <2>2. CASE ch = authed[c] /\ line[c].payload \notin TooLarge
        <3>1. /\ queue'[ch] = PushBack(queue[ch], line[c].payload)
              /\ sent'[ch] = Append(sent[ch], line[c].payload)
              /\ taken' = taken
            BY <1>1, <2>2, NoneAssumption DEF HandleSend, TypeOK
        <3>2. sent[ch] = taken[ch] \o queue[ch]
            BY DEF Fifo
        <3>3. taken[ch] \in Seq(Payload) /\ queue[ch] \in Seq(Payload)
            BY DEF TypeOK
        <3>4. Append(taken[ch] \o queue[ch], line[c].payload)
                  = taken[ch] \o PushBack(queue[ch], line[c].payload)
            BY <2>1, <3>3, AddLast
        <3> QED BY <3>1, <3>2, <3>4
    <2>3. CASE ~(ch = authed[c] /\ line[c].payload \notin TooLarge)
        <3>1. queue'[ch] = queue[ch] /\ sent'[ch] = sent[ch] /\ taken' = taken
            BY <1>1, <2>3 DEF HandleSend, TypeOK
        <3> QED BY <3>1 DEF Fifo
    <2> QED BY <2>2, <2>3
<1>2. ASSUME NEW c \in Conn, Poll(c), NEW ch \in Channel
      PROVE  sent'[ch] = taken'[ch] \o queue'[ch]
    <2>1. CASE ch = authed[c]
        <3>1. /\ queue'[ch] = TryRecv(queue[ch]).rest
              /\ taken'[ch] = Append(taken[ch], TryRecv(queue[ch]).got)
              /\ sent' = sent
            BY <1>2, <2>1 DEF Poll, TypeOK
        <3>2. queue[ch] # <<>>
            BY <1>2, <2>1 DEF Poll
        <3>3. sent[ch] = taken[ch] \o queue[ch]
            BY DEF Fifo
        <3>4. taken[ch] \in Seq(Payload) /\ queue[ch] \in Seq(Payload)
            BY DEF TypeOK
        <3>5. taken[ch] \o queue[ch]
                  = Append(taken[ch], TryRecv(queue[ch]).got) \o TryRecv(queue[ch]).rest
            BY <3>2, <3>4, MoveHead
        <3> QED BY <3>1, <3>3, <3>5
    <2>2. CASE ch # authed[c]
        <3>1. queue'[ch] = queue[ch] /\ taken'[ch] = taken[ch] /\ sent' = sent
            BY <1>2, <2>2 DEF Poll, TypeOK
        <3> QED BY <3>1 DEF Fifo
    <2> QED BY <2>1, <2>2
<1>3. CASE UNCHANGED <<queue, sent, taken>>
    BY <1>3 DEF Fifo
<1>4. ASSUME NEW c \in Conn, HandleAuth(c) \/ HandleRecv(c) \/ RecvTimeout(c)
                                \/ Answer(c) \/ EndThread(c) \/ Accept(c) \/ ClientLeaves(c)
      PROVE  UNCHANGED <<queue, sent, taken>>
    BY <1>4 DEF HandleAuth, HandleRecv, RecvTimeout, Answer, EndThread, Accept, ClientLeaves,
                inner, history
<1>5. ASSUME NEW c \in Conn, NEW l \in Lines, ClientSends(c, l)
      PROVE  UNCHANGED <<queue, sent, taken>>
    BY <1>5 DEF ClientSends, inner, history
<1>6. ASSUME NEW t \in Token, NEW g \in Grants, Grant(t, g)
      PROVE  UNCHANGED <<queue, sent, taken>>
    BY <1>6 DEF Grant
<1>7. CASE StopBroker \/ UNCHANGED vars
    BY <1>3, <1>7 DEF StopBroker, vars, inner, history
<1> QED
    BY <1>1, <1>2, <1>3, <1>4, <1>5, <1>6, <1>7 DEF Next, Thread, Fifo

\* A session gets a channel from auth alone, which looks it up in the grant
\* map, and loses it only with its thread.
LEMMA NextSession == BrokerInv /\ [Next]_vars => SessionInv'
<1> SUFFICES ASSUME BrokerInv, [Next]_vars PROVE SessionInv'
    OBVIOUS
<1>0. TypeOK /\ SessionInv
    BY DEF BrokerInv
<1> USE <1>0 DEF SessionInv, OnlyGranted, TypeOK
<1>1. ASSUME NEW t \in Token, NEW g \in Grants, Grant(t, g) PROVE SessionInv'
    <2>1. /\ granted' = granted \union (g.prefixes \X {g.channel})
          /\ UNCHANGED <<pc, authed, held, who>>
        BY <1>1 DEF Grant
    <2>2. ASSUME NEW u \in Token, grants'[u] # None, NEW p \in grants'[u].prefixes
          PROVE  <<p, grants'[u].channel>> \in granted'
        <3>1. CASE u = t
            BY <1>1, <2>1, <2>2, <3>1 DEF Grant
        <3>2. CASE u # t
            BY <1>1, <2>1, <2>2, <3>2 DEF Grant
        <3> QED BY <3>1, <3>2
    <2> QED BY <2>1, <2>2
<1>2. CASE StopBroker
    BY <1>2 DEF StopBroker, inner, history
<1>3. ASSUME NEW c \in Conn, Accept(c) PROVE SessionInv'
    BY <1>3 DEF Accept, inner, history
<1>4. ASSUME NEW c \in Conn, ClientLeaves(c) PROVE SessionInv'
    BY <1>4 DEF ClientLeaves, inner, history
<1>5. ASSUME NEW c \in Conn, NEW l \in Lines, ClientSends(c, l) PROVE SessionInv'
    BY <1>5 DEF ClientSends, inner, history
<1>6. ASSUME NEW c \in Conn, HandleAuth(c) PROVE SessionInv'
    <2>1. line[c] \in AuthLine /\ pc[c] = "reading"
        BY <1>6, LineFields DEF HandleAuth, Handling
    <2>2. CASE Auth(line[c].token, line[c].prefix, line[c].channel)
        <3>1. <<line[c].prefix, line[c].channel>> \in granted
            BY <2>1, <2>2 DEF Auth, AuthLine
        <3>2. /\ authed' = [authed EXCEPT ![c] = line[c].channel]
              /\ who' = [who EXCEPT ![c] = line[c].prefix]
              /\ UNCHANGED <<pc, held, grants, granted>>
            BY <1>6, <2>2 DEF HandleAuth, inner
        <3> QED BY <3>1, <3>2, <2>1
    <2>3. CASE ~Auth(line[c].token, line[c].prefix, line[c].channel)
        BY <1>6, <2>3 DEF HandleAuth, inner
    <2> QED BY <2>2, <2>3
<1>7. ASSUME NEW c \in Conn, HandleSend(c) PROVE SessionInv'
    BY <1>7 DEF HandleSend
<1>8. ASSUME NEW c \in Conn, HandleRecv(c) PROVE SessionInv'
    BY <1>8 DEF HandleRecv, inner, history
<1>9. ASSUME NEW c \in Conn, Poll(c) PROVE SessionInv'
    <2>1. authed[c] \in Channel /\ queue[authed[c]] # <<>>
        BY <1>9 DEF Poll
    <2>2. TryRecv(queue[authed[c]]).got \in Payload
        BY <2>1, TryRecvType
    <2>3. TryRecv(queue[authed[c]]).got # None
        BY <2>2, NoneAssumption
    <2> QED BY <1>9, <2>3 DEF Poll
<1>10. ASSUME NEW c \in Conn, RecvTimeout(c) PROVE SessionInv'
    BY <1>10 DEF RecvTimeout, inner, history
<1>11. ASSUME NEW c \in Conn, Answer(c) PROVE SessionInv'
    BY <1>11 DEF Answer, inner
<1>12. ASSUME NEW c \in Conn, EndThread(c) PROVE SessionInv'
    BY <1>12 DEF EndThread, inner
<1>13. CASE UNCHANGED vars
    BY <1>13 DEF vars
<1> QED
    BY <1>1, <1>2, <1>3, <1>4, <1>5, <1>6, <1>7, <1>8, <1>9, <1>10, <1>11, <1>12, <1>13
       DEF Next, Thread

\* The invariant holds in every reachable state.
LEMMA BrokerInvHolds == Spec => []BrokerInv
<1>1. Init => BrokerInv
    BY InitBroker
<1>2. BrokerInv /\ [Next]_vars => BrokerInv'
    BY NextTypes, NextFifo, NextSession DEF BrokerInv
<1> QED BY <1>1, <1>2, PTL DEF Spec

\* Every variable keeps its type, whatever clients and the control port do.
THEOREM BrokerTypes == Spec => []TypeOK
<1>1. BrokerInv => TypeOK
    BY DEF BrokerInv
<1> QED BY <1>1, BrokerInvHolds, PTL

\* "Messages are queued per channel (FIFO)" for any number of senders and
\* receivers: what was received and what waits is what was sent, in that order.
THEOREM QueuesAreFifo == Spec => []Fifo
<1>1. BrokerInv => Fifo
    BY DEF BrokerInv
<1> QED BY <1>1, BrokerInvHolds, PTL

\* "Only authenticated sessions for that channel may SEND/RECV": a session has
\* a channel only if a grant gave that channel to the prefix it named, however
\* grants were added and replaced meanwhile.
THEOREM OnlyGrantedSessions == Spec => []OnlyGranted
<1>1. BrokerInv => OnlyGranted
    BY DEF BrokerInv, SessionInv
<1> QED BY <1>1, BrokerInvHolds, PTL

-----------------------------------------------------------------------------
(* Where the messages are.                                                    *)
(*                                                                            *)
(* No two SENDs carry the same message (Distinct), so that a message that     *)
(* was taken is in one place at most; Places says that there is one, and      *)
(* Ordered that what a thread holds was taken after all that its client got   *)
(* of the same channel.                                                       *)

SendOf(m) == [verb |-> "SEND", payload |-> m]

Distinct ==
    /\ \A ch \in Channel : IsInjective(sent[ch])
    /\ \A ch, dh \in Channel : ch # dh => ToSet(sent[ch]) \intersect ToSet(sent[dh]) = {}
    /\ \A c \in Conn, m \in Payload : line[c] = SendOf(m) =>
           /\ \A ch \in Channel : m \notin ToSet(sent[ch])
           /\ \A d \in Conn : line[d] = SendOf(m) => d = c

Arrivals == UNION {{inbox[c][i][2] : i \in DOMAIN inbox[c]} : c \in Conn}

Places ==
    /\ \A c \in Conn : held[c] # None =>
           /\ pc[c] = "answering" /\ held[c] \in ToSet(taken[authed[c]])
           /\ held[c] \notin Arrivals /\ held[c] \notin lost
           /\ \A d \in Conn : held[d] = held[c] => d = c
    /\ \A c \in Conn : \A i \in DOMAIN inbox[c] :
           /\ inbox[c][i][2] \in ToSet(taken[inbox[c][i][1]]) \ lost
           /\ \A d \in Conn : \A j \in DOMAIN inbox[d] :
                  inbox[d][j][2] = inbox[c][i][2] => d = c /\ j = i
    /\ \A m \in lost : \E ch \in Channel : m \in ToSet(taken[ch])
    /\ \A ch \in Channel : \A m \in ToSet(taken[ch]) :
           m \in lost \/ m \in Arrivals \/ \E c \in Conn : held[c] = m

Ordered ==
    \A c \in Conn : \A i \in DOMAIN inbox[c] :
        LET ch == inbox[c][i][1]  m == inbox[c][i][2]
        IN  /\ held[c] # None /\ ch = authed[c] => Precedes(taken[ch], m, held[c])
            /\ \A j \in DOMAIN inbox[c] :
                   i < j /\ ch = inbox[c][j][1] => Precedes(taken[ch], m, inbox[c][j][2])

MessageInv == Distinct /\ Places /\ Ordered

-----------------------------------------------------------------------------
(* Sequences of messages.                                                     *)

\* A message more at the end.
LEMMA OneMore ==
    ASSUME NEW S, NEW s \in Seq(S), NEW x \in S
    PROVE  /\ Append(s, x) \in Seq(S)
           /\ DOMAIN s = 1 .. Len(s) /\ Len(s) \in Nat
           /\ DOMAIN Append(s, x) = 1 .. Len(s) + 1
           /\ \A i \in 1 .. Len(s) : Append(s, x)[i] = s[i]
           /\ Append(s, x)[Len(s) + 1] = x
           /\ ToSet(Append(s, x)) = ToSet(s) \union {x}
           /\ IsInjective(s) /\ x \notin ToSet(s) => IsInjective(Append(s, x))
<1>1. /\ Append(s, x) \in Seq(S)
      /\ Len(s) \in Nat /\ DOMAIN s = 1 .. Len(s)
      /\ DOMAIN Append(s, x) = 1 .. Len(s) + 1
      /\ \A i \in 1 .. Len(s) : Append(s, x)[i] = s[i]
      /\ Append(s, x)[Len(s) + 1] = x
    BY AppendProperties, LenProperties
<1>2. ToSet(Append(s, x)) = ToSet(s) \union {x}
    BY <1>1 DEF ToSet
<1>3. ASSUME IsInjective(s), x \notin ToSet(s) PROVE IsInjective(Append(s, x))
    <2>1. \A i \in 1 .. Len(s) : s[i] # x
        BY <1>1, <1>3 DEF ToSet
    <2> QED
        BY <1>1, <1>3, <2>1 DEF IsInjective
<1> QED
    BY <1>1, <1>2, <1>3

\* An order of messages stays what it is when one is added, and the new one
\* comes after all others.
LEMMA PrecedesMore ==
    ASSUME NEW S, NEW s \in Seq(S), NEW x \in S, NEW y, NEW z
    PROVE  /\ Precedes(s, y, z) => Precedes(Append(s, x), y, z)
           /\ y \in ToSet(s) => Precedes(Append(s, x), y, x)
<1>1. ASSUME Precedes(s, y, z) PROVE Precedes(Append(s, x), y, z)
    BY <1>1, OneMore DEF Precedes
<1>2. ASSUME y \in ToSet(s) PROVE Precedes(Append(s, x), y, x)
    <2>1. PICK i \in 1 .. Len(s) : s[i] = y
        BY <1>2, OneMore DEF ToSet
    <2>2. i < Len(s) + 1 /\ i \in DOMAIN Append(s, x) /\ Len(s) + 1 \in DOMAIN Append(s, x)
        BY OneMore
    <2> QED
        BY <2>1, <2>2, OneMore DEF Precedes
<1> QED
    BY <1>1, <1>2

\* What two parts of a sequence hold, and that they hold nothing in common if
\* the sequence holds nothing twice; the order of the first is that of the whole.
LEMMA Parts ==
    ASSUME NEW S, NEW s \in Seq(S), NEW t \in Seq(S)
    PROVE  /\ ToSet(s \o t) = ToSet(s) \union ToSet(t)
           /\ IsInjective(s \o t) => ToSet(s) \intersect ToSet(t) = {}
           /\ \A y, z : Precedes(s, y, z) => Precedes(s \o t, y, z)
<1>1. /\ Len(s) \in Nat /\ Len(t) \in Nat
      /\ DOMAIN s = 1 .. Len(s) /\ DOMAIN t = 1 .. Len(t)
      /\ DOMAIN (s \o t) = 1 .. Len(s) + Len(t)
      /\ \A i \in 1 .. Len(s) + Len(t) :
             (s \o t)[i] = IF i <= Len(s) THEN s[i] ELSE t[i - Len(s)]
    BY ConcatProperties, LenProperties
<1>2. \A i \in 1 .. Len(s) : i \in DOMAIN (s \o t) /\ (s \o t)[i] = s[i]
    BY <1>1
<1>3. \A j \in 1 .. Len(t) : Len(s) + j \in DOMAIN (s \o t) /\ (s \o t)[Len(s) + j] = t[j]
    BY <1>1
<1>4. ToSet(s \o t) = ToSet(s) \union ToSet(t)
    <2>1. ToSet(s) \union ToSet(t) \subseteq ToSet(s \o t)
        <3>1. ToSet(s) \subseteq ToSet(s \o t)
            BY <1>1, <1>2 DEF ToSet
        <3>2. ASSUME NEW j \in 1 .. Len(t) PROVE t[j] \in ToSet(s \o t)
            BY <1>3 DEF ToSet
        <3> QED
            BY <1>1, <3>1, <3>2 DEF ToSet
    <2>2. ASSUME NEW i \in 1 .. Len(s) + Len(t)
          PROVE  (s \o t)[i] \in ToSet(s) \union ToSet(t)
        <3>1. CASE i <= Len(s)
            BY <1>1, <3>1 DEF ToSet
        <3>2. CASE i > Len(s)
            <4>1. i - Len(s) \in 1 .. Len(t)
                BY <1>1, <3>2
            <4> QED
                BY <1>1, <3>2, <4>1 DEF ToSet
        <3> QED
            BY <1>1, <3>1, <3>2
    <2> QED
        BY <1>1, <2>1, <2>2 DEF ToSet
<1>5. ASSUME IsInjective(s \o t) PROVE ToSet(s) \intersect ToSet(t) = {}
    <2>1. \A i \in 1 .. Len(s), j \in 1 .. Len(t) : s[i] # t[j]
        BY <1>1, <1>2, <1>3, <1>5 DEF IsInjective
    <2> QED
        BY <1>1, <2>1 DEF ToSet
<1>6. \A y, z : Precedes(s, y, z) => Precedes(s \o t, y, z)
    BY <1>1, <1>2 DEF Precedes
<1> QED
    BY <1>4, <1>5, <1>6

\* The head of a queue is one of its messages, and the tail holds no others.
LEMMA HeadAndTail ==
    ASSUME NEW S, NEW q \in Seq(S), q # <<>>
    PROVE  TryRecv(q).got \in ToSet(q)
<1>1. Len(q) \in Nat /\ Len(q) >= 1 /\ DOMAIN q = 1 .. Len(q) /\ Head(q) = q[1]
    BY EmptySeq, LenProperties
<1> QED
    BY <1>1 DEF TryRecv, ToSet

\* A sequence of messages holds nothing else.
LEMMA SeqMembers ==
    ASSUME NEW S, NEW s \in Seq(S)
    PROVE  ToSet(s) \subseteq S
  BY ElementOfSeq, LenProperties DEF ToSet

-----------------------------------------------------------------------------
\* A line with the verb SEND is what the client made of its payload.
LEMMA SendLines ==
    ASSUME NEW l \in Lines
    PROVE  /\ l.verb = "SEND" => l.payload \in Payload /\ l = SendOf(l.payload)
           /\ \A m \in Payload : l = SendOf(m) => l.verb = "SEND" /\ l.payload = m
<1>1. ASSUME l.verb = "SEND" PROVE l.payload \in Payload /\ l = SendOf(l.payload)
    <2>1. l \in SendLine
        BY <1>1, LineFields
    <2> QED
        BY <2>1 DEF SendLine, SendOf
<1> QED
    BY <1>1 DEF SendOf

\* A message to be sent is none that is waiting or was enqueued, and so no two
\* messages enqueued are the same.
LEMMA NextDistinct == BrokerInv /\ Distinct /\ [Next]_vars => Distinct'
<1> SUFFICES ASSUME BrokerInv, Distinct, [Next]_vars PROVE Distinct'
    OBVIOUS
<1>0. TypeOK
    BY DEF BrokerInv
<1>1. ASSUME NEW c \in Conn, NEW l \in Lines, ClientSends(c, l) PROVE Distinct'
    <2>1. /\ line' = [line EXCEPT ![c] = l] /\ sent' = sent
          /\ l.verb = "SEND" => Fresh(l.payload)
        BY <1>1 DEF ClientSends, history
    <2>2. /\ line'[c] = l /\ \A d \in Conn \ {c} : line'[d] = line[d]
        BY <1>0, <2>1 DEF TypeOK
    <2>3. ASSUME NEW m \in Payload, l = SendOf(m)
          PROVE  /\ \A ch \in Channel : m \notin ToSet(sent[ch])
                 /\ \A d \in Conn : line[d] # SendOf(m)
        <3>1. Fresh(m)
            BY <2>1, <2>3, SendLines
        <3> QED
            BY <3>1 DEF Fresh, SendOf
    <2> QED
        BY <2>1, <2>2, <2>3 DEF Distinct
<1>2. ASSUME NEW c \in Conn, line' = [line EXCEPT ![c] = None], sent' = sent
      PROVE  Distinct'
    <2>1. \A m \in Payload : SendOf(m) # None
        BY NoLineAssumption DEF Lines, SendLine, SendOf
    <2>2. line'[c] = None /\ \A d \in Conn \ {c} : line'[d] = line[d]
        BY <1>0, <1>2 DEF TypeOK
    <2> QED
        BY <1>2, <2>1, <2>2 DEF Distinct
<1>3. ASSUME NEW c \in Conn, HandleSend(c) PROVE Distinct'
    <2> DEFINE m == line[c].payload  ch == authed[c]
    <2>1. m \in Payload /\ line[c] = SendOf(m)
        BY <1>0, <1>3, SendLines DEF HandleSend, Handling, TypeOK
    <2>2. line' = [line EXCEPT ![c] = None]
        BY <1>3 DEF HandleSend
    <2>3. CASE ~(ch # None /\ m \notin TooLarge)
        BY <1>2, <1>3, <2>2, <2>3 DEF HandleSend
    <2>4. CASE ch # None /\ m \notin TooLarge
        <3>1. ch \in Channel /\ sent' = [sent EXCEPT ![ch] = Append(@, m)]
            BY <1>0, <1>3, <2>4 DEF HandleSend, TypeOK
        <3>2. /\ sent[ch] \in Seq(Payload) /\ sent'[ch] = Append(sent[ch], m)
              /\ \A dh \in Channel \ {ch} : sent'[dh] = sent[dh]
            BY <1>0, <3>1 DEF TypeOK
        <3>3. /\ \A dh \in Channel : m \notin ToSet(sent[dh])
              /\ \A d \in Conn \ {c} : line[d] # SendOf(m)
            BY <2>1 DEF Distinct
        <3>4. IsInjective(sent'[ch]) /\ ToSet(sent'[ch]) = ToSet(sent[ch]) \union {m}
            BY <2>1, <3>1, <3>2, <3>3, OneMore DEF Distinct
        <3>5. \A k \in Payload : SendOf(k) # None /\ (SendOf(k) = SendOf(m) => k = m)
            BY NoLineAssumption DEF Lines, SendLine, SendOf
        <3>6. line'[c] = None /\ \A d \in Conn \ {c} : line'[d] = line[d]
            BY <1>0, <2>2 DEF TypeOK
        <3>7. \A dh \in Channel : IsInjective(sent'[dh])
            BY <3>2, <3>4 DEF Distinct
        <3>8. \A bh, dh \in Channel : bh # dh => ToSet(sent'[bh]) \intersect ToSet(sent'[dh]) = {}
            <4>1. ASSUME NEW bh \in Channel, NEW dh \in Channel, bh # dh
                  PROVE  ToSet(sent'[bh]) \intersect ToSet(sent'[dh]) = {}
                <5>1. ToSet(sent[bh]) \intersect ToSet(sent[dh]) = {}
                    BY <4>1 DEF Distinct
                <5>2. m \notin ToSet(sent[bh]) /\ m \notin ToSet(sent[dh])
                    BY <3>3
                <5> HIDE DEF m, ch
                <5>3. CASE bh # ch /\ dh # ch
                    BY <3>2, <5>1, <5>3
                <5>4. CASE bh = ch
                    BY <3>2, <3>4, <4>1, <5>1, <5>2, <5>4
                <5>5. CASE dh = ch
                    BY <3>2, <3>4, <4>1, <5>1, <5>2, <5>5
                <5> QED
                    BY <5>3, <5>4, <5>5
            <4> QED
                BY <4>1
        <3>9. ASSUME NEW d \in Conn, NEW k \in Payload, line'[d] = SendOf(k)
              PROVE  /\ \A dh \in Channel : k \notin ToSet(sent'[dh])
                     /\ \A e \in Conn : line'[e] = SendOf(k) => e = d
            <4>1. d # c /\ line[d] = SendOf(k) /\ k # m
                BY <3>3, <3>5, <3>6, <3>9
            <4>2. \A dh \in Channel : k \notin ToSet(sent'[dh])
                <5>1. \A dh \in Channel : k \notin ToSet(sent[dh])
                    BY <4>1 DEF Distinct
                <5> HIDE DEF m, ch
                <5> QED
                    BY <3>1, <3>2, <3>4, <4>1, <5>1
            <4>3. \A e \in Conn : line'[e] = SendOf(k) => e = d
                BY <3>5, <3>6, <4>1 DEF Distinct
            <4> QED
                BY <4>2, <4>3
        <3> QED
            BY <3>7, <3>8, <3>9 DEF Distinct
    <2> QED
        BY <2>3, <2>4
<1>4. CASE UNCHANGED <<line, sent>>
    BY <1>4 DEF Distinct
<1>5. ASSUME NEW c \in Conn, HandleAuth(c) \/ HandleRecv(c) \/ EndThread(c) PROVE Distinct'
    BY <1>2, <1>5 DEF HandleAuth, HandleRecv, EndThread, history
<1>6. ASSUME NEW c \in Conn, Accept(c) \/ ClientLeaves(c) \/ Poll(c) \/ RecvTimeout(c) \/ Answer(c)
      PROVE  Distinct'
    BY <1>4, <1>6 DEF Accept, ClientLeaves, Poll, RecvTimeout, Answer, history
<1>7. ASSUME NEW t \in Token, NEW g \in Grants, Grant(t, g) PROVE Distinct'
    BY <1>4, <1>7 DEF Grant
<1>8. CASE StopBroker \/ UNCHANGED vars
    BY <1>4, <1>8 DEF StopBroker, vars, history
<1> QED
    BY <1>1, <1>3, <1>5, <1>6, <1>7, <1>8 DEF Next, Thread

\* No message is anywhere at the start.
LEMMA InitMessages == Init => MessageInv
<1> SUFFICES ASSUME Init PROVE MessageInv
    OBVIOUS
<1>1. \A ch \in Channel : sent[ch] = <<>> /\ taken[ch] = <<>> /\ ToSet(taken[ch]) = {} /\ ToSet(sent[ch]) = {}
    BY EmptySeq DEF Init, ToSet
<1>2. \A c \in Conn : DOMAIN inbox[c] = {} /\ held[c] = None /\ line[c] = None
    BY DEF Init
<1>3. Distinct
    <2>1. \A m \in Payload : SendOf(m) # None
        BY NoLineAssumption DEF Lines, SendLine, SendOf
    <2>2. IsInjective(<<>>)
        BY DEF IsInjective
    <2> QED
        BY <1>1, <1>2, <2>1, <2>2 DEF Distinct
<1>4. Places
    <2>1. lost = {}
        BY DEF Init
    <2> QED
        BY <1>1, <1>2, <2>1 DEF Places
<1>5. Ordered
    BY <1>2 DEF Ordered
<1> QED
    BY <1>3, <1>4, <1>5 DEF MessageInv

\* What neither takes nor delivers a message leaves each where it is, so long as
\* the threads that hold one go on as they were.
LEMMA QuietMessages ==
    ASSUME Places, Ordered, UNCHANGED <<held, taken, inbox, lost>>,
           \A c \in Conn : held[c] # None => pc'[c] = pc[c] /\ authed'[c] = authed[c]
    PROVE  Places' /\ Ordered'
<1>1. \A m : m \in Arrivals' <=> m \in Arrivals
    BY DEF Arrivals
<1>2. Places'
    BY <1>1 DEF Places
<1>3. Ordered'
    BY DEF Ordered
<1> QED
    BY <1>2, <1>3

\* A thread that holds a message has the channel it came from.
LEMMA HoldersHaveChannel ==
    ASSUME TypeOK, SessionInv, Places
    PROVE  \A c \in Conn : held[c] # None => authed[c] \in Channel
<1>1. \A c \in Conn : held[c] # None => pc[c] = "answering"
    BY DEF Places
<1>2. \A c \in Conn : pc[c] = "answering" => authed[c] # None
    BY DEF SessionInv, OnlyGranted
<1>3. \A c \in Conn : authed[c] \in Channel \union {None}
    BY DEF TypeOK
<1> QED
    BY <1>1, <1>2, <1>3

\* The message at the head of a queue is nowhere else.
LEMMA HeadIsNew ==
    ASSUME BrokerInv, Distinct, Places, NEW ch \in Channel, queue[ch] # <<>>
    PROVE  LET m == TryRecv(queue[ch]).got
           IN  /\ m \in Payload /\ m # None
               /\ \A dh \in Channel : m \notin ToSet(taken[dh])
               /\ m \notin lost /\ m \notin Arrivals
               /\ \A d \in Conn : held[d] # m
<1> DEFINE m == TryRecv(queue[ch]).got
<1>0. TypeOK /\ Fifo /\ SessionInv
    BY DEF BrokerInv
<1>1. m \in Payload /\ m # None
    <2>1. queue[ch] \in Seq(Payload)
        BY <1>0 DEF TypeOK
    <2>2. m \in Payload
        BY <2>1, TryRecvType
    <2> QED
        BY <2>2, NoneAssumption
<1>2. m \in ToSet(queue[ch])
    BY <1>0, HeadAndTail DEF TypeOK
<1>3. ASSUME NEW dh \in Channel PROVE m \notin ToSet(taken[dh])
    <2>1. \A bh \in Channel : /\ ToSet(sent[bh]) = ToSet(taken[bh]) \union ToSet(queue[bh])
                              /\ ToSet(taken[bh]) \intersect ToSet(queue[bh]) = {}
        <3>1. ASSUME NEW bh \in Channel
              PROVE  /\ ToSet(sent[bh]) = ToSet(taken[bh]) \union ToSet(queue[bh])
                     /\ ToSet(taken[bh]) \intersect ToSet(queue[bh]) = {}
            <4>1. /\ taken[bh] \in Seq(Payload) /\ queue[bh] \in Seq(Payload)
                  /\ sent[bh] = taken[bh] \o queue[bh] /\ IsInjective(sent[bh])
                BY <1>0 DEF TypeOK, Fifo, Distinct
            <4> QED
                BY <4>1, Parts
        <3> QED
            BY <3>1
    <2>2. dh # ch => ToSet(sent[dh]) \intersect ToSet(sent[ch]) = {}
        BY DEF Distinct
    <2> HIDE DEF m
    <2> QED
        BY <1>2, <2>1, <2>2
<1>4. m \notin lost
    BY <1>3 DEF Places
<1>5. m \notin Arrivals
    <2> HIDE DEF m
    <2>1. ASSUME NEW c \in Conn, NEW i \in DOMAIN inbox[c] PROVE inbox[c][i][2] # m
        <3>1. inbox[c] \in Seq(Channel \X Payload)
            BY <1>0 DEF TypeOK
        <3>2. inbox[c][i] \in Channel \X Payload
            BY <3>1, ElementOfSeq, LenProperties
        <3>3. inbox[c][i][2] \in ToSet(taken[inbox[c][i][1]])
            BY DEF Places
        <3> QED
            BY <1>3, <3>2, <3>3
    <2> QED
        BY <2>1 DEF Arrivals
<1>6. ASSUME NEW d \in Conn PROVE held[d] # m
    <2> HIDE DEF m
    <2>1. ASSUME held[d] = m PROVE FALSE
        <3>1. pc[d] = "answering" /\ m \in ToSet(taken[authed[d]])
            BY <1>1, <2>1 DEF Places
        <3>2. authed[d] \in Channel
            BY <1>0, <3>1 DEF TypeOK, SessionInv, OnlyGranted
        <3> QED
            BY <1>3, <3>1, <3>2
    <2> QED
        BY <2>1
<1> QED
    BY <1>1, <1>3, <1>4, <1>5, <1>6

\* Polling takes a message that was in the queue only, and it comes after all
\* that was taken from the channel before.
LEMMA PollMessages ==
    ASSUME BrokerInv, MessageInv, NEW c \in Conn, Poll(c)
    PROVE  Places' /\ Ordered'
<1> DEFINE ch == authed[c]  m == TryRecv(queue[ch]).got
<1>0. TypeOK /\ SessionInv /\ Distinct /\ Places /\ Ordered
    BY DEF BrokerInv, MessageInv
<1>1. ch \in Channel /\ queue[ch] # <<>> /\ pc[c] = "polling"
    BY <1>0 DEF Poll, TypeOK, SessionInv, OnlyGranted
<1>2. /\ m \in Payload /\ m # None
      /\ \A dh \in Channel : m \notin ToSet(taken[dh])
      /\ m \notin lost /\ m \notin Arrivals
      /\ \A d \in Conn : held[d] # m
    BY <1>0, <1>1, HeadIsNew
<1>3. /\ held' = [held EXCEPT ![c] = m]
      /\ taken' = [taken EXCEPT ![ch] = Append(@, m)]
      /\ pc' = [pc EXCEPT ![c] = "answering"]
      /\ UNCHANGED <<authed, inbox, lost>>
    BY DEF Poll
<1>4. /\ held'[c] = m /\ pc'[c] = "answering"
      /\ \A d \in Conn \ {c} : held'[d] = held[d] /\ pc'[d] = pc[d]
    BY <1>0, <1>3 DEF TypeOK
<1>5. /\ taken[ch] \in Seq(Payload) /\ taken'[ch] = Append(taken[ch], m)
      /\ \A dh \in Channel \ {ch} : taken'[dh] = taken[dh]
    BY <1>0, <1>1, <1>3 DEF TypeOK
<1>6. ToSet(taken'[ch]) = ToSet(taken[ch]) \union {m}
    BY <1>2, <1>5, OneMore
<1>7. \A dh \in Channel : ToSet(taken[dh]) \subseteq ToSet(taken'[dh])
    BY <1>5, <1>6
<1>8. \A k : k \in Arrivals' <=> k \in Arrivals
    BY <1>3 DEF Arrivals
<1>9. held[c] = None
    BY <1>0, <1>1 DEF Places
<1>10. \A d \in Conn : \A i \in DOMAIN inbox[d] :
           inbox[d][i][1] \in Channel /\ inbox[d][i][2] \in ToSet(taken[inbox[d][i][1]])
    <2>1. ASSUME NEW d \in Conn, NEW i \in DOMAIN inbox[d]
          PROVE  inbox[d][i] \in Channel \X Payload
        <3>1. inbox[d] \in Seq(Channel \X Payload)
            BY <1>0 DEF TypeOK
        <3> QED
            BY <3>1, ElementOfSeq, LenProperties
    <2> QED
        BY <1>0, <2>1 DEF Places
<1>11. \A d \in Conn : held[d] # None => authed[d] \in Channel
    BY <1>0, HoldersHaveChannel
<1> HIDE DEF ch, m
<1>12. Places'
    <2>1. ASSUME NEW d \in Conn, held'[d] # None
          PROVE  /\ pc'[d] = "answering" /\ held'[d] \in ToSet(taken'[authed'[d]])
                 /\ held'[d] \notin Arrivals' /\ held'[d] \notin lost'
                 /\ \A e \in Conn : held'[e] = held'[d] => e = d
        <3>1. CASE d = c
            <4>1. authed'[c] = ch
                BY <1>3 DEF ch
            <4> QED
                BY <1>2, <1>3, <1>4, <1>6, <1>8, <3>1, <4>1
        <3>2. CASE d # c
            <4>1. held'[d] = held[d] /\ held[d] # None /\ pc'[d] = pc[d] /\ authed'[d] = authed[d]
                BY <1>3, <1>4, <2>1, <3>2
            <4>2. /\ pc[d] = "answering" /\ held[d] \in ToSet(taken[authed[d]])
                  /\ held[d] \notin Arrivals /\ held[d] \notin lost
                  /\ \A e \in Conn : held[e] = held[d] => e = d
                BY <1>0, <4>1 DEF Places
            <4> QED
                BY <1>2, <1>3, <1>4, <1>7, <1>8, <1>11, <4>1, <4>2
        <3> QED
            BY <3>1, <3>2
    <2>2. ASSUME NEW d \in Conn, NEW i \in DOMAIN inbox'[d]
          PROVE  /\ inbox'[d][i][2] \in ToSet(taken'[inbox'[d][i][1]]) \ lost'
                 /\ \A e \in Conn : \A j \in DOMAIN inbox'[e] :
                        inbox'[e][j][2] = inbox'[d][i][2] => e = d /\ j = i
        <3>1. /\ inbox[d][i][2] \in ToSet(taken[inbox[d][i][1]]) \ lost
              /\ \A e \in Conn : \A j \in DOMAIN inbox[e] :
                     inbox[e][j][2] = inbox[d][i][2] => e = d /\ j = i
            BY <1>0, <1>3, <2>2 DEF Places
        <3> QED
            BY <1>3, <1>7, <1>10, <2>2, <3>1
    <2>3. \A k \in lost' : \E dh \in Channel : k \in ToSet(taken'[dh])
        BY <1>0, <1>3, <1>7 DEF Places
    <2>4. ASSUME NEW dh \in Channel, NEW k \in ToSet(taken'[dh])
          PROVE  k \in lost' \/ k \in Arrivals' \/ \E d \in Conn : held'[d] = k
        <3>1. CASE k = m
            BY <1>4, <3>1
        <3>2. CASE k # m
            <4>1. k \in ToSet(taken[dh])
                BY <1>5, <1>6, <2>4, <3>2
            <4>2. k \in lost \/ k \in Arrivals \/ \E d \in Conn : held[d] = k
                BY <1>0, <4>1 DEF Places
            <4>3. ASSUME NEW d \in Conn, held[d] = k PROVE held'[d] = k \/ k \in lost \/ k \in Arrivals
                <5>1. CASE d # c
                    BY <1>4, <4>3, <5>1
                <5>2. CASE d = c
                    <6>1. k \in Payload
                        BY <1>0, <4>1, SeqMembers DEF TypeOK
                    <6> QED
                        BY <1>9, <4>3, <5>2, <6>1, NoneAssumption
                <5> QED
                    BY <5>1, <5>2
            <4> QED
                BY <1>3, <1>8, <4>2, <4>3
        <3> QED
            BY <3>1, <3>2
    <2> QED
        BY <2>1, <2>2, <2>3, <2>4 DEF Places
<1>13. Ordered'
    <2>1. \A dh \in Channel : \A y, z : Precedes(taken[dh], y, z) => Precedes(taken'[dh], y, z)
        BY <1>2, <1>5, PrecedesMore
    <2>2. \A y \in ToSet(taken[ch]) : Precedes(taken'[ch], y, m)
        BY <1>2, <1>5, PrecedesMore
    <2>3. ASSUME NEW d \in Conn, NEW i \in DOMAIN inbox[d],
                 held'[d] # None, inbox[d][i][1] = authed[d]
          PROVE  Precedes(taken'[inbox[d][i][1]], inbox[d][i][2], held'[d])
        <3>1. CASE d = c
            <4>1. inbox[d][i][1] = ch
                BY <2>3, <3>1 DEF ch
            <4> QED
                BY <1>4, <1>10, <2>2, <3>1, <4>1
        <3>2. CASE d # c
            <4>1. Precedes(taken[inbox[d][i][1]], inbox[d][i][2], held[d])
                BY <1>0, <1>4, <2>3, <3>2 DEF Ordered
            <4> QED
                BY <1>4, <1>10, <2>1, <3>2, <4>1
        <3> QED
            BY <3>1, <3>2
    <2>4. ASSUME NEW d \in Conn, NEW i \in DOMAIN inbox[d], NEW j \in DOMAIN inbox[d],
                 i < j, inbox[d][i][1] = inbox[d][j][1]
          PROVE  Precedes(taken'[inbox[d][i][1]], inbox[d][i][2], inbox[d][j][2])
        <3>1. Precedes(taken[inbox[d][i][1]], inbox[d][i][2], inbox[d][j][2])
            BY <1>0, <2>4 DEF Ordered
        <3> QED
            BY <1>10, <2>1, <3>1
    <2> QED
        BY <1>3, <2>3, <2>4 DEF Ordered
<1> QED
    BY <1>12, <1>13

\* Answering puts the message in the client's inbox, last of its channel, or
\* loses it with the client.
LEMMA AnswerMessages ==
    ASSUME BrokerInv, MessageInv, NEW c \in Conn, Answer(c)
    PROVE  Places' /\ Ordered'
<1> DEFINE ch == authed[c]  m == held[c]
<1>0. TypeOK /\ SessionInv /\ Places /\ Ordered
    BY DEF BrokerInv, MessageInv
<1>1. pc[c] = "answering" /\ m # None /\ ch \in Channel /\ m \in Payload
    BY <1>0 DEF Answer, TypeOK, SessionInv, OnlyGranted
<1>2. /\ m \in ToSet(taken[ch]) /\ m \notin Arrivals /\ m \notin lost
      /\ \A d \in Conn : held[d] = m => d = c
    BY <1>0, <1>1 DEF Places
<1>3. UNCHANGED <<taken, authed>>
    BY DEF Answer
<1>4. /\ held'[c] = None
      /\ \A d \in Conn \ {c} : held'[d] = held[d] /\ pc'[d] = pc[d]
    BY <1>0 DEF TypeOK, Answer
<1>5. CASE alive[c]
    <2> DEFINE n == Len(inbox[c]) + 1
    <2>1. inbox' = [inbox EXCEPT ![c] = Append(@, <<ch, m>>)] /\ lost' = lost
        BY <1>5 DEF Answer
    <2>2. inbox[c] \in Seq(Channel \X Payload) /\ <<ch, m>> \in Channel \X Payload
        BY <1>0, <1>1 DEF TypeOK
    <2>3. inbox'[c] = Append(inbox[c], <<ch, m>>) /\ \A d \in Conn \ {c} : inbox'[d] = inbox[d]
        BY <1>0, <2>1 DEF TypeOK
    <2>4. /\ DOMAIN inbox[c] = 1 .. Len(inbox[c]) /\ Len(inbox[c]) \in Nat
          /\ DOMAIN inbox'[c] = 1 .. n
          /\ \A i \in DOMAIN inbox[c] : inbox'[c][i] = inbox[c][i]
          /\ inbox'[c][n] = <<ch, m>>
        BY <2>2, <2>3, OneMore
    <2>5. inbox'[c][n][1] = ch /\ inbox'[c][n][2] = m /\ n \in DOMAIN inbox'[c]
        BY <2>4
    <2>6. ASSUME NEW d \in Conn, NEW i \in DOMAIN inbox'[d]
          PROVE  \/ d = c /\ i = n
                 \/ i \in DOMAIN inbox[d] /\ inbox'[d][i] = inbox[d][i]
        BY SMTT(30), <2>3, <2>4, <2>6
    <2>7. ASSUME NEW d \in Conn, NEW i \in DOMAIN inbox[d]
          PROVE  /\ i \in DOMAIN inbox'[d] /\ inbox'[d][i] = inbox[d][i]
                 /\ inbox[d][i][2] # m
                 /\ ~(d = c /\ i = n)
        <3>1. inbox[d][i][2] # m
            BY <1>2, <2>7 DEF Arrivals
        <3>2. i \in DOMAIN inbox'[d] /\ inbox'[d][i] = inbox[d][i] /\ ~(d = c /\ i = n)
            BY <2>3, <2>4, <2>7
        <3> QED
            BY <3>1, <3>2
    <2> HIDE DEF m, ch, n
    <2>8. \A k : k \in Arrivals' <=> (k \in Arrivals \/ k = m)
        <3>1. ASSUME NEW k, k \in Arrivals' PROVE k \in Arrivals \/ k = m
            <4>1. PICK d \in Conn : \E i \in DOMAIN inbox'[d] : inbox'[d][i][2] = k
                BY <3>1 DEF Arrivals
            <4> QED
                BY <2>5, <2>6, <4>1 DEF Arrivals
        <3>2. ASSUME NEW k, k \in Arrivals PROVE k \in Arrivals'
            BY <2>7, <3>2 DEF Arrivals
        <3>3. m \in Arrivals'
            BY <2>5 DEF Arrivals
        <3> QED
            BY <3>1, <3>2, <3>3
    <2>9. Places'
        <3>1. ASSUME NEW d \in Conn, held'[d] # None
              PROVE  /\ pc'[d] = "answering" /\ held'[d] \in ToSet(taken'[authed'[d]])
                     /\ held'[d] \notin Arrivals' /\ held'[d] \notin lost'
                     /\ \A e \in Conn : held'[e] = held'[d] => e = d
            <4>1. d # c /\ held'[d] = held[d] /\ held[d] # None /\ pc'[d] = pc[d] /\ held[d] # m
                BY <1>2, <1>4, <3>1
            <4>2. /\ pc[d] = "answering" /\ held[d] \in ToSet(taken[authed[d]])
                  /\ held[d] \notin Arrivals /\ held[d] \notin lost
                  /\ \A e \in Conn : held[e] = held[d] => e = d
                BY <1>0, <4>1 DEF Places
            <4> QED
                BY <1>3, <1>4, <2>1, <2>8, <3>1, <4>1, <4>2
        <3>2. ASSUME NEW d \in Conn, NEW i \in DOMAIN inbox'[d]
              PROVE  /\ inbox'[d][i][2] \in ToSet(taken'[inbox'[d][i][1]]) \ lost'
                     /\ \A e \in Conn : \A j \in DOMAIN inbox'[e] :
                            inbox'[e][j][2] = inbox'[d][i][2] => e = d /\ j = i
            <4>1. CASE d = c /\ i = n
                BY <1>2, <1>3, <2>1, <2>5, <2>6, <2>7, <4>1
            <4>2. CASE ~(d = c /\ i = n)
                <5>1. i \in DOMAIN inbox[d] /\ inbox'[d][i] = inbox[d][i]
                    BY <2>6, <3>2, <4>2
                <5>2. /\ inbox[d][i][2] \in ToSet(taken[inbox[d][i][1]]) \ lost
                      /\ \A e \in Conn : \A j \in DOMAIN inbox[e] :
                             inbox[e][j][2] = inbox[d][i][2] => e = d /\ j = i
                    BY <1>0, <5>1 DEF Places
                <5>3. inbox[d][i][2] # m
                    BY <2>7, <5>1
                <5> QED
                    BY <1>3, <2>1, <2>5, <2>6, <5>1, <5>2, <5>3
            <4> QED
                BY <4>1, <4>2
        <3>3. \A k \in lost' : \E dh \in Channel : k \in ToSet(taken'[dh])
            BY <1>0, <1>3, <2>1 DEF Places
        <3>4. ASSUME NEW dh \in Channel, NEW k \in ToSet(taken'[dh])
              PROVE  k \in lost' \/ k \in Arrivals' \/ \E d \in Conn : held'[d] = k
            <4>1. k \in lost \/ k \in Arrivals \/ \E d \in Conn : held[d] = k
                BY <1>0, <1>3, <3>4 DEF Places
            <4>2. ASSUME NEW d \in Conn, held[d] = k PROVE held'[d] = k \/ k = m
                BY <1>4, <4>2 DEF m
            <4> QED
                BY <2>1, <2>8, <4>1, <4>2
        <3> QED
            BY <3>1, <3>2, <3>3, <3>4 DEF Places
    <2>10. Ordered'
        <3>1. ASSUME NEW d \in Conn, NEW i \in DOMAIN inbox'[d],
                     held'[d] # None, inbox'[d][i][1] = authed'[d]
              PROVE  Precedes(taken'[inbox'[d][i][1]], inbox'[d][i][2], held'[d])
            <4>1. d # c /\ held'[d] = held[d] /\ inbox'[d] = inbox[d]
                BY <1>4, <2>3, <3>1
            <4> QED
                BY <1>0, <1>3, <3>1, <4>1 DEF Ordered
        <3>2. ASSUME NEW d \in Conn, NEW i \in DOMAIN inbox'[d], NEW j \in DOMAIN inbox'[d],
                     i < j, inbox'[d][i][1] = inbox'[d][j][1]
              PROVE  Precedes(taken'[inbox'[d][i][1]], inbox'[d][i][2], inbox'[d][j][2])
            <4>1. i \in DOMAIN inbox[d] /\ inbox'[d][i] = inbox[d][i]
                BY <2>3, <2>4, <2>6, <3>2 DEF n
            <4>2. CASE d = c /\ j = n
                <5>1. Precedes(taken[inbox[d][i][1]], inbox[d][i][2], held[d])
                    BY <1>0, <1>1, <2>5, <3>2, <4>1, <4>2 DEF Ordered, m, ch
                <5> QED
                    BY <1>3, <2>5, <4>1, <4>2, <5>1 DEF m
            <4>3. CASE ~(d = c /\ j = n)
                <5>1. j \in DOMAIN inbox[d] /\ inbox'[d][j] = inbox[d][j]
                    BY <2>6, <3>2, <4>3
                <5> QED
                    BY <1>0, <1>3, <3>2, <4>1, <5>1 DEF Ordered
            <4> QED
                BY <4>2, <4>3
        <3> QED
            BY <3>1, <3>2 DEF Ordered
    <2> QED
        BY <2>9, <2>10
<1>6. CASE ~alive[c]
    <2>1. lost' = lost \union {m} /\ inbox' = inbox
        BY <1>6 DEF Answer
    <2>2. \A k : k \in Arrivals' <=> k \in Arrivals
        BY <2>1 DEF Arrivals
    <2> HIDE DEF m
    <2>3. Places'
        <3>1. ASSUME NEW d \in Conn, held'[d] # None
              PROVE  /\ pc'[d] = "answering" /\ held'[d] \in ToSet(taken'[authed'[d]])
                     /\ held'[d] \notin Arrivals' /\ held'[d] \notin lost'
                     /\ \A e \in Conn : held'[e] = held'[d] => e = d
            <4>1. d # c /\ held'[d] = held[d] /\ held[d] # None /\ pc'[d] = pc[d] /\ held[d] # m
                BY <1>2, <1>4, <3>1
            <4>2. /\ pc[d] = "answering" /\ held[d] \in ToSet(taken[authed[d]])
                  /\ held[d] \notin Arrivals /\ held[d] \notin lost
                  /\ \A e \in Conn : held[e] = held[d] => e = d
                BY <1>0, <4>1 DEF Places
            <4> QED
                BY <1>3, <1>4, <2>1, <2>2, <3>1, <4>1, <4>2
        <3>2. ASSUME NEW d \in Conn, NEW i \in DOMAIN inbox[d]
              PROVE  /\ inbox[d][i][2] \in ToSet(taken[inbox[d][i][1]]) \ lost'
                     /\ \A e \in Conn : \A j \in DOMAIN inbox[e] :
                            inbox[e][j][2] = inbox[d][i][2] => e = d /\ j = i
            <4>1. inbox[d][i][2] # m
                BY <1>2, <3>2 DEF Arrivals
            <4> QED
                BY <1>0, <2>1, <3>2, <4>1 DEF Places
        <3>3. \A k \in lost' : \E dh \in Channel : k \in ToSet(taken[dh])
            BY <1>0, <1>1, <1>2, <2>1 DEF Places
        <3>4. ASSUME NEW dh \in Channel, NEW k \in ToSet(taken[dh])
              PROVE  k \in lost' \/ k \in Arrivals' \/ \E d \in Conn : held'[d] = k
            <4>1. k \in lost \/ k \in Arrivals \/ \E d \in Conn : held[d] = k
                BY <1>0, <3>4 DEF Places
            <4>2. ASSUME NEW d \in Conn, held[d] = k PROVE held'[d] = k \/ k = m
                BY <1>4, <4>2 DEF m
            <4> QED
                BY <2>1, <2>2, <4>1, <4>2
        <3> QED
            BY <1>3, <2>1, <3>1, <3>2, <3>3, <3>4 DEF Places
    <2>4. Ordered'
        BY <1>0, <1>3, <1>4, <2>1 DEF Ordered
    <2> QED
        BY <2>3, <2>4
<1> QED
    BY <1>5, <1>6

\* Every step keeps track of the messages.
LEMMA NextMessages == BrokerInv /\ MessageInv /\ [Next]_vars => MessageInv'
<1> SUFFICES ASSUME BrokerInv, MessageInv, [Next]_vars PROVE MessageInv'
    OBVIOUS
<1>0. TypeOK /\ SessionInv /\ Distinct /\ Places /\ Ordered
    BY DEF BrokerInv, MessageInv
<1>1. Distinct'
    BY <1>0, NextDistinct
<1>2. \A c \in Conn : held[c] # None => pc[c] = "answering"
    BY <1>0 DEF Places
<1>3. ASSUME NEW c \in Conn, Poll(c) \/ Answer(c) PROVE Places' /\ Ordered'
    BY <1>3, PollMessages, AnswerMessages
<1>4. ASSUME UNCHANGED <<held, taken, inbox, lost>>,
             \A c \in Conn : pc[c] = "answering" => pc'[c] = pc[c] /\ authed'[c] = authed[c]
      PROVE  Places' /\ Ordered'
    BY <1>0, <1>2, <1>4, QuietMessages
<1>5. ASSUME NEW c \in Conn,
             \/ HandleAuth(c) \/ HandleSend(c) \/ HandleRecv(c) \/ RecvTimeout(c) \/ EndThread(c)
             \/ Accept(c) \/ ClientLeaves(c) \/ \E l \in Lines : ClientSends(c, l)
      PROVE  Places' /\ Ordered'
    <2>1. UNCHANGED <<held, taken, inbox, lost>>
        BY <1>5 DEF HandleAuth, HandleSend, HandleRecv, RecvTimeout, EndThread, Accept,
                    ClientLeaves, ClientSends, history
    <2>2. ASSUME NEW d \in Conn, pc[d] = "answering"
          PROVE  pc'[d] = pc[d] /\ authed'[d] = authed[d]
        <3>1. CASE HandleAuth(c)
            BY <1>0, <2>2, <3>1 DEF HandleAuth, Handling, TypeOK
        <3>2. CASE HandleRecv(c) \/ RecvTimeout(c) \/ Accept(c) \/ EndThread(c)
            BY <1>0, <2>2, <3>2 DEF HandleRecv, RecvTimeout, Accept, EndThread, Handling, TypeOK
        <3>3. CASE HandleSend(c) \/ ClientLeaves(c) \/ \E l \in Lines : ClientSends(c, l)
            BY <3>3 DEF HandleSend, ClientLeaves, ClientSends
        <3> QED
            BY <1>5, <3>1, <3>2, <3>3
    <2> QED
        BY <1>4, <2>1, <2>2
<1>6. ASSUME NEW t \in Token, NEW g \in Grants, Grant(t, g) PROVE Places' /\ Ordered'
    BY <1>4, <1>6 DEF Grant
<1>7. ASSUME StopBroker \/ UNCHANGED vars PROVE Places' /\ Ordered'
    <2>1. UNCHANGED <<pc, authed, held, taken, inbox, lost>>
        BY <1>7 DEF StopBroker, history, vars
    <2> QED
        BY <1>4, <2>1
<1>8. Places' /\ Ordered'
    <2>1. CASE \E c \in Conn : \/ Accept(c) \/ ClientLeaves(c) \/ Thread(c)
                               \/ \E l \in Lines : ClientSends(c, l)
        BY <1>3, <1>5, <2>1 DEF Thread
    <2> QED
        BY <1>6, <1>7, <2>1 DEF Next
<1> QED
    BY <1>1, <1>8 DEF MessageInv

\* The places of the messages are known in every reachable state.
LEMMA MessageInvHolds == Spec => [](BrokerInv /\ MessageInv)
<1>1. Init => MessageInv
    BY InitMessages
<1>2. BrokerInv /\ MessageInv /\ [Next]_vars => MessageInv'
    BY NextMessages
<1> QED
    BY <1>1, <1>2, BrokerInvHolds, PTL DEF Spec

-----------------------------------------------------------------------------
\* Clients that share a channel get its messages in the order they were sent,
\* and none of another channel, for any number of clients and messages.
THEOREM MessagesInOrder == Spec => []InOrder
<1>1. ASSUME BrokerInv, MessageInv PROVE InOrder
    <2>0. TypeOK /\ Fifo /\ Places /\ Ordered
        BY <1>1 DEF BrokerInv, MessageInv
    <2>1. ASSUME NEW c \in Conn, NEW i \in DOMAIN inbox[c], NEW j \in DOMAIN inbox[c]
          PROVE  /\ inbox[c][i][2] \in ToSet(taken[inbox[c][i][1]])
                 /\ i < j /\ inbox[c][i][1] = inbox[c][j][1] =>
                        Precedes(sent[inbox[c][i][1]], inbox[c][i][2], inbox[c][j][2])
        <3>1. inbox[c][i][2] \in ToSet(taken[inbox[c][i][1]])
            BY <2>0 DEF Places
        <3>2. ASSUME i < j, inbox[c][i][1] = inbox[c][j][1]
              PROVE  Precedes(sent[inbox[c][i][1]], inbox[c][i][2], inbox[c][j][2])
            <4>1. Precedes(taken[inbox[c][i][1]], inbox[c][i][2], inbox[c][j][2])
                BY <2>0, <3>2 DEF Ordered
            <4>2. inbox[c][i] \in Channel \X Payload
                BY <2>0, ElementOfSeq, LenProperties DEF TypeOK
            <4>3. inbox[c][i][1] \in Channel
                BY <4>2
            <4>4. \A ch \in Channel : /\ taken[ch] \in Seq(Payload) /\ queue[ch] \in Seq(Payload)
                                      /\ sent[ch] = taken[ch] \o queue[ch]
                BY <2>0 DEF TypeOK, Fifo
            <4> DEFINE ch == inbox[c][i][1]
            <4>5. \A y, z : Precedes(taken[ch], y, z) => Precedes(taken[ch] \o queue[ch], y, z)
                BY <4>3, <4>4, Parts
            <4> QED
                BY <4>1, <4>3, <4>4, <4>5
        <3> QED
            BY <3>1, <3>2
    <2> QED
        BY <2>1 DEF InOrder
<1> QED
    BY <1>1, MessageInvHolds, PTL

\* Every message that was enqueued is in one place: in a queue, in the hands of
\* a thread, in one client's inbox, or lost with the client it was taken for.
THEOREM EveryMessageAccounted == Spec => []Accounted
<1>1. ASSUME BrokerInv, MessageInv PROVE Accounted
    <2>0. TypeOK /\ Fifo /\ SessionInv /\ Distinct /\ Places
        BY <1>1 DEF BrokerInv, MessageInv
    <2> SUFFICES ASSUME NEW ch \in Channel, NEW m \in ToSet(sent[ch])
                 PROVE  Cardinality({x \in Channel : m \in ToSet(queue[x])})
                        + Cardinality({c \in Conn : held[c] = m})
                        + Cardinality({x \in UNION {{c} \X DOMAIN inbox[c] : c \in Conn} :
                                          inbox[x[1]][x[2]][2] = m})
                        + Cardinality(lost \intersect {m}) = 1
        BY DEF Accounted
    <2> DEFINE Q == {x \in Channel : m \in ToSet(queue[x])}
               H == {c \in Conn : held[c] = m}
               I == {x \in UNION {{c} \X DOMAIN inbox[c] : c \in Conn} :
                        inbox[x[1]][x[2]][2] = m}
               L == lost \intersect {m}
    <2>1. \A dh \in Channel : /\ ToSet(sent[dh]) = ToSet(taken[dh]) \union ToSet(queue[dh])
                              /\ ToSet(taken[dh]) \intersect ToSet(queue[dh]) = {}
        <3>1. ASSUME NEW bh \in Channel
              PROVE  /\ ToSet(sent[bh]) = ToSet(taken[bh]) \union ToSet(queue[bh])
                     /\ ToSet(taken[bh]) \intersect ToSet(queue[bh]) = {}
            <4>1. /\ taken[bh] \in Seq(Payload) /\ queue[bh] \in Seq(Payload)
                  /\ sent[bh] = taken[bh] \o queue[bh] /\ IsInjective(sent[bh])
                BY <2>0 DEF TypeOK, Fifo, Distinct
            <4> QED
                BY <4>1, Parts
        <3> QED
            BY <3>1
    <2>2. \A dh \in Channel : dh # ch => m \notin ToSet(sent[dh])
        BY <2>0 DEF Distinct
    <2>3. m \in Payload /\ m # None
        BY <2>0, SeqMembers, NoneAssumption DEF TypeOK
    <2>4. \A c \in Conn : \A i \in DOMAIN inbox[c] : inbox[c][i][1] \in Channel
        <3>1. ASSUME NEW c \in Conn, NEW i \in DOMAIN inbox[c] PROVE inbox[c][i] \in Channel \X Payload
            BY <2>0, ElementOfSeq, LenProperties DEF TypeOK
        <3> QED
            BY <3>1
    <2>5. \A c \in Conn : held[c] # None => authed[c] \in Channel
        BY <2>0, HoldersHaveChannel
    <2>6. Cardinality({}) = 0 /\ \A x : Cardinality({x}) = 1
        BY FS_EmptySet, FS_Singleton
    <2>7. CASE m \in ToSet(queue[ch])
        <3>1. \A dh \in Channel : m \notin ToSet(taken[dh])
            BY <2>1, <2>2, <2>7
        <3>2. Q = {ch}
            BY <2>1, <2>2, <2>7
        <3>3. H = {}
            BY <2>0, <2>3, <2>5, <3>1 DEF Places
        <3>4. I = {}
            BY <2>0, <2>4, <3>1 DEF Places
        <3>5. L = {}
            BY <2>0, <3>1 DEF Places
        <3> HIDE DEF Q, H, I, L
        <3>6. Cardinality(Q) + Cardinality(H) + Cardinality(I) + Cardinality(L) = 1
            BY <2>6, <3>2, <3>3, <3>4, <3>5
        <3> QED
            BY <3>6 DEF Q, H, I, L
    <2>8. CASE m \notin ToSet(queue[ch])
        <3>1. m \in ToSet(taken[ch])
            BY <2>1, <2>8
        <3>2. Q = {}
            BY <2>1, <2>2, <2>8
        <3>3. m \in lost \/ m \in Arrivals \/ \E c \in Conn : held[c] = m
            BY <2>0, <3>1 DEF Places
        <3>4. CASE m \in lost
            <4>1. H = {}
                BY <2>0, <2>3, <3>4 DEF Places
            <4>2. I = {}
                BY <2>0, <3>4 DEF Places
            <4>3. L = {m}
                BY <3>4
            <4> HIDE DEF Q, H, I, L
            <4>4. Cardinality(Q) + Cardinality(H) + Cardinality(I) + Cardinality(L) = 1
                <5>1. Cardinality(L) = 1
                    BY <4>3, FS_Singleton
                <5> QED
                    BY <2>6, <3>2, <4>1, <4>2, <5>1
            <4> QED
                BY <4>4 DEF Q, H, I, L
        <3>5. CASE m \in Arrivals
            <4>1. PICK c \in Conn : \E i \in DOMAIN inbox[c] : inbox[c][i][2] = m
                BY <3>5 DEF Arrivals
            <4>2. PICK i \in DOMAIN inbox[c] : inbox[c][i][2] = m
                BY <4>1
            <4>3. m \notin lost
                BY <2>0, <4>2 DEF Places
            <4>4. H = {}
                BY <2>0, <2>3, <3>5 DEF Places
            <4>5. \A d \in Conn : \A j \in DOMAIN inbox[d] : inbox[d][j][2] = m => d = c /\ j = i
                BY <2>0, <4>2 DEF Places
            <4>6. I = {<<c, i>>}
                BY <4>2, <4>5
            <4>7. L = {}
                BY <4>3
            <4> HIDE DEF Q, H, I, L
            <4>8. Cardinality(Q) + Cardinality(H) + Cardinality(I) + Cardinality(L) = 1
                <5>1. Cardinality(I) = 1
                    BY <4>6, FS_Singleton
                <5> QED
                    BY <2>6, <3>2, <4>4, <4>7, <5>1
            <4> QED
                BY <4>8 DEF Q, H, I, L
        <3>6. CASE \E c \in Conn : held[c] = m
            <4>1. PICK c \in Conn : held[c] = m
                BY <3>6
            <4>2. /\ m \notin Arrivals /\ m \notin lost /\ \A d \in Conn : held[d] = m => d = c
                BY <2>0, <2>3, <4>1 DEF Places
            <4>3. H = {c}
                BY <4>1, <4>2
            <4>4. I = {}
                BY <4>2 DEF Arrivals
            <4>5. L = {}
                BY <4>2
            <4> HIDE DEF Q, H, I, L
            <4>6. Cardinality(Q) + Cardinality(H) + Cardinality(I) + Cardinality(L) = 1
                BY <2>6, <3>2, <4>3, <4>4, <4>5
            <4> QED
                BY <4>6 DEF Q, H, I, L
        <3> QED
            BY <3>3, <3>4, <3>5, <3>6
    <2> QED
        BY <2>7, <2>8
<1> QED
    BY <1>1, MessageInvHolds, PTL
================================================================================
