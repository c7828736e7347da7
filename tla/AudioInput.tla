------------------------------ MODULE AudioInput ------------------------------
(* Sound and controllers (strawwu-audio): the streams of WasapiBridge and the  *)
(* slots of XInputSubsystem.  A caller is a call of create_stream that          *)
(* returned; what it writes is numbered.  Volume, formats, the WAV files and    *)
(* the counters change no stream and are left out, and so are the error         *)
(* returns, which change nothing.                                               *)
EXTENDS Naturals, Sequences

CONSTANTS
    MaxStreams,     \* bound on the calls of create_stream
    BufferSize,     \* buffer_size, in samples
    MaxSamples,     \* bound on the samples of one caller
    Pad             \* controller slots

ASSUME AudioAssumption == {MaxStreams, BufferSize, MaxSamples} \subseteq Nat

VARIABLES
    ready,      \* initialized
    active,     \* active_streams
    buffers,    \* the samples of a stream, << >> for one that is not in the map
    inMap,      \* the keys of buffers
    callers,    \* history: the streams handed out, in order; alone as long as
                \* no other open caller has the id
    newestFirst,\* history: every release so far was of the newest open stream
    pads        \* controllers and vibrations, by slot

audioVars == <<ready, active, buffers, inMap, callers, newestFirst>>
inputVars == pads

StreamId == 1 .. MaxStreams
Caller == [id : StreamId, open : BOOLEAN, alone : BOOLEAN,
           put : 0 .. MaxSamples, got : 0 .. MaxSamples]
Sample == StreamId \X (1 .. MaxSamples)
Callers == DOMAIN callers
Opened == {c \in Callers : callers[c].open}

AudioTypeOK ==
    /\ ready \in BOOLEAN /\ active \in 0 .. MaxStreams
    /\ buffers \in [StreamId -> Seq(Sample)] /\ inMap \subseteq StreamId
    /\ callers \in Seq(Caller) /\ newestFirst \in BOOLEAN

InputTypeOK == pads \in [Pad -> [connected : BOOLEAN, motors : BOOLEAN]]

AudioInit ==
    /\ ready = FALSE /\ active = 0
    /\ buffers = [s \in StreamId |-> << >>] /\ inMap = {}
    /\ callers = << >> /\ newestFirst = TRUE

InputInit == pads = [p \in Pad |-> [connected |-> FALSE, motors |-> FALSE]]

Initialize == ready' = TRUE /\ UNCHANGED <<active, buffers, inMap, callers, newestFirst>>

\* The open callers of stream s.
Holders(s) == {c \in Opened : callers[c].id = s}

\* The id is the number of streams; what that id held is dropped.
CreateStream ==
    LET s == active + 1
    IN  /\ ready /\ Len(callers) < MaxStreams
        /\ active' = s
        /\ buffers' = [buffers EXCEPT ![s] = << >>]
        /\ inMap' = inMap \union {s}
        /\ callers' = Append(
               [c \in Callers |-> [callers[c] EXCEPT !.alone = @ /\ c \notin Holders(s)]],
               [id |-> s, open |-> TRUE, alone |-> Holders(s) = {}, put |-> 0, got |-> 0])
        /\ UNCHANGED <<ready, newestFirst>>

Newest(c) == c \in Opened /\ \A d \in Opened : d <= c

\* release_stream counts down even for an id that has no stream.
Release(s) ==
    /\ active' = IF active > 0 THEN active - 1 ELSE 0
    /\ buffers' = [buffers EXCEPT ![s] = << >>]
    /\ inMap' = inMap \ {s}
    /\ UNCHANGED ready

ReleaseStream(c) ==
    /\ c \in Opened /\ Release(callers[c].id)
    /\ callers' = [callers EXCEPT ![c].open = FALSE]
    /\ newestFirst' = (newestFirst /\ Newest(c))

ReleaseStray(s) ==
    /\ Holders(s) = {}
    /\ Release(s) /\ newestFirst' = FALSE /\ UNCHANGED callers

SmallerOf(a, b) == IF a < b THEN a ELSE b

\* write_buffer takes what fits and says how much.
WriteBuffer(c, count) ==
    LET s == callers[c].id
        taken == SmallerOf(count, BufferSize - Len(buffers[s]))
    IN  /\ c \in Opened /\ s \in inMap
        /\ callers[c].put + taken <= MaxSamples
        /\ buffers' = [buffers EXCEPT
               ![s] = @ \o [i \in 1 .. taken |-> <<c, callers[c].put + i>>]]
        /\ callers' = [callers EXCEPT ![c].put = @ + taken]
        /\ UNCHANGED <<ready, active, inMap, newestFirst>>

\* Mutation: what was read stays in the ring.
ReadBufferKeeps(c, max) ==
    LET s == callers[c].id
        read == SmallerOf(max, Len(buffers[s]))
    IN  /\ c \in Opened /\ s \in inMap
        /\ callers[c].got + read <= MaxSamples
        /\ callers' = [callers EXCEPT ![c].got = @ + read]
        /\ UNCHANGED <<ready, active, buffers, inMap, newestFirst>>

\* read_buffer drains what it returns.
ReadBuffer(c, max) ==
    LET s == callers[c].id
        read == SmallerOf(max, Len(buffers[s]))
    IN  /\ c \in Opened /\ s \in inMap
        /\ callers[c].got + read <= MaxSamples
        /\ buffers' = [buffers EXCEPT ![s] = SubSeq(@, read + 1, Len(@))]
        /\ callers' = [callers EXCEPT ![c].got = @ + read]
        /\ UNCHANGED <<ready, active, inMap, newestFirst>>

AudioNext ==
    \/ Initialize \/ CreateStream
    \/ \E c \in Callers :
           ReleaseStream(c) \/ \E n \in 1 .. BufferSize : WriteBuffer(c, n) \/ ReadBuffer(c, n)
    \/ \E s \in StreamId : ReleaseStray(s)

AudioSpec == AudioInit /\ [][AudioNext]_audioVars

-----------------------------------------------------------------------------
(* Controllers.                                                               *)

ConnectController(p) == pads' = [pads EXCEPT ![p].connected = TRUE]

DisconnectController(p) ==
    pads' = [pads EXCEPT ![p] = [@ EXCEPT !.connected = FALSE, !.motors = FALSE]]

\* set_state writes the connected flag with the rest, and stops no motor.
SetState(p, connected) ==
    pads' = [pads EXCEPT ![p] = [@ EXCEPT !.connected = connected]]

SetVibration(p, on) == pads[p].connected /\ pads' = [pads EXCEPT ![p].motors = on]

InputNext ==
    \E p \in Pad :
        \/ ConnectController(p) \/ DisconnectController(p)
        \/ \E b \in BOOLEAN : SetState(p, b) \/ SetVibration(p, b)

-----------------------------------------------------------------------------
\* (1) As long as streams are released newest first, every caller is alone in
\* its stream.  (2) Whatever was released in whatever order: a caller that never
\* shared its id while it was open has a ring with what it wrote and did not
\* read, in order; nothing is lost, doubled or heard by another, whatever chunks
\* the callers write and read and whoever shares the other streams.
StreamsApart ==
    /\ newestFirst => \A c \in Opened : callers[c].alone
    /\ \A c \in Opened : callers[c].alone =>
           /\ callers[c].id \in inMap /\ Holders(callers[c].id) = {c}
           /\ buffers[callers[c].id] =
                  [i \in 1 .. callers[c].put - callers[c].got |-> <<c, callers[c].got + i>>]
=============================================================================
