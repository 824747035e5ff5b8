----------------------------- MODULE AudioBroker -----------------------------
(***************************************************************************)
(* The host's audio broker (audio_broker.cpp): the table of streams that   *)
(* Wine processes open over their control connections, the one renderer    *)
(* and the one capturer of the system, the snapshots the audio callbacks   *)
(* read without the lock, and the system's interruptions.                  *)
(*                                                                         *)
(* Every operation runs under mutex_.  An operation whose effects become   *)
(* visible one after the other to a callback, which takes no lock, is two  *)
(* actions: MarkClosed is seen before the new snapshot.  `section' is the  *)
(* operation that holds the mutex in between.                              *)
(***************************************************************************)
EXTENDS Naturals, FiniteSets

CONSTANTS
  Connection,  \* control connections; an id is never used twice
  MaxStream,   \* bound on nextStreamId_
  None,        \* no stream, no connection
  MayStop      \* does anyone call AudioBroker::Stop (nobody in src/ does)

ASSUME BrokerAssumption ==
  /\ MaxStream \in Nat
  /\ None \notin Connection /\ None \notin Nat
  /\ MayStop \in BOOLEAN

StreamId == 1..MaxStream

VARIABLES
  running,          \* running_
  renderer,         \* renderer_: none, playing, or paused by the system
  capturer,         \* capturer_ and capturerRunning_
  nextStreamId,     \* nextStreamId_
  streams,          \* keys of streams_
  stream,           \* the stream objects: owner, direction, state word
  renderSnapshot,   \* renderSnapshot_
  captureSnapshot,  \* captureSnapshot_
  connection,       \* the serving thread of each connection
  section,          \* the operation between MarkClosed and its publication
  mixer,            \* OnWriteData in progress
  recorder,         \* OnReadData in progress
  stopper           \* the thread in Stop, between its two critical sections

vars == <<running, renderer, capturer, nextStreamId, streams, stream, renderSnapshot,
          captureSnapshot, connection, section, mixer, recorder, stopper>>

deviceVars == <<running, renderer, stopper>>
callbackVars == <<mixer, recorder>>
snapshotVars == <<renderSnapshot, captureSnapshot>>

Direction == {"render", "capture"}
NoStream == [owner |-> None, direction |-> "render", state |-> "absent"]
NoSection == [op |-> "none", conn |-> None]
NoCallback == [busy |-> FALSE, todo |-> {}, at |-> None]

Init ==
  /\ running = FALSE /\ renderer = "none" /\ capturer = "none"
  /\ nextStreamId = 1
  /\ streams = {}
  /\ stream = [s \in StreamId |-> NoStream]
  /\ renderSnapshot = {} /\ captureSnapshot = {}
  /\ connection = [c \in Connection |-> "idle"]
  /\ section = NoSection
  /\ mixer = NoCallback /\ recorder = NoCallback
  /\ stopper = [pc |-> "idle", join |-> {}]

Unlocked == section = NoSection

Of(set, direction) == {s \in set : stream[s].direction = direction}
HasStartedCapture(set, objects) ==
  \E s \in set : objects[s].direction = "capture" /\ objects[s].state = "STARTED"
WithState(set, state) ==
  [s \in StreamId |-> IF s \in set THEN [stream[s] EXCEPT !.state = state] ELSE stream[s]]

\* ValidateStreamOwner.  Seeded fault: any connection may command a stream.
AnyoneOwns(c, s) == s \in streams
Owns(c, s) == s \in streams /\ stream[s].owner = c

\* Seeded fault: the capture snapshot keeps the streams it had.
PublishRenderOnly(set) ==
  /\ renderSnapshot' = Of(set, "render")
  /\ UNCHANGED captureSnapshot
PublishSnapshots(set) ==
  /\ renderSnapshot' = Of(set, "render")
  /\ captureSnapshot' = Of(set, "capture")

CapturerAfter(set, objects) ==
  IF capturer = "running" /\ ~HasStartedCapture(set, objects) THEN "idle" ELSE capturer

-----------------------------------------------------------------------------
(***************************************************************************)
(* Starting and stopping the broker.                                       *)
(***************************************************************************)
EnsureStarted ==
  /\ Unlocked /\ ~running
  /\ \E ready \in BOOLEAN :
       /\ renderer # "none" => ready
       /\ running' = ready
       /\ renderer' = IF ready /\ renderer = "none" THEN "playing" ELSE renderer
  /\ UNCHANGED <<capturer, nextStreamId, streams, stream, snapshotVars, connection,
                 section, callbackVars, stopper>>

\* First critical section of Stop: the server is taken, and goes on serving
\* its clients (`join') until it is told to stop.
StopServer ==
  /\ MayStop /\ Unlocked /\ running /\ stopper.pc = "idle"
  /\ running' = FALSE
  /\ stopper' = [pc |-> "stopping", join |-> {c \in Connection : connection[c] \in {"open", "leaving"}}]
  /\ UNCHANGED <<renderer, capturer, nextStreamId, streams, stream, snapshotVars, connection,
                 section, callbackVars>>

\* server->Stop: no more clients from here on.
StopServing ==
  /\ stopper.pc = "stopping"
  /\ stopper' = [stopper EXCEPT !.pc = "joining"]
  /\ UNCHANGED <<running, renderer, capturer, nextStreamId, streams, stream, snapshotVars,
                 connection, section, callbackVars>>

\* server->Stop shuts its connections down one after the other; each goes on
\* with the command it is in, and the threads are then joined.
ShutdownConnection(c) ==
  /\ stopper.pc = "joining" /\ c \in stopper.join /\ connection[c] = "open"
  /\ connection' = [connection EXCEPT ![c] = "leaving"]
  /\ UNCHANGED <<deviceVars, capturer, nextStreamId, streams, stream, snapshotVars, section,
                 callbackVars>>

\* Second critical section of Stop.
StopStreams ==
  /\ Unlocked /\ stopper.pc = "joining"
  /\ \A c \in stopper.join : connection[c] = "gone"
  /\ stream' = WithState(streams, "CLOSED")
  /\ streams' = {}
  /\ section' = [op |-> "stop", conn |-> None]
  /\ UNCHANGED <<running, renderer, capturer, nextStreamId, snapshotVars, connection,
                 callbackVars, stopper>>

StopDevices ==
  /\ section.op = "stop"
  /\ PublishSnapshots(streams)
  /\ capturer' = "none" /\ renderer' = "none"
  /\ section' = NoSection
  /\ stopper' = [pc |-> "idle", join |-> {}]
  /\ UNCHANGED <<running, nextStreamId, streams, stream, connection, callbackVars>>

-----------------------------------------------------------------------------
(***************************************************************************)
(* Control connections and their commands.                                 *)
(***************************************************************************)
\* A server that Stop has taken accepts until it is told to stop.
Connect(c) ==
  /\ connection[c] = "idle"
  /\ connection' = [connection EXCEPT ![c] = "open"]
  /\ \/ running /\ UNCHANGED stopper
     \/ stopper.pc = "stopping" /\ stopper' = [stopper EXCEPT !.join = @ \cup {c}]
  /\ UNCHANGED <<running, renderer, capturer, nextStreamId, streams, stream, snapshotVars,
                 section, callbackVars>>

\* The peer closes, sends a malformed packet, or a reply cannot be sent.
Leave(c) ==
  /\ connection[c] = "open"
  /\ connection' = [connection EXCEPT ![c] = "leaving"]
  /\ UNCHANGED <<deviceVars, capturer, nextStreamId, streams, stream, snapshotVars, section,
                 callbackVars>>

\* Seeded fault: the id counter does not move.
SameStreamId(id) == id
NextStreamId(id) == id + 1

\* OpenStream.  The capturer may be missing or refused, the mapping may fail;
\* a failed mapping has used up its id.
OpenStream(c, direction) ==
  /\ connection[c] = "open" /\ Unlocked /\ running
  /\ nextStreamId \in StreamId
  /\ direction = "render" => renderer # "none"
  /\ capturer' = IF direction = "capture" /\ capturer = "none" THEN "idle" ELSE capturer
  /\ nextStreamId' = NextStreamId(nextStreamId)
  /\ \/ /\ stream' = [stream EXCEPT ![nextStreamId] =
                        [owner |-> c, direction |-> direction, state |-> "STOPPED"]]
        /\ streams' = streams \cup {nextStreamId}
        /\ renderSnapshot' = Of(streams, "render") \cup
                               (IF direction = "render" THEN {nextStreamId} ELSE {})
        /\ captureSnapshot' = Of(streams, "capture") \cup
                               (IF direction = "capture" THEN {nextStreamId} ELSE {})
     \/ UNCHANGED <<streams, stream, snapshotVars>>
  /\ UNCHANGED <<deviceVars, connection, section, callbackVars>>

StartStream(c, s) ==
  /\ connection[c] = "open" /\ Unlocked /\ Owns(c, s)
  /\ \/ /\ stream[s].direction = "capture" /\ capturer = "idle"
        /\ \E starts \in BOOLEAN :
             /\ capturer' = IF starts THEN "running" ELSE "idle"
             /\ stream' = WithState({s}, IF starts THEN "STARTED" ELSE "STOPPED")
     \/ /\ stream[s].direction = "render" \/ capturer # "idle"
        /\ stream' = WithState({s}, "STARTED")
        /\ UNCHANGED capturer
  /\ UNCHANGED <<deviceVars, nextStreamId, streams, snapshotVars, connection, section, callbackVars>>

\* Seeded fault: one stopped recording stops the microphone of all.
StopStreamStopsCapturer(c, s) ==
  /\ connection[c] = "open" /\ Unlocked /\ Owns(c, s)
  /\ stream' = WithState({s}, "STOPPED")
  /\ capturer' = IF stream[s].direction = "capture" /\ capturer = "running" THEN "idle" ELSE capturer
  /\ UNCHANGED <<deviceVars, nextStreamId, streams, snapshotVars, connection, section, callbackVars>>
StopStream(c, s) ==
  /\ connection[c] = "open" /\ Unlocked /\ Owns(c, s)
  /\ stream' = WithState({s}, "STOPPED")
  /\ capturer' = IF stream[s].direction = "capture" THEN CapturerAfter(streams, stream') ELSE capturer
  /\ UNCHANGED <<deviceVars, nextStreamId, streams, snapshotVars, connection, section, callbackVars>>

\* The ring is emptied and the state word falls back to STOPPED; the capturer
\* is flushed, not stopped.
ResetStream(c, s) ==
  /\ connection[c] = "open" /\ Unlocked /\ Owns(c, s)
  /\ stream' = WithState({s}, "STOPPED")
  /\ UNCHANGED <<deviceVars, capturer, nextStreamId, streams, snapshotVars, connection, section,
                 callbackVars>>

CloseStream(c, s) ==
  /\ connection[c] = "open" /\ Unlocked /\ Owns(c, s)
  /\ stream' = WithState({s}, "CLOSED")
  /\ streams' = streams \ {s}
  /\ section' = [op |-> stream[s].direction, conn |-> None]
  /\ UNCHANGED <<deviceVars, capturer, nextStreamId, snapshotVars, connection, callbackVars>>

FinishClose ==
  /\ section.op \in Direction
  /\ PublishSnapshots(streams)
  /\ capturer' = IF section.op = "capture" THEN CapturerAfter(streams, stream) ELSE capturer
  /\ section' = NoSection
  /\ UNCHANGED <<deviceVars, nextStreamId, streams, stream, connection, callbackVars>>

\* CleanupClientStreams, the last thing the serving thread asks of the broker.
OwnedBy(c) == {s \in streams : stream[s].owner = c}

\* Seeded fault: the scan stops at the first stream it closes.
CleanupFirst(c) ==
  /\ connection[c] = "leaving" /\ Unlocked
  /\ \E s \in OwnedBy(c) : stream' = WithState({s}, "CLOSED") /\ streams' = streams \ {s}
  /\ section' = [op |-> "cleanup", conn |-> c]
  /\ UNCHANGED <<deviceVars, capturer, nextStreamId, snapshotVars, connection, callbackVars>>
Cleanup(c) ==
  /\ connection[c] = "leaving" /\ Unlocked
  /\ stream' = WithState(OwnedBy(c), "CLOSED")
  /\ streams' = streams \ OwnedBy(c)
  /\ section' = [op |-> IF OwnedBy(c) = {} THEN "unlock" ELSE "cleanup", conn |-> c]
  /\ UNCHANGED <<deviceVars, capturer, nextStreamId, snapshotVars, connection, callbackVars>>

FinishCleanup ==
  /\ section.op \in {"cleanup", "unlock"}
  /\ IF section.op = "cleanup"
     THEN PublishSnapshots(streams) /\ capturer' = CapturerAfter(streams, stream)
     ELSE UNCHANGED <<snapshotVars, capturer>>
  /\ connection' = [connection EXCEPT ![section.conn] = "gone"]
  /\ section' = NoSection
  /\ UNCHANGED <<deviceVars, nextStreamId, streams, stream, callbackVars>>

-----------------------------------------------------------------------------
(***************************************************************************)
(* The audio callbacks take no lock: they load a snapshot and look at each *)
(* stream's state word before its ring (`at' is the ring being used).      *)
(***************************************************************************)
OnWriteData ==
  /\ renderer = "playing" /\ ~mixer.busy
  /\ mixer' = [busy |-> TRUE, todo |-> renderSnapshot, at |-> None]
  /\ UNCHANGED <<deviceVars, capturer, nextStreamId, streams, stream, snapshotVars, connection,
                 section, recorder>>

VisitedBy(callback, s) ==
  [callback EXCEPT !.todo = @ \ {s}, !.at = IF stream[s].state = "STARTED" THEN s ELSE None]

MixStream ==
  /\ mixer.busy
  /\ IF mixer.todo = {} THEN mixer' = NoCallback
     ELSE \E s \in mixer.todo : mixer' = VisitedBy(mixer, s)
  /\ UNCHANGED <<deviceVars, capturer, nextStreamId, streams, stream, snapshotVars, connection,
                 section, recorder>>

OnReadData ==
  /\ capturer = "running" /\ ~recorder.busy
  /\ recorder' = [busy |-> TRUE, todo |-> captureSnapshot, at |-> None]
  /\ UNCHANGED <<deviceVars, capturer, nextStreamId, streams, stream, snapshotVars, connection,
                 section, mixer>>

DistributeStream ==
  /\ recorder.busy
  /\ IF recorder.todo = {} THEN recorder' = NoCallback
     ELSE \E s \in recorder.todo : recorder' = VisitedBy(recorder, s)
  /\ UNCHANGED <<deviceVars, capturer, nextStreamId, streams, stream, snapshotVars, connection,
                 section, mixer>>

(***************************************************************************)
(* A call or an alarm interrupts the renderer; the system pauses it and    *)
(* later hints RESUME, which OnInterrupt answers by starting it again and  *)
(* does not look whether it started.                                       *)
(***************************************************************************)
SystemPauses ==
  /\ renderer = "playing"
  /\ renderer' = "paused"
  /\ UNCHANGED <<running, capturer, nextStreamId, streams, stream, snapshotVars, connection, section,
                 callbackVars, stopper>>

OnInterrupt ==
  /\ renderer = "paused" /\ Unlocked
  /\ \E starts \in BOOLEAN : renderer' = IF starts THEN "playing" ELSE "paused"
  /\ UNCHANGED <<running, capturer, nextStreamId, streams, stream, snapshotVars, connection, section,
                 callbackVars, stopper>>

-----------------------------------------------------------------------------
Command(c) ==
  \/ \E direction \in Direction : OpenStream(c, direction)
  \/ \E s \in StreamId : StartStream(c, s) \/ StopStream(c, s) \/ ResetStream(c, s) \/ CloseStream(c, s)

Next ==
  \/ EnsureStarted \/ StopServer \/ StopServing \/ StopStreams \/ StopDevices
  \/ \E c \in Connection : Connect(c) \/ Leave(c) \/ ShutdownConnection(c) \/ Command(c) \/ Cleanup(c)
  \/ FinishClose \/ FinishCleanup
  \/ OnWriteData \/ MixStream \/ OnReadData \/ DistributeStream
  \/ SystemPauses \/ OnInterrupt

Spec == Init /\ [][Next]_vars

(***************************************************************************)
(* A thread that holds the mutex releases it, and a serving thread that    *)
(* has left its loop reaches its cleanup.  Clients, the system and the     *)
(* user owe nothing.                                                       *)
(***************************************************************************)
FairSpec ==
  /\ Spec
  /\ WF_vars(FinishClose) /\ WF_vars(FinishCleanup) /\ WF_vars(StopDevices)
  /\ \A c \in Connection : WF_vars(Cleanup(c))

-----------------------------------------------------------------------------
Callback == [busy : BOOLEAN, todo : SUBSET StreamId, at : StreamId \cup {None}]

\* Values stay in range; in particular no stream object is used before it exists.
TypeOK ==
  /\ running \in BOOLEAN
  /\ renderer \in {"none", "playing", "paused"}
  /\ capturer \in {"none", "idle", "running"}
  /\ nextStreamId \in 1..(MaxStream + 1)
  /\ streams \subseteq 1..(nextStreamId - 1)
  /\ stream \in [StreamId -> [owner : Connection \cup {None}, direction : Direction,
                              state : {"absent", "STOPPED", "STARTED", "CLOSED"}]]
  /\ renderSnapshot \subseteq StreamId /\ captureSnapshot \subseteq StreamId
  /\ connection \in [Connection -> {"idle", "open", "leaving", "gone"}]
  /\ section \in [op : {"none", "stop", "cleanup", "unlock"} \cup Direction,
                  conn : Connection \cup {None}]
  /\ mixer \in Callback /\ recorder \in Callback
  /\ stopper \in [pc : {"idle", "stopping", "joining"}, join : SUBSET Connection]

(***************************************************************************)
(* A recording that a client has started is fed: the shared capturer runs  *)
(* while any open capture stream is started, whoever else stops, closes,   *)
(* disconnects or fails to start (StopStream, CloseStream, cleanup).       *)
(***************************************************************************)
StartedCaptureIsFed ==
  Unlocked /\ HasStartedCapture(streams, stream) => capturer = "running"

(***************************************************************************)
(* The microphone runs only for an open capture stream: no order of stops, *)
(* closes and disconnections leaves it running for nobody.                 *)
(***************************************************************************)
MicrophoneHasOpenStream ==
  Unlocked /\ capturer = "running" => Of(streams, "capture") # {}

(***************************************************************************)
(* A broker that has been stopped and not restarted holds no device and no *)
(* stream, although clients come and go between Stop's critical sections.  *)
(***************************************************************************)
StoppedIsQuiet ==
  ~running /\ stopper.pc = "idle" /\ Unlocked =>
    streams = {} /\ capturer = "none" /\ renderer = "none"

\* The three together: the devices are there for the streams, and only for them.
DevicesFollowStreams == StartedCaptureIsFed /\ MicrophoneHasOpenStream /\ StoppedIsQuiet

(***************************************************************************)
(* While nobody holds the mutex, a callback that starts now sees exactly   *)
(* the open streams of its direction, and a callback already running still *)
(* holds only streams that are open or were closed behind its back.        *)
(***************************************************************************)
SnapshotsAreCurrent ==
  /\ Unlocked => renderSnapshot = Of(streams, "render") /\ captureSnapshot = Of(streams, "capture")
  /\ \A s \in mixer.todo \cup recorder.todo : s \in streams \/ stream[s].state = "CLOSED"

(***************************************************************************)
(* A stream in the table belongs to a connection that is still served: no  *)
(* exit path of HandleClient leaves one behind, and a closed stream is not *)
(* in the table.                                                           *)
(***************************************************************************)
NoOrphanStreams ==
  \A s \in streams : /\ connection[stream[s].owner] \in {"open", "leaving"}
                     /\ stream[s].state # "CLOSED"

\* With the types: the table of streams is sound.
StreamsAreSound == TypeOK /\ NoOrphanStreams

(***************************************************************************)
(* A client reaches its own streams only: whatever a connection's command  *)
(* or cleanup changes is that connection's; without Stop, the owner is     *)
(* still served when its stream changes; and a closed stream, which a      *)
(* callback may still hold, never comes back.                              *)
(***************************************************************************)
OnlyOwnerChangesStream ==
  [][\A s \in StreamId : stream'[s] # stream[s] =>
       /\ stream[s].state # "CLOSED"
       /\ \A c \in Connection : Command(c) \/ Cleanup(c) => stream'[s].owner = c
       /\ stopper.pc = "joining" \/ connection[stream'[s].owner] \in {"open", "leaving"}]_vars

\* Whatever a disconnected client left open is closed.
DisconnectClosesStreams ==
  \A c \in Connection :
    connection[c] = "leaving" ~> \A s \in StreamId : stream[s].owner = c => stream[s].state = "CLOSED"
=============================================================================
