-------------------------- MODULE AudioBrokerProofs --------------------------
(***************************************************************************)
(* Proofs about AudioBroker, for every set of connections and any number   *)
(* of streams, with and without calls of Stop.                             *)
(***************************************************************************)
EXTENDS AudioBroker, TLAPS

USE BrokerAssumption

(***************************************************************************)
(* The inductive invariant.  An id not yet given out has no object; what   *)
(* is not in the table was never mapped or is closed.  Between the two     *)
(* halves of an operation the section says what is still owed: the         *)
(* snapshots and, after a capture stream has gone, a look at the capturer. *)
(***************************************************************************)
TableInv ==
  \A s \in StreamId :
    /\ s \in streams => stream[s].owner \in Connection
    /\ s \notin streams => stream[s].state \in {"absent", "CLOSED"}
    /\ s >= nextStreamId => stream[s].state = "absent"

SectionInv ==
  /\ section.op = "none" => section.conn = None
  /\ section.op = "stop" => streams = {} /\ stopper.pc = "joining"
  /\ section.op \in {"cleanup", "unlock"} =>
       /\ section.conn \in Connection /\ connection[section.conn] = "leaving"
       /\ OwnedBy(section.conn) = {}

SnapshotInv ==
  /\ section.op \in {"none", "unlock"} =>
       renderSnapshot = Of(streams, "render") /\ captureSnapshot = Of(streams, "capture")
  /\ \A s \in renderSnapshot \cup captureSnapshot \cup mixer.todo \cup recorder.todo :
       s \in streams \/ stream[s].state = "CLOSED"

DeviceInv ==
  /\ HasStartedCapture(streams, stream) => capturer = "running"
  /\ Of(streams, "capture") # {} => capturer # "none"
  /\ section.op \in {"none", "render", "unlock"} /\ capturer = "running" => Of(streams, "capture") # {}
  /\ ~running /\ stopper.pc = "idle" => streams = {} /\ capturer = "none" /\ renderer = "none"

IInv == StreamsAreSound /\ TableInv /\ SectionInv /\ SnapshotInv /\ DeviceInv

LEMMA InitIInv == Init => IInv
<1> SUFFICES ASSUME Init PROVE IInv
  OBVIOUS
<1>1. NoStream \in [owner : Connection \cup {None}, direction : Direction,
                    state : {"absent", "STOPPED", "STARTED", "CLOSED"}]
  BY DEF NoStream, Direction
<1>2. NoSection \in [op : {"none", "stop", "cleanup", "unlock"} \cup Direction,
                     conn : Connection \cup {None}]
  BY DEF NoSection
<1>3. NoCallback \in Callback
  BY DEF NoCallback, Callback
<1>4. TypeOK
  <2>1. stream \in [StreamId -> [owner : Connection \cup {None}, direction : Direction,
                                state : {"absent", "STOPPED", "STARTED", "CLOSED"}]]
    BY <1>1 DEF Init
  <2>2. connection \in [Connection -> {"idle", "open", "leaving", "gone"}]
    BY DEF Init
  <2>3. nextStreamId \in 1..(MaxStream + 1) /\ streams \subseteq 1..(nextStreamId - 1)
    BY DEF Init
  <2>4. stopper \in [pc : {"idle", "stopping", "joining"}, join : SUBSET Connection]
    BY DEF Init
  <2> QED
    BY <1>2, <1>3, <2>1, <2>2, <2>3, <2>4 DEF Init, TypeOK
<1>5. \A s \in StreamId : stream[s].state = "absent"
  BY DEF Init, NoStream
<1> QED
  BY <1>4, <1>5 DEF Init, IInv, StreamsAreSound, NoOrphanStreams, TableInv, SectionInv, SnapshotInv,
     DeviceInv, Of, HasStartedCapture, NoSection, NoCallback

USE DEF IInv, StreamsAreSound

\* The section is free exactly when it says so.
LEMMA UnlockedMeans ==
  ASSUME IInv
  PROVE  Unlocked <=> section.op = "none"
BY DEF TypeOK, SectionInv, Unlocked, NoSection

LEMMA StreamsExist ==
  ASSUME IInv
  PROVE  /\ streams \subseteq StreamId
         /\ \A s \in streams : stream[s].owner \in Connection
<1>1. nextStreamId \in 1..(MaxStream + 1) /\ streams \subseteq 1..(nextStreamId - 1)
  BY DEF TypeOK
<1>2. streams \subseteq StreamId
  BY <1>1 DEF StreamId
<1> QED
  BY <1>2 DEF TableInv

\* What a change of the state words of streams in the table does.
LEMMA WithStateEffect ==
  ASSUME IInv, NEW S \in SUBSET streams, NEW word \in {"STOPPED", "STARTED", "CLOSED"},
         stream' = WithState(S, word)
  PROVE  /\ stream' \in [StreamId -> [owner : Connection \cup {None}, direction : Direction,
                                      state : {"absent", "STOPPED", "STARTED", "CLOSED"}]]
         /\ \A s \in StreamId : /\ stream'[s].owner = stream[s].owner
                                /\ stream'[s].direction = stream[s].direction
                                /\ s \in S => stream'[s].state = word
                                /\ s \notin S => stream'[s] = stream[s]
<1>1. \A s \in StreamId : [stream[s] EXCEPT !.state = word] \in
        [owner : Connection \cup {None}, direction : Direction,
         state : {"absent", "STOPPED", "STARTED", "CLOSED"}]
  BY DEF TypeOK
<1>2. \A s \in StreamId : stream'[s] = IF s \in S THEN [stream[s] EXCEPT !.state = word] ELSE stream[s]
  BY DEF WithState
<1> QED
  BY <1>1, <1>2 DEF TypeOK, WithState

\* The same for one stream, named.
LEMMA OneWordEffect ==
  ASSUME IInv, NEW s \in streams, NEW word \in {"STOPPED", "STARTED", "CLOSED"},
         stream' = WithState({s}, word)
  PROVE  \A t \in StreamId : /\ stream'[t].owner = stream[t].owner
                             /\ stream'[t].direction = stream[t].direction
                             /\ t = s => stream'[t].state = word
                             /\ t # s => stream'[t] = stream[t]
<1>1. PICK S \in SUBSET streams : S = {s} /\ stream' = WithState(S, word)
  OBVIOUS
<1>2. stream' = WithState(S, word)
  BY <1>1
<1>3. \A t \in StreamId : /\ stream'[t].owner = stream[t].owner
                          /\ stream'[t].direction = stream[t].direction
                          /\ t \in S => stream'[t].state = word
                          /\ t \notin S => stream'[t] = stream[t]
  BY <1>2, WithStateEffect
<1> QED
  BY <1>1, <1>3

LEMMA EnsureStartedStep == IInv /\ EnsureStarted => IInv'
BY DEF EnsureStarted, TypeOK, NoOrphanStreams, TableInv, SectionInv, SnapshotInv, DeviceInv, Of,
   HasStartedCapture, OwnedBy, snapshotVars, callbackVars

LEMMA StopServerStep == IInv /\ (StopServer \/ StopServing) => IInv'
<1> SUFFICES ASSUME IInv, StopServer \/ StopServing PROVE IInv'
  OBVIOUS
<1>1. stopper' \in [pc : {"idle", "stopping", "joining"}, join : SUBSET Connection]
  <2> DEFINE join == {c \in Connection : connection[c] \in {"open", "leaving"}}
  <2>1. CASE StopServer
    <3>1. join \in SUBSET Connection /\ stopper' = [pc |-> "stopping", join |-> join]
      BY <2>1 DEF StopServer
    <3> HIDE DEF join
    <3> QED BY <3>1
  <2>2. CASE StopServing
    BY <2>2 DEF StopServing, TypeOK
  <2> QED
    BY <2>1, <2>2
<1>2. stopper'.pc \in {"stopping", "joining"} /\ (section.op = "stop" => stopper'.pc = "joining")
  BY UnlockedMeans DEF StopServer, StopServing, TypeOK, SectionInv
<1>3. UNCHANGED <<renderer, capturer, nextStreamId, streams, stream, renderSnapshot, captureSnapshot,
                  connection, section, mixer, recorder>> /\ running' \in BOOLEAN
  BY DEF StopServer, StopServing, snapshotVars, callbackVars, TypeOK
<1>4. TypeOK'
  BY <1>1, <1>3 DEF TypeOK
<1>5. NoOrphanStreams' /\ TableInv'
  BY <1>3 DEF NoOrphanStreams, TableInv
<1>6. SectionInv' /\ SnapshotInv'
  BY <1>2, <1>3 DEF SectionInv, SnapshotInv, Of, OwnedBy
<1>7. DeviceInv'
  BY <1>2, <1>3 DEF DeviceInv, HasStartedCapture, Of
<1> QED
  BY <1>4, <1>5, <1>6, <1>7

LEMMA StopStreamsStep == IInv /\ StopStreams => IInv'
<1> SUFFICES ASSUME IInv, StopStreams PROVE IInv'
  OBVIOUS
<1>1. stream' = WithState(streams, "CLOSED") /\ streams \in SUBSET streams
  BY DEF StopStreams
<1>2. section' = [op |-> "stop", conn |-> None] /\ section.op = "none" /\ streams' = {}
      /\ stopper.pc = "joining"
      /\ UNCHANGED <<running, renderer, capturer, nextStreamId, renderSnapshot, captureSnapshot,
                     connection, mixer, recorder, stopper>>
  BY UnlockedMeans DEF StopStreams, snapshotVars, callbackVars
<1>3. TypeOK'
  BY <1>1, <1>2, WithStateEffect DEF TypeOK
<1>4. NoOrphanStreams' /\ SectionInv'
  BY <1>2 DEF NoOrphanStreams, SectionInv
<1>5. TableInv'
  <2>1. \A s \in StreamId : stream'[s].state \in {"absent", "CLOSED"}
                           /\ (s \notin streams => stream'[s] = stream[s])
    BY <1>1, WithStateEffect DEF TableInv
  <2>2. \A s \in StreamId : s >= nextStreamId => s \notin streams
    BY DEF TypeOK, StreamId
  <2> QED
    BY <1>2, <2>1, <2>2 DEF TableInv
<1>6. SnapshotInv'
  <2>1. \A s \in renderSnapshot \cup captureSnapshot \cup mixer.todo \cup recorder.todo :
          stream'[s].state = "CLOSED"
    BY <1>1, WithStateEffect DEF SnapshotInv, TypeOK, Callback
  <2> QED
    BY <1>2, <2>1 DEF SnapshotInv
<1>7. DeviceInv'
  BY <1>2 DEF DeviceInv, HasStartedCapture, Of
<1> QED
  BY <1>3, <1>4, <1>5, <1>6, <1>7

LEMMA StopDevicesStep == IInv /\ StopDevices => IInv'
<1> SUFFICES ASSUME IInv, StopDevices PROVE IInv'
  OBVIOUS
<1>1. section' = NoSection /\ NoSection.op = "none" /\ NoSection.conn = None
      /\ NoSection \in [op : {"none", "stop", "cleanup", "unlock"} \cup Direction,
                         conn : Connection \cup {None}]
  BY DEF StopDevices, NoSection
<1>2. /\ streams = {} /\ capturer' = "none" /\ renderer' = "none"
      /\ renderSnapshot' = {} /\ captureSnapshot' = {}
      /\ stopper' \in [pc : {"idle", "stopping", "joining"}, join : SUBSET Connection]
      /\ UNCHANGED <<running, nextStreamId, streams, stream, connection, mixer, recorder>>
  BY DEF StopDevices, SectionInv, PublishSnapshots, Of, callbackVars
<1>3. TypeOK'
  BY <1>1, <1>2 DEF TypeOK
<1>4. NoOrphanStreams' /\ TableInv' /\ SectionInv'
  BY <1>1, <1>2 DEF NoOrphanStreams, TableInv, SectionInv
<1>5. SnapshotInv'
  BY <1>1, <1>2 DEF SnapshotInv, Of
<1>6. DeviceInv'
  BY <1>1, <1>2 DEF DeviceInv, HasStartedCapture, Of
<1> QED
  BY <1>3, <1>4, <1>5, <1>6

LEMMA ConnectionStep ==
  ASSUME IInv, NEW c \in Connection, Connect(c) \/ Leave(c) \/ ShutdownConnection(c)
  PROVE  IInv'
<1>1. /\ connection' \in [Connection -> {"idle", "open", "leaving", "gone"}]
      /\ \A d \in Connection : connection[d] \in {"leaving", "gone"} => connection'[d] = connection[d]
      /\ \A d \in Connection : connection[d] = "open" => connection'[d] \in {"open", "leaving"}
  BY DEF Connect, Leave, ShutdownConnection, TypeOK
<1>2. UNCHANGED <<running, renderer, capturer, nextStreamId, streams, stream,
                  renderSnapshot, captureSnapshot, section, mixer, recorder>>
  BY DEF Connect, Leave, ShutdownConnection, deviceVars, snapshotVars, callbackVars
<1>3. /\ stopper' \in [pc : {"idle", "stopping", "joining"}, join : SUBSET Connection]
      /\ stopper'.pc = stopper.pc
  BY DEF Connect, Leave, ShutdownConnection, deviceVars, TypeOK
<1>4. TypeOK'
  BY <1>1, <1>2, <1>3 DEF TypeOK
<1>5. NoOrphanStreams' /\ TableInv'
  BY <1>1, <1>2, StreamsExist DEF NoOrphanStreams, TableInv
<1>6. SectionInv'
  BY <1>1, <1>2, <1>3 DEF SectionInv, OwnedBy
<1>7. SnapshotInv' /\ DeviceInv'
  BY <1>2, <1>3 DEF SnapshotInv, DeviceInv, HasStartedCapture, Of
<1> QED
  BY <1>4, <1>5, <1>6, <1>7

LEMMA OpenStreamStep ==
  ASSUME IInv, NEW c \in Connection, NEW direction \in Direction, OpenStream(c, direction)
  PROVE  IInv'
<1> DEFINE s == nextStreamId
<1>1. /\ s \in StreamId /\ s \notin streams /\ stream[s].state = "absent" /\ nextStreamId' = s + 1
      /\ section.op = "none" /\ running /\ connection[c] = "open"
      /\ UNCHANGED <<running, renderer, stopper, connection, section, mixer, recorder>>
  BY UnlockedMeans
     DEF OpenStream, TypeOK, StreamId, NextStreamId, TableInv, deviceVars, callbackVars
<1>2. /\ capturer' \in {"none", "idle", "running"}
      /\ capturer # "none" => capturer' = capturer
      /\ direction = "capture" => capturer' # "none"
      /\ capturer' = "running" => capturer = "running"
  BY DEF OpenStream, TypeOK
<1>3. CASE UNCHANGED <<streams, stream, snapshotVars>>
  BY <1>1, <1>2, <1>3 DEF TypeOK, NoOrphanStreams, TableInv, SectionInv, SnapshotInv, DeviceInv, Of,
     HasStartedCapture, OwnedBy, snapshotVars, StreamId
<1>4. CASE /\ stream' = [stream EXCEPT ![s] =
                           [owner |-> c, direction |-> direction, state |-> "STOPPED"]]
           /\ streams' = streams \cup {s}
           /\ renderSnapshot' = Of(streams, "render") \cup (IF direction = "render" THEN {s} ELSE {})
           /\ captureSnapshot' = Of(streams, "capture") \cup (IF direction = "capture" THEN {s} ELSE {})
  <2>1. /\ stream' \in [StreamId -> [owner : Connection \cup {None}, direction : Direction,
                                     state : {"absent", "STOPPED", "STARTED", "CLOSED"}]]
        /\ stream'[s].owner = c /\ stream'[s].direction = direction /\ stream'[s].state = "STOPPED"
        /\ \A t \in StreamId \ {s} : stream'[t] = stream[t]
    BY <1>1, <1>4 DEF TypeOK
  <2>2. /\ Of(streams, "render")' = renderSnapshot' /\ Of(streams, "capture")' = captureSnapshot'
        /\ Of(streams, "capture") \subseteq Of(streams, "capture")'
    BY <1>1, <1>4, <2>1 DEF Of, Direction, TypeOK, StreamId
  <2>3. HasStartedCapture(streams, stream)' => HasStartedCapture(streams, stream)
    BY <1>1, <1>4, <2>1 DEF HasStartedCapture, TypeOK, StreamId
  <2>4. TypeOK'
    <3>1. nextStreamId' \in 1..(MaxStream + 1) /\ streams' \subseteq 1..(nextStreamId' - 1)
      <4> HIDE DEF s
      <4>1. s \in 1..MaxStream /\ MaxStream \in Nat /\ s = nextStreamId
        BY <1>1 DEF StreamId, s
      <4>2. \A t \in streams : t \in 1..(s - 1)
        BY <4>1 DEF TypeOK
      <4>3. \A t \in streams' : t \in 1..((s + 1) - 1)
        BY <1>4, <4>1, <4>2
      <4> QED
        BY <1>1, <4>1, <4>3
    <3>2. renderSnapshot' \subseteq StreamId /\ captureSnapshot' \subseteq StreamId
      BY <1>1, <1>4, StreamsExist DEF Of
    <3> QED
      BY <1>1, <1>2, <2>1, <3>1, <3>2 DEF TypeOK
  <2>5. NoOrphanStreams' /\ TableInv'
    BY <1>1, <1>4, <2>1 DEF TypeOK, NoOrphanStreams, TableInv, StreamId
  <2>6. SectionInv'
    BY <1>1 DEF SectionInv
  <2>7. SnapshotInv'
    <3>1. \A t \in renderSnapshot' \cup captureSnapshot' : t \in streams'
      BY <1>4 DEF Of
    <3>2. \A t \in mixer.todo \cup recorder.todo : t \in streams' \/ stream'[t].state = "CLOSED"
      BY <1>1, <1>4, <2>1 DEF SnapshotInv, TypeOK, Callback
    <3> QED
      BY <1>1, <2>2, <3>1, <3>2 DEF SnapshotInv
  <2>8. DeviceInv'
    <3>1. direction = "render" => Of(streams, "capture")' = Of(streams, "capture")
      BY <1>4, <2>2
    <3> QED
      BY <1>1, <1>2, <2>2, <2>3, <3>1 DEF DeviceInv, Direction
  <2> QED
    BY <2>4, <2>5, <2>6, <2>7, <2>8
<1> QED
  BY <1>3, <1>4 DEF OpenStream

\* A command that only sets state words leaves the table and its owners alone.
LEMMA WordsKeepTable ==
  ASSUME IInv, NEW S \in SUBSET streams, NEW word \in {"STOPPED", "STARTED"},
         stream' = WithState(S, word), section.op = "none",
         UNCHANGED <<running, renderer, stopper, nextStreamId, streams, renderSnapshot,
                     captureSnapshot, connection, section, mixer, recorder>>,
         capturer' \in {"none", "idle", "running"}
  PROVE  /\ TypeOK' /\ NoOrphanStreams' /\ TableInv' /\ SectionInv' /\ SnapshotInv'
         /\ Of(streams, "capture")' = Of(streams, "capture")
<1>1. S \subseteq StreamId /\ word \in {"STOPPED", "STARTED", "CLOSED"}
  BY StreamsExist
<1>2. TypeOK'
  BY <1>1, WithStateEffect DEF TypeOK
<1>3. \A s \in StreamId : /\ stream'[s].owner = stream[s].owner
                          /\ stream'[s].direction = stream[s].direction
                          /\ s \in S => stream'[s].state = word
                          /\ s \notin S => stream'[s].state = stream[s].state
  BY <1>1, WithStateEffect
<1>4. NoOrphanStreams'
  BY <1>1, <1>3, StreamsExist DEF NoOrphanStreams
<1>5. \A s \in S : s \in StreamId /\ s \in streams /\ ~(s >= nextStreamId)
  BY <1>1 DEF TypeOK, StreamId
<1>6. TableInv'
  BY <1>3, <1>5 DEF TableInv
<1>7. /\ Of(streams, "capture")' = Of(streams, "capture")
      /\ Of(streams, "render")' = Of(streams, "render")
  BY <1>3, StreamsExist DEF Of
<1>8. SectionInv'
  BY DEF SectionInv
<1>9. SnapshotInv'
  <2>1. \A s \in StreamId : s \in streams \/ stream[s].state = "CLOSED" =>
          s \in streams \/ stream'[s].state = "CLOSED"
    BY <1>3
  <2>2. renderSnapshot \cup captureSnapshot \cup mixer.todo \cup recorder.todo \subseteq StreamId
    BY DEF TypeOK, Callback
  <2> QED
    BY <1>7, <2>1, <2>2 DEF SnapshotInv
<1> QED
  BY <1>2, <1>4, <1>6, <1>7, <1>8, <1>9

LEMMA StartStreamStep ==
  ASSUME IInv, NEW c \in Connection, NEW s \in StreamId, StartStream(c, s)
  PROVE  IInv'
<1>1. /\ {s} \in SUBSET streams /\ s \in streams /\ section.op = "none"
      /\ UNCHANGED <<running, renderer, stopper, nextStreamId, streams, renderSnapshot,
                     captureSnapshot, connection, section, mixer, recorder>>
  BY UnlockedMeans DEF StartStream, Owns, deviceVars, snapshotVars, callbackVars
<1>2. CASE /\ stream[s].direction = "capture" /\ capturer = "idle"
           /\ \E starts \in BOOLEAN :
                /\ capturer' = IF starts THEN "running" ELSE "idle"
                /\ stream' = WithState({s}, IF starts THEN "STARTED" ELSE "STOPPED")
  <2>1. PICK starts \in BOOLEAN : /\ capturer' = IF starts THEN "running" ELSE "idle"
                                  /\ stream' = WithState({s}, IF starts THEN "STARTED" ELSE "STOPPED")
    BY <1>2
  <2>2. PICK word \in {"STOPPED", "STARTED"} :
          stream' = WithState({s}, word) /\ (word = "STARTED" => capturer' = "running")
    BY <2>1
  <2>3. /\ TypeOK' /\ NoOrphanStreams' /\ TableInv' /\ SectionInv' /\ SnapshotInv'
        /\ Of(streams, "capture")' = Of(streams, "capture")
    BY <1>1, <2>1, <2>2, WordsKeepTable
  <2>4. \A t \in streams : stream'[t].direction = "capture" /\ stream'[t].state = "STARTED" =>
          capturer' = "running"
    BY <1>1, <1>2, <2>2, OneWordEffect, StreamsExist DEF DeviceInv, HasStartedCapture
  <2>5. Of(streams, "capture") # {}
    BY <1>1, <1>2 DEF Of
  <2>6. DeviceInv'
    BY <1>1, <2>1, <2>3, <2>4, <2>5 DEF DeviceInv, HasStartedCapture
  <2> QED
    BY <2>3, <2>6
<1>3. CASE /\ stream[s].direction = "render" \/ capturer # "idle"
           /\ stream' = WithState({s}, "STARTED")
           /\ UNCHANGED capturer
  <2>1. /\ TypeOK' /\ NoOrphanStreams' /\ TableInv' /\ SectionInv' /\ SnapshotInv'
        /\ Of(streams, "capture")' = Of(streams, "capture")
    BY <1>1, <1>3, WordsKeepTable DEF TypeOK
  <2>2. stream[s].direction = "capture" => capturer = "running"
    BY <1>1, <1>3 DEF DeviceInv, Of, TypeOK
  <2>3. \A t \in streams : stream'[t].direction = "capture" /\ stream'[t].state = "STARTED" =>
          capturer = "running"
    BY <1>1, <1>3, <2>2, OneWordEffect, StreamsExist DEF DeviceInv, HasStartedCapture
  <2>4. DeviceInv'
    BY <1>1, <1>3, <2>1, <2>3 DEF DeviceInv, HasStartedCapture
  <2> QED
    BY <2>1, <2>4
<1> QED
  BY <1>2, <1>3 DEF StartStream

\* Stop and Reset; the capturer is looked at again, or left alone.
LEMMA StopOrResetStep ==
  ASSUME IInv, NEW c \in Connection, NEW s \in StreamId, StopStream(c, s) \/ ResetStream(c, s)
  PROVE  IInv'
<1>1. /\ {s} \in SUBSET streams /\ s \in streams /\ section.op = "none"
      /\ stream' = WithState({s}, "STOPPED")
      /\ UNCHANGED <<running, renderer, stopper, nextStreamId, streams, renderSnapshot,
                     captureSnapshot, connection, section, mixer, recorder>>
  BY UnlockedMeans DEF StopStream, ResetStream, Owns, deviceVars, snapshotVars, callbackVars
<1>2. \/ capturer' = capturer
      \/ capturer = "running" /\ capturer' = "idle" /\ ~HasStartedCapture(streams, stream')
  BY DEF StopStream, ResetStream, CapturerAfter
<1>3. /\ TypeOK' /\ NoOrphanStreams' /\ TableInv' /\ SectionInv' /\ SnapshotInv'
      /\ Of(streams, "capture")' = Of(streams, "capture")
  BY <1>1, <1>2, WordsKeepTable DEF TypeOK
<1>4. HasStartedCapture(streams, stream') => HasStartedCapture(streams, stream)
  <2>1. \A t \in StreamId : /\ stream'[t].direction = stream[t].direction
                            /\ t = s => stream'[t].state = "STOPPED"
                            /\ t # s => stream'[t] = stream[t]
    <3>1. s \in streams /\ stream' = WithState({s}, "STOPPED")
      BY <1>1
    <3> QED
      BY <3>1, OneWordEffect
  <2> QED
    BY <2>1, StreamsExist DEF HasStartedCapture
<1>5. HasStartedCapture(streams, stream)' <=> HasStartedCapture(streams, stream')
  BY <1>1 DEF HasStartedCapture
<1>6. DeviceInv'
  BY <1>1, <1>2, <1>3, <1>4, <1>5 DEF DeviceInv
<1> QED
  BY <1>3, <1>6

\* Streams S leave the table closed, the mutex stays held for `op'.
LEMMA ClosingKeeps ==
  ASSUME IInv, NEW S \in SUBSET streams, stream' = WithState(S, "CLOSED"), streams' = streams \ S,
         section.op = "none",
         UNCHANGED <<running, renderer, stopper, capturer, nextStreamId, renderSnapshot,
                     captureSnapshot, connection, mixer, recorder>>
  PROVE  /\ stream' \in [StreamId -> [owner : Connection \cup {None}, direction : Direction,
                                      state : {"absent", "STOPPED", "STARTED", "CLOSED"}]]
         /\ NoOrphanStreams' /\ TableInv'
         /\ \A s \in renderSnapshot \cup captureSnapshot \cup mixer.todo \cup recorder.todo :
              s \in streams' \/ stream'[s].state = "CLOSED"
         /\ HasStartedCapture(streams, stream)' => HasStartedCapture(streams, stream)
         /\ Of(streams, "capture")' = Of(streams, "capture") \ S
<1>1. /\ S \subseteq StreamId
      /\ stream' \in [StreamId -> [owner : Connection \cup {None}, direction : Direction,
                                   state : {"absent", "STOPPED", "STARTED", "CLOSED"}]]
  BY StreamsExist, WithStateEffect
<1>2. \A s \in StreamId : /\ stream'[s].owner = stream[s].owner
                          /\ stream'[s].direction = stream[s].direction
                          /\ s \in S => stream'[s].state = "CLOSED"
                          /\ s \notin S => stream'[s].state = stream[s].state
  BY WithStateEffect
<1>3. NoOrphanStreams'
  BY <1>1, <1>2, StreamsExist DEF NoOrphanStreams
<1>4. \A s \in S : s \in StreamId /\ s \in streams /\ ~(s >= nextStreamId)
  BY <1>1 DEF TypeOK, StreamId
<1>5. TableInv'
  BY <1>2, <1>4 DEF TableInv
<1>6. renderSnapshot \cup captureSnapshot \cup mixer.todo \cup recorder.todo \subseteq StreamId
  BY DEF TypeOK, Callback
<1>7. \A s \in renderSnapshot \cup captureSnapshot \cup mixer.todo \cup recorder.todo :
        s \in streams' \/ stream'[s].state = "CLOSED"
  BY <1>2, <1>6 DEF SnapshotInv
<1>8. HasStartedCapture(streams, stream)' => HasStartedCapture(streams, stream)
  BY <1>2, StreamsExist DEF HasStartedCapture
<1>9. Of(streams, "capture")' = Of(streams, "capture") \ S
  BY <1>2, StreamsExist DEF Of
<1> QED
  BY <1>1, <1>3, <1>5, <1>7, <1>8, <1>9

LEMMA CloseStreamStep ==
  ASSUME IInv, NEW c \in Connection, NEW s \in StreamId, CloseStream(c, s)
  PROVE  IInv'
<1>1. /\ {s} \in SUBSET streams /\ section.op = "none" /\ section'.op = stream[s].direction
      /\ section'.conn = None /\ stream' = WithState({s}, "CLOSED") /\ streams' = streams \ {s}
      /\ UNCHANGED <<running, renderer, stopper, capturer, nextStreamId, renderSnapshot,
                     captureSnapshot, connection, mixer, recorder>>
  BY UnlockedMeans DEF CloseStream, Owns, deviceVars, snapshotVars, callbackVars
<1>2. stream[s].direction \in Direction
      /\ section' \in [op : {"none", "stop", "cleanup", "unlock"} \cup Direction,
                       conn : Connection \cup {None}]
  BY DEF CloseStream, TypeOK
<1>3. TypeOK'
  BY <1>1, <1>2, ClosingKeeps DEF TypeOK
<1>4. NoOrphanStreams' /\ TableInv'
  BY <1>1, ClosingKeeps
<1>5. SectionInv'
  BY <1>1, <1>2 DEF SectionInv, Direction
<1>6. SnapshotInv'
  BY <1>1, <1>2, ClosingKeeps DEF SnapshotInv, Direction
<1>7. DeviceInv'
  <2>1. stream[s].direction = "render" => Of(streams, "capture")' = Of(streams, "capture")
    BY <1>1, ClosingKeeps DEF Of
  <2> QED
    BY <1>1, <1>2, <2>1, ClosingKeeps DEF DeviceInv, Direction
<1> QED
  BY <1>3, <1>4, <1>5, <1>6, <1>7

LEMMA CleanupStep == ASSUME IInv, NEW c \in Connection, Cleanup(c) PROVE IInv'
<1>1. /\ OwnedBy(c) \in SUBSET streams /\ section.op = "none" /\ connection[c] = "leaving"
      /\ section' = [op |-> IF OwnedBy(c) = {} THEN "unlock" ELSE "cleanup", conn |-> c]
      /\ stream' = WithState(OwnedBy(c), "CLOSED") /\ streams' = streams \ OwnedBy(c)
      /\ UNCHANGED <<running, renderer, stopper, capturer, nextStreamId, renderSnapshot,
                     captureSnapshot, connection, mixer, recorder>>
  BY UnlockedMeans DEF Cleanup, OwnedBy, deviceVars, snapshotVars, callbackVars
<1>2. /\ section'.op \in {"unlock", "cleanup"} /\ section'.conn = c
      /\ section'.op = "unlock" => OwnedBy(c) = {}
      /\ section' \in [op : {"none", "stop", "cleanup", "unlock"} \cup Direction,
                       conn : Connection \cup {None}]
  BY <1>1
<1>3. TypeOK'
  BY <1>1, <1>2, ClosingKeeps DEF TypeOK
<1>4. NoOrphanStreams' /\ TableInv'
  BY <1>1, ClosingKeeps
<1>5. SectionInv'
  <2>1. \A s \in streams' : stream'[s].owner # c
    BY <1>1, WithStateEffect, StreamsExist DEF OwnedBy
  <2> QED
    BY <1>1, <1>2, <2>1 DEF SectionInv, OwnedBy
<1>6. OwnedBy(c) = {} => streams' = streams /\ \A s \in StreamId : stream'[s] = stream[s]
  BY <1>1, WithStateEffect
<1>7. SnapshotInv'
  <2>1. section'.op = "unlock" =>
          /\ Of(streams, "render")' = Of(streams, "render")
          /\ Of(streams, "capture")' = Of(streams, "capture")
    BY <1>2, <1>6, StreamsExist DEF Of
  <2> QED
    BY <1>1, <1>2, <2>1, ClosingKeeps DEF SnapshotInv
<1>8. DeviceInv'
  BY <1>1, <1>2, ClosingKeeps DEF DeviceInv
<1> QED
  BY <1>3, <1>4, <1>5, <1>7, <1>8

-----------------------------------------------------------------------------
\* What the second half of an operation that publishes does.
LEMMA PublishingKeeps ==
  ASSUME IInv, PublishSnapshots(streams), section' = NoSection,
         section.op # "stop",
         capturer' \in {capturer, CapturerAfter(streams, stream)},
         capturer' = CapturerAfter(streams, stream) \/ section.op = "render",
         UNCHANGED <<running, renderer, stopper, nextStreamId, streams, stream, mixer, recorder>>
  PROVE  /\ renderSnapshot' \subseteq StreamId /\ captureSnapshot' \subseteq StreamId
         /\ capturer' \in {"none", "idle", "running"}
         /\ TableInv' /\ SectionInv' /\ SnapshotInv' /\ DeviceInv'
         /\ section' \in [op : {"none", "stop", "cleanup", "unlock"} \cup Direction,
                          conn : Connection \cup {None}]
<1>1. NoSection.op = "none" /\ NoSection.conn = None
      /\ NoSection \in [op : {"none", "stop", "cleanup", "unlock"} \cup Direction,
                        conn : Connection \cup {None}]
  BY DEF NoSection
<1>2. renderSnapshot' = Of(streams, "render") /\ captureSnapshot' = Of(streams, "capture")
      /\ Of(streams, "render") \subseteq streams /\ Of(streams, "capture") \subseteq streams
      /\ Of(streams, "render")' = Of(streams, "render") /\ Of(streams, "capture")' = Of(streams, "capture")
  BY DEF PublishSnapshots, Of
<1>3. capturer' = capturer \/ (capturer = "running" /\ capturer' = "idle")
  BY DEF CapturerAfter
<1>4. capturer' \in {"none", "idle", "running"}
  BY <1>3 DEF TypeOK
<1>5. TableInv' /\ SectionInv'
  BY <1>1 DEF TableInv, SectionInv
<1>6. SnapshotInv'
  BY <1>1, <1>2 DEF SnapshotInv
<1>7. HasStartedCapture(streams, stream)' <=> HasStartedCapture(streams, stream)
  BY DEF HasStartedCapture
<1>8. HasStartedCapture(streams, stream) => capturer' = "running"
  BY DEF CapturerAfter, DeviceInv
<1>9. capturer' = "running" => Of(streams, "capture") # {}
  BY <1>3 DEF CapturerAfter, DeviceInv, HasStartedCapture, Of
<1>10. DeviceInv'
  BY <1>2, <1>3, <1>7, <1>8, <1>9 DEF DeviceInv
<1> QED
  BY <1>1, <1>2, <1>4, <1>5, <1>6, <1>10, StreamsExist

LEMMA FinishCloseStep == IInv /\ FinishClose => IInv'
<1> SUFFICES ASSUME IInv, FinishClose PROVE IInv'
  OBVIOUS
<1>1. /\ PublishSnapshots(streams) /\ section' = NoSection /\ section.op # "stop"
      /\ capturer' \in {capturer, CapturerAfter(streams, stream)}
      /\ capturer' = CapturerAfter(streams, stream) \/ section.op = "render"
      /\ UNCHANGED <<running, renderer, stopper, nextStreamId, streams, stream, mixer, recorder,
                     connection>>
  BY DEF FinishClose, Direction, deviceVars, callbackVars
<1>2. TypeOK'
  BY <1>1, PublishingKeeps DEF TypeOK
<1>3. NoOrphanStreams'
  BY <1>1 DEF NoOrphanStreams
<1> QED
  BY <1>1, <1>2, <1>3, PublishingKeeps

LEMMA FinishCleanupStep == IInv /\ FinishCleanup => IInv'
<1> SUFFICES ASSUME IInv, FinishCleanup PROVE IInv'
  OBVIOUS
<1>1. /\ section' = NoSection /\ section.op \in {"cleanup", "unlock"}
      /\ connection' = [connection EXCEPT ![section.conn] = "gone"]
      /\ UNCHANGED <<running, renderer, stopper, nextStreamId, streams, stream, mixer, recorder>>
  BY DEF FinishCleanup, deviceVars, callbackVars
<1>2. section.conn \in Connection /\ \A s \in streams : stream[s].owner # section.conn
  BY <1>1 DEF SectionInv, OwnedBy
<1>3. connection' \in [Connection -> {"idle", "open", "leaving", "gone"}]
  BY <1>1, <1>2 DEF TypeOK
<1>4. NoOrphanStreams'
  BY <1>1, <1>2, StreamsExist DEF NoOrphanStreams, TypeOK
<1>5. CASE section.op = "cleanup"
  <2>1. PublishSnapshots(streams) /\ capturer' = CapturerAfter(streams, stream)
    BY <1>5 DEF FinishCleanup
  <2>2. /\ renderSnapshot' \subseteq StreamId /\ captureSnapshot' \subseteq StreamId
        /\ capturer' \in {"none", "idle", "running"}
        /\ TableInv' /\ SectionInv' /\ SnapshotInv' /\ DeviceInv'
        /\ section' \in [op : {"none", "stop", "cleanup", "unlock"} \cup Direction,
                         conn : Connection \cup {None}]
    BY <1>1, <1>5, <2>1, PublishingKeeps
  <2>3. TypeOK'
    BY <1>1, <1>3, <2>2 DEF TypeOK
  <2> QED
    BY <1>4, <2>2, <2>3
<1>6. CASE section.op = "unlock"
  <2>1. UNCHANGED <<renderSnapshot, captureSnapshot, capturer>>
    BY <1>6 DEF FinishCleanup, snapshotVars
  <2>2. NoSection.op = "none" /\ NoSection.conn = None
        /\ NoSection \in [op : {"none", "stop", "cleanup", "unlock"} \cup Direction,
                          conn : Connection \cup {None}]
    BY DEF NoSection
  <2>3. TypeOK'
    BY <1>1, <1>3, <2>1, <2>2 DEF TypeOK
  <2>4. TableInv' /\ SectionInv'
    BY <1>1, <2>2 DEF TableInv, SectionInv
  <2>5. SnapshotInv' /\ DeviceInv'
    BY <1>1, <1>6, <2>1, <2>2 DEF SnapshotInv, DeviceInv, Of, HasStartedCapture
  <2> QED
    BY <1>4, <2>3, <2>4, <2>5
<1> QED
  BY <1>1, <1>5, <1>6

-----------------------------------------------------------------------------
LEMMA CallbackStep ==
  ASSUME IInv, OnWriteData \/ MixStream \/ OnReadData \/ DistributeStream
  PROVE  IInv'
<1>1. UNCHANGED <<running, renderer, stopper, capturer, nextStreamId, streams, stream,
                  renderSnapshot, captureSnapshot, connection, section>>
  BY DEF OnWriteData, MixStream, OnReadData, DistributeStream, deviceVars, snapshotVars
<1>2. \A callback \in Callback : \A s \in callback.todo :
        VisitedBy(callback, s) \in Callback /\ VisitedBy(callback, s).todo \subseteq callback.todo
  BY DEF VisitedBy, Callback
<1>3. NoCallback \in Callback /\ NoCallback.todo = {}
  BY DEF NoCallback, Callback
<1>4. \A S \in SUBSET StreamId : [busy |-> TRUE, todo |-> S, at |-> None] \in Callback
  BY DEF Callback
<1>5. /\ mixer' \in Callback /\ recorder' \in Callback
      /\ mixer'.todo \subseteq mixer.todo \cup renderSnapshot
      /\ recorder'.todo \subseteq recorder.todo \cup captureSnapshot
  BY <1>2, <1>3, <1>4 DEF OnWriteData, MixStream, OnReadData, DistributeStream, TypeOK
<1>6. TypeOK'
  BY <1>1, <1>5 DEF TypeOK
<1>7. NoOrphanStreams' /\ TableInv' /\ SectionInv' /\ DeviceInv'
  BY <1>1 DEF NoOrphanStreams, TableInv, SectionInv, DeviceInv, OwnedBy, Of, HasStartedCapture
<1>8. SnapshotInv'
  BY <1>1, <1>5 DEF SnapshotInv, Of
<1> QED
  BY <1>6, <1>7, <1>8

LEMMA InterruptStep ==
  ASSUME IInv, SystemPauses \/ OnInterrupt
  PROVE  IInv'
<1>1. /\ renderer' \in {"none", "playing", "paused"}
      /\ renderer = "none" => renderer' = "none"
      /\ UNCHANGED <<running, stopper, capturer, nextStreamId, streams, stream, renderSnapshot,
                     captureSnapshot, connection, section, mixer, recorder>>
  BY DEF SystemPauses, OnInterrupt, snapshotVars, callbackVars, TypeOK
<1>2. TypeOK'
  BY <1>1 DEF TypeOK
<1>3. NoOrphanStreams' /\ TableInv' /\ SectionInv' /\ SnapshotInv' /\ DeviceInv'
  BY <1>1 DEF NoOrphanStreams, TableInv, SectionInv, SnapshotInv, DeviceInv, OwnedBy, Of,
     HasStartedCapture
<1> QED
  BY <1>2, <1>3

-----------------------------------------------------------------------------
LEMMA NextIInv == IInv /\ [Next]_vars => IInv'
<1> SUFFICES ASSUME IInv, [Next]_vars PROVE IInv'
  OBVIOUS
<1>1. CASE EnsureStarted
  BY <1>1, EnsureStartedStep
<1>2. CASE StopServer \/ StopServing \/ StopStreams \/ StopDevices
  BY <1>2, StopServerStep, StopStreamsStep, StopDevicesStep
<1>3. ASSUME NEW c \in Connection, Connect(c) \/ Leave(c) \/ ShutdownConnection(c) PROVE IInv'
  BY <1>3, ConnectionStep
<1>4. ASSUME NEW c \in Connection, Command(c) PROVE IInv'
  BY <1>4, OpenStreamStep, StartStreamStep, StopOrResetStep, CloseStreamStep DEF Command
<1>5. ASSUME NEW c \in Connection, Cleanup(c) PROVE IInv'
  BY <1>5, CleanupStep
<1>6. CASE FinishClose \/ FinishCleanup
  BY <1>6, FinishCloseStep, FinishCleanupStep
<1>7. CASE OnWriteData \/ MixStream \/ OnReadData \/ DistributeStream
  BY <1>7, CallbackStep
<1>8. CASE SystemPauses \/ OnInterrupt
  BY <1>8, InterruptStep
<1>9. CASE UNCHANGED vars
  BY <1>9 DEF vars, TypeOK, NoOrphanStreams, TableInv, SectionInv, SnapshotInv, DeviceInv, OwnedBy, Of,
     HasStartedCapture
<1> QED
  BY <1>1, <1>2, <1>3, <1>4, <1>5, <1>6, <1>7, <1>8, <1>9 DEF Next

LEMMA IInvImplies == IInv => StreamsAreSound /\ DevicesFollowStreams /\ SnapshotsAreCurrent
<1> SUFFICES ASSUME IInv PROVE DevicesFollowStreams /\ SnapshotsAreCurrent
  OBVIOUS
<1> QED
  BY UnlockedMeans DEF DevicesFollowStreams, StartedCaptureIsFed, MicrophoneHasOpenStream, StoppedIsQuiet,
     SnapshotsAreCurrent, SnapshotInv, DeviceInv

(***************************************************************************)
(* For every number of connections and streams no exit path of             *)
(* HandleClient leaves a stream in the table without a served owner.       *)
(***************************************************************************)
THEOREM StreamsStaySound == Spec => []StreamsAreSound
BY InitIInv, NextIInv, IInvImplies, PTL DEF Spec

(***************************************************************************)
(* Whatever the order of starts, stops, closes and disconnections, the     *)
(* microphone runs for the started recordings and never for nobody, and a  *)
(* stopped broker holds no device.                                         *)
(***************************************************************************)
THEOREM DevicesKeepFollowing == Spec => []DevicesFollowStreams
BY InitIInv, NextIInv, IInvImplies, PTL DEF Spec

(***************************************************************************)
(* A callback that starts while the mutex is free sees exactly the open    *)
(* streams, one that is running only streams that are open or closed.      *)
(***************************************************************************)
THEOREM SnapshotsStayCurrent == Spec => []SnapshotsAreCurrent
BY InitIInv, NextIInv, IInvImplies, PTL DEF Spec

-----------------------------------------------------------------------------
\* The body of OnlyOwnerChangesStream, for one stream.
LEMMA OwnerStep ==
  ASSUME IInv, Next, NEW s \in StreamId, stream'[s] # stream[s]
  PROVE  /\ stream[s].state # "CLOSED"
         /\ \A c \in Connection : Command(c) \/ Cleanup(c) => stream'[s].owner = c
         /\ stopper.pc = "joining" \/ connection[stream'[s].owner] \in {"open", "leaving"}
<1>1. ASSUME NEW c \in Connection, NEW direction \in Direction, OpenStream(c, direction)
      PROVE  /\ stream[s].state # "CLOSED" /\ stream'[s].owner = c /\ connection[c] = "open"
  <2>1. stream' = [stream EXCEPT ![nextStreamId] =
                     [owner |-> c, direction |-> direction, state |-> "STOPPED"]]
    BY <1>1 DEF OpenStream
  <2>2. s = nextStreamId
    BY <2>1 DEF TypeOK
  <2>3. stream[s].state = "absent"
    BY <2>2 DEF TableInv, StreamId
  <2>4. stream'[s].owner = c
    BY <2>1, <2>2 DEF TypeOK
  <2> QED
    BY <1>1, <2>3, <2>4 DEF OpenStream
<1>2. ASSUME NEW c \in Connection, NEW t \in StreamId,
             StartStream(c, t) \/ StopStream(c, t) \/ ResetStream(c, t) \/ CloseStream(c, t)
      PROVE  /\ stream[s].state # "CLOSED" /\ stream'[s].owner = c /\ connection[c] = "open"
  <2>1. /\ connection[c] = "open" /\ t \in streams /\ stream[t].owner = c
        /\ \E word \in {"STOPPED", "STARTED", "CLOSED"} : stream' = WithState({t}, word)
    BY <1>2 DEF StartStream, StopStream, ResetStream, CloseStream, Owns
  <2>2. PICK word \in {"STOPPED", "STARTED", "CLOSED"} : stream' = WithState({t}, word)
    BY <2>1
  <2>3. s = t /\ stream'[s].owner = stream[s].owner
    BY <2>1, <2>2, OneWordEffect
  <2> QED
    BY <2>1, <2>3 DEF NoOrphanStreams
<1>3. ASSUME NEW c \in Connection, Cleanup(c)
      PROVE  /\ stream[s].state # "CLOSED" /\ stream'[s].owner = c /\ connection[c] = "leaving"
  <2>1. /\ connection[c] = "leaving" /\ OwnedBy(c) \in SUBSET streams
        /\ stream' = WithState(OwnedBy(c), "CLOSED")
    BY <1>3 DEF Cleanup, OwnedBy
  <2>2. s \in OwnedBy(c) /\ stream'[s].owner = stream[s].owner
    BY <2>1, WithStateEffect
  <2> QED
    BY <2>1, <2>2 DEF NoOrphanStreams, OwnedBy
<1>4. CASE StopStreams
  <2>1. stopper.pc = "joining" /\ streams \in SUBSET streams /\ stream' = WithState(streams, "CLOSED")
    BY <1>4 DEF StopStreams
  <2>2. s \in streams
    BY <2>1, WithStateEffect
  <2> QED
    BY <1>1, <1>2, <1>3, <2>1, <2>2 DEF NoOrphanStreams, Command
<1>5. CASE \E c \in Connection : Command(c) \/ Cleanup(c)
  BY <1>1, <1>2, <1>3, <1>5 DEF Command
<1>6. ASSUME ~StopStreams, ~\E c \in Connection : Command(c) \/ Cleanup(c) PROVE stream' = stream
  BY <1>6 DEF Next, EnsureStarted, StopServer, StopServing, StopDevices, Connect, Leave,
     ShutdownConnection, FinishClose, FinishCleanup,
     OnWriteData, MixStream, OnReadData, DistributeStream, SystemPauses, OnInterrupt
<1> QED
  BY <1>4, <1>5, <1>6

(***************************************************************************)
(* A connection reaches its own streams only, and a closed stream never    *)
(* comes back while a callback still holds it.                             *)
(***************************************************************************)
THEOREM OnlyOwnersChangeStreams == Spec => OnlyOwnerChangesStream
<1>1. IInv /\ [Next]_vars =>
        [\A s \in StreamId : stream'[s] # stream[s] =>
           /\ stream[s].state # "CLOSED"
           /\ \A c \in Connection : Command(c) \/ Cleanup(c) => stream'[s].owner = c
           /\ stopper.pc = "joining" \/ connection[stream'[s].owner] \in {"open", "leaving"}]_vars
  BY OwnerStep
<1> QED
  BY <1>1, InitIInv, NextIInv, PTL DEF Spec, OnlyOwnerChangesStream
=============================================================================
