------------------------------ MODULE AudioRing ------------------------------
(***************************************************************************)
(* The shared-memory ring of one audio stream (audio_ipc_protocol.h), at   *)
(* the granularity of its atomic loads and stores.  Three threads touch    *)
(* it: the producer (ring_write_frames), the consumer (ring_read_frames)   *)
(* and the thread of the control connection (SetStarted, Reset,            *)
(* MarkClosed).  On a render stream the consumer is the host's audio       *)
(* callback and the producer is the Wine driver; on a capture stream the   *)
(* host's callback produces.  The host's side looks at the state word      *)
(* before it touches the ring, the Wine side need not.                     *)
(*                                                                         *)
(* Indices are the free-running uint64 counters of the code, modulo        *)
(* IndexModulus (2^64 there).  The sequence number and the two diagnostic  *)
(* counters of the header are left out: no branch reads them.              *)
(***************************************************************************)
EXTENDS Integers, Sequences

CONSTANTS
  Frame,         \* the audio frames a producer writes
  Silence,       \* the zeroed frame a fresh mapping holds
  Capacity,      \* capacity_frames, a power of two
  IndexModulus,  \* number of values of an index, 2^64 in the code
  MaxBatch,      \* most frames one call moves
  HostSide       \* the end the host's callback is: "producer" or "consumer"

ASSUME RingAssumption ==
  /\ Capacity \in Nat \ {0}
  /\ IndexModulus \in Nat /\ IndexModulus >= 2 * Capacity
  /\ MaxBatch \in Nat \ {0}
  /\ HostSide \in {"producer", "consumer"}

\* The mask of frame_offset is a residue only when the capacity divides 2^64.
ASSUME CapacityDividesIndex == IndexModulus % Capacity = 0

VARIABLES
  slots,       \* data[], by slot number
  readIndex,   \* read_index
  writeIndex,  \* write_index
  state,       \* the state word
  producer,    \* the thread in ring_write_frames
  consumer,    \* the thread in ring_read_frames
  control,     \* the thread serving the control connection
  delivered,   \* what the latest ring_read_frames returned, until the next one
  torn         \* history: the latest Reset met a transfer that had begun to look at the indices

ringVars == <<slots, readIndex, writeIndex, state>>
vars == <<slots, readIndex, writeIndex, state, producer, consumer, control, delivered, torn>>

Index == 0..(IndexModulus - 1)
Slot == 0..(Capacity - 1)
StreamState == {"STOPPED", "STARTED", "CLOSED"}
Batches == UNION {[1..n -> Frame] : n \in 1..MaxBatch}

(***************************************************************************)
(* Index arithmetic.  Plus and Minus are uint64 addition and subtraction.  *)
(* SlotOf(index, k) is where the k-th frame of a transfer at index lies:   *)
(* the first memcpy runs to the end of data[], the second from its start.  *)
(*                                                                         *)
(* A definition marked "Seeded fault" is a wrong variant of the one below  *)
(* it, kept to show that the checks would notice.                          *)
(***************************************************************************)
Plus(a, n) == IF a + n >= IndexModulus THEN a + n - IndexModulus ELSE a + n
Minus(a, b) == IF a >= b THEN a - b ELSE a - b + IndexModulus

SlotOf(index, k) ==
  LET offset == index % Capacity IN
  IF offset + k < Capacity THEN offset + k ELSE offset + k - Capacity

Least(a, b) == IF a <= b THEN a ELSE b
\* Seeded fault: a full ring looks like an empty one.
FreeFramesFullIsEmpty(r, w) == Capacity - (Minus(w, r) % Capacity)
FreeFrames(r, w) == IF Minus(w, r) >= Capacity THEN 0 ELSE Capacity - Minus(w, r)
AvailableFrames(r, w) == Minus(w, r)

-----------------------------------------------------------------------------
Idle == [pc |-> "idle", batch |-> <<>>, r |-> 0, w |-> 0, n |-> 0, k |-> 0]

Init ==
  /\ slots = [s \in Slot |-> Silence]
  /\ readIndex = 0 /\ writeIndex = 0
  /\ state = "STOPPED"
  /\ producer = Idle
  /\ consumer = Idle
  /\ control = "idle"
  /\ delivered = <<>>
  /\ torn = FALSE

MayTransfer(side) == HostSide = side => state = "STARTED"

(***************************************************************************)
(* Nothing keeps a Reset from a transfer in progress.  The two meet when a *)
(* transfer has loaded an index before the first store of the Reset, or    *)
(* loads the second one between its two stores.  torn remembers that they  *)
(* did, until a Reset begins that meets no transfer.                       *)
(***************************************************************************)
HasLoaded(transfer) == transfer.pc \in {"loadWrite", "copy"}
ResetMeets == torn \/ control = "resetWrite"

(***************************************************************************)
(* winehua_audio_ring_write_frames: load both indices, copy, publish.      *)
(***************************************************************************)
BeginWrite(batch) ==
  /\ producer.pc = "idle"
  /\ MayTransfer("producer")
  /\ producer' = [Idle EXCEPT !.pc = "loadRead", !.batch = batch]
  /\ UNCHANGED <<ringVars, consumer, control, delivered, torn>>

WriteLoadRead ==
  /\ producer.pc = "loadRead"
  /\ producer' = [producer EXCEPT !.pc = "loadWrite", !.r = readIndex]
  /\ UNCHANGED <<ringVars, consumer, control, delivered, torn>>

WriteLoadWrite ==
  /\ producer.pc = "loadWrite"
  /\ LET n == Least(Len(producer.batch), FreeFrames(producer.r, writeIndex)) IN
     producer' = IF n = 0 THEN Idle
                 ELSE [producer EXCEPT !.pc = "copy", !.w = writeIndex, !.n = n]
  /\ torn' = ResetMeets
  /\ UNCHANGED <<ringVars, consumer, control, delivered>>

WriteCopy ==
  /\ producer.pc = "copy" /\ producer.k < producer.n
  /\ slots' = [slots EXCEPT ![SlotOf(producer.w, producer.k)] = producer.batch[producer.k + 1]]
  /\ producer' = [producer EXCEPT !.k = @ + 1]
  /\ UNCHANGED <<readIndex, writeIndex, state, consumer, control, delivered, torn>>

\* Seeded fault: the index is published before the copy has finished.
WritePublishEarly ==
  /\ producer.pc = "copy"
  /\ writeIndex' = Plus(producer.w, producer.n)
  /\ producer' = Idle
  /\ UNCHANGED <<slots, readIndex, state, consumer, control, delivered, torn>>
WritePublish ==
  /\ producer.pc = "copy" /\ producer.k = producer.n
  /\ writeIndex' = Plus(producer.w, producer.n)
  /\ producer' = Idle
  /\ UNCHANGED <<slots, readIndex, state, consumer, control, delivered, torn>>

(***************************************************************************)
(* winehua_audio_ring_read_frames.  The consumer's batch collects dst.     *)
(***************************************************************************)
BeginRead(frames) ==
  /\ consumer.pc = "idle"
  /\ MayTransfer("consumer")
  /\ consumer' = [Idle EXCEPT !.pc = "loadRead", !.n = frames]
  /\ delivered' = <<>>
  /\ UNCHANGED <<ringVars, producer, control, torn>>

ReadLoadRead ==
  /\ consumer.pc = "loadRead"
  /\ consumer' = [consumer EXCEPT !.pc = "loadWrite", !.r = readIndex]
  /\ UNCHANGED <<ringVars, producer, control, delivered, torn>>

ReadLoadWrite ==
  /\ consumer.pc = "loadWrite"
  /\ LET n == Least(consumer.n, AvailableFrames(consumer.r, writeIndex)) IN
     consumer' = IF n = 0 THEN Idle
                 ELSE [consumer EXCEPT !.pc = "copy", !.w = writeIndex, !.n = n]
  /\ torn' = ResetMeets
  /\ UNCHANGED <<ringVars, producer, control, delivered>>

\* A reader that a Reset has torn may take more than a capacity for available: what lies
\* behind data[] is anything.
ReadCopy ==
  /\ consumer.pc = "copy" /\ consumer.k < consumer.n
  /\ \E frame \in LET s == SlotOf(consumer.r, consumer.k) IN
                  IF s \in Slot THEN {slots[s]} ELSE Frame \cup {Silence} :
       consumer' = [consumer EXCEPT !.k = @ + 1, !.batch = Append(@, frame)]
  /\ UNCHANGED <<ringVars, producer, control, delivered, torn>>

\* Seeded fault: read_index is never stored.
ReadPublishForgotten ==
  /\ consumer.pc = "copy" /\ consumer.k = consumer.n
  /\ consumer' = Idle
  /\ delivered' = consumer.batch
  /\ UNCHANGED <<ringVars, producer, control, torn>>
ReadPublish ==
  /\ consumer.pc = "copy" /\ consumer.k = consumer.n
  /\ readIndex' = Plus(consumer.r, consumer.n)
  /\ consumer' = Idle
  /\ delivered' = consumer.batch
  /\ UNCHANGED <<slots, writeIndex, state, producer, control, torn>>

(***************************************************************************)
(* The control thread: AudioStream::SetStarted, MarkClosed and Reset.  A   *)
(* closed stream has left the broker's table and gets no further command.  *)
(* Reset is winehua_audio_ring_reset: one store after the other.           *)
(***************************************************************************)
SetStarted(started) ==
  /\ control = "idle" /\ state # "CLOSED"
  /\ state' = IF started THEN "STARTED" ELSE "STOPPED"
  /\ UNCHANGED <<slots, readIndex, writeIndex, producer, consumer, control, delivered, torn>>

MarkClosed ==
  /\ control = "idle" /\ state # "CLOSED"
  /\ state' = "CLOSED"
  /\ UNCHANGED <<slots, readIndex, writeIndex, producer, consumer, control, delivered, torn>>

ResetStoreRead ==
  /\ control = "idle" /\ state # "CLOSED"
  /\ readIndex' = 0
  /\ control' = "resetWrite"
  /\ torn' = (HasLoaded(producer) \/ HasLoaded(consumer))
  /\ UNCHANGED <<slots, writeIndex, state, producer, consumer, delivered>>

ResetStoreWrite ==
  /\ control = "resetWrite"
  /\ writeIndex' = 0
  /\ control' = "resetState"
  /\ UNCHANGED <<slots, readIndex, state, producer, consumer, delivered, torn>>

ResetStoreState ==
  /\ control = "resetState"
  /\ state' = "STOPPED"
  /\ control' = "idle"
  /\ UNCHANGED <<slots, readIndex, writeIndex, producer, consumer, delivered, torn>>

-----------------------------------------------------------------------------
Write == WriteLoadRead \/ WriteLoadWrite \/ WriteCopy \/ WritePublish
Read == ReadLoadRead \/ ReadLoadWrite \/ ReadCopy \/ ReadPublish
Control ==
  \/ \E started \in BOOLEAN : SetStarted(started)
  \/ MarkClosed
  \/ ResetStoreRead \/ ResetStoreWrite \/ ResetStoreState

Next ==
  \/ \E batch \in Batches : BeginWrite(batch)
  \/ Write
  \/ \E frames \in 1..MaxBatch : BeginRead(frames)
  \/ Read
  \/ Control

Spec == Init /\ [][Next]_vars

(***************************************************************************)
(* The device calls back for as long as it runs, and a copy in progress    *)
(* ends; nothing obliges a client to write, start, stop or reset.          *)
(***************************************************************************)
FairSpec ==
  /\ Spec
  /\ WF_vars(Write) /\ WF_vars(Read)
  /\ WF_vars(\E frames \in 1..MaxBatch : BeginRead(frames))
  /\ WF_vars(ResetStoreWrite \/ ResetStoreState)

-----------------------------------------------------------------------------
Transfer ==
  [pc : {"idle", "loadRead", "loadWrite", "copy"},
   batch : Seq(Frame \cup {Silence}),
   r : Index, w : Index, n : 0..MaxBatch, k : 0..MaxBatch]

\* Values stay in range: indices below the modulus, frames that exist.
TypeOK ==
  /\ slots \in [Slot -> Frame \cup {Silence}]
  /\ readIndex \in Index /\ writeIndex \in Index
  /\ state \in StreamState
  /\ producer \in Transfer /\ consumer \in Transfer
  /\ control \in {"idle", "resetWrite", "resetState"}
  /\ delivered \in Seq(Frame \cup {Silence})
  /\ torn \in BOOLEAN

(***************************************************************************)
(* The writer's index is at most one capacity ahead of the reader's,       *)
(* except between the two stores of a Reset, and after a Reset that met a  *)
(* transfer until the next that meets none.  Both ends compute with stale  *)
(* copies of the other's index and the counters wrap, so neither end can   *)
(* see this locally; a reader behind by more than a capacity would play    *)
(* overwritten frames and the writer would never find room again.          *)
(***************************************************************************)
NeverOverfull ==
  ~torn /\ control # "resetWrite" => Minus(writeIndex, readIndex) <= Capacity

(***************************************************************************)
(* docs/AUDIO_ARCHITECTURE.md gives each index one owner ("producer is     *)
(* only the Wine write end", "consumer is only the host read end") and     *)
(* synchronises them by atomic fields alone.  If that were so, no command  *)
(* a client sends could put the reader ahead of the writer.                *)
(***************************************************************************)
ReaderNeverOvertakes ==
  control = "idle" => Minus(writeIndex, readIndex) <= Capacity

(***************************************************************************)
(* The memcpy of a write and the memcpy of a read that run at the same     *)
(* time touch different slots, unless a Reset has met one of them: the     *)
(* ring needs no lock.                                                     *)
(***************************************************************************)
CopiesDisjoint ==
  ~torn /\ producer.pc = "copy" /\ consumer.pc = "copy" =>
    \A i \in 0..(producer.n - 1), j \in 0..(consumer.n - 1) :
      i >= producer.k /\ j >= consumer.k =>
        SlotOf(producer.w, i) # SlotOf(consumer.r, j)

(***************************************************************************)
(* The frames between the two indices, read off the slots.  A Reset takes  *)
(* effect with its first store; a torn ring holds nothing to rely on.      *)
(***************************************************************************)
Queued ==
  IF torn \/ control = "resetWrite" THEN <<>>
  ELSE [i \in 1..Minus(writeIndex, readIndex) |-> slots[SlotOf(readIndex, i - 1)]]

Fifo == INSTANCE AudioFifo WITH queue <- Queued

(***************************************************************************)
(* The ring implements the bounded FIFO: frames are delivered in order,    *)
(* each once, never torn, never the silence of a fresh mapping.  A Reset   *)
(* that meets a transfer voids that, one that meets none restores it.      *)
(***************************************************************************)
ImplementsFifo == Fifo!FifoSpec

(***************************************************************************)
(* While the stream stays started and no Reset tears the ring, a full ring *)
(* is drained: the client that waits for room is not stuck behind a device *)
(* that keeps calling back.                                                *)
(***************************************************************************)
FullRingDrains ==
  (Len(Queued) = Capacity /\ state = "STARTED") ~>
    (Len(Queued) < Capacity \/ state # "STARTED")
=============================================================================
