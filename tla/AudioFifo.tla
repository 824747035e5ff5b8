------------------------------ MODULE AudioFifo ------------------------------
(***************************************************************************)
(* What a shared audio ring promises its two ends: a bounded FIFO of       *)
(* frames.  Frames come out in the order they went in, each exactly once,  *)
(* and a reset by the host discards what is queued.  A reset in the midst  *)
(* of a transfer tears the queue: nothing is promised until the next one   *)
(* that disturbs nobody.  AudioRing is shown to implement this.            *)
(***************************************************************************)
EXTENDS Naturals, Sequences

CONSTANTS
  Frame,     \* the audio frames
  Capacity,  \* frames the ring holds
  MaxBatch   \* most frames one transfer moves

VARIABLES
  queue,      \* frames written and not yet read
  delivered,  \* what the latest read handed to its caller, until the next one begins
  torn        \* the promise is void, until the next undisturbed reset

fifoVars == <<queue, delivered, torn>>

Batches == UNION {[1..n -> Frame] : n \in 1..MaxBatch}

FifoInit == queue = <<>> /\ delivered = <<>> /\ torn = FALSE

Put(batch) ==
  /\ ~torn
  /\ Len(queue) + Len(batch) <= Capacity
  /\ queue' = queue \o batch
  /\ UNCHANGED <<delivered, torn>>

Get(n) ==
  /\ ~torn
  /\ n <= Len(queue)
  /\ delivered' = SubSeq(queue, 1, n)
  /\ queue' = SubSeq(queue, n + 1, Len(queue))
  /\ UNCHANGED torn

Forget ==
  /\ delivered' = <<>>
  /\ UNCHANGED <<queue, torn>>

\* A reset discards what is queued; it tears the queue when a transfer is in its way.
Discard(disturbed) ==
  /\ queue' = <<>>
  /\ torn' = disturbed
  /\ UNCHANGED delivered

\* What a read of a torn queue returns is left open.
GetTorn ==
  /\ torn
  /\ UNCHANGED <<queue, torn>>

FifoNext ==
  \/ \E batch \in Batches : Put(batch)
  \/ \E n \in 1..MaxBatch : Get(n)
  \/ Forget
  \/ \E disturbed \in BOOLEAN : Discard(disturbed)
  \/ GetTorn

FifoSpec == FifoInit /\ [][FifoNext]_fifoVars
=============================================================================
