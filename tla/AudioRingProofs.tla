--------------------------- MODULE AudioRingProofs ---------------------------
(***************************************************************************)
(* Proofs about AudioRing, for every capacity, index width, batch size and *)
(* set of frames, with a Reset at any moment.  What a Reset that meets a   *)
(* transfer voids (AudioRingResetRace) holds again from the next one that  *)
(* meets none; that is what the invariants, which speak of rings that are  *)
(* not torn, have to establish anew at each Reset.                         *)
(***************************************************************************)
EXTENDS AudioRing, SequenceTheorems, TLAPS

USE RingAssumption

(***************************************************************************)
(* The inductive invariant.  A transfer works on copies of the indices; it *)
(* is safe because each end's own index cannot move under it, and the      *)
(* other end's only towards more room (or more frames) than it computed.   *)
(***************************************************************************)
TransferInv ==
  /\ producer.pc # "idle" => producer.batch \in Seq(Frame) /\ Len(producer.batch) <= MaxBatch
  /\ producer.pc \in {"loadRead", "loadWrite"} => producer.k = 0
  /\ consumer.pc \in {"loadRead", "loadWrite"} => consumer.k = 0 /\ consumer.batch = <<>>
  /\ producer.pc = "copy" =>
       /\ producer.n >= 1 /\ producer.n <= Capacity
       /\ producer.n <= Len(producer.batch) /\ producer.k <= producer.n
  /\ consumer.pc = "copy" =>
       /\ consumer.n >= 1 /\ consumer.n \in Index /\ consumer.k <= consumer.n
       /\ Len(consumer.batch) = consumer.k

\* Between the stores of a Reset that has met no transfer, nobody copies, and whoever has
\* loaded an index has loaded its zero.
ResetInv ==
  control = "resetWrite" =>
    /\ readIndex = 0
    /\ producer.pc # "copy" /\ consumer.pc # "copy"
    /\ producer.pc = "loadWrite" => producer.r = 0

ProducerInv ==
  control # "resetWrite" =>
    /\ producer.pc \in {"loadWrite", "copy"} =>
         /\ Minus(writeIndex, producer.r) <= Capacity
         /\ Minus(readIndex, producer.r) <= Minus(writeIndex, producer.r)
    /\ producer.pc = "copy" =>
         /\ producer.w = writeIndex
         /\ Minus(writeIndex, producer.r) + producer.n <= Capacity

ConsumerInv ==
  /\ consumer.pc \in {"loadWrite", "copy"} => consumer.r = readIndex
  /\ consumer.pc = "copy" => consumer.n <= Minus(writeIndex, readIndex)

Bounded == control # "resetWrite" => Minus(writeIndex, readIndex) <= Capacity

WholeInv == Bounded /\ ResetInv /\ ProducerInv /\ ConsumerInv

IInv == TypeOK /\ TransferInv /\ (~torn => WholeInv)

-----------------------------------------------------------------------------
(***************************************************************************)
(* Index arithmetic.                                                       *)
(***************************************************************************)
LEMMA MinusType ==
  ASSUME NEW a \in Index, NEW b \in Index
  PROVE  Minus(a, b) \in Index
BY DEF Minus, Index

LEMMA PlusType ==
  ASSUME NEW a \in Index, NEW n \in Nat, n <= Capacity
  PROVE  Plus(a, n) \in Index
BY DEF Plus, Index

LEMMA MinusSelf ==
  ASSUME NEW a \in Index
  PROVE  Minus(a, a) = 0
BY DEF Minus, Index

\* Advancing the leading index by n widens the distance by n.
LEMMA AdvanceLeader ==
  ASSUME NEW w \in Index, NEW r \in Index, NEW n \in Nat, Minus(w, r) + n <= Capacity
  PROVE  Minus(Plus(w, n), r) = Minus(w, r) + n
BY DEF Plus, Minus, Index

\* Advancing the trailing index by n narrows the distance by n.
LEMMA AdvanceTrailer ==
  ASSUME NEW w \in Index, NEW r \in Index, NEW n \in Nat, n <= Minus(w, r), Minus(w, r) <= Capacity
  PROVE  Minus(w, Plus(r, n)) = Minus(w, r) - n
BY DEF Plus, Minus, Index

\* An index between two others splits their distance.
LEMMA MinusSplit ==
  ASSUME NEW w \in Index, NEW m \in Index, NEW r \in Index, Minus(m, r) <= Minus(w, r)
  PROVE  Minus(w, m) = Minus(w, r) - Minus(m, r)
BY DEF Minus, Index

LEMMA BatchType ==
  ASSUME NEW b \in Batches
  PROVE  /\ b \in Seq(Frame) /\ Len(b) <= MaxBatch
         /\ b \in Seq(Frame \cup {Silence})
<1>1. PICK m \in 1..MaxBatch : b \in [1..m -> Frame]
  BY DEF Batches
<1>2. b \in [1..m -> Frame \cup {Silence}] /\ m \in Nat
  BY <1>1
<1> QED BY <1>1, <1>2

LEMMA SlotType ==
  ASSUME NEW i \in Index, NEW k \in Nat, k < Capacity
  PROVE  SlotOf(i, k) \in Slot
<1>1. i % Capacity \in 0..(Capacity - 1)
  BY DEF Index
<1> QED BY <1>1 DEF SlotOf, Slot

\* Euclidean division is unique: a frame number has one slot.
LEMMA DivisionIsUnique ==
  ASSUME NEW c \in Nat \ {0}, NEW p \in Int, NEW q \in Int,
         NEW s \in 0..(c - 1), NEW t \in 0..(c - 1), c * p + s = c * q + t
  PROVE  s = t
<1>1. \A x \in Int : x >= 1 => c * x >= c
  OBVIOUS
<1>2. c * (p - q) = t - s /\ c * (q - p) = s - t
  OBVIOUS
<1>3. ~(p - q >= 1) /\ ~(q - p >= 1)
  BY <1>1, <1>2
<1>4. p = q
  BY <1>3
<1> QED BY <1>4

LEMMA ResidueIs ==
  ASSUME NEW c \in Nat \ {0}, NEW a \in Nat, NEW q \in Int, NEW s \in 0..(c - 1), a = c * q + s
  PROVE  a % c = s
<1>1. a = c * (a \div c) + (a % c) /\ a \div c \in Int /\ a % c \in 0..(c - 1)
  OBVIOUS
<1> QED BY <1>1, DivisionIsUnique

\* The two copies of a transfer address the frames' numbers modulo the capacity.
LEMMA SlotIsResidue ==
  ASSUME NEW a \in Nat, NEW k \in Nat, k < Capacity
  PROVE  SlotOf(a, k) = (a + k) % Capacity
<1>1. a = Capacity * (a \div Capacity) + (a % Capacity) /\ a \div Capacity \in Int
      /\ a % Capacity \in 0..(Capacity - 1)
  OBVIOUS
<1>2. CASE (a % Capacity) + k < Capacity
  <2>1. a + k = Capacity * (a \div Capacity) + ((a % Capacity) + k)
    BY <1>1
  <2>2. (a + k) % Capacity = (a % Capacity) + k
    BY <1>1, <1>2, <2>1, ResidueIs
  <2> QED BY <1>2, <2>2 DEF SlotOf
<1>3. CASE ~((a % Capacity) + k < Capacity)
  <2>1. a + k = Capacity * ((a \div Capacity) + 1) + ((a % Capacity) + k - Capacity)
    BY <1>1
  <2>2. (a % Capacity) + k - Capacity \in 0..(Capacity - 1) /\ (a \div Capacity) + 1 \in Int
        /\ a + k \in Nat /\ Capacity \in Nat \ {0}
    BY <1>1, <1>3
  <2>3. (a + k) % Capacity = (a % Capacity) + k - Capacity
    BY <2>1, <2>2, ResidueIs, Zenon
  <2> QED BY <1>3, <2>3 DEF SlotOf
<1> QED BY <1>2, <1>3

\* The range of the indices is a whole number of capacities.
LEMMA WrapKeepsSlot ==
  ASSUME NEW a \in Nat
  PROVE  (a + IndexModulus) % Capacity = a % Capacity
<1>1. a = Capacity * (a \div Capacity) + (a % Capacity) /\ a \div Capacity \in Int
      /\ a % Capacity \in 0..(Capacity - 1)
  OBVIOUS
<1>2. IndexModulus = Capacity * (IndexModulus \div Capacity) /\ IndexModulus \div Capacity \in Int
  BY CapacityDividesIndex
<1>3. a + IndexModulus = Capacity * ((a \div Capacity) + (IndexModulus \div Capacity)) + (a % Capacity)
  BY <1>1, <1>2
<1>4. (a \div Capacity) + (IndexModulus \div Capacity) \in Int
  BY <1>1, <1>2
<1>5. a + IndexModulus \in Nat /\ Capacity \in Nat \ {0}
  OBVIOUS
<1> QED BY <1>1, <1>3, <1>4, <1>5, ResidueIs, Zenon

\* Counted from either index, a frame has the same slot.
LEMMA SlotFromBehind ==
  ASSUME NEW w \in Index, NEW r \in Index, NEW i \in Nat, Minus(w, r) + i < Capacity
  PROVE  SlotOf(w, i) = SlotOf(r, Minus(w, r) + i)
<1>1. w \in Nat /\ r \in Nat /\ Minus(w, r) \in Nat
  BY DEF Index, Minus
<1>2. SlotOf(w, i) = (w + i) % Capacity
  BY <1>1, SlotIsResidue
<1>3. SlotOf(r, Minus(w, r) + i) = (r + (Minus(w, r) + i)) % Capacity
  BY <1>1, SlotIsResidue
<1>4. CASE w >= r
  <2>1. r + (Minus(w, r) + i) = w + i
    BY <1>1, <1>4 DEF Minus
  <2> QED BY <1>2, <1>3, <2>1
<1>5. CASE w < r
  <2>1. r + (Minus(w, r) + i) = (w + i) + IndexModulus
    BY <1>1, <1>5 DEF Minus
  <2>2. ((w + i) + IndexModulus) % Capacity = (w + i) % Capacity
    <3>1. w + i \in Nat
      BY <1>1
    <3> QED BY <3>1, WrapKeepsSlot, Zenon
  <2> QED BY <1>2, <1>3, <2>1, <2>2
<1> QED BY <1>1, <1>4, <1>5

LEMMA SlotsDiffer ==
  ASSUME NEW r \in Index, NEW j \in 0..(Capacity - 1), NEW k \in 0..(Capacity - 1), j # k
  PROVE  SlotOf(r, j) # SlotOf(r, k)
<1>1. r % Capacity \in 0..(Capacity - 1)
  BY DEF Index
<1> QED BY <1>1 DEF SlotOf

-----------------------------------------------------------------------------
LEMMA InitIInv == Init => IInv
<1> SUFFICES ASSUME Init PROVE IInv
  OBVIOUS
<1>1. 0 \in Index /\ Minus(0, 0) = 0
  BY DEF Index, Minus
<1>2. Idle \in Transfer
  BY <1>1 DEF Idle, Transfer
<1>3. TypeOK
  <2>1. slots \in [Slot -> Frame \cup {Silence}] /\ delivered \in Seq(Frame \cup {Silence})
    BY DEF Init
  <2> QED BY <1>1, <1>2, <2>1 DEF Init, TypeOK, StreamState
<1> QED
  BY <1>1, <1>3 DEF Init, IInv, TransferInv, WholeInv, ResetInv, Bounded, ProducerInv, ConsumerInv, Idle

\* What holds of transfers whether the ring is torn or not: in particular, a writer copies at
\* most a capacity.
LEMMA NextTransferInv == TypeOK /\ TransferInv /\ [Next]_vars => (TypeOK /\ TransferInv)'
<1> SUFFICES ASSUME TypeOK, TransferInv, [Next]_vars PROVE (TypeOK /\ TransferInv)'
  OBVIOUS
<1> USE DEF TypeOK, ringVars
<1>0. 0 \in Index /\ Idle \in Transfer /\ <<>> \in Seq(Frame) /\ <<>> \in Seq(Frame \cup {Silence})
  BY DEF Index, Idle, Transfer
<1>1. ASSUME NEW batch \in Batches, BeginWrite(batch) PROVE (TypeOK /\ TransferInv)'
  <2>1. producer' \in Transfer /\ producer'.pc = "loadRead" /\ producer'.batch = batch
       /\ producer'.k = 0
    BY <1>0, <1>1, BatchType DEF BeginWrite, Transfer, Idle
  <2> QED
    BY <1>1, <2>1, BatchType DEF BeginWrite, TransferInv
<1>2. CASE WriteLoadRead
  <2>1. producer' \in Transfer /\ producer'.pc = "loadWrite" /\ producer'.batch = producer.batch
        /\ producer'.k = producer.k
    BY <1>2 DEF WriteLoadRead, Transfer
  <2> QED
    BY <1>2, <2>1 DEF WriteLoadRead, TransferInv
<1>3. CASE WriteLoadWrite
  <2> DEFINE n == Least(Len(producer.batch), FreeFrames(producer.r, writeIndex))
  <2>1. FreeFrames(producer.r, writeIndex) \in 0..Capacity
    <3>1. Minus(writeIndex, producer.r) \in Index
      BY MinusType DEF Transfer
    <3> QED BY <3>1 DEF FreeFrames, Index
  <2>2. Len(producer.batch) \in Nat /\ Len(producer.batch) <= MaxBatch /\ producer.k = 0
    BY <1>3 DEF WriteLoadWrite, TransferInv
  <2>3. n \in 0..MaxBatch /\ n <= Len(producer.batch) /\ n <= Capacity
    BY <2>1, <2>2 DEF Least
  <2>4. producer' = IF n = 0 THEN Idle ELSE [producer EXCEPT !.pc = "copy", !.w = writeIndex, !.n = n]
    BY <1>3 DEF WriteLoadWrite
  <2>5. torn' \in BOOLEAN
    BY <1>3 DEF WriteLoadWrite, ResetMeets
  <2> HIDE DEF n
  <2>6. CASE n = 0
    <3>1. producer' = Idle /\ producer'.pc = "idle"
      BY <2>4, <2>6 DEF Idle
    <3> QED
      BY <1>0, <1>3, <2>5, <3>1 DEF WriteLoadWrite, TransferInv
  <2>7. CASE n # 0
    <3>1. producer' \in Transfer /\ producer'.pc = "copy" /\ producer'.n = n
          /\ producer'.batch = producer.batch /\ producer'.k = producer.k
      BY <2>3, <2>4, <2>7 DEF Transfer
    <3> QED
      BY <1>3, <2>2, <2>3, <2>5, <2>7, <3>1 DEF WriteLoadWrite, TransferInv
  <2> QED BY <2>6, <2>7
<1>4. CASE WriteCopy
  <2>0. /\ producer.k + 1 \in 0..MaxBatch /\ producer.k + 1 <= producer.n /\ producer.k \in Nat
        /\ producer.k < Capacity /\ producer.w \in Index
    BY <1>4 DEF WriteCopy, Transfer, TransferInv
  <2>1. /\ producer' \in Transfer /\ producer'.k = producer.k + 1
        /\ producer' = [producer EXCEPT !.k = producer.k + 1]
    BY <1>4, <2>0 DEF WriteCopy, Transfer
  <2>2. SlotOf(producer.w, producer.k) \in Slot
    BY <2>0, SlotType
  <2>3. producer.batch[producer.k + 1] \in Frame
    BY <1>4 DEF WriteCopy, TransferInv, Transfer
  <2>4. slots' \in [Slot -> Frame \cup {Silence}]
    BY <1>4, <2>2, <2>3 DEF WriteCopy
  <2> QED
    BY <1>4, <2>0, <2>1, <2>4 DEF WriteCopy, TransferInv, Transfer
<1>5. CASE WritePublish
  <2>1. producer.n \in Nat /\ producer.n <= Capacity /\ producer.w \in Index
    BY <1>5 DEF WritePublish, Transfer, TransferInv
  <2>2. writeIndex' \in Index
    BY <1>5, <2>1, PlusType DEF WritePublish
  <2> QED
    BY <1>0, <1>5, <2>2 DEF WritePublish, TransferInv, Idle
<1>6. ASSUME NEW frames \in 1..MaxBatch, BeginRead(frames) PROVE (TypeOK /\ TransferInv)'
  <2>1. consumer' \in Transfer /\ consumer'.pc = "loadRead" /\ consumer'.k = 0 /\ consumer'.batch = <<>>
    <3>1. consumer' = [Idle EXCEPT !.pc = "loadRead", !.n = frames] /\ frames \in 0..MaxBatch
      BY <1>6 DEF BeginRead
    <3> QED BY <1>0, <3>1 DEF Transfer, Idle
  <2> QED
    BY <1>0, <1>6, <2>1 DEF BeginRead, TransferInv
<1>7. CASE ReadLoadRead
  <2>1. consumer' \in Transfer /\ consumer' = [consumer EXCEPT !.pc = "loadWrite", !.r = readIndex]
    BY <1>7 DEF ReadLoadRead, Transfer
  <2>2. consumer'.k = consumer.k /\ consumer'.batch = consumer.batch /\ consumer'.pc = "loadWrite"
    BY <1>7, <2>1 DEF ReadLoadRead, Transfer
  <2> QED
    BY <1>7, <2>1, <2>2 DEF ReadLoadRead, TransferInv
<1>8. CASE ReadLoadWrite
  <2> DEFINE n == Least(consumer.n, AvailableFrames(consumer.r, writeIndex))
  <2>1. Minus(writeIndex, consumer.r) \in Index
    BY MinusType DEF Transfer
  <2>2. n \in 0..MaxBatch /\ n \in Index
    BY <2>1 DEF Least, AvailableFrames, Transfer, Index
  <2>3. consumer' = IF n = 0 THEN Idle ELSE [consumer EXCEPT !.pc = "copy", !.w = writeIndex, !.n = n]
    BY <1>8 DEF ReadLoadWrite
  <2>4. torn' \in BOOLEAN /\ consumer.k = 0 /\ consumer.batch = <<>>
    BY <1>8 DEF ReadLoadWrite, ResetMeets, TransferInv
  <2> HIDE DEF n
  <2>5. CASE n = 0
    <3>1. consumer' = Idle /\ consumer'.pc = "idle"
      BY <2>3, <2>5 DEF Idle
    <3> QED
      BY <1>0, <1>8, <2>4, <3>1 DEF ReadLoadWrite, TransferInv
  <2>6. CASE n # 0
    <3>1. consumer' \in Transfer /\ consumer'.pc = "copy" /\ consumer'.n = n
          /\ consumer'.batch = consumer.batch /\ consumer'.k = consumer.k
      BY <2>2, <2>3, <2>6 DEF Transfer
    <3> QED
      BY <1>8, <2>2, <2>4, <2>6, <3>1 DEF ReadLoadWrite, TransferInv
  <2> QED BY <2>5, <2>6
<1>9. CASE ReadCopy
  <2>1. PICK frame \in Frame \cup {Silence} :
          consumer' = [consumer EXCEPT !.k = consumer.k + 1, !.batch = Append(consumer.batch, frame)]
    <3> DEFINE spot == SlotOf(consumer.r, consumer.k)
    <3>1. CASE spot \in Slot
      <4>1. slots[spot] \in Frame \cup {Silence}
        BY <3>1
      <4> HIDE DEF spot
      <4> QED BY <1>9, <3>1, <4>1 DEF ReadCopy, spot
    <3>2. CASE spot \notin Slot
      BY <1>9, <3>2 DEF ReadCopy
    <3> QED BY <3>1, <3>2
  <2>2. /\ consumer.k \in Nat /\ consumer.n \in Nat /\ consumer.k + 1 <= consumer.n
        /\ consumer.k + 1 \in 0..MaxBatch
        /\ consumer.batch \in Seq(Frame \cup {Silence}) /\ Len(consumer.batch) = consumer.k
    BY <1>9 DEF ReadCopy, Transfer, TransferInv
  <2> DEFINE longer == Append(consumer.batch, frame)
  <2>3. longer \in Seq(Frame \cup {Silence}) /\ Len(longer) = consumer.k + 1
    BY <2>2
  <2> HIDE DEF longer
  <2>4. consumer' \in Transfer /\ consumer'.k = consumer.k + 1 /\ consumer'.pc = "copy"
        /\ consumer'.n = consumer.n /\ consumer'.batch = longer
    BY <1>9, <2>1, <2>2, <2>3 DEF ReadCopy, Transfer, longer
  <2> QED
    BY <1>9, <2>2, <2>3, <2>4 DEF ReadCopy, TransferInv
<1>10. CASE ReadPublish
  <2>1. consumer.r \in Index /\ consumer.n \in Index /\ consumer.batch \in Seq(Frame \cup {Silence})
    BY <1>10 DEF ReadPublish, Transfer, TransferInv
  <2>2. Plus(consumer.r, consumer.n) \in Index
    BY <2>1 DEF Plus, Index
  <2>3. readIndex' \in Index
    BY <1>10, <2>2 DEF ReadPublish
  <2> QED
    BY <1>0, <1>10, <2>1, <2>3 DEF ReadPublish, TransferInv, Idle
<1>11. ASSUME NEW started \in BOOLEAN, SetStarted(started) PROVE (TypeOK /\ TransferInv)'
  BY <1>11 DEF SetStarted, StreamState, TransferInv
<1>12. CASE MarkClosed
  BY <1>12 DEF MarkClosed, StreamState, TransferInv
<1>13. CASE ResetStoreRead
  BY <1>0, <1>13 DEF ResetStoreRead, TransferInv, HasLoaded
<1>14. CASE ResetStoreWrite
  BY <1>0, <1>14 DEF ResetStoreWrite, TransferInv
<1>15. CASE ResetStoreState
  BY <1>15 DEF ResetStoreState, StreamState, TransferInv
<1>16. CASE UNCHANGED vars
  BY <1>16 DEF vars, TransferInv
<1> QED
  BY <1>1, <1>2, <1>3, <1>4, <1>5, <1>6, <1>7, <1>8, <1>9, <1>10, <1>11, <1>12, <1>13, <1>14,
     <1>15, <1>16 DEF Next, Write, Read, Control

(***************************************************************************)
(* A ring that is whole after a step was whole before, or the step begins  *)
(* a Reset that meets no transfer.                                         *)
(***************************************************************************)
LEMMA MendedByReset ==
  ASSUME TypeOK, [Next]_vars, torn, ~torn'
  PROVE  ResetStoreRead
BY DEF Next, Write, Read, Control, BeginWrite, WriteLoadRead, WriteLoadWrite, WriteCopy, WritePublish,
   BeginRead, ReadLoadRead, ReadLoadWrite, ReadCopy, ReadPublish, SetStarted, MarkClosed,
   ResetStoreWrite, ResetStoreState, ResetMeets, vars

LEMMA ResetStartsWhole ==
  ASSUME TypeOK, TransferInv, ResetStoreRead, ~torn'
  PROVE  WholeInv'
BY DEF ResetStoreRead, HasLoaded, TypeOK, Transfer, WholeInv, Bounded, ResetInv, ProducerInv, ConsumerInv

LEMMA NextWholeInv ==
  ASSUME TypeOK, TransferInv, WholeInv, [Next]_vars, ~torn, ~torn'
  PROVE  WholeInv'
<1> USE DEF TypeOK, ringVars
<1>1. ASSUME NEW batch \in Batches, BeginWrite(batch) PROVE WholeInv'
  <2>1. producer'.pc = "loadRead"
    BY <1>1 DEF BeginWrite, Idle
  <2> QED
    BY <1>1, <2>1 DEF BeginWrite, WholeInv, Bounded, ResetInv, ProducerInv, ConsumerInv, Minus
<1>2. CASE WriteLoadRead
  <2>1. producer'.pc = "loadWrite" /\ producer'.r = readIndex
    BY <1>2 DEF WriteLoadRead, Transfer
  <2>2. Minus(readIndex, readIndex) = 0 /\ Minus(writeIndex, readIndex) \in Index
    BY MinusSelf, MinusType
  <2> QED
    BY <1>2, <2>1, <2>2 DEF WriteLoadRead, WholeInv, Bounded, ResetInv, ProducerInv, ConsumerInv,
       Minus, Index
<1>3. CASE WriteLoadWrite
  <2> DEFINE n == Least(Len(producer.batch), FreeFrames(producer.r, writeIndex))
             d == Minus(writeIndex, producer.r)
             free == FreeFrames(producer.r, writeIndex)
  <2>0. control # "resetWrite"
    BY <1>3 DEF WriteLoadWrite, ResetMeets
  <2>1. d \in Nat /\ d <= Capacity
    <3>1. d \in Index
      BY MinusType DEF Transfer
    <3>2. d <= Capacity
      BY <1>3, <2>0 DEF WriteLoadWrite, WholeInv, ProducerInv
    <3> QED BY <3>1, <3>2 DEF Index
  <2>2. Len(producer.batch) \in Nat
    BY <1>3 DEF WriteLoadWrite, TransferInv
  <2>3. n \in Nat /\ d + n <= Capacity
    <3>1. free \in Nat /\ d + free <= Capacity
      BY <2>1 DEF FreeFrames
    <3> HIDE DEF d, free
    <3>2. Least(Len(producer.batch), free) \in Nat /\ Least(Len(producer.batch), free) <= free
      BY <2>2, <3>1 DEF Least
    <3> QED
      BY <2>1, <3>1, <3>2 DEF free
  <2>4. CASE n = 0
    <3>1. producer'.pc = "idle"
      BY <1>3, <2>4 DEF WriteLoadWrite, Idle
    <3> QED
      BY <1>3, <3>1 DEF WriteLoadWrite, WholeInv, Bounded, ResetInv, ProducerInv, ConsumerInv, Minus
  <2>5. CASE n # 0
    <3>1. producer' = [producer EXCEPT !.pc = "copy", !.w = writeIndex, !.n = n]
      BY <1>3, <2>5 DEF WriteLoadWrite
    <3>2. producer'.pc = "copy" /\ producer'.n = n /\ producer'.w = writeIndex /\ producer'.r = producer.r
      BY <3>1 DEF Transfer
    <3> HIDE DEF n
    <3> QED
      BY <1>3, <2>0, <2>3, <3>2 DEF WriteLoadWrite, WholeInv, Bounded, ResetInv, ProducerInv,
         ConsumerInv
  <2> QED BY <2>4, <2>5
<1>4. CASE WriteCopy
  <2>1. /\ producer'.pc = producer.pc /\ producer'.r = producer.r /\ producer'.w = producer.w
        /\ producer'.n = producer.n
    BY <1>4 DEF WriteCopy, Transfer
  <2> QED
    BY <1>4, <2>1 DEF WriteCopy, WholeInv, Bounded, ResetInv, ProducerInv, ConsumerInv, Minus
<1>5. CASE WritePublish
  <2>0. control # "resetWrite"
    BY <1>5 DEF WritePublish, WholeInv, ResetInv
  <2>1. producer.r \in Index /\ producer.w \in Index /\ producer.n \in Nat
        /\ producer.w = writeIndex
    BY <1>5, <2>0 DEF WritePublish, Transfer, WholeInv, ProducerInv
  <2>2. Minus(writeIndex, producer.r) \in Index /\ Minus(readIndex, producer.r) \in Index
        /\ Minus(writeIndex, readIndex) \in Index
    BY <2>1, MinusType
  <2>3. Minus(writeIndex, readIndex) <= Minus(writeIndex, producer.r)
    BY <1>5, <2>0, <2>1, <2>2, MinusSplit DEF WritePublish, WholeInv, ProducerInv, Index
  <2>4. Minus(writeIndex, readIndex) + producer.n <= Capacity
    BY <1>5, <2>0, <2>1, <2>2, <2>3 DEF WritePublish, WholeInv, ProducerInv, Index
  <2>5. Minus(writeIndex', readIndex) = Minus(writeIndex, readIndex) + producer.n
    BY <1>5, <2>1, <2>4, AdvanceLeader DEF WritePublish
  <2>7. producer'.pc = "idle" /\ readIndex' = readIndex /\ consumer' = consumer /\ control' = control
    BY <1>5 DEF WritePublish, Idle
  <2>8. Minus(writeIndex, readIndex) <= Minus(writeIndex', readIndex')
    BY <2>1, <2>2, <2>5, <2>7 DEF Index
  <2>9. Bounded'
    BY <2>4, <2>5, <2>7 DEF Bounded
  <2>10. ConsumerInv'
    <3>1. ASSUME consumer.pc = "copy" PROVE consumer.n <= Minus(writeIndex', readIndex')
      <4>1. consumer.n \in Nat /\ consumer.n <= Minus(writeIndex, readIndex)
        BY <3>1 DEF Transfer, WholeInv, ConsumerInv
      <4> QED BY <2>1, <2>2, <2>5, <2>7, <4>1 DEF Index
    <3> QED BY <2>7, <3>1 DEF WholeInv, ConsumerInv
  <2> QED
    BY <2>0, <2>7, <2>9, <2>10 DEF WholeInv, ResetInv, ProducerInv
<1>6. ASSUME NEW frames \in 1..MaxBatch, BeginRead(frames) PROVE WholeInv'
  <2>1. consumer'.pc = "loadRead"
    BY <1>6 DEF BeginRead, Idle
  <2> QED
    BY <1>6, <2>1 DEF BeginRead, WholeInv, Bounded, ResetInv, ProducerInv, ConsumerInv, Minus
<1>7. CASE ReadLoadRead
  <2>1. consumer'.r = readIndex /\ consumer'.pc = "loadWrite"
    BY <1>7 DEF ReadLoadRead, Transfer
  <2> QED
    BY <1>7, <2>1 DEF ReadLoadRead, WholeInv, Bounded, ResetInv, ProducerInv, ConsumerInv, Minus
<1>8. CASE ReadLoadWrite
  <2> DEFINE n == Least(consumer.n, AvailableFrames(consumer.r, writeIndex))
  <2>1. Minus(writeIndex, readIndex) \in Index /\ consumer.r = readIndex
    BY <1>8, MinusType DEF ReadLoadWrite, WholeInv, ConsumerInv
  <2>2. n <= Minus(writeIndex, readIndex)
    BY <1>8, <2>1 DEF Least, AvailableFrames, Transfer, Index
  <2>3. control # "resetWrite"
    BY <1>8 DEF ReadLoadWrite, ResetMeets
  <2>4. CASE n = 0
    <3>1. consumer'.pc = "idle"
      BY <1>8, <2>4 DEF ReadLoadWrite, Idle
    <3> QED
      BY <1>8, <3>1 DEF ReadLoadWrite, WholeInv, Bounded, ResetInv, ProducerInv, ConsumerInv, Minus
  <2>5. CASE n # 0
    <3>1. consumer' = [consumer EXCEPT !.pc = "copy", !.w = writeIndex, !.n = n]
      BY <1>8, <2>5 DEF ReadLoadWrite
    <3>2. consumer'.pc = "copy" /\ consumer'.n = n /\ consumer'.r = consumer.r
      BY <3>1 DEF Transfer
    <3> HIDE DEF n
    <3> QED
      BY <1>8, <2>1, <2>2, <2>3, <3>2 DEF ReadLoadWrite, WholeInv, Bounded, ResetInv, ProducerInv,
         ConsumerInv
  <2> QED BY <2>4, <2>5
<1>9. CASE ReadCopy
  <2>1. consumer'.pc = consumer.pc /\ consumer'.r = consumer.r /\ consumer'.n = consumer.n
    BY <1>9 DEF ReadCopy, Transfer
  <2> QED
    BY <1>9, <2>1 DEF ReadCopy, WholeInv, Bounded, ResetInv, ProducerInv, ConsumerInv, Minus
<1>10. CASE ReadPublish
  <2>0. control # "resetWrite"
    BY <1>10 DEF ReadPublish, WholeInv, ResetInv
  <2>1. consumer.r \in Index /\ consumer.n \in Nat /\ consumer.r = readIndex
        /\ consumer.n <= Minus(writeIndex, readIndex) /\ Minus(writeIndex, readIndex) \in Index
        /\ Minus(writeIndex, readIndex) <= Capacity
    BY <1>10, <2>0, MinusType DEF ReadPublish, Transfer, WholeInv, ConsumerInv, Bounded
  <2>2. readIndex' = Plus(readIndex, consumer.n) /\ readIndex' \in Index /\ writeIndex' = writeIndex
    <3>1. consumer.n <= Capacity
      BY <2>1 DEF Index
    <3> QED BY <1>10, <2>1, <3>1, PlusType DEF ReadPublish
  <2>3. Minus(writeIndex', readIndex') = Minus(writeIndex, readIndex) - consumer.n
    BY <2>1, <2>2, AdvanceTrailer
  <2>4. consumer'.pc = "idle" /\ producer' = producer /\ control' = control
    BY <1>10 DEF ReadPublish, Idle
  <2>5. ASSUME producer.pc \in {"loadWrite", "copy"}
        PROVE  Minus(readIndex', producer.r) <= Minus(writeIndex, producer.r)
    <3>1. producer.r \in Index /\ Minus(readIndex, producer.r) \in Index
          /\ Minus(writeIndex, producer.r) \in Index
      BY MinusType DEF Transfer
    <3>2. Minus(writeIndex, readIndex) = Minus(writeIndex, producer.r) - Minus(readIndex, producer.r)
      BY <2>0, <2>5, <3>1, MinusSplit DEF WholeInv, ProducerInv
    <3>3. Minus(readIndex, producer.r) + consumer.n <= Capacity
      BY <2>0, <2>1, <2>5, <3>1, <3>2 DEF WholeInv, ProducerInv, Index
    <3>4. Minus(readIndex', producer.r) = Minus(readIndex, producer.r) + consumer.n
      BY <2>1, <2>2, <3>1, <3>3, AdvanceLeader
    <3> QED BY <2>1, <3>1, <3>2, <3>4 DEF Index
  <2>6. ProducerInv'
    BY <2>0, <2>2, <2>4, <2>5 DEF WholeInv, ProducerInv
  <2>7. Bounded'
    BY <2>1, <2>3 DEF Bounded, Index
  <2> QED
    BY <2>0, <2>4, <2>6, <2>7 DEF WholeInv, ResetInv, ConsumerInv
<1>11. ASSUME NEW started \in BOOLEAN, SetStarted(started) PROVE WholeInv'
  BY <1>11 DEF SetStarted, WholeInv, Bounded, ResetInv, ProducerInv, ConsumerInv, Minus
<1>12. CASE MarkClosed
  BY <1>12 DEF MarkClosed, WholeInv, Bounded, ResetInv, ProducerInv, ConsumerInv, Minus
<1>13. CASE ResetStoreRead
  BY <1>13, ResetStartsWhole
<1>14. CASE ResetStoreWrite
  <2>1. Minus(0, 0) = 0
    BY DEF Minus
  <2>2. readIndex' = 0 /\ writeIndex' = 0 /\ control' = "resetState" /\ producer' = producer
        /\ consumer' = consumer
    BY <1>14 DEF ResetStoreWrite, WholeInv, ResetInv
  <2>3. /\ producer.pc # "copy" /\ consumer.pc # "copy" /\ (producer.pc = "loadWrite" => producer.r = 0)
        /\ (consumer.pc = "loadWrite" => consumer.r = readIndex)
    BY <1>14 DEF ResetStoreWrite, WholeInv, ResetInv, ConsumerInv
  <2>4. readIndex = 0
    BY <1>14 DEF ResetStoreWrite, WholeInv, ResetInv
  <2> QED
    BY <2>1, <2>2, <2>3, <2>4 DEF WholeInv, Bounded, ResetInv, ProducerInv, ConsumerInv
<1>15. CASE ResetStoreState
  BY <1>15 DEF ResetStoreState, WholeInv, Bounded, ResetInv, ProducerInv, ConsumerInv, Minus
<1>16. CASE UNCHANGED vars
  BY <1>16 DEF vars, WholeInv, Bounded, ResetInv, ProducerInv, ConsumerInv, Minus
<1> QED
  BY <1>1, <1>2, <1>3, <1>4, <1>5, <1>6, <1>7, <1>8, <1>9, <1>10, <1>11, <1>12, <1>13, <1>14,
     <1>15, <1>16 DEF Next, Write, Read, Control

LEMMA NextIInv == IInv /\ [Next]_vars => IInv'
<1> SUFFICES ASSUME TypeOK, TransferInv, ~torn => WholeInv, [Next]_vars PROVE IInv'
  BY DEF IInv
<1>1. (TypeOK /\ TransferInv)'
  BY NextTransferInv
<1>2. ASSUME ~torn' PROVE WholeInv'
  <2>1. CASE torn
    BY <1>2, <2>1, MendedByReset, ResetStartsWhole
  <2>2. CASE ~torn
    BY <1>2, <2>2, NextWholeInv
  <2> QED BY <2>1, <2>2
<1> QED BY <1>1, <1>2 DEF IInv

-----------------------------------------------------------------------------
(***************************************************************************)
(* Every value stays in range, whatever the batch size and even when a     *)
(* Reset has torn the ring: in particular, a writer never addresses a slot *)
(* outside data[].                                                         *)
(***************************************************************************)
THEOREM RingTypeCorrect == Spec => []TypeOK
<1>1. IInv => TypeOK
  BY DEF IInv
<1> QED BY <1>1, InitIInv, NextIInv, PTL DEF Spec

(***************************************************************************)
(* The writer is never more than one capacity ahead of the reader, for any *)
(* capacity, batch size and index width, unless a Reset met a transfer     *)
(* (winehua_audio_ring_write_frames, winehua_audio_ring_read_frames), and  *)
(* the next undisturbed Reset makes it so again.                           *)
(***************************************************************************)
THEOREM RingNeverOverfull == Spec => []NeverOverfull
<1>1. IInv => NeverOverfull
  BY DEF IInv, WholeInv, Bounded, NeverOverfull
<1> QED BY <1>1, InitIInv, NextIInv, PTL DEF Spec

\* The slots a write in progress fills hold no queued frame.
LEMMA SidesApart ==
  ASSUME IInv, ~torn, producer.pc = "copy", NEW i \in 0..(producer.n - 1),
         NEW j \in 0..(Minus(writeIndex, readIndex) - 1)
  PROVE  SlotOf(writeIndex, i) # SlotOf(readIndex, j)
<1> USE DEF IInv, TypeOK, WholeInv
<1> DEFINE d == Minus(writeIndex, readIndex)
<1>1. producer.r \in Index /\ producer.n \in Nat /\ control # "resetWrite"
  BY DEF Transfer, ResetInv
<1>2. Minus(writeIndex, producer.r) \in Index /\ Minus(readIndex, producer.r) \in Index /\ d \in Index
  BY <1>1, MinusType
<1>3. d <= Minus(writeIndex, producer.r)
  BY <1>1, <1>2, MinusSplit DEF ProducerInv, Index
<1>4. d \in Nat /\ d + producer.n <= Capacity
  BY <1>1, <1>2, <1>3 DEF ProducerInv, Index
<1>5. j \in Nat /\ j < d
  BY <1>4
<1> HIDE DEF d
<1>6. SlotOf(writeIndex, i) = SlotOf(readIndex, d + i)
  <2>1. i \in Nat /\ Minus(writeIndex, readIndex) + i < Capacity
    BY <1>1, <1>4 DEF d
  <2> QED BY <2>1, SlotFromBehind DEF d
<1>7. d + i \in 0..(Capacity - 1) /\ j \in 0..(Capacity - 1) /\ j # d + i
  BY <1>1, <1>4, <1>5
<1> QED BY <1>6, <1>7, SlotsDiffer

\* What a transfer in progress may touch lies on its own side of the write index.
LEMMA CopiesApart == IInv => CopiesDisjoint
<1> SUFFICES ASSUME IInv, ~torn, producer.pc = "copy", consumer.pc = "copy",
                    NEW i \in 0..(producer.n - 1), NEW j \in 0..(consumer.n - 1)
             PROVE  SlotOf(producer.w, i) # SlotOf(consumer.r, j)
  BY DEF CopiesDisjoint
<1>1. producer.w = writeIndex /\ consumer.r = readIndex /\ consumer.n \in Nat
      /\ consumer.n <= Minus(writeIndex, readIndex)
  BY DEF IInv, TypeOK, Transfer, WholeInv, ResetInv, ProducerInv, ConsumerInv
<1>2. Minus(writeIndex, readIndex) \in Nat
  BY MinusType DEF IInv, TypeOK, Index
<1>3. j \in 0..(Minus(writeIndex, readIndex) - 1)
  BY <1>1, <1>2
<1> QED BY <1>1, <1>3, SidesApart

(***************************************************************************)
(* The memcpy of a write and the memcpy of a read that run at the same     *)
(* time never touch the same slot, whatever the capacity, however often    *)
(* the counters have wrapped, in a ring that no Reset has torn.            *)
(***************************************************************************)
THEOREM RingCopiesDisjoint == Spec => []CopiesDisjoint
BY InitIInv, NextIInv, CopiesApart, PTL DEF Spec

-----------------------------------------------------------------------------
(***************************************************************************)
(* The refinement.  Besides IInv it needs what the copies in progress have *)
(* done: the slots past the write index hold the first frames of the       *)
(* writer's batch, and the reader's batch holds the first queued frames.   *)
(***************************************************************************)
WrittenInv ==
  producer.pc = "copy" =>
    \A i \in 0..(producer.k - 1) : slots[SlotOf(writeIndex, i)] = producer.batch[i + 1]

CollectedInv ==
  consumer.pc = "copy" =>
    \A i \in 0..(consumer.k - 1) : consumer.batch[i + 1] = slots[SlotOf(readIndex, i)]

CopyInv == ~torn => WrittenInv /\ CollectedInv

LEMMA InitCopyInv == Init => CopyInv
BY DEF Init, CopyInv, WrittenInv, CollectedInv, Idle

\* The frames between the indices keep their places while a writer fills others.
LEMMA WriteCopyFrame ==
  ASSUME IInv, ~torn, WriteCopy
  PROVE  /\ \A j \in 0..(Minus(writeIndex, readIndex) - 1) :
              slots'[SlotOf(readIndex, j)] = slots[SlotOf(readIndex, j)]
         /\ \A i \in 0..(producer.k - 1) :
              slots'[SlotOf(writeIndex, i)] = slots[SlotOf(writeIndex, i)]
         /\ slots'[SlotOf(writeIndex, producer.k)] = producer.batch[producer.k + 1]
<1> USE DEF IInv, TypeOK, WholeInv
<1>1. /\ producer.pc = "copy" /\ producer.k \in Nat /\ producer.n \in Nat /\ producer.k < producer.n
      /\ producer.w = writeIndex /\ producer.r \in Index /\ control # "resetWrite"
  BY DEF WriteCopy, Transfer, ProducerInv, ResetInv
<1>2. producer.n <= Capacity
  BY <1>1 DEF TransferInv
<1>3. slots' = [slots EXCEPT ![SlotOf(writeIndex, producer.k)] = producer.batch[producer.k + 1]]
  BY <1>1 DEF WriteCopy
<1>4. SlotOf(writeIndex, producer.k) \in Slot
  BY <1>1, <1>2, SlotType
<1>5. ASSUME NEW j \in 0..(Minus(writeIndex, readIndex) - 1)
      PROVE  slots'[SlotOf(readIndex, j)] = slots[SlotOf(readIndex, j)]
  <2>1. producer.k \in 0..(producer.n - 1)
    BY <1>1
  <2>2. SlotOf(writeIndex, producer.k) # SlotOf(readIndex, j)
    BY <1>1, <2>1, SidesApart
  <2>3. SlotOf(readIndex, j) \in Slot
    <3>1. Minus(writeIndex, readIndex) \in Index
      BY MinusType
    <3>2. j \in Nat /\ j < Capacity
      BY <1>1, <3>1 DEF Bounded, Index
    <3> QED BY <3>2, SlotType
  <2> QED BY <1>3, <2>2, <2>3
<1>6. ASSUME NEW i \in 0..(producer.k - 1)
      PROVE  slots'[SlotOf(writeIndex, i)] = slots[SlotOf(writeIndex, i)]
  <2>1. i \in 0..(Capacity - 1) /\ producer.k \in 0..(Capacity - 1) /\ i # producer.k /\ i \in Nat /\ i < Capacity
    BY <1>1, <1>2
  <2>2. SlotOf(writeIndex, i) # SlotOf(writeIndex, producer.k)
    BY <2>1, SlotsDiffer
  <2>3. SlotOf(writeIndex, i) \in Slot
    BY <2>1, SlotType
  <2> QED BY <1>3, <2>2, <2>3
<1> QED BY <1>3, <1>4, <1>5, <1>6

LEMMA NextCopyInv ==
  ASSUME IInv, CopyInv, [Next]_vars
  PROVE  CopyInv'
<1> SUFFICES ASSUME ~torn' PROVE WrittenInv' /\ CollectedInv'
  BY DEF CopyInv
<1> USE DEF IInv, TypeOK, ringVars
<1>0. CASE torn
  <2>1. ResetStoreRead
    BY <1>0, MendedByReset
  <2>2. producer'.pc # "copy" /\ consumer'.pc # "copy"
    BY <2>1 DEF ResetStoreRead, HasLoaded
  <2> QED BY <2>2 DEF WrittenInv, CollectedInv
<1> SUFFICES ASSUME ~torn PROVE WrittenInv' /\ CollectedInv'
  BY <1>0
<1> USE DEF CopyInv, WholeInv
<1>1. ASSUME NEW batch \in Batches, BeginWrite(batch) PROVE WrittenInv' /\ CollectedInv'
  BY <1>1 DEF BeginWrite, WrittenInv, CollectedInv, Idle
<1>2. CASE WriteLoadRead
  BY <1>2 DEF WriteLoadRead, WrittenInv, CollectedInv, Transfer
<1>3. CASE WriteLoadWrite
  <2>1. producer.k = 0
    BY <1>3 DEF WriteLoadWrite, TransferInv
  <2>2. producer'.k = 0
    BY <1>3, <2>1 DEF WriteLoadWrite, Idle, Transfer
  <2> QED
    BY <1>3, <2>2 DEF WriteLoadWrite, WrittenInv, CollectedInv
<1>4. CASE WriteCopy
  <2>1. /\ producer.pc = "copy" /\ producer.k \in Nat /\ producer.n \in Nat /\ producer.k < producer.n
        /\ writeIndex' = writeIndex /\ readIndex' = readIndex /\ consumer' = consumer
        /\ producer' = [producer EXCEPT !.k = producer.k + 1]
    BY <1>4 DEF WriteCopy, Transfer
  <2>2. producer'.k = producer.k + 1 /\ producer'.n = producer.n /\ producer'.batch = producer.batch
    BY <2>1 DEF Transfer
  <2>3. WrittenInv'
    <3>1. ASSUME NEW i \in 0..producer.k PROVE slots'[SlotOf(writeIndex, i)] = producer.batch[i + 1]
      <4>1. CASE i = producer.k
        BY <1>4, <4>1, WriteCopyFrame
      <4>2. CASE i # producer.k
        <5>1. i \in 0..(producer.k - 1)
          BY <2>1, <4>2
        <5> QED BY <1>4, <2>1, <5>1, WriteCopyFrame DEF WrittenInv
      <4> QED BY <4>1, <4>2
    <3>2. (producer.k + 1) - 1 = producer.k
      BY <2>1
    <3> QED BY <2>1, <2>2, <3>1, <3>2 DEF WrittenInv
  <2>4. CollectedInv'
    <3>1. ASSUME consumer.pc = "copy", NEW i \in 0..(consumer.k - 1)
          PROVE  i \in 0..(Minus(writeIndex, readIndex) - 1)
      <4>1. consumer.k \in Nat /\ consumer.n \in Nat /\ consumer.k <= consumer.n
        BY <3>1 DEF Transfer, TransferInv
      <4>2. Minus(writeIndex, readIndex) \in Nat
        BY MinusType DEF Index
      <4> QED BY <3>1, <4>1, <4>2 DEF ConsumerInv
    <3> QED BY <1>4, <2>1, <3>1, WriteCopyFrame DEF CollectedInv
  <2> QED BY <2>3, <2>4
<1>5. CASE WritePublish
  BY <1>5 DEF WritePublish, WrittenInv, CollectedInv, Idle
<1>6. ASSUME NEW frames \in 1..MaxBatch, BeginRead(frames) PROVE WrittenInv' /\ CollectedInv'
  BY <1>6 DEF BeginRead, WrittenInv, CollectedInv, Idle
<1>7. CASE ReadLoadRead
  BY <1>7 DEF ReadLoadRead, WrittenInv, CollectedInv, Transfer
<1>8. CASE ReadLoadWrite
  <2>1. consumer.k = 0
    BY <1>8 DEF ReadLoadWrite, TransferInv
  <2>2. consumer'.k = 0
    BY <1>8, <2>1 DEF ReadLoadWrite, Idle, Transfer
  <2> QED
    BY <1>8, <2>2 DEF ReadLoadWrite, WrittenInv, CollectedInv
<1>9. CASE ReadCopy
  <2> DEFINE f == slots[SlotOf(readIndex, consumer.k)]
  <2>1. /\ consumer.pc = "copy" /\ consumer.k \in Nat /\ consumer.r = readIndex
        /\ consumer.batch \in Seq(Frame \cup {Silence}) /\ Len(consumer.batch) = consumer.k
    BY <1>9 DEF ReadCopy, Transfer, TransferInv, ConsumerInv
  <2>2. SlotOf(readIndex, consumer.k) \in Slot
    <3>1. Minus(writeIndex, readIndex) \in Index /\ control # "resetWrite" /\ consumer.n \in Nat
      BY <1>9, MinusType DEF ReadCopy, ResetInv, Transfer
    <3>2. consumer.k < Capacity
      BY <1>9, <2>1, <3>1 DEF ReadCopy, ConsumerInv, Bounded, Index
    <3> QED BY <2>1, <3>2, SlotType
  <2>3. f \in Frame \cup {Silence}
    BY <2>2
  <2>4. consumer' = [consumer EXCEPT !.k = consumer.k + 1, !.batch = Append(consumer.batch, f)]
    BY <1>9, <2>1, <2>2 DEF ReadCopy
  <2>5. /\ consumer'.k = consumer.k + 1 /\ consumer'.pc = "copy"
        /\ consumer'.batch = Append(consumer.batch, f)
    BY <2>1, <2>4 DEF Transfer
  <2> DEFINE longer == Append(consumer.batch, f)
  <2>6. longer[consumer.k + 1] = f /\ \A i \in 0..(consumer.k - 1) : longer[i + 1] = consumer.batch[i + 1]
    BY <2>1, <2>3
  <2>7. \A i \in 0..((consumer.k + 1) - 1) : i = consumer.k \/ i \in 0..(consumer.k - 1)
    BY <2>1
  <2>8. slots' = slots /\ readIndex' = readIndex /\ writeIndex' = writeIndex /\ producer' = producer
    BY <1>9 DEF ReadCopy
  <2> HIDE DEF longer
  <2>9. CollectedInv'
    BY <2>1, <2>5, <2>6, <2>7, <2>8 DEF CollectedInv, longer
  <2> QED BY <2>8, <2>9 DEF WrittenInv
<1>10. CASE ReadPublish
  BY <1>10 DEF ReadPublish, WrittenInv, CollectedInv, Idle
<1>11. ASSUME NEW started \in BOOLEAN, SetStarted(started) PROVE WrittenInv' /\ CollectedInv'
  BY <1>11 DEF SetStarted, WrittenInv, CollectedInv
<1>12. CASE MarkClosed
  BY <1>12 DEF MarkClosed, WrittenInv, CollectedInv
<1>13. CASE ResetStoreRead
  BY <1>13 DEF ResetStoreRead, HasLoaded, WrittenInv, CollectedInv
<1>14. CASE ResetStoreWrite
  BY <1>14 DEF ResetStoreWrite, ResetInv, WrittenInv, CollectedInv
<1>15. CASE ResetStoreState
  BY <1>15 DEF ResetStoreState, WrittenInv, CollectedInv
<1>16. CASE UNCHANGED vars
  BY <1>16 DEF vars, WrittenInv, CollectedInv
<1> QED
  BY <1>1, <1>2, <1>3, <1>4, <1>5, <1>6, <1>7, <1>8, <1>9, <1>10, <1>11, <1>12, <1>13, <1>14,
     <1>15, <1>16 DEF Next, Write, Read, Control

-----------------------------------------------------------------------------
(***************************************************************************)
(* Each step of the ring is a step of the FIFO, or none.                   *)
(***************************************************************************)
LEMMA QueuedType ==
  ASSUME IInv, ~torn
  PROVE  /\ control # "resetWrite" => Len(Queued) = Minus(writeIndex, readIndex) /\ Len(Queued) <= Capacity
         /\ Queued \in Seq(Frame \cup {Silence})
<1> DEFINE d == Minus(writeIndex, readIndex)
<1>1. d \in Nat /\ (control # "resetWrite" => d <= Capacity)
  BY MinusType DEF IInv, TypeOK, WholeInv, Bounded, Index
<1>2. CASE control = "resetWrite"
  BY <1>2 DEF Queued
<1>3. CASE control # "resetWrite"
  <2>1. \A i \in 1..d : slots[SlotOf(readIndex, i - 1)] \in Frame \cup {Silence}
    <3> SUFFICES ASSUME NEW i \in 1..d PROVE slots[SlotOf(readIndex, i - 1)] \in Frame \cup {Silence}
      OBVIOUS
    <3>1. i - 1 \in Nat /\ i - 1 < Capacity
      BY <1>1, <1>3
    <3>2. SlotOf(readIndex, i - 1) \in Slot
      BY <3>1, SlotType DEF IInv, TypeOK
    <3> QED BY <3>2 DEF IInv, TypeOK
  <2>2. Queued = [i \in 1..d |-> slots[SlotOf(readIndex, i - 1)]]
    BY <1>3 DEF Queued
  <2> HIDE DEF d
  <2> QED BY <1>1, <1>3, <2>1, <2>2 DEF d
<1> QED BY <1>2, <1>3

LEMMA QueuedSame ==
  ASSUME slots' = slots, readIndex' = readIndex, writeIndex' = writeIndex,
         control' = control, torn' = torn
  PROVE  Queued' = Queued
BY DEF Queued, Minus, SlotOf

LEMMA PublishIsPut ==
  ASSUME IInv, CopyInv, ~torn, WritePublish
  PROVE  Fifo!Put(SubSeq(producer.batch, 1, producer.n))
<1> USE DEF IInv, TypeOK, WholeInv
<1> DEFINE n == producer.n
           b == SubSeq(producer.batch, 1, n)
           d == Minus(writeIndex, readIndex)
<1>1. /\ producer.pc = "copy" /\ producer.k = n /\ n \in Nat /\ n <= Len(producer.batch)
      /\ producer.batch \in Seq(Frame) /\ control # "resetWrite" /\ producer.w = writeIndex
      /\ producer.r \in Index /\ torn' = torn /\ control' = control
  BY DEF WritePublish, Transfer, TransferInv, ProducerInv, ResetInv
<1>2. b \in Seq(Frame) /\ Len(b) = n /\ \A i \in 1..n : b[i] = producer.batch[i]
  BY <1>1
<1>3. d + n <= Capacity /\ d \in Nat
  <2>1. Minus(writeIndex, producer.r) \in Index /\ Minus(readIndex, producer.r) \in Index /\ d \in Index
    BY <1>1, MinusType
  <2>2. d <= Minus(writeIndex, producer.r)
    BY <1>1, <2>1, MinusSplit DEF ProducerInv, Index
  <2> QED BY <1>1, <2>1, <2>2 DEF ProducerInv, Index
<1>4. Minus(writeIndex', readIndex') = d + n
  BY <1>1, <1>3, AdvanceLeader DEF WritePublish
<1>5. Queued' = [i \in 1..(d + n) |-> slots[SlotOf(readIndex, i - 1)]]
  <2>1. Queued' = [i \in 1..Minus(writeIndex', readIndex') |-> slots'[SlotOf(readIndex', i - 1)]]
    BY <1>1 DEF Queued, Minus, SlotOf
  <2>2. slots' = slots /\ readIndex' = readIndex
    BY DEF WritePublish
  <2> QED BY <1>4, <2>1, <2>2
<1>6. Queued = [i \in 1..d |-> slots[SlotOf(readIndex, i - 1)]] /\ Queued \in Seq(Frame \cup {Silence})
      /\ Len(Queued) = d
  BY <1>1, QueuedType DEF Queued
<1>7. ASSUME NEW i \in (d + 1)..(d + n) PROVE slots[SlotOf(readIndex, i - 1)] = b[i - d]
  <2>1. i - 1 - d \in 0..(n - 1) /\ d + (i - 1 - d) = i - 1 /\ i - d \in 1..n /\ (i - 1 - d) + 1 = i - d
    <3>1. d \in Nat /\ n \in Nat
      BY <1>1, <1>3
    <3> HIDE DEF d, n
    <3> QED BY <3>1
  <2>2. SlotOf(writeIndex, i - 1 - d) = SlotOf(readIndex, i - 1)
    <3>1. i - 1 - d \in Nat /\ d + (i - 1 - d) < Capacity
      BY <1>1, <1>3, <2>1
    <3> QED BY <2>1, <3>1, SlotFromBehind
  <2>3. slots[SlotOf(writeIndex, i - 1 - d)] = producer.batch[(i - 1 - d) + 1]
    BY <1>1, <2>1 DEF CopyInv, WrittenInv
  <2> QED BY <1>2, <2>1, <2>2, <2>3
<1> HIDE DEF b, d, n
<1>8. Queued' = Queued \o b
  <2>1. b \in Seq(Frame \cup {Silence})
    BY <1>2
  <2>2. Len(Queued \o b) = d + n /\ Queued \o b \in Seq(Frame \cup {Silence})
    BY <1>2, <1>6, <2>1, ConcatProperties, Zenon
  <2>3. \A i \in 1..(d + n) : (Queued \o b)[i] = IF i <= d THEN Queued[i] ELSE b[i - d]
    <3>1. \A i \in 1..(Len(Queued) + Len(b)) :
            (Queued \o b)[i] = IF i <= Len(Queued) THEN Queued[i] ELSE b[i - Len(Queued)]
      BY <1>6, <2>1, ConcatProperties, Zenon
    <3> QED BY <1>2, <1>6, <3>1, Zenon
  <2>4. \A i \in 1..(d + n) : (Queued \o b)[i] = slots[SlotOf(readIndex, i - 1)]
    <3> SUFFICES ASSUME NEW i \in 1..(d + n) PROVE (Queued \o b)[i] = slots[SlotOf(readIndex, i - 1)]
      OBVIOUS
    <3>1. CASE i <= d
      BY <1>3, <1>6, <2>3, <3>1
    <3>2. CASE ~(i <= d)
      <4>1. i \in (d + 1)..(d + n)
        BY <1>3, <3>2
      <4> QED BY <1>7, <2>3, <3>2, <4>1
    <3> QED BY <3>1, <3>2
  <2>5. Queued \o b = [i \in 1..(d + n) |-> (Queued \o b)[i]]
    <3>1. Queued \o b \in [1..Len(Queued \o b) -> Frame \cup {Silence}]
      BY <2>2, LenProperties, Zenon
    <3>2. Queued \o b \in [1..(d + n) -> Frame \cup {Silence}]
      BY <2>2, <3>1, Zenon
    <3> QED BY <3>2, Zenon
  <2> QED BY <1>5, <2>4, <2>5
<1>9. UNCHANGED <<delivered, torn>>
  BY DEF WritePublish
<1>10. Len(Queued) + Len(b) <= Capacity
  BY <1>2, <1>3, <1>6
<1> QED BY <1>8, <1>9, <1>10 DEF Fifo!Put, b, n

LEMMA PublishIsGet ==
  ASSUME IInv, CopyInv, ~torn, ReadPublish
  PROVE  Fifo!Get(consumer.n)
<1> USE DEF IInv, TypeOK, WholeInv
<1> DEFINE n == consumer.n
           d == Minus(writeIndex, readIndex)
<1>1. /\ consumer.pc = "copy" /\ consumer.k = n /\ n \in Nat /\ n <= d /\ consumer.r = readIndex
      /\ control # "resetWrite" /\ d \in Nat /\ d <= Capacity /\ torn' = torn /\ control' = control
      /\ consumer.batch \in Seq(Frame \cup {Silence}) /\ Len(consumer.batch) = n
  BY MinusType DEF ReadPublish, Transfer, ConsumerInv, ResetInv, Bounded, Index, TransferInv
<1>2. Queued = [i \in 1..d |-> slots[SlotOf(readIndex, i - 1)]] /\ Queued \in Seq(Frame \cup {Silence})
      /\ Len(Queued) = d
  BY <1>1, QueuedType DEF Queued
<1>3. readIndex' = Plus(readIndex, n) /\ Plus(readIndex, n) \in Index
  BY <1>1, PlusType DEF ReadPublish
<1>4. Minus(writeIndex', readIndex') = d - n
  BY <1>1, <1>3, AdvanceTrailer DEF ReadPublish
<1>5. Queued' = [i \in 1..(d - n) |-> slots[SlotOf(readIndex', i - 1)]]
  <2>1. Queued' = [i \in 1..Minus(writeIndex', readIndex') |-> slots'[SlotOf(readIndex', i - 1)]]
    BY <1>1 DEF Queued, Minus, SlotOf
  <2>2. slots' = slots
    BY DEF ReadPublish
  <2> QED BY <1>4, <2>1, <2>2
<1>6. ASSUME NEW i \in 1..(d - n)
      PROVE  slots[SlotOf(readIndex', i - 1)] = slots[SlotOf(readIndex, n + i - 1)]
  <2>1. Minus(readIndex', readIndex) = n
    <3>1. Minus(readIndex, readIndex) = 0 /\ n <= Capacity
      BY <1>1, MinusSelf
    <3>2. Minus(readIndex, readIndex) + n <= Capacity
      BY <1>1, <3>1
    <3>3. Minus(Plus(readIndex, n), readIndex) = Minus(readIndex, readIndex) + n
      BY <1>1, <3>2, AdvanceLeader
    <3> QED BY <1>1, <1>3, <3>1, <3>3
  <2>2. i - 1 \in Nat /\ n + (i - 1) < Capacity /\ n + (i - 1) = n + i - 1
    BY <1>1
  <2>3. SlotOf(readIndex', i - 1) = SlotOf(readIndex, n + (i - 1))
    BY <1>3, <2>1, <2>2, SlotFromBehind
  <2> QED BY <2>2, <2>3
<1> HIDE DEF n, d
<1>7. Queued' = SubSeq(Queued, n + 1, Len(Queued))
  <2> DEFINE rest == SubSeq(Queued, n + 1, d)
  <2>1. rest \in Seq(Frame \cup {Silence}) /\ Len(rest) = d - n
        /\ \A i \in 1..(d - n) : rest[i] = Queued[n + i]
    BY <1>1, <1>2
  <2>2. \A i \in 1..(d - n) : n + i \in 1..d /\ rest[i] = slots[SlotOf(readIndex, n + i - 1)]
    BY <1>1, <1>2, <2>1
  <2> HIDE DEF rest
  <2>3. rest = [i \in 1..(d - n) |-> rest[i]]
    BY <2>1
  <2>4. rest = Queued'
    BY <1>5, <1>6, <2>2, <2>3
  <2> QED BY <1>2, <2>4 DEF rest
<1>8. consumer.batch = SubSeq(Queued, 1, n)
  <2> DEFINE first == SubSeq(Queued, 1, n)
  <2>1. first \in Seq(Frame \cup {Silence}) /\ Len(first) = n /\ \A i \in 1..n : first[i] = Queued[i]
    BY <1>1, <1>2
  <2>2. \A i \in 1..n : i - 1 \in 0..(n - 1) /\ (i - 1) + 1 = i /\ i \in 1..d
    BY <1>1
  <2>3. \A i \in 1..n : consumer.batch[i] = slots[SlotOf(readIndex, i - 1)]
    BY <1>1, <2>2 DEF CopyInv, CollectedInv
  <2>4. \A i \in 1..n : first[i] = consumer.batch[i]
    BY <1>2, <2>1, <2>2, <2>3
  <2> HIDE DEF first
  <2>5. first = [i \in 1..n |-> first[i]] /\ consumer.batch = [i \in 1..n |-> consumer.batch[i]]
    <3>1. first \in [1..Len(first) -> Frame \cup {Silence}]
          /\ consumer.batch \in [1..Len(consumer.batch) -> Frame \cup {Silence}]
      BY <1>1, <2>1, LenProperties, Zenon
    <3>2. first \in [1..n -> Frame \cup {Silence}] /\ consumer.batch \in [1..n -> Frame \cup {Silence}]
      BY <1>1, <2>1, <3>1, Zenon
    <3> QED BY <3>2, Zenon
  <2> QED BY <2>4, <2>5 DEF first
<1>9. delivered' = consumer.batch /\ n <= Len(Queued) /\ UNCHANGED torn
  BY <1>1, <1>2 DEF ReadPublish
<1> QED BY <1>7, <1>8, <1>9 DEF Fifo!Get, n

LEMMA StepRefinesFifo ==
  ASSUME IInv, CopyInv, [Next]_vars
  PROVE  [Fifo!FifoNext]_(Fifo!fifoVars)
<1> USE DEF IInv, TypeOK, ringVars
<1> DEFINE Same == Queued' = Queued /\ delivered' = delivered /\ torn' = torn
           Step == [Fifo!FifoNext]_(Fifo!fifoVars)
<1>a. Same => Step
  BY DEF Fifo!fifoVars
<1>b. ASSUME torn, torn' PROVE Step
  <2>1. Queued' = Queued
    BY <1>b DEF Queued
  <2> QED BY <1>b, <2>1 DEF Fifo!FifoNext, Fifo!GetTorn
<1>c. ASSUME Queued' = <<>>, delivered' = delivered, torn' \in BOOLEAN PROVE Step
  BY <1>c DEF Fifo!FifoNext, Fifo!Discard
<1>d. ASSUME ResetStoreRead PROVE Step
  <2>1. Queued' = <<>> /\ delivered' = delivered /\ torn' \in BOOLEAN
    BY <1>d DEF ResetStoreRead, Queued
  <2> QED BY <1>c, <2>1
<1>e. CASE torn
  BY <1>b, <1>d, <1>e, MendedByReset
<1> SUFFICES ASSUME ~torn PROVE Step
  BY <1>e
<1> USE DEF WholeInv
<1>1. ASSUME NEW batch \in Batches, BeginWrite(batch) PROVE Same
  BY <1>1, QueuedSame DEF BeginWrite
<1>2. CASE WriteLoadRead
  BY <1>a, <1>2, QueuedSame DEF WriteLoadRead
<1>3. CASE WriteLoadWrite
  <2>1. CASE torn'
    BY <1>3, <1>c, <2>1 DEF WriteLoadWrite, Queued
  <2>2. CASE ~torn'
    BY <1>3, <1>a, <2>2, QueuedSame DEF WriteLoadWrite, ResetMeets
  <2> QED BY <2>1, <2>2
<1>4. CASE WriteCopy
  <2>1. \A j \in 1..Minus(writeIndex, readIndex) : slots'[SlotOf(readIndex, j - 1)] = slots[SlotOf(readIndex, j - 1)]
    <3>1. Minus(writeIndex, readIndex) \in Nat
      BY MinusType DEF Index
    <3>2. \A j \in 1..Minus(writeIndex, readIndex) : j - 1 \in 0..(Minus(writeIndex, readIndex) - 1)
      BY <3>1
    <3> QED BY <1>4, <3>2, WriteCopyFrame
  <2>2. control' = control /\ readIndex' = readIndex /\ writeIndex' = writeIndex /\ delivered' = delivered
        /\ torn' = torn
    BY <1>4 DEF WriteCopy
  <2>3. Queued' = Queued
    BY <2>1, <2>2 DEF Queued, Minus, SlotOf
  <2> QED BY <1>a, <2>2, <2>3
<1>5. CASE WritePublish
  <2> DEFINE b == SubSeq(producer.batch, 1, producer.n)
  <2>1. b \in Batches
    <3>1. producer.n \in 1..MaxBatch /\ producer.batch \in Seq(Frame) /\ producer.n <= Len(producer.batch)
      BY <1>5 DEF WritePublish, Transfer, TransferInv
    <3>2. b \in Seq(Frame) /\ Len(b) = producer.n
      BY <3>1
    <3>3. b \in [1..producer.n -> Frame]
      BY <3>2, LenProperties, Zenon
    <3> QED BY <3>1, <3>3 DEF Batches
  <2>2. Fifo!Put(b)
    BY <1>5, PublishIsPut
  <2> HIDE DEF b
  <2>3. b \in Fifo!Batches
    BY <2>1 DEF Batches, Fifo!Batches
  <2> QED BY <2>2, <2>3 DEF Fifo!FifoNext
<1>6. ASSUME NEW frames \in 1..MaxBatch, BeginRead(frames) PROVE Step
  <2>1. Queued' = Queued /\ torn' = torn /\ delivered' = <<>>
    BY <1>6, QueuedSame DEF BeginRead
  <2> QED BY <2>1 DEF Fifo!FifoNext, Fifo!Forget
<1>7. CASE ReadLoadRead
  BY <1>a, <1>7, QueuedSame DEF ReadLoadRead
<1>8. CASE ReadLoadWrite
  <2>1. CASE torn'
    BY <1>8, <1>c, <2>1 DEF ReadLoadWrite, Queued
  <2>2. CASE ~torn'
    BY <1>8, <1>a, <2>2, QueuedSame DEF ReadLoadWrite, ResetMeets
  <2> QED BY <2>1, <2>2
<1>9. CASE ReadCopy
  BY <1>a, <1>9, QueuedSame DEF ReadCopy
<1>10. CASE ReadPublish
  <2>1. consumer.n \in 1..MaxBatch
    BY <1>10 DEF ReadPublish, Transfer, TransferInv
  <2> QED BY <1>10, <2>1, PublishIsGet DEF Fifo!FifoNext
<1>11. ASSUME NEW started \in BOOLEAN, SetStarted(started) PROVE Same
  BY <1>11, QueuedSame DEF SetStarted
<1>12. CASE MarkClosed
  BY <1>a, <1>12, QueuedSame DEF MarkClosed
<1>14. CASE ResetStoreWrite
  <2>1. Queued = <<>> /\ delivered' = delivered /\ torn' = torn
    BY <1>14 DEF ResetStoreWrite, Queued
  <2>2. Minus(writeIndex', readIndex') = 0 /\ control' # "resetWrite"
    BY <1>14 DEF ResetStoreWrite, ResetInv, Minus
  <2>3. Queued' = <<>>
    BY <2>1, <2>2 DEF Queued
  <2> QED BY <1>a, <2>1, <2>3
<1>15. CASE ResetStoreState
  <2>1. UNCHANGED <<slots, readIndex, writeIndex, delivered, torn>> /\ control = "resetState" /\ control' = "idle"
    BY <1>15 DEF ResetStoreState
  <2>2. Queued' = Queued
    BY <2>1 DEF Queued, Minus, SlotOf
  <2> QED BY <1>a, <2>1, <2>2
<1>16. CASE UNCHANGED vars
  BY <1>a, <1>16, QueuedSame DEF vars
<1>17. CASE \E batch \in Batches : BeginWrite(batch)
  BY <1>a, <1>1, <1>17
<1>18. CASE \E started \in BOOLEAN : SetStarted(started)
  BY <1>a, <1>11, <1>18
<1>19. CASE \E frames \in 1..MaxBatch : BeginRead(frames)
  BY <1>6, <1>19
<1> HIDE DEF Same, Step, IInv, TypeOK, ringVars, WholeInv
<1> QED
  BY <1>17, <1>18, <1>19, <1>d, <1>2, <1>3, <1>4, <1>5, <1>7, <1>8, <1>9, <1>10, <1>12, <1>14,
     <1>15, <1>16 DEF Next, Write, Read, Control

LEMMA InitRefinesFifo == Init => Fifo!FifoInit
<1> SUFFICES ASSUME Init PROVE Queued = <<>> /\ delivered = <<>> /\ torn = FALSE
  BY DEF Fifo!FifoInit
<1>1. Minus(writeIndex, readIndex) = 0 /\ control # "resetWrite"
  BY DEF Init, Minus
<1> QED BY <1>1 DEF Init, Queued

(***************************************************************************)
(* The ring implements the bounded FIFO, for every capacity, batch size    *)
(* and index width: what ring_read_frames returns is what                  *)
(* ring_write_frames was given, in order, each frame once and whole.  A    *)
(* Reset may come at any moment; it voids this only if it meets a          *)
(* transfer, and only until the next Reset that meets none.                *)
(***************************************************************************)
THEOREM RingImplementsFifo == Spec => ImplementsFifo
<1>1. IInv /\ CopyInv /\ [Next]_vars => CopyInv'
  BY NextCopyInv
<1>2. IInv /\ CopyInv /\ [Next]_vars => [Fifo!FifoNext]_(Fifo!fifoVars)
  BY StepRefinesFifo
<1> QED
  BY <1>1, <1>2, InitIInv, NextIInv, InitCopyInv, InitRefinesFifo, PTL
  DEF Spec, ImplementsFifo, Fifo!FifoSpec
=============================================================================
