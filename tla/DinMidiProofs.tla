--------------------------- MODULE DinMidiProofs ----------------------------
(***************************************************************************)
(* DIN MIDI, received.  A ring of any size between the interrupt and the   *)
(* main loop is a queue, and behind such a queue of any length the parser  *)
(* delivers what was sent, whatever is lost on the way.                    *)
(***************************************************************************)
EXTENDS SpscRing, MidiSerial, SequenceTheorems, TLAPS

\* What process() has read is still the oldest byte in the ring.
FetchedIsOldest == fetched # NoByte => tail # head /\ fetched = ring[tail]

\* The slots between tail and head hold bytes.
Filled == \A i \in 1 .. Waiting : ring[Slot(i)] \in RxBytes

RingIInv == RingTypeOK /\ FetchedIsOldest /\ Filled
-----------------------------------------------------------------------------
\* How far the slots between tail and head reach.
LEMMA SlotFacts ==
  ASSUME RingTypeOK
  PROVE  /\ Waiting \in 0 .. RingSize - 1
         /\ Waiting = 0 <=> head = tail
         /\ Waiting = RingSize - 1 <=> Successor(head) = tail
         /\ \A i \in 1 .. Waiting : Slot(i) \in Indices /\ Slot(i) # head
         /\ Slot(1) = tail
         /\ Successor(head) # tail => Slot(Waiting + 1) = head
         /\ Successor(head) \in Indices /\ Successor(tail) \in Indices
  BY SpscRingAssumption DEF RingTypeOK, Waiting, Slot, Successor, Indices

\* The contents are a sequence of bytes.
LEMMA ContentsFacts ==
  ASSUME RingIInv
  PROVE  /\ Contents \in Seq(RxBytes)
         /\ Len(Contents) = Waiting
         /\ \A i \in 1 .. Waiting : Contents[i] = ring[Slot(i)]
<1>1. Waiting \in Nat
  BY SlotFacts DEF RingIInv
<1>2. Contents \in [1 .. Waiting -> RxBytes]
  BY DEF Contents, RingIInv, Filled
<1>3. Contents \in Seq(RxBytes)
  BY <1>1, <1>2
<1>4. Len(Contents) = Waiting
  BY <1>1, <1>2, <1>3, LenProperties
<1>5. QED
  BY <1>3, <1>4 DEF Contents

\* The interrupt adds the byte behind the others.
LEMMA IrqKeeps ==
  ASSUME RingIInv, NEW x \in RxBytes, Irq(x), Successor(head) # tail
  PROVE  /\ Waiting' = Waiting + 1
         /\ \A i \in 1 .. Waiting : Slot(i)' = Slot(i) /\ ring'[Slot(i)'] = ring[Slot(i)]
         /\ ring'[Slot(Waiting)'] = x
<1>1. head' = Successor(head) /\ tail' = tail /\ ring' = [ring EXCEPT ![head] = x]
  BY DEF Irq
<1>2. Waiting' = Waiting + 1
  BY <1>1, SpscRingAssumption DEF RingIInv, RingTypeOK, Waiting, Successor, Indices
<1>3. ASSUME NEW i \in Nat PROVE Slot(i)' = Slot(i)
  BY <1>1 DEF Slot
<1>4. ASSUME NEW i \in 1 .. Waiting PROVE Slot(i)' = Slot(i) /\ ring'[Slot(i)'] = ring[Slot(i)]
  <2>1. Slot(i) \in Indices /\ Slot(i) # head /\ i \in Nat
    BY SlotFacts DEF RingIInv
  <2>2. ring'[Slot(i)] = ring[Slot(i)]
    BY <1>1, <2>1 DEF RingIInv, RingTypeOK
  <2>3. QED
    BY <1>3, <2>1, <2>2
<1>5. ring'[Slot(Waiting)'] = x
  <2>1. Slot(Waiting + 1) = head /\ Waiting + 1 \in Nat /\ head \in Indices
    BY SlotFacts DEF RingIInv, RingTypeOK
  <2>2. Slot(Waiting)' = head
    BY <1>1, <1>2, <2>1 DEF Slot
  <2>3. ring'[head] = x
    BY <1>1, <2>1 DEF RingIInv, RingTypeOK
  <2>4. QED
    BY <2>2, <2>3
<1>6. QED
  BY <1>2, <1>4, <1>5

\* process() takes the first and moves the others up.
LEMMA TakeOutMoves ==
  ASSUME RingIInv, TakeOut
  PROVE  /\ Waiting >= 1
         /\ Waiting' = Waiting - 1
         /\ \A i \in 1 .. Waiting' : Slot(i)' = Slot(i + 1) /\ ring' = ring
         /\ taken' = ring[Slot(1)]
<1>1. fetched # NoByte /\ tail # head /\ fetched = ring[tail]
  BY DEF RingIInv, FetchedIsOldest, TakeOut
<1>2. head' = head /\ tail' = Successor(tail) /\ ring' = ring /\ taken' = fetched
  BY DEF TakeOut
<1>3. Waiting >= 1 /\ Slot(1) = tail
  BY <1>1, SlotFacts DEF RingIInv
<1>4. Waiting' = Waiting - 1
  BY <1>1, <1>2, SpscRingAssumption DEF RingIInv, RingTypeOK, Waiting, Successor, Indices
<1>5. \A i \in 1 .. Waiting' : Slot(i)' = Slot(i + 1)
  BY <1>2, <1>4, SlotFacts, SpscRingAssumption DEF RingIInv, RingTypeOK, Slot, Successor, Indices
<1>6. QED
  BY <1>1, <1>2, <1>3, <1>4, <1>5

-----------------------------------------------------------------------------
\* The ring starts empty.
LEMMA InitRing == RingInit => RingIInv
  BY SpscRingAssumption
  DEF RingInit, RingIInv, RingTypeOK, FetchedIsOldest, Filled, Waiting, Indices

\* Indices stay in the ring, and what moves in it are bytes.
LEMMA NextTypeOK == RingIInv /\ [RingNext]_ringVars => RingTypeOK'
<1> SUFFICES ASSUME RingIInv, [RingNext]_ringVars PROVE RingTypeOK'
  OBVIOUS
<1>1. ASSUME NEW x \in RxBytes, Irq(x) PROVE RingTypeOK'
  BY <1>1, SlotFacts DEF RingIInv, RingTypeOK, Irq
<1>2. CASE Fetch
  BY <1>2 DEF RingIInv, RingTypeOK, Fetch
<1>3. CASE TakeOut
  BY <1>3, SlotFacts DEF RingIInv, RingTypeOK, TakeOut
<1>4. CASE UNCHANGED ringVars
  BY <1>4 DEF RingIInv, RingTypeOK, ringVars
<1>5. QED
  BY <1>1, <1>2, <1>3, <1>4 DEF RingNext

\* Each step of the interrupt and of process() keeps the invariant.
LEMMA NextRing == RingIInv /\ [RingNext]_ringVars => RingIInv'
<1> SUFFICES ASSUME RingIInv, [RingNext]_ringVars PROVE RingIInv'
  OBVIOUS
<1>1. RingTypeOK'
  BY NextTypeOK
<1>2. ASSUME NEW x \in RxBytes, Irq(x) PROVE RingIInv'
  <2>1. CASE Successor(head) # tail
    <3>1. Filled'
      <4>1. Waiting \in Nat /\ Waiting' = Waiting + 1
        BY <1>2, <2>1, IrqKeeps, SlotFacts DEF RingIInv
      <4>2. ASSUME NEW i \in 1 .. Waiting + 1 PROVE ring'[Slot(i)'] \in RxBytes
        <5>1. CASE i \in 1 .. Waiting
          BY <1>2, <2>1, <5>1, IrqKeeps DEF Filled, RingIInv
        <5>2. CASE i = Waiting'
          BY <1>2, <2>1, <5>2, IrqKeeps
        <5>3. QED
          BY <4>1, <5>1, <5>2
      <4>3. QED
        BY <4>1, <4>2 DEF Filled
    <3>2. FetchedIsOldest'
      BY <1>2, <2>1, SlotFacts, SpscRingAssumption
      DEF FetchedIsOldest, RingIInv, RingTypeOK, Irq
    <3>3. QED
      BY <1>1, <3>1, <3>2 DEF RingIInv
  <2>2. CASE Successor(head) = tail
    BY <1>1, <1>2, <2>2 DEF Irq, RingIInv, Filled, FetchedIsOldest, Waiting, Slot
  <2>3. QED
    BY <2>1, <2>2
<1>3. CASE Fetch
  BY <1>1, <1>3 DEF Fetch, RingIInv, Filled, FetchedIsOldest, Waiting, Slot
<1>4. CASE TakeOut
  <2>1. Filled'
    BY <1>4, TakeOutMoves, SlotFacts DEF Filled, RingIInv
  <2>2. FetchedIsOldest'
    BY <1>4 DEF TakeOut, FetchedIsOldest
  <2>3. QED
    BY <1>1, <2>1, <2>2 DEF RingIInv
<1>5. CASE UNCHANGED ringVars
  BY <1>1, <1>5 DEF ringVars, RingIInv, Filled, FetchedIsOldest, Waiting, Slot
<1>6. QED
  BY <1>2, <1>3, <1>4, <1>5 DEF RingNext

\* The invariant the ring rests on: what process() has read is still in the
\* ring, and nothing but bytes is between the indices.
THEOREM RingInductive == RingSpec => []RingIInv
  BY InitRing, NextRing, PTL DEF RingSpec

\* Indices stay in the ring.
THEOREM RingTypeCorrect == RingSpec => []RingTypeOK
<1>1. RingIInv => RingTypeOK
  BY DEF RingIInv
<1>2. QED
  BY <1>1, RingInductive, PTL

-----------------------------------------------------------------------------
(* The steps of the ring are steps of the queue.                           *)

\* The interrupt puts a byte into the queue, or drops it if the queue is full.
LEMMA IrqRefines ==
  ASSUME RingIInv, RingIInv', NEW x \in RxBytes, Irq(x)
  PROVE  Queue!Put(x)
<1>1. /\ Contents \in Seq(RxBytes) /\ Len(Contents) = Waiting
      /\ Contents' \in Seq(RxBytes) /\ Len(Contents') = Waiting'
      /\ \A i \in 1 .. Waiting : Contents[i] = ring[Slot(i)]
      /\ \A i \in 1 .. Waiting' : Contents'[i] = ring'[Slot(i)']
  <2>1. Contents \in Seq(RxBytes) /\ Len(Contents) = Waiting
        /\ \A i \in 1 .. Waiting : Contents[i] = ring[Slot(i)]
    BY ContentsFacts
  <2>2. Contents' = [i \in 1 .. Waiting' |-> ring'[Slot(i)']]
    BY DEF Contents
  <2>3. Contents' \in [1 .. Waiting' -> RxBytes] /\ Waiting' \in Nat
    <3>1. Waiting' \in Nat
      <4>1. Successor(head) # tail => Waiting' = Waiting + 1
        BY IrqKeeps
      <4>2. Successor(head) = tail => Waiting' = Waiting
        BY DEF Irq, Waiting
      <4>3. QED
        BY <4>1, <4>2, SlotFacts DEF RingIInv
    <3>2. QED
      BY <2>2, <3>1 DEF RingIInv, Filled
  <2>4. Contents' \in Seq(RxBytes) /\ Len(Contents') = Waiting'
    BY <2>3, LenProperties
  <2>5. QED
    BY <2>1, <2>2, <2>4
<1>2. CASE Successor(head) # tail
  <2>1. stored' = TRUE /\ Len(Contents) < RingSize - 1
    BY <1>1, <1>2, SlotFacts, SpscRingAssumption DEF Irq, RingIInv
  <2>2. Contents' = Append(Contents, x)
    <3>1. /\ Append(Contents, x) \in Seq(RxBytes)
          /\ Len(Append(Contents, x)) = Waiting + 1
          /\ \A i \in 1 .. Waiting : Append(Contents, x)[i] = Contents[i]
          /\ Append(Contents, x)[Waiting + 1] = x
      BY <1>1, AppendProperties
    <3>2. Waiting' = Waiting + 1 /\ Waiting \in Nat
      BY <1>2, IrqKeeps, SlotFacts DEF RingIInv
    <3>3. \A i \in 1 .. Waiting + 1 : Contents'[i] = Append(Contents, x)[i]
      <4>1. ASSUME NEW i \in 1 .. Waiting PROVE Contents'[i] = Append(Contents, x)[i]
        BY <1>1, <1>2, <3>1, <3>2, IrqKeeps
      <4>2. Contents'[Waiting'] = x
        BY <1>1, <1>2, <3>2, IrqKeeps
      <4>3. QED
        BY <3>1, <3>2, <4>1, <4>2
    <3>4. QED
      BY <1>1, <3>1, <3>2, <3>3, SeqEqual
  <2>3. QED
    BY <2>1, <2>2 DEF Queue!Put, Irq
<1>3. CASE Successor(head) = tail
  <2>1. stored' = FALSE /\ (Len(Contents) < RingSize - 1) = FALSE
    BY <1>1, <1>3, SlotFacts, SpscRingAssumption DEF Irq, RingIInv
  <2>2. Contents' = Contents
    BY <1>3 DEF Irq, Contents, Waiting, Slot
  <2>3. QED
    BY <2>1, <2>2 DEF Queue!Put, Irq
<1>4. QED
  BY <1>2, <1>3

\* process() takes the first byte of the queue.
LEMMA TakeOutRefines ==
  ASSUME RingIInv, RingIInv', TakeOut
  PROVE  Queue!TakeFirst
<1>1. /\ Contents \in Seq(RxBytes) /\ Len(Contents) = Waiting
      /\ \A i \in 1 .. Waiting : Contents[i] = ring[Slot(i)]
  BY ContentsFacts
<1>2. Waiting >= 1 /\ Waiting' = Waiting - 1 /\ Waiting \in Nat /\ taken' = ring[Slot(1)]
  BY TakeOutMoves, SlotFacts DEF RingIInv
<1>3. Contents # <<>> /\ Head(Contents) = taken'
  BY <1>1, <1>2, EmptySeq
<1>4. Contents' = Tail(Contents)
  <2>1. Contents' = [i \in 1 .. Waiting' |-> ring'[Slot(i)']]
    BY DEF Contents
  <2>2. \A i \in 1 .. Waiting' : Contents'[i] = Contents[i + 1]
    BY <1>1, <1>2, <2>1, TakeOutMoves
  <2>3. Tail(Contents) \in Seq(RxBytes) /\ Len(Tail(Contents)) = Waiting'
        /\ \A i \in 1 .. Waiting' : Tail(Contents)[i] = Contents[i + 1]
    BY <1>1, <1>2, <1>3, HeadTailProperties
  <2>4. Contents' \in Seq(RxBytes) /\ Len(Contents') = Waiting'
    <3>1. Contents' \in [1 .. Waiting' -> RxBytes] /\ Waiting' \in Nat
      BY <1>2, <2>1 DEF RingIInv, Filled
    <3>2. QED
      BY <3>1, LenProperties
  <2>5. QED
    BY <2>2, <2>3, <2>4, SeqEqual
<1>5. QED
  BY <1>3, <1>4 DEF Queue!TakeFirst, TakeOut

\* The ring of any size is a first-in first-out queue that holds one byte less
\* than its size and drops a byte only when it is full.
THEOREM RingIsQueueHolds == RingSpec => RingIsQueue
<1>1. RingInit => Queue!QueueInit
  BY SpscRingAssumption
  DEF RingInit, Queue!QueueInit, Contents, Waiting
<1>2. RingIInv /\ RingIInv' /\ [RingNext]_ringVars => [Queue!QueueNext]_(Queue!queueVars)
  <2> SUFFICES ASSUME RingIInv, RingIInv', [RingNext]_ringVars PROVE [Queue!QueueNext]_(Queue!queueVars)
    OBVIOUS
  <2>1. ASSUME NEW x \in RxBytes, Irq(x) PROVE Queue!QueueNext
    BY <2>1, IrqRefines DEF Queue!QueueNext
  <2>2. CASE Fetch
    BY <2>2 DEF Fetch, Queue!queueVars, Contents, Waiting, Slot
  <2>3. CASE TakeOut
    BY <2>3, TakeOutRefines DEF Queue!QueueNext
  <2>4. CASE UNCHANGED ringVars
    BY <2>4 DEF ringVars, Queue!queueVars, Contents, Waiting, Slot
  <2>5. QED
    BY <2>1, <2>2, <2>3, <2>4 DEF RingNext
<1>3. QED
  BY <1>1, <1>2, RingInductive, PTL DEF RingSpec, RingIsQueue, Queue!QueueSpec

-----------------------------------------------------------------------------
(***************************************************************************)
(* The parser (MidiSerial).                                                *)
(***************************************************************************)

\* A realtime byte, which the parser passes over.
Passed(b) == b.of = Realtime

\* Byte b comes next after byte a, which nothing was lost before.
Follows(a, b) ==
  /\ a.whole
  /\ \/ b.of = a.of /\ b.at = a.at + 1
     \/ /\ a.of \in Voices /\ a.at = a.of.len
        /\ b.of \in Voices /\ b.of.status = a.of.status /\ b.at = 1

Places(m, n) == [i \in 1 .. n |-> <<m, i>>]

\* The parser has what came before data byte or F7 b of b's message.
Ready(b) ==
  /\ b.of \in SysExes =>
       inSysEx /\ (~Overlong(b) => sysex = Places(b.of, b.at - 1))
  /\ b.of \in Voices =>
       ~inSysEx /\ status = b.of.status /\ data = Places(b.of, b.at - 1)

\* Byte b, arriving behind the first n bytes of the queue, is a status byte,
\* or follows the last of them, or what the parser has taken already.
InStep(n, b) ==
  \/ b.at = 0
  \/ \E p \in 1 .. n :
       /\ ~Passed(queue[p]) /\ \A k \in p + 1 .. n : Passed(queue[k])
       /\ Follows(queue[p], b)
  \/ (\A k \in 1 .. n : Passed(queue[k])) /\ Ready(b)

QueueInStep == \A i \in 1 .. Len(queue) : queue[i].whole => InStep(i - 1, queue[i])

\* Data bytes and F7s the sender may send next.
NextBytes ==
  {b \in Bytes :
     IF sending # Nothing THEN b.of = sending /\ b.at = sent + 1
     ELSE b.of \in Voices /\ b.of.status = running /\ b.at = 1}

SenderInStep == intact => \A b \in NextBytes : InStep(Len(queue), b)

\* The sender is inside a message, of which bytes are left to send.
SenderOK ==
  sending # Nothing =>
    /\ sending \in Voices \cup SysExes /\ sent < LastPlace(sending)
    /\ running = IF sending \in Voices THEN sending.status ELSE Nothing

SerialIInv == TypeOK /\ SenderOK /\ QueueInStep /\ SenderInStep /\ DeliversWhatWasSent
-----------------------------------------------------------------------------
\* What the assumptions say of the messages.
LEMMA MessageFacts ==
  /\ \A m \in Voices : m.status \in {"note", "program"} /\ m.len \in {1, 2}
                       /\ m.len = DataNeeded(m.status) /\ m \notin SysExes
                       /\ m # Common /\ m # Realtime
  /\ \A m \in SysExes : m.status = "sysex" /\ m.len \in Nat /\ m # Common /\ m # Realtime
  /\ Common # Realtime /\ Common.status = "common" /\ Realtime.status = "realtime"
  /\ Common.len = 0 /\ Realtime.len = 0
  BY MidiSerialAssumption DEF DataNeeded, Common, Realtime

\* Where each kind of message ends.
LEMMA LastPlaces ==
  ASSUME NEW m \in Messages
  PROVE  /\ LastPlace(m) \in Nat
         /\ m \in Voices => LastPlace(m) = m.len
         /\ m \in SysExes => LastPlace(m) = m.len + 1
         /\ m \in {Common, Realtime} => LastPlace(m) = 0
  BY MessageFacts DEF LastPlace, Messages

\* What a byte is made of, and that all made so are bytes.
LEMMA ByteIs ==
  ASSUME NEW b
  PROVE  b \in Bytes <=>
           \E m \in Messages, p \in Nat, w \in BOOLEAN :
             p <= LastPlace(m) /\ b = [of |-> m, at |-> p, whole |-> w]
<1>1. ASSUME NEW m \in Messages
      PROVE  b \in [of : {m}, at : 0 .. LastPlace(m), whole : BOOLEAN] <=>
               \E p \in Nat, w \in BOOLEAN :
                 p <= LastPlace(m) /\ b = [of |-> m, at |-> p, whole |-> w]
  BY LastPlaces
<1>2. b \in Bytes <=>
        \E m \in Messages : b \in [of : {m}, at : 0 .. LastPlace(m), whole : BOOLEAN]
  BY DEF Bytes
<1>3. QED
  BY <1>1, <1>2

\* A byte of a message, made of its parts.
LEMMA ByteMade ==
  ASSUME NEW m \in Messages, NEW p \in 0 .. LastPlace(m), NEW w \in BOOLEAN
  PROVE  [of |-> m, at |-> p, whole |-> w] \in Bytes
<1>1. [of |-> m, at |-> p, whole |-> w] \in [of : {m}, at : 0 .. LastPlace(m), whole : BOOLEAN]
  OBVIOUS
<1>2. QED
  BY <1>1, Zenon DEF Bytes

\* The fields of a byte.
LEMMA ByteFields ==
  ASSUME NEW b \in Bytes
  PROVE  /\ b.of \in Messages /\ b.at \in Nat /\ b.whole \in BOOLEAN
         /\ b.at <= LastPlace(b.of)
         /\ Content(b) \in Messages \X Nat
  BY ByteIs DEF Content

\* A message's data grows by one byte at a time.
LEMMA PlacesFacts ==
  ASSUME NEW m \in Messages, NEW n \in Nat
  PROVE  /\ Places(m, n) \in Seq(Messages \X Nat) /\ Len(Places(m, n)) = n
         /\ Places(m, 0) = <<>>
         /\ Append(Places(m, n), <<m, n + 1>>) = Places(m, n + 1)
<1>1. Places(m, n) \in Seq(Messages \X Nat) /\ Len(Places(m, n)) = n
  BY DEF Places
<1>2. Places(m, n + 1) \in Seq(Messages \X Nat) /\ Len(Places(m, n + 1)) = n + 1
  BY DEF Places
<1>3. Places(m, 0) = <<>>
  BY DEF Places
<1>4. Append(Places(m, n), <<m, n + 1>>) = Places(m, n + 1)
  <2> DEFINE longer == Append(Places(m, n), <<m, n + 1>>)
  <2>1. <<m, n + 1>> \in Messages \X Nat
    OBVIOUS
  <2>2. /\ longer \in Seq(Messages \X Nat) /\ Len(longer) = n + 1
        /\ \A i \in 1 .. n : longer[i] = Places(m, n)[i]
        /\ longer[n + 1] = <<m, n + 1>>
    BY <1>1, <2>1, AppendProperties
  <2> HIDE DEF longer
  <2>3. \A i \in 1 .. n + 1 : longer[i] = Places(m, n + 1)[i]
    BY <2>2 DEF Places
  <2>4. longer = Places(m, n + 1)
    BY <1>2, <2>2, <2>3, SeqEqual
  <2>5. QED
    BY <2>4 DEF longer
<1>5. QED
  BY <1>1, <1>3, <1>4

\* The queue after the oldest byte has been taken, and after one has come.
LEMMA TakenQueue ==
  ASSUME TypeOK, queue # <<>>, queue' = Tail(queue)
  PROVE  /\ First \in Bytes /\ First = queue[1]
         /\ Len(queue) \in Nat \ {0} /\ Len(queue') = Len(queue) - 1
         /\ queue' \in Seq(Bytes)
         /\ \A k \in 1 .. Len(queue) - 1 : queue'[k] = queue[k + 1]
  BY HeadTailProperties DEF TypeOK, First

LEMMA PutQueue ==
  ASSUME TypeOK, NEW x \in Bytes, Put(x)
  PROVE  /\ kept' \in BOOLEAN /\ got' = got /\ Len(queue) \in Nat
         /\ queue' \in Seq(Bytes) /\ Len(queue') \in Nat /\ Len(queue') <= Capacity
         /\ \A k \in 1 .. Len(queue) : queue'[k] = queue[k]
         /\ \/ kept' = FALSE /\ queue' = queue
            \/ /\ kept' = TRUE /\ Len(queue') = Len(queue) + 1
               /\ queue'[Len(queue) + 1] = x
<1>1. Len(queue) \in Nat /\ Capacity \in Nat /\ Len(queue) <= Capacity
  BY LenProperties, MidiSerialAssumption DEF TypeOK
<1>2. CASE Len(queue) < Capacity
  <2>1. kept' = TRUE
    BY <1>2, Zenon DEF Put
  <2>2. queue' = Append(queue, x) /\ got' = got
    BY <2>1, Zenon DEF Put
  <2>3. QED
    BY <1>1, <1>2, <2>1, <2>2, AppendProperties DEF TypeOK
<1>3. CASE ~(Len(queue) < Capacity)
  <2>1. kept' = FALSE
    <3>1. kept' = (Len(queue) < Capacity)
      BY Zenon DEF Put
    <3>2. (Len(queue) < Capacity) = FALSE
      BY <1>3, <1>1
    <3>3. QED
      BY <3>1, <3>2, Zenon
  <2>2. queue' = queue /\ got' = got
    BY <2>1, Zenon DEF Put
  <2>3. QED
    BY <1>1, <2>1, <2>2 DEF TypeOK
<1>4. QED
  BY <1>2, <1>3
-----------------------------------------------------------------------------
(* The parser.                                                             *)

\* What a step of the parser takes is a byte of one of these kinds.
LEMMA FirstIs ==
  ASSUME TypeOK, queue # <<>>
  PROVE  /\ First.of \in Messages /\ First.at \in Nat /\ First.at <= LastPlace(First.of)
         /\ First.of \in {Common, Realtime} => First.at = 0
         /\ IsEnd <=> First.of \in SysExes /\ First.at = First.of.len + 1
         /\ IsData <=> First.at > 0 /\ ~IsEnd
         /\ \A s : IsStatus(s) <=> First.at = 0 /\ First.of.status = s
<1>1. First \in Bytes
  BY HeadTailProperties DEF TypeOK, First
<1>2. First.of \in Messages /\ First.at \in Nat /\ First.at <= LastPlace(First.of)
  BY <1>1, ByteFields
<1>3. First.of \in {Common, Realtime} => First.at = 0
  BY <1>2, LastPlaces
<1>4. First.of.status = "sysex" <=> First.of \in SysExes
  BY <1>2, MessageFacts DEF Messages
<1>5. QED
  BY <1>2, <1>3, <1>4 DEF IsEnd, IsData, IsStatus

\* A byte that comes in step is delivered as it should be, and leaves the
\* parser ready for the byte that follows it.
LEMMA ParseInStep ==
  ASSUME TypeOK, Parse, ~Passed(First), First.at = 0 \/ Ready(First)
  PROVE  /\ ~Overlong(First) => delivered' = Due(First)
         /\ \A b \in Bytes : Follows(First, b) => Ready(b)'
<1>0. queue # <<>> /\ First \in Bytes
  BY HeadTailProperties
     DEF Parse, ParseRealtime, ParseEnd, ParseStart, ParseCommon, ParseVoiceStatus,
         ParseSysExData, ParseStray, ParseData, IsStatus, IsEnd, IsData, First, TypeOK
<1>1. /\ First.of \in Messages /\ First.at \in Nat /\ First.at <= LastPlace(First.of)
      /\ First.of \in {Common, Realtime} => First.at = 0
  BY <1>0, FirstIs
<1>2. \A b \in Bytes : b.of \in Messages /\ b.at <= LastPlace(b.of) /\ b.at \in Nat
  BY ByteFields
<1>3. CASE First.at = 0 /\ First.of = Common
  <2>1. delivered' = Nothing
    BY <1>0, <1>3, FirstIs, MessageFacts
       DEF Parse, ParseRealtime, ParseEnd, ParseStart, ParseCommon, ParseVoiceStatus,
           ParseSysExData, ParseStray, ParseData
  <2>2. \A b \in Bytes : ~Follows(First, b)
    BY <1>2, <1>3, LastPlaces, MessageFacts DEF Follows
  <2>3. Due(First) = Nothing
    BY <1>3, MessageFacts DEF Due
  <2>4. QED
    BY <2>1, <2>2, <2>3
<1>4. CASE First.at = 0 /\ First.of \in SysExes
  <2>1. ParseStart
    BY <1>0, <1>4, FirstIs, MessageFacts
       DEF Parse, ParseRealtime, ParseEnd, ParseStart, ParseCommon, ParseVoiceStatus,
           ParseSysExData, ParseStray, ParseData
  <2>2. delivered' = Nothing /\ inSysEx' = TRUE /\ sysex' = <<>>
    BY <2>1 DEF ParseStart
  <2>3. \A b \in Bytes : Follows(First, b) => b.of = First.of /\ b.at = 1
    BY <1>4, MessageFacts DEF Follows
  <2>4. First.of \notin Voices /\ Places(First.of, 0) = <<>>
    BY <1>1, <1>4, MessageFacts, PlacesFacts
  <2>5. Due(First) = Nothing
    BY <1>4, LastPlaces, MessageFacts DEF Due, Messages
  <2>6. ASSUME NEW b \in Bytes, Follows(First, b) PROVE Ready(b)'
    <3>1. b.of = First.of /\ b.at - 1 = 0
      BY <2>3, <2>6
    <3>2. QED
      BY <2>2, <2>4, <3>1 DEF Ready, Overlong
  <2>7. QED
    BY <2>2, <2>5, <2>6
<1>5. CASE First.at = 0 /\ First.of \in Voices
  <2>1. ParseVoiceStatus
    BY <1>0, <1>5, FirstIs, MessageFacts
       DEF Parse, ParseRealtime, ParseEnd, ParseStart, ParseCommon,
           ParseSysExData, ParseStray, ParseData
  <2>2. /\ delivered' = Nothing /\ inSysEx' = FALSE /\ data' = <<>>
        /\ status' = First.of.status
    BY <1>0, <2>1, FirstIs DEF ParseVoiceStatus
  <2>3. \A b \in Bytes : Follows(First, b) => b.of = First.of /\ b.at = 1
    BY <1>5, MessageFacts DEF Follows
  <2>4. First.of \notin SysExes /\ Places(First.of, 0) = <<>>
    BY <1>1, <1>5, MessageFacts, PlacesFacts
  <2>5. Due(First) = Nothing
    BY <1>5, LastPlaces, MessageFacts DEF Due, Messages
  <2>6. ASSUME NEW b \in Bytes, Follows(First, b) PROVE Ready(b)'
    <3>1. b.of = First.of /\ b.at - 1 = 0
      BY <2>3, <2>6
    <3>2. QED
      BY <2>2, <2>4, <3>1 DEF Ready
  <2>7. QED
    BY <2>2, <2>5, <2>6
<1>6. CASE First.at > 0 /\ First.of \in SysExes /\ First.at = First.of.len + 1
  <2>1. inSysEx /\ (~Overlong(First) => sysex = Places(First.of, First.of.len))
    BY <1>6, MessageFacts DEF Ready
  <2>2. ParseEnd
    BY <1>0, <1>6, FirstIs, MessageFacts
       DEF Parse, ParseRealtime, ParseEnd, ParseStart, ParseCommon, ParseVoiceStatus,
           ParseSysExData, ParseStray, ParseData
  <2>3. delivered' = [status |-> "sysex", data |-> sysex]
    BY <2>1, <2>2 DEF ParseEnd
  <2>4. Due(First) = [status |-> "sysex", data |-> Places(First.of, First.of.len)]
    BY <1>6, LastPlaces, MessageFacts DEF Due, Places, Messages
  <2>5. \A b \in Bytes : ~Follows(First, b)
    BY <1>2, <1>6, LastPlaces, MessageFacts DEF Follows
  <2>6. QED
    BY <2>1, <2>3, <2>4, <2>5
<1>7. CASE First.at > 0 /\ First.of \in SysExes /\ First.at # First.of.len + 1
  <2>1. inSysEx /\ (~Overlong(First) => sysex = Places(First.of, First.at - 1))
    BY <1>7 DEF Ready
  <2>2. ParseSysExData
    <3>1. ~IsEnd /\ \A s : ~IsStatus(s)
      BY <1>0, <1>7, FirstIs
    <3>2. QED
      BY <2>1, <3>1, Zenon
         DEF Parse, ParseRealtime, ParseEnd, ParseStart, ParseCommon, ParseVoiceStatus,
             ParseStray, ParseData
  <2>3. delivered' = Nothing /\ Due(First) = Nothing
    BY <1>7, <2>2, LastPlaces, MessageFacts DEF ParseSysExData, Due, Messages
  <2>4. \A b \in Bytes : Follows(First, b) => b.of = First.of /\ b.at = First.at + 1
    BY <1>7, MessageFacts DEF Follows
  <2>5. ~Overlong(First) => sysex' = Places(First.of, First.at)
    <3>1. SUFFICES ASSUME ~Overlong(First) PROVE sysex' = Places(First.of, First.at)
      OBVIOUS
    <3>2. First.at - 1 \in Nat /\ First.at - 1 < SysExMax
      BY <1>1, <1>7, <3>1, LastPlaces, MessageFacts, MidiSerialAssumption DEF Overlong
    <3>3. Len(sysex) < SysExMax
      BY <1>1, <2>1, <3>1, <3>2, PlacesFacts
    <3>4. sysex' = Append(sysex, <<First.of, First.at>>)
      BY <2>2, <3>3 DEF ParseSysExData, Content
    <3>5. Append(Places(First.of, First.at - 1), <<First.of, (First.at - 1) + 1>>)
            = Places(First.of, (First.at - 1) + 1)
      BY <1>1, <3>2, PlacesFacts
    <3>6. QED
      BY <1>1, <2>1, <3>1, <3>4, <3>5
  <2>6. ASSUME NEW b \in Bytes, Follows(First, b) PROVE Ready(b)'
    <3>1. b.of = First.of /\ b.at - 1 = First.at /\ b.of \notin Voices
      BY <1>1, <1>7, <2>4, <2>6, MessageFacts
    <3>2. inSysEx' = inSysEx
      BY <2>2 DEF ParseSysExData
    <3>3. QED
      BY <2>1, <2>5, <3>1, <3>2 DEF Ready, Overlong
  <2>7. QED
    BY <2>3, <2>6
<1>8. CASE First.at > 0 /\ First.of \in Voices
  <2>1. /\ ~inSysEx /\ status = First.of.status /\ data = Places(First.of, First.at - 1)
        /\ status # Nothing
    BY <1>8, MessageFacts, MidiSerialAssumption DEF Ready
  <2>2. ParseData
    BY <1>0, <1>8, <2>1, FirstIs, MessageFacts
       DEF Parse, ParseRealtime, ParseEnd, ParseStart, ParseCommon, ParseVoiceStatus,
           ParseSysExData, ParseStray, ParseData
  <2>3. First.at \in Nat /\ First.at <= First.of.len /\ DataNeeded(status) = First.of.len
    BY <1>1, <1>8, <2>1, LastPlaces, MessageFacts
  <2>4. Append(data, Content(First)) = Places(First.of, First.at)
    <3>1. First.at - 1 \in Nat /\ (First.at - 1) + 1 = First.at
      BY <1>1, <1>8
    <3>2. Append(Places(First.of, First.at - 1), <<First.of, (First.at - 1) + 1>>)
            = Places(First.of, (First.at - 1) + 1)
      BY <1>1, <3>1, PlacesFacts
    <3>3. QED
      BY <2>1, <3>1, <3>2 DEF Content
  <2>5. Len(Places(First.of, First.at)) = First.at /\ Places(First.of, 0) = <<>>
    BY <1>1, PlacesFacts
  <2>6. status' = status /\ inSysEx' = inSysEx
    BY <2>2 DEF ParseData
  <2>7. CASE First.at = First.of.len
    <3>1. /\ data' = <<>>
          /\ delivered' = [status |-> status, data |-> Places(First.of, First.at)]
      BY <2>2, <2>3, <2>4, <2>5, <2>7 DEF ParseData
    <3>2. Due(First) = [status |-> status, data |-> Places(First.of, First.at)]
      BY <1>1, <1>8, <2>1, <2>7, LastPlaces DEF Due, Places
    <3>3. ASSUME NEW b \in Bytes, Follows(First, b) PROVE Ready(b)'
      <4>1. b.of \in Voices /\ b.of.status = First.of.status /\ b.at = 1
        BY <1>1, <1>2, <1>8, <2>7, <3>3, LastPlaces, MessageFacts DEF Follows
      <4>2. Places(b.of, 0) = <<>>
        BY <1>2, <3>3, PlacesFacts
      <4>3. b.at - 1 = 0 /\ b.of \notin SysExes
        BY <4>1, MessageFacts
      <4>4. QED
        BY <2>1, <2>6, <3>1, <4>1, <4>2, <4>3 DEF Ready
    <3>4. QED
      BY <3>1, <3>2, <3>3
  <2>8. CASE First.at # First.of.len
    <3>1. data' = Places(First.of, First.at) /\ delivered' = Nothing
      BY <2>2, <2>3, <2>4, <2>5, <2>8 DEF ParseData
    <3>2. Due(First) = Nothing
      BY <1>1, <1>8, <2>8, LastPlaces DEF Due
    <3>3. ASSUME NEW b \in Bytes, Follows(First, b) PROVE Ready(b)'
      <4>1. b.of = First.of /\ b.at - 1 = First.at /\ b.of \notin SysExes
        BY <1>1, <1>8, <2>8, <3>3, MessageFacts DEF Follows
      <4>2. QED
        BY <1>8, <2>1, <2>6, <3>1, <4>1 DEF Ready
    <3>4. QED
      BY <3>1, <3>2, <3>3
  <2>9. QED
    BY <2>7, <2>8
<1>9. QED
  BY <1>1, <1>3, <1>4, <1>5, <1>6, <1>7, <1>8 DEF Passed, Messages
-----------------------------------------------------------------------------
\* Every parser step takes one byte, and a realtime byte changes nothing else.
LEMMA ParseTakes ==
  ASSUME TypeOK, Parse
  PROVE  /\ queue # <<>> /\ queue' = Tail(queue) /\ got' = First /\ kept' = kept
         /\ UNCHANGED senderVars
         /\ Passed(First) => UNCHANGED <<status, data, inSysEx, sysex>> /\ delivered' = Nothing
<1>1. queue # <<>> /\ Advance
  BY DEF Parse, ParseRealtime, ParseEnd, ParseStart, ParseCommon, ParseVoiceStatus,
         ParseSysExData, ParseStray, ParseData, IsStatus, IsEnd, IsData
<1>2. queue' = Tail(queue) /\ got' = First /\ kept' = kept /\ UNCHANGED senderVars
  BY <1>1 DEF Advance, TakeFirst, First
<1>3. ASSUME Passed(First)
      PROVE  UNCHANGED <<status, data, inSysEx, sysex>> /\ delivered' = Nothing
  <2>1. First.of = Realtime /\ First.at = 0 /\ ~IsEnd /\ ~IsData
    BY <1>1, <1>3, FirstIs, MessageFacts DEF Passed
  <2>2. \A s : IsStatus(s) => s = "realtime"
    BY <1>1, <2>1, FirstIs, MessageFacts
  <2>3. ParseRealtime
    BY <2>1, <2>2 DEF Parse, ParseEnd, ParseStart, ParseCommon, ParseVoiceStatus,
                      ParseSysExData, ParseStray, ParseData
  <2>4. QED
    BY <2>3 DEF ParseRealtime
<1>4. QED
  BY <1>1, <1>2, <1>3

\* A byte in step stays so when the oldest byte is taken.
LEMMA TakeInStep ==
  ASSUME TypeOK, Parse, First.whole => First.at = 0 \/ Ready(First),
         NEW n \in 1 .. Len(queue), NEW b \in Bytes, InStep(n, b)
  PROVE  InStep(n - 1, b)'
<1>1. /\ First = queue[1] /\ Len(queue) \in Nat
      /\ \A k \in 1 .. Len(queue) - 1 : queue'[k] = queue[k + 1]
  BY ParseTakes, TakenQueue
<1>2. CASE b.at = 0
  BY <1>2 DEF InStep
<1>3. ASSUME NEW p \in 2 .. n,
             ~Passed(queue[p]), \A k \in p + 1 .. n : Passed(queue[k]), Follows(queue[p], b)
      PROVE  InStep(n - 1, b)'
  <2>1. p - 1 \in 1 .. n - 1 /\ queue'[p - 1] = queue[p]
    BY <1>1
  <2>2. \A k \in (p - 1) + 1 .. n - 1 : Passed(queue'[k])
    <3> TAKE k \in (p - 1) + 1 .. n - 1
    <3>1. k + 1 \in p + 1 .. n /\ queue'[k] = queue[k + 1]
      BY <1>1
    <3>2. QED
      BY <1>3, <3>1
  <2>3. QED
    BY <1>3, <2>1, <2>2 DEF InStep
<1>4. CASE ~Passed(First) /\ Follows(First, b) /\ \A k \in 2 .. n : Passed(queue[k])
  <2>1. Ready(b)'
    BY <1>4, ParseInStep DEF Follows
  <2>2. \A k \in 1 .. n - 1 : Passed(queue'[k])
    <3> TAKE k \in 1 .. n - 1
    <3>1. k + 1 \in 2 .. n /\ queue'[k] = queue[k + 1]
      BY <1>1
    <3>2. QED
      BY <1>4, <3>1
  <2>3. QED
    BY <2>1, <2>2 DEF InStep
<1>5. CASE (\A k \in 1 .. n : Passed(queue[k])) /\ Ready(b)
  <2>1. Passed(First)
    BY <1>1, <1>5
  <2>2. Ready(b)'
    BY <1>5, <2>1, ParseTakes DEF Ready
  <2>3. \A k \in 1 .. n - 1 : Passed(queue'[k])
    <3> TAKE k \in 1 .. n - 1
    <3>1. k + 1 \in 1 .. n /\ queue'[k] = queue[k + 1]
      BY <1>1
    <3>2. QED
      BY <1>5, <3>1
  <2>4. QED
    BY <2>2, <2>3 DEF InStep
<1>6. QED
  <2>1. ASSUME NEW p \in 1 .. n, p \notin 2 .. n PROVE p = 1
    BY <2>1
  <2>2. QED
    BY <1>1, <1>2, <1>3, <1>4, <1>5, <2>1 DEF InStep

\* The byte the sender sends next is among those it may.
LEMMA NextByteIs ==
  ASSUME TypeOK, SenderOK
  PROVE  /\ NextBytes \subseteq Bytes
         /\ sending # Nothing =>
              /\ sending \in Voices \cup SysExes /\ sent + 1 \in 1 .. LastPlace(sending)
              /\ [of |-> sending, at |-> sent + 1, whole |-> TRUE] \in NextBytes
         /\ sending = Nothing =>
              \A m \in Voices : m.status = running =>
                [of |-> m, at |-> 1, whole |-> TRUE] \in NextBytes
<1>1. NextBytes \subseteq Bytes
  BY DEF NextBytes
<1>2. ASSUME sending # Nothing
      PROVE  /\ sending \in Voices \cup SysExes /\ sent + 1 \in 1 .. LastPlace(sending)
             /\ [of |-> sending, at |-> sent + 1, whole |-> TRUE] \in NextBytes
  <2>1. sending \in Voices \cup SysExes /\ sent + 1 \in 1 .. LastPlace(sending)
    BY <1>2, LastPlaces DEF SenderOK, TypeOK, Messages
  <2>2. [of |-> sending, at |-> sent + 1, whole |-> TRUE] \in Bytes
    <3>1. sending \in Messages /\ sent + 1 \in 0 .. LastPlace(sending)
      BY <2>1, LastPlaces DEF Messages
    <3>2. QED
      BY <3>1, ByteMade
  <2>3. QED
    BY <1>2, <2>1, <2>2 DEF NextBytes
<1>3. ASSUME sending = Nothing, NEW m \in Voices, m.status = running
      PROVE  [of |-> m, at |-> 1, whole |-> TRUE] \in NextBytes
  <2>1. [of |-> m, at |-> 1, whole |-> TRUE] \in Bytes
    <3>1. m \in Messages /\ 1 \in 0 .. LastPlace(m)
      BY LastPlaces, MessageFacts DEF Messages
    <3>2. QED
      BY <3>1, ByteMade
  <2>2. QED
    BY <1>3, <2>1 DEF NextBytes
<1>4. QED
  BY <1>1, <1>2, <1>3

\* The parser takes the oldest byte.
LEMMA ParseTypeOK == TypeOK /\ Parse => TypeOK'
<1> SUFFICES ASSUME TypeOK, Parse PROVE TypeOK'
  OBVIOUS
<1>1. /\ queue' \in Seq(Bytes) /\ Len(queue') <= Capacity
      /\ got' \in Bytes \cup {Nothing} /\ kept' \in BOOLEAN
      /\ First \in Bytes /\ queue # <<>>
      /\ UNCHANGED senderVars
  BY ParseTakes, TakenQueue, MidiSerialAssumption DEF TypeOK
<1>2. Content(First) \in Messages \X Nat
  BY <1>1, ByteFields
<1>3. PICK none \in Seq(Messages \X Nat) : none = <<>> /\ Len(none) = 0
  BY EmptySeq
<1> DEFINE Kept == Seq(Messages \X Nat)
           longSysEx == Append(sysex, Content(First))
           longData == Append(data, Content(First))
<1>4. /\ none \in Kept /\ Len(none) = 0
      /\ sysex \in Kept /\ Len(sysex) \in Nat /\ Len(sysex) <= SysExMax
      /\ data \in Kept /\ Len(data) \in Nat
      /\ status # Nothing => Len(data) < DataNeeded(status)
      /\ longSysEx \in Kept /\ Len(longSysEx) = Len(sysex) + 1
      /\ longData \in Kept /\ Len(longData) = Len(data) + 1
  BY <1>2, <1>3, AppendProperties, LenProperties DEF TypeOK
<1>5. /\ DataNeeded(status) \in {1, 2} /\ DataNeeded(status') \in {1, 2}
      /\ SysExMax \in Nat /\ Nothing \notin {"note", "program"}
      /\ status \in {Nothing, "note", "program"} /\ inSysEx \in BOOLEAN
  BY MidiSerialAssumption DEF DataNeeded, TypeOK
<1>6. \/ UNCHANGED <<status, data, sysex>> /\ inSysEx' \in {inSysEx, FALSE}
      \/ status' = Nothing /\ data' = data /\ inSysEx' \in BOOLEAN /\ sysex' \in {none, sysex}
      \/ /\ status' \in {"note", "program"} /\ data' = none
         /\ inSysEx' = FALSE /\ sysex' = sysex
      \/ /\ Len(sysex) < SysExMax /\ sysex' = longSysEx
         /\ UNCHANGED <<status, data, inSysEx>>
      \/ data' = none /\ UNCHANGED <<status, inSysEx, sysex>>
      \/ /\ Len(longData) # DataNeeded(status) /\ status # Nothing
         /\ data' = longData /\ UNCHANGED <<status, inSysEx, sysex>>
  <2>1. CASE ParseRealtime \/ ParseEnd \/ ParseStray
    BY <2>1 DEF ParseRealtime, ParseEnd, ParseStray
  <2>2. CASE ParseStart \/ ParseCommon
    BY <1>3, <2>2 DEF ParseStart, ParseCommon
  <2>3. CASE ParseVoiceStatus
    BY <1>3, <2>3 DEF ParseVoiceStatus
  <2>4. CASE ParseSysExData
    BY <2>4 DEF ParseSysExData
  <2>5. CASE ParseData
    BY <1>3, <2>5 DEF ParseData
  <2>6. QED
    BY <2>1, <2>2, <2>3, <2>4, <2>5 DEF Parse
<1> HIDE DEF Kept, longSysEx, longData
<1>7. /\ status' \in {Nothing, "note", "program"}
      /\ data' \in Kept /\ sysex' \in Kept
      /\ status' # Nothing => Len(data') < DataNeeded(status')
      /\ inSysEx' \in BOOLEAN /\ Len(sysex') <= SysExMax
  <2>1. inSysEx' \in BOOLEAN
    BY <1>5, <1>6
  <2>2. status' \in {Nothing, "note", "program"} /\ data' \in Kept /\ sysex' \in Kept
    BY <1>4, <1>5, <1>6
  <2>3. Len(sysex') <= SysExMax
    <3>1. sysex' \in {none, sysex} \/ (Len(sysex) < SysExMax /\ sysex' = longSysEx)
      BY <1>6
    <3>2. QED
      BY <1>4, <1>5, <3>1
  <2>4. status' # Nothing => Len(data') < DataNeeded(status')
    <3>1. \/ status' = Nothing \/ data' = none
          \/ status' = status /\ data' = data
          \/ status' = status /\ data' = longData /\ Len(longData) # DataNeeded(status)
      BY <1>6
    <3>2. QED
      BY <1>4, <1>5, <3>1
  <2>5. QED
    BY <2>1, <2>2, <2>3, <2>4
<1>8. QED
  BY <1>1, <1>7 DEF TypeOK, senderVars, Kept

\* A step of the parser keeps the invariant.
LEMMA ParseSerial == SerialIInv /\ Parse => SerialIInv'
<1> SUFFICES ASSUME SerialIInv, Parse PROVE SerialIInv'
  OBVIOUS
<1> USE DEF SerialIInv
<1>1. TypeOK'
  BY ParseTypeOK
<1>2. /\ First \in Bytes /\ First = queue[1]
      /\ Len(queue) \in Nat \ {0} /\ Len(queue') = Len(queue) - 1
      /\ queue' \in Seq(Bytes)
      /\ \A k \in 1 .. Len(queue) - 1 : queue'[k] = queue[k + 1]
      /\ got' = First /\ UNCHANGED senderVars
  BY ParseTakes, TakenQueue
<1>3. First.whole => First.at = 0 \/ Ready(First)
  <2>1. First.whole => InStep(0, First)
    BY <1>2 DEF QueueInStep
  <2>2. QED
    BY <2>1 DEF InStep
<1>4. SenderOK'
  BY <1>2 DEF SenderOK, senderVars
<1>5. QueueInStep'
  <2> SUFFICES ASSUME NEW i \in 1 .. Len(queue'), queue'[i].whole
               PROVE  InStep(i - 1, queue[i])'
    BY DEF QueueInStep
  <2>1. i + 1 \in 2 .. Len(queue) /\ queue'[i] = queue[i + 1]
    BY <1>2
  <2>2. PICK b \in Bytes : b = queue[i + 1] /\ b = queue'[i]
    BY <1>2, <2>1, ElementOfSeq DEF TypeOK
  <2>3. InStep(i, b)
    BY <2>1, <2>2 DEF QueueInStep
  <2>4. InStep(i - 1, b)'
    BY <1>2, <1>3, <2>1, <2>3, TakeInStep
  <2>5. QED
    BY <2>2, <2>4 DEF InStep
<1>6. SenderInStep'
  <2> SUFFICES ASSUME intact', NEW b \in NextBytes' PROVE InStep(Len(queue), b)'
    BY DEF SenderInStep
  <2>1. intact /\ b \in NextBytes /\ b \in Bytes
    BY <1>2 DEF NextBytes, senderVars
  <2>2. InStep(Len(queue), b)
    BY <2>1 DEF SenderInStep
  <2>3. PICK n \in 1 .. Len(queue) : n = Len(queue) /\ n - 1 = Len(queue')
    BY <1>2
  <2>4. InStep(n - 1, b)'
    BY <1>3, <2>1, <2>2, <2>3, TakeInStep
  <2>5. QED
    BY <2>3, <2>4 DEF InStep
<1>7. DeliversWhatWasSent'
  <2>1. CASE Passed(First)
    <3>1. delivered' = Nothing
      BY <2>1, ParseTakes
    <3>2. Due(First) = Nothing
      BY <2>1, MessageFacts DEF Passed, Due
    <3>3. QED
      BY <1>2, <3>1, <3>2 DEF DeliversWhatWasSent, Due, Overlong
  <2>2. CASE ~Passed(First)
    <3>1. First.whole /\ ~Overlong(First) => delivered' = Due(First)
      BY <1>3, <2>2, ParseInStep
    <3>2. QED
      BY <1>2, <3>1 DEF DeliversWhatWasSent, Due, Overlong
  <2>3. QED
    BY <2>1, <2>2
<1>8. QED
  BY <1>1, <1>4, <1>5, <1>6, <1>7
-----------------------------------------------------------------------------
(* The sender.                                                             *)

\* A byte that comes changes nothing for those before it; the next one is in
\* step behind it if it was in step without it and this one is passed over,
\* or if it follows this one.
LEMMA PutKeeps ==
  ASSUME TypeOK, QueueInStep, NEW x \in Bytes, Put(x), UNCHANGED parserVars,
         x.whole => InStep(Len(queue), x)
  PROVE  /\ QueueInStep'
         /\ kept' = FALSE =>
              \A b \in Bytes : InStep(Len(queue), b) => InStep(Len(queue), b)'
         /\ kept' = TRUE /\ Passed(x) =>
              \A b \in Bytes : InStep(Len(queue), b) => InStep(Len(queue), b)'
         /\ kept' = TRUE /\ ~Passed(x) =>
              \A b \in Bytes : Follows(x, b) => InStep(Len(queue), b)'
<1>0. PICK n \in Nat : n = Len(queue)
  BY PutQueue
<1>1. /\ queue' \in Seq(Bytes)
      /\ \A k \in 1 .. n : queue'[k] = queue[k]
      /\ \/ kept' = FALSE /\ queue' = queue
         \/ kept' = TRUE /\ Len(queue') = n + 1 /\ queue'[n + 1] = x
  BY <1>0, PutQueue
<1>2. \A b : Ready(b)' <=> Ready(b)
  BY DEF Ready, parserVars
<1>3. ASSUME NEW i \in 0 .. n, NEW b, InStep(i, b)
      PROVE  InStep(i, b)'
  <2>1. \A k \in 1 .. i : queue'[k] = queue[k]
    BY <1>1
  <2>2. QED
    BY <1>1, <1>2, <1>3, <2>1 DEF InStep
<1>4. QueueInStep'
  <2> SUFFICES ASSUME NEW i \in 1 .. Len(queue'), queue'[i].whole
               PROVE  InStep(i - 1, queue[i])'
    BY DEF QueueInStep
  <2>1. CASE i \in 1 .. n
    <3>1. queue'[i] = queue[i] /\ i - 1 \in 0 .. n
      BY <1>1, <2>1
    <3>2. InStep(i - 1, queue[i])
      BY <1>0, <2>1, <3>1 DEF QueueInStep
    <3>3. PICK b : b = queue[i] /\ b = queue'[i]
      BY <3>1
    <3>4. InStep(i - 1, b)'
      BY <1>3, <3>1, <3>2, <3>3
    <3>5. QED
      BY <3>3, <3>4 DEF InStep
  <2>2. CASE i \notin 1 .. n
    <3>1. i - 1 = n /\ queue'[i] = x /\ kept' = TRUE
      BY <1>0, <1>1, <2>2
    <3>2. i - 1 \in 0 .. n /\ InStep(i - 1, x)
      BY <1>0, <1>1, <2>2, <3>1
    <3>3. InStep(i - 1, x)'
      BY <1>3, <3>2
    <3>4. QED
      BY <3>1, <3>3 DEF InStep
  <2>3. QED
    BY <2>1, <2>2
<1>5. ASSUME kept' = FALSE, NEW b \in Bytes, InStep(Len(queue), b)
      PROVE  InStep(Len(queue), b)'
  <2>1. n \in 0 .. n /\ Len(queue') = n /\ InStep(n, b)
    BY <1>0, <1>1, <1>5
  <2>2. InStep(n, b)'
    BY <1>3, <2>1
  <2>3. QED
    BY <2>1, <2>2 DEF InStep
<1>6. ASSUME kept' = TRUE, Passed(x), NEW b \in Bytes, InStep(Len(queue), b)
      PROVE  InStep(Len(queue), b)'
  <2>1. Len(queue') = n + 1 /\ queue'[n + 1] = x /\ n \in 0 .. n /\ InStep(n, b)
    BY <1>0, <1>1, <1>6
  <2>2. InStep(n, b)'
    BY <1>3, <2>1
  <2>3. \A p \in 0 .. n : (\A k \in p + 1 .. n : Passed(queue'[k]))
                          => \A k \in p + 1 .. n + 1 : Passed(queue'[k])
    BY <1>1, <1>6, <2>1
  <2>4. \/ b.at = 0
        \/ \E p \in 1 .. n + 1 : /\ ~Passed(queue'[p])
                                 /\ \A k \in p + 1 .. n + 1 : Passed(queue'[k])
                                 /\ Follows(queue'[p], b)
        \/ (\A k \in 1 .. n + 1 : Passed(queue'[k])) /\ Ready(b)'
    <3>1. CASE b.at = 0
      BY <3>1
    <3>2. ASSUME NEW p \in 1 .. n,
                 ~Passed(queue'[p]), \A k \in p + 1 .. n : Passed(queue'[k]),
                 Follows(queue'[p], b)
          PROVE  \E r \in 1 .. n + 1 : /\ ~Passed(queue'[r])
                                       /\ \A k \in r + 1 .. n + 1 : Passed(queue'[k])
                                       /\ Follows(queue'[r], b)
      BY <2>3, <3>2
    <3>3. CASE (\A k \in 1 .. n : Passed(queue'[k])) /\ Ready(b)'
      <4>1. 0 \in 0 .. n /\ 0 + 1 = 1
        OBVIOUS
      <4>2. QED
        BY <2>3, <3>3, <4>1
    <3>4. QED
      BY <2>2, <3>1, <3>2, <3>3 DEF InStep
  <2>5. QED
    BY <2>1, <2>4, Zenon DEF InStep
<1>7. ASSUME kept' = TRUE, ~Passed(x), NEW b \in Bytes, Follows(x, b)
      PROVE  InStep(Len(queue), b)'
  <2>1. /\ Len(queue') = n + 1 /\ queue'[n + 1] = x
        /\ n + 1 \in 1 .. n + 1 /\ \A k \in (n + 1) + 1 .. n + 1 : Passed(queue'[k])
    BY <1>1, <1>7
  <2>2. QED
    BY <1>7, <2>1, Zenon DEF InStep
<1>8. QED
  BY <1>4, <1>5, <1>6, <1>7

\* What remains to be shown of a byte that is sent: it is in step itself, and
\* the next one follows it, or would have been in step without it.
LEMMA TransmitKeeps ==
  ASSUME TypeOK, QueueInStep, NEW m \in Messages, NEW place \in 0 .. LastPlace(m),
         Transmit(m, place),
         place # 0 /\ intact => InStep(Len(queue), [of |-> m, at |-> place, whole |-> TRUE]),
         NEW next \in SUBSET Bytes,
         m = Realtime =>
           place = 0 /\ (intact => \A b \in next : InStep(Len(queue), b)),
         m # Realtime =>
           \A b \in next : Follows([of |-> m, at |-> place, whole |-> TRUE], b)
  PROVE  /\ queue' \in Seq(Bytes) /\ Len(queue') <= Capacity
         /\ kept' \in BOOLEAN /\ intact' \in BOOLEAN
         /\ got' = got /\ UNCHANGED parserVars
         /\ QueueInStep'
         /\ intact' => \A b \in next : InStep(Len(queue), b)'
<1> DEFINE found == IF place = 0 /\ m # Realtime THEN TRUE ELSE intact
           x == [of |-> m, at |-> place, whole |-> found]
<1>1. UNCHANGED parserVars /\ (Arrive(m, place) \/ Lose(m))
  BY DEF Transmit
<1>2. found \in BOOLEAN /\ x \in Bytes
  <2>1. found \in BOOLEAN
    BY DEF TypeOK
  <2>2. QED
    BY <2>1, ByteMade
<1>3. x.of = m /\ x.at = place /\ x.whole = found
  OBVIOUS
<1>4. found = TRUE => x = [of |-> m, at |-> place, whole |-> TRUE]
  OBVIOUS
<1>5. x.whole => InStep(Len(queue), x)
  <2>1. CASE place = 0
    BY <2>1 DEF InStep
  <2>2. CASE place # 0
    BY <1>2, <2>2
  <2>3. QED
    BY <2>1, <2>2
<1>6. CASE Arrive(m, place)
  <2>1. Put(x) /\ intact' = (found /\ (kept' \/ m = Realtime))
    BY <1>6 DEF Arrive
  <2> HIDE DEF x
  <2>2. /\ queue' \in Seq(Bytes) /\ Len(queue') <= Capacity /\ got' = got
        /\ kept' \in BOOLEAN
    BY <1>2, <2>1, PutQueue
  <2>3. /\ QueueInStep'
        /\ kept' = FALSE =>
             \A b \in Bytes : InStep(Len(queue), b) => InStep(Len(queue), b)'
        /\ kept' = TRUE /\ Passed(x) =>
             \A b \in Bytes : InStep(Len(queue), b) => InStep(Len(queue), b)'
        /\ kept' = TRUE /\ ~Passed(x) =>
             \A b \in Bytes : Follows(x, b) => InStep(Len(queue), b)'
    BY <1>1, <1>2, <1>5, <2>1, PutKeeps
  <2>4. ASSUME intact', NEW b \in next PROVE InStep(Len(queue), b)'
    <3>1. found = TRUE /\ (kept' = TRUE \/ m = Realtime)
      BY <1>2, <2>1, <2>2, <2>4
    <3>2. CASE m = Realtime
      <4>1. InStep(Len(queue), b) /\ Passed(x)
        BY <1>3, <2>4, <3>1, <3>2 DEF Passed
      <4>2. QED
        BY <2>2, <2>3, <4>1
    <3>3. CASE m # Realtime
      <4>1. Follows(x, b) /\ ~Passed(x) /\ kept' = TRUE
        BY <1>3, <1>4, <2>4, <3>1, <3>3 DEF Passed
      <4>2. QED
        BY <2>3, <4>1
    <3>4. QED
      BY <3>2, <3>3
  <2>5. intact' \in BOOLEAN
    BY <2>1
  <2>6. QED
    BY <1>1, <2>2, <2>3, <2>4, <2>5
<1>7. CASE Lose(m)
  <2>1. intact' = (intact /\ m = Realtime) /\ UNCHANGED <<queue, got, kept>>
    BY <1>7 DEF Lose, queueVars
  <2>3. QueueInStep'
    BY <1>1, <2>1 DEF QueueInStep, InStep, Ready, parserVars
  <2>4. ASSUME intact', NEW b \in next PROVE InStep(Len(queue), b)'
    <3>1. InStep(Len(queue), b)
      BY <2>1, <2>4
    <3>2. QED
      BY <1>1, <2>1, <3>1 DEF InStep, Ready, parserVars
  <2>5. intact' \in BOOLEAN
    BY <2>1
  <2>6. QED
    BY <1>1, <2>1, <2>3, <2>4, <2>5 DEF TypeOK
<1>8. QED
  BY <1>1, <1>6, <1>7

\* With that, a send keeps the whole invariant.
LEMMA SentSerial ==
  ASSUME SerialIInv, NEW m \in Messages, NEW place \in 0 .. LastPlace(m),
         Transmit(m, place),
         place # 0 /\ intact => InStep(Len(queue), [of |-> m, at |-> place, whole |-> TRUE]),
         sending' \in Messages \cup {Nothing}, sent' \in Nat,
         running' \in {Nothing, "note", "program"}, SenderOK',
         m = Realtime =>
           place = 0 /\ (intact => \A b \in NextBytes' : InStep(Len(queue), b)),
         m # Realtime =>
           \A b \in NextBytes' : Follows([of |-> m, at |-> place, whole |-> TRUE], b)
  PROVE  SerialIInv'
<1> DEFINE next == NextBytes'
<1>1. next \in SUBSET Bytes
  BY DEF NextBytes
<1> HIDE DEF next
<1>2. /\ queue' \in Seq(Bytes) /\ Len(queue') <= Capacity
      /\ kept' \in BOOLEAN /\ intact' \in BOOLEAN
      /\ got' = got /\ UNCHANGED parserVars
      /\ QueueInStep'
      /\ intact' => \A b \in next : InStep(Len(queue), b)'
  <2>1. m = Realtime => place = 0 /\ (intact => \A b \in next : InStep(Len(queue), b))
    BY DEF next
  <2>2. m # Realtime =>
           \A b \in next : Follows([of |-> m, at |-> place, whole |-> TRUE], b)
    BY DEF next
  <2>3. QED
    BY <1>1, <2>1, <2>2, TransmitKeeps DEF SerialIInv
<1>3. TypeOK'
  BY <1>2 DEF SerialIInv, TypeOK, parserVars
<1>4. SenderInStep'
  BY <1>2 DEF SenderInStep, next
<1>5. DeliversWhatWasSent'
  BY <1>2 DEF SerialIInv, DeliversWhatWasSent, Overlong, Due, parserVars
<1>6. QED
  BY <1>2, <1>3, <1>4, <1>5 DEF SerialIInv

\* So does a byte from the sender, whether it arrives or is lost.
LEMMA SendSerial == SerialIInv /\ Send => SerialIInv'
<1> SUFFICES ASSUME SerialIInv, Send PROVE SerialIInv'
  OBVIOUS
<1>1. TypeOK /\ SenderOK /\ QueueInStep /\ SenderInStep
  BY DEF SerialIInv
<1>2. CASE SendRealtime
  <2>1. Realtime \in Messages /\ 0 \in 0 .. LastPlace(Realtime)
    BY LastPlaces DEF Messages
  <2>2. Transmit(Realtime, 0) /\ UNCHANGED <<sending, sent, running>>
    BY <1>2 DEF SendRealtime
  <2>3. SenderOK' /\ NextBytes' = NextBytes
    BY <1>1, <2>2 DEF SenderOK, NextBytes
  <2>4. intact => \A b \in NextBytes' : InStep(Len(queue), b)
    BY <1>1, <2>3 DEF SenderInStep
  <2>5. /\ sending' \in Messages \cup {Nothing} /\ sent' \in Nat
        /\ running' \in {Nothing, "note", "program"}
    BY <1>1, <2>2 DEF TypeOK
  <2>6. QED
    BY <2>1, <2>2, <2>3, <2>4, <2>5, SentSerial
<1>3. CASE SendStatus
  <2>1. PICK m \in Messages \ {Realtime} :
          /\ Transmit(m, 0)
          /\ sending' = IF m = Common THEN Nothing ELSE m
          /\ running' = IF m \in Voices THEN m.status ELSE Nothing
    BY <1>3 DEF SendStatus
  <2>2. sent' = 0 /\ 0 \in 0 .. LastPlace(m) /\ m # Realtime
    BY <1>3, <2>1, LastPlaces DEF SendStatus
  <2>3. \/ m = Common /\ sending' = Nothing /\ running' = Nothing
        \/ m \in Voices /\ sending' = m /\ running' = m.status
        \/ m \in SysExes /\ m \notin Voices /\ sending' = m /\ running' = Nothing
    BY <2>1, MessageFacts DEF Messages
  <2>4. /\ sending' \in Messages \cup {Nothing} /\ sent' \in Nat
        /\ running' \in {Nothing, "note", "program"}
    BY <2>2, <2>3, MessageFacts DEF Messages
  <2>5. SenderOK'
    BY <2>2, <2>3, LastPlaces, MessageFacts DEF SenderOK, Messages
  <2>6. ASSUME NEW b \in NextBytes'
        PROVE  Follows([of |-> m, at |-> 0, whole |-> TRUE], b)
    <3>1. sending' = m /\ m # Nothing
      BY <2>3, MessageFacts, MidiSerialAssumption DEF NextBytes
    <3>2. b.of = m /\ b.at = 0 + 1
      BY <2>2, <3>1 DEF NextBytes
    <3>3. QED
      BY <3>2 DEF Follows
  <2>7. QED
    BY <2>1, <2>2, <2>4, <2>5, <2>6, SentSerial
<1>4. CASE SendRunning
  <2>1. PICK m \in Voices :
          /\ m.status = running /\ Transmit(m, 1)
          /\ sending' = IF m.len = 1 THEN Nothing ELSE m
    BY <1>4 DEF SendRunning
  <2>2. /\ sending = Nothing /\ running' = running
        /\ sent' = IF sending' = Nothing THEN 0 ELSE 1
    BY <1>4 DEF SendRunning
  <2>3. /\ m \in Messages /\ m # Realtime /\ 1 \in 0 .. LastPlace(m) /\ LastPlace(m) = m.len
        /\ m # Nothing /\ m.len \in {1, 2}
    BY MessageFacts, LastPlaces, MidiSerialAssumption DEF Messages
  <2>4. intact => InStep(Len(queue), [of |-> m, at |-> 1, whole |-> TRUE])
    BY <1>1, <2>1, <2>2, NextByteIs DEF SenderInStep
  <2>5. /\ sending' \in Messages \cup {Nothing} /\ sent' \in Nat
        /\ running' \in {Nothing, "note", "program"}
    BY <1>1, <2>1, <2>2, <2>3 DEF TypeOK
  <2>6. SenderOK'
    BY <2>1, <2>2, <2>3 DEF SenderOK
  <2>7. ASSUME NEW b \in NextBytes'
        PROVE  Follows([of |-> m, at |-> 1, whole |-> TRUE], b)
    <3>1. CASE m.len = 1
      <4>1. b.of \in Voices /\ b.of.status = m.status /\ b.at = 1
        BY <2>1, <2>2, <3>1 DEF NextBytes
      <4>2. QED
        BY <3>1, <4>1 DEF Follows
    <3>2. CASE m.len # 1
      <4>1. b.of = m /\ b.at = 1 + 1
        BY <2>1, <2>2, <2>3, <3>2 DEF NextBytes
      <4>2. QED
        BY <4>1 DEF Follows
    <3>3. QED
      BY <3>1, <3>2
  <2>8. QED
    BY <2>1, <2>3, <2>4, <2>5, <2>6, <2>7, SentSerial
<1>5. CASE SendNext
  <2>1. /\ sending # Nothing /\ Transmit(sending, sent + 1)
        /\ sending' = IF sent + 1 = LastPlace(sending) THEN Nothing ELSE sending
        /\ sent' = IF sending' = Nothing THEN 0 ELSE sent + 1
        /\ running' = running
    BY <1>5 DEF SendNext
  <2>2. /\ sending \in Voices \cup SysExes /\ sent + 1 \in 0 .. LastPlace(sending)
        /\ sent \in Nat /\ LastPlace(sending) \in Nat
        /\ running = IF sending \in Voices THEN sending.status ELSE Nothing
    BY <1>1, <2>1, NextByteIs, LastPlaces DEF SenderOK, TypeOK, Messages
  <2>3. sending \in Messages /\ sending # Realtime
    BY <2>2, MessageFacts DEF Messages
  <2>4. intact => InStep(Len(queue), [of |-> sending, at |-> sent + 1, whole |-> TRUE])
    BY <1>1, <2>1, NextByteIs DEF SenderInStep
  <2>5. /\ sending' \in Messages \cup {Nothing} /\ sent' \in Nat
        /\ running' \in {Nothing, "note", "program"}
    BY <1>1, <2>1, <2>2, <2>3 DEF TypeOK
  <2>6. SenderOK'
    BY <1>1, <2>1, <2>2 DEF SenderOK
  <2>7. ASSUME NEW b \in NextBytes'
        PROVE  Follows([of |-> sending, at |-> sent + 1, whole |-> TRUE], b)
    <3>1. CASE sent + 1 = LastPlace(sending)
      <4>1. b.of \in Voices /\ b.of.status = running /\ b.at = 1
        BY <2>1, <3>1 DEF NextBytes
      <4>2. sending \in Voices
        BY <2>2, <4>1, MessageFacts, MidiSerialAssumption
      <4>3. sent + 1 = sending.len /\ b.of.status = sending.status
        BY <2>2, <2>3, <3>1, <4>1, <4>2, LastPlaces
      <4>4. QED
        BY <4>1, <4>2, <4>3 DEF Follows
    <3>2. CASE sent + 1 # LastPlace(sending)
      <4>1. b.of = sending /\ b.at = (sent + 1) + 1
        BY <2>1, <3>2 DEF NextBytes
      <4>2. QED
        BY <4>1 DEF Follows
    <3>3. QED
      BY <3>1, <3>2
  <2>8. QED
    BY <2>1, <2>2, <2>3, <2>4, <2>5, <2>6, <2>7, SentSerial
<1>6. QED
  BY <1>2, <1>3, <1>4, <1>5 DEF Send

\* Nothing is queued or on the wire at first.
LEMMA InitSerial == Init => SerialIInv
<1> SUFFICES ASSUME Init PROVE SerialIInv
  OBVIOUS
<1>1. queue \in Seq(Bytes) /\ Len(queue) = 0
  BY EmptySeq DEF Init, QueueInit
<1>2. data \in Seq(Messages \X Nat) /\ sysex \in Seq(Messages \X Nat) /\ Len(sysex) = 0
  BY EmptySeq DEF Init
<1>3. TypeOK
  <2>1. /\ got = Nothing /\ kept = TRUE /\ status = Nothing /\ inSysEx = FALSE
        /\ sending = Nothing /\ sent = 0 /\ running = Nothing /\ intact = FALSE
    BY DEF Init, QueueInit
  <2>2. Len(queue) <= Capacity /\ Len(sysex) <= SysExMax
    BY <1>1, <1>2, MidiSerialAssumption
  <2>3. QED
    BY <1>1, <1>2, <2>1, <2>2, Zenon DEF TypeOK
<1>4. QueueInStep
  BY <1>1 DEF QueueInStep
<1>5. SenderOK /\ SenderInStep /\ DeliversWhatWasSent
  BY DEF Init, QueueInit, SenderOK, SenderInStep, DeliversWhatWasSent
<1>6. QED
  BY <1>3, <1>4, <1>5 DEF SerialIInv

\* Each step of either end keeps the invariant.
LEMMA NextSerial == SerialIInv /\ [Next]_vars => SerialIInv'
<1>1. SerialIInv /\ UNCHANGED vars => SerialIInv'
  <2> SUFFICES ASSUME SerialIInv, UNCHANGED vars PROVE SerialIInv'
    OBVIOUS
  <2>1. /\ queue' = queue /\ got' = got /\ kept' = kept
        /\ status' = status /\ data' = data /\ inSysEx' = inSysEx /\ sysex' = sysex
        /\ delivered' = delivered
        /\ sending' = sending /\ sent' = sent /\ running' = running /\ intact' = intact
    BY DEF vars, queueVars, parserVars, senderVars
  <2>2. TypeOK' /\ SenderOK'
    BY <2>1 DEF SerialIInv, TypeOK, SenderOK
  <2>3. QueueInStep'
    BY <2>1 DEF SerialIInv, QueueInStep, InStep, Ready
  <2>4. SenderInStep'
    BY <2>1 DEF SerialIInv, SenderInStep, InStep, Ready, NextBytes
  <2>5. DeliversWhatWasSent'
    BY <2>1 DEF SerialIInv, DeliversWhatWasSent
  <2>6. QED
    BY <2>2, <2>3, <2>4, <2>5 DEF SerialIInv
<1>2. QED
  BY <1>1, ParseSerial, SendSerial DEF Next

\* The invariant the parser rests on: a byte before which nothing was lost is in step,
\* with the byte before it in the ring or with what the parser has already taken.
THEOREM SerialInductive == Spec => []SerialIInv
  BY InitSerial, NextSerial, PTL DEF Spec

\* The parser and the ring keep their types: data_ and sysex_ are never overfull.
THEOREM SerialTypeCorrect == Spec => []TypeOK
<1>1. SerialIInv => TypeOK
  BY DEF SerialIInv
<1>2. QED
  BY <1>1, SerialInductive, PTL

\* For every length of the ring and the SysEx buffer and every set of messages, the
\* parser delivers each message whole and once after the status byte that follows a
\* loss, and delivers nothing else.
THEOREM DeliversWhatWasSentHolds == Spec => []DeliversWhatWasSent
<1>1. SerialIInv => DeliversWhatWasSent
  BY DEF SerialIInv
<1>2. QED
  BY <1>1, SerialInductive, PTL
=============================================================================
