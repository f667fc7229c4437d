------------------------------ MODULE SpscRing ------------------------------
(***************************************************************************)
(* The lock-free ring between the UART interrupt and process()             *)
(* (core/src/midi_serial.cpp).  The interrupt may come between any two     *)
(* accesses process() makes to the ring, but runs to its end itself.  Head *)
(* is written by the interrupt only and tail by process() only.            *)
(***************************************************************************)
EXTENDS Naturals

CONSTANTS
  RingSize,   \* kRxRingSize (256)
  RxBytes,      \* the bytes
  NoByte      \* no byte

ASSUME SpscRingAssumption ==
  /\ RingSize \in Nat \ {0, 1}
  /\ NoByte \notin RxBytes

VARIABLES
  ring,       \* s_rx
  head,       \* s_rxHead
  tail,       \* s_rxTail
  fetched,    \* the byte process() has read and not yet taken out of the ring
  taken,      \* history: the byte taken out last
  stored      \* history: the last byte that arrived found room

ringVars == <<ring, head, tail, fetched, taken, stored>>

Indices == 0 .. RingSize - 1

RingInit ==
  /\ ring = [i \in Indices |-> NoByte]
  /\ head = 0 /\ tail = 0
  /\ fetched = NoByte
  /\ taken = NoByte /\ stored = TRUE

\* Mutant: the index is not wrapped.
SuccessorUnwrapped(i) == i + 1

Successor(i) == IF i + 1 = RingSize THEN 0 ELSE i + 1

\* Mutant: the ring is not checked for being full.
IrqUnchecked(x) ==
  /\ ring' = [ring EXCEPT ![head] = x]
  /\ head' = Successor(head)
  /\ stored' = TRUE
  /\ UNCHANGED <<tail, fetched, taken>>

\* midi_uart_irq, for one byte.
Irq(x) ==
  /\ \/ /\ Successor(head) # tail
        /\ ring' = [ring EXCEPT ![head] = x]
        /\ head' = Successor(head)
        /\ stored' = TRUE
     \/ /\ Successor(head) = tail
        /\ stored' = FALSE
        /\ UNCHANGED <<ring, head>>
  /\ UNCHANGED <<tail, fetched, taken>>

\* process() finds the ring not empty and reads the oldest byte ...
Fetch ==
  /\ fetched = NoByte
  /\ tail # head
  /\ fetched' = ring[tail]
  /\ UNCHANGED <<ring, head, tail, taken, stored>>

\* ... and takes it out.
TakeOut ==
  /\ fetched # NoByte
  /\ tail' = Successor(tail)
  /\ taken' = fetched
  /\ fetched' = NoByte
  /\ UNCHANGED <<ring, head, stored>>

RingNext == (\E x \in RxBytes : Irq(x)) \/ Fetch \/ TakeOut

RingSpec == RingInit /\ [][RingNext]_ringVars
-----------------------------------------------------------------------------
\* Every variable has its type.
RingTypeOK ==
  /\ ring \in [Indices -> RxBytes \cup {NoByte}]
  /\ head \in Indices /\ tail \in Indices
  /\ fetched \in RxBytes \cup {NoByte}
  /\ taken \in RxBytes \cup {NoByte}
  /\ stored \in BOOLEAN

\* The bytes from tail up to head, around the end of the ring.
Waiting == IF tail <= head THEN head - tail ELSE head + RingSize - tail
Slot(i) == IF tail + i - 1 < RingSize THEN tail + i - 1 ELSE tail + i - 1 - RingSize
Contents == [i \in 1 .. Waiting |-> ring[Slot(i)]]

Queue == INSTANCE DropTailQueue WITH
  Items <- RxBytes, Nothing <- NoByte, Capacity <- RingSize - 1,
  queue <- Contents, got <- taken, kept <- stored

(***************************************************************************)
(* "Lock-free SPSC ring: written by the RX interrupt, read by process()":  *)
(* however the two interleave, the ring is a queue that loses nothing it   *)
(* has accepted and drops a byte only when one place alone is left.        *)
(***************************************************************************)
RingIsQueue == Queue!QueueSpec
=============================================================================
