----------------------------- MODULE UsbMidiOut -----------------------------
(***************************************************************************)
(* The outgoing USB MIDI queue (core/src/midi_output_usb.cpp) between the  *)
(* instruments, which write whole messages, and TinyUSB, whose FIFO takes  *)
(* what fits and which the host empties when it pleases.                   *)
(*                                                                         *)
(* A byte is the pair of its message's length and its position in it.  The *)
(* ring (_buf, _head, _count) is the sequence of the bytes in it.          *)
(***************************************************************************)
EXTENDS Naturals, Sequences

CONSTANTS
  BufSize,    \* kBufSize
  FifoSize,   \* bytes TinyUSB's transmit FIFO holds
  Lengths,    \* lengths of the messages the instruments write
  Stall       \* kStallMs in ticks

ASSUME UsbAssumption ==
  /\ BufSize \in Nat \ {0} /\ FifoSize \in Nat \ {0}
  /\ Lengths \subseteq Nat \ {0}
  /\ Stall \in Nat \ {0}

VARIABLES
  queue,      \* the bytes in the ring, oldest first
  mounted,    \* tud_midi_mounted()
  reading,    \* the host reads the MIDI endpoint
  fifo,       \* bytes in TinyUSB's FIFO
  stallAge,   \* 0: _stallSinceMs = 0; n + 1: it was set n ticks ago
  stalled,    \* _stalled
  wire,       \* history: the last byte TinyUSB has taken
  waited      \* history: ticks for which bytes have waited and none was taken

usbVars == <<queue, mounted, reading, fifo, stallAge, stalled, wire, waited>>

Bytes == {b \in Lengths \X (1 .. BufSize) : b[2] <= b[1]}
Message(n) == [i \in 1 .. n |-> <<n, i>>]
Ended == <<1, 1>>   \* as good as any last byte of a message
Fewer(m, n) == IF m < n THEN m ELSE n

UsbInit ==
  /\ queue = <<>> /\ mounted = FALSE /\ reading = FALSE /\ fifo = 0
  /\ stallAge = 0 /\ stalled = FALSE
  /\ wire = Ended /\ waited = 0

-----------------------------------------------------------------------------
\* Mutant: what fits of a message is queued.
WritePartly(n) ==
  /\ queue' = IF ~mounted THEN <<>>
              ELSE queue \o SubSeq(Message(n), 1, Fewer(n, BufSize - Len(queue)))
  /\ waited' = IF queue' = <<>> THEN 0 ELSE waited
  /\ UNCHANGED <<mounted, reading, fifo, stallAge, stalled, wire>>

\* write(): a message is queued whole or not at all.
Write(n) ==
  /\ queue' = IF ~mounted THEN <<>>
              ELSE IF BufSize - Len(queue) < n THEN queue
              ELSE queue \o Message(n)
  /\ waited' = IF queue' = <<>> THEN 0 ELSE waited
  /\ UNCHANGED <<mounted, reading, fifo, stallAge, stalled, wire>>

-----------------------------------------------------------------------------
(* process(), right after tud_task().                                      *)

ProcessEmpty ==
  /\ queue = <<>>
  /\ UNCHANGED usbVars

\* Mutant: the stall outlives the host that caused it.
ProcessUnmountedStalled ==
  /\ queue # <<>> /\ ~mounted
  /\ queue' = <<>> /\ waited' = 0
  /\ UNCHANGED <<mounted, reading, fifo, wire, stallAge, stalled>>

ProcessUnmounted ==
  /\ queue # <<>> /\ ~mounted
  /\ queue' = <<>> /\ stallAge' = 0 /\ stalled' = FALSE /\ waited' = 0
  /\ UNCHANGED <<mounted, reading, fifo, wire>>

\* The loop ends when the FIFO is full or the queue empty.
ProcessProgress ==
  LET n == Fewer(Len(queue), FifoSize - fifo) IN
    /\ mounted /\ n > 0
    /\ queue' = SubSeq(queue, n + 1, Len(queue))
    /\ fifo' = fifo + n
    /\ wire' = queue[n]
    /\ stallAge' = 0 /\ stalled' = FALSE /\ waited' = 0
    /\ UNCHANGED <<mounted, reading>>

ProcessBlocked ==
  /\ queue # <<>> /\ mounted /\ fifo = FifoSize
  /\ IF stallAge = 0
     THEN stallAge' = 1 /\ stalled' = stalled
     ELSE stallAge' = stallAge /\ stalled' = (stalled \/ stallAge - 1 >= Stall)
  /\ UNCHANGED <<queue, mounted, reading, fifo, wire, waited>>

Process == ProcessEmpty \/ ProcessUnmounted \/ ProcessProgress \/ ProcessBlocked

-----------------------------------------------------------------------------
(* tud_task() and the host behind it, which this repository only uses.  A  *)
(* host that reads empties the FIFO; unplugging empties it too.            *)

Later(age, d, top) == IF age + d > top THEN top ELSE age + d

TudTask(d) ==
  /\ mounted' \in BOOLEAN
  /\ reading' \in BOOLEAN
  /\ fifo' = IF ~mounted' \/ (reading /\ d > 0) THEN 0 ELSE fifo
  /\ wire' = IF ~mounted' THEN Ended ELSE wire
  /\ stallAge' = IF stallAge = 0 THEN 0 ELSE Later(stallAge, d, Stall + 1)
  /\ waited' = IF queue = <<>> THEN 0 ELSE Later(waited, d, Stall)
  /\ UNCHANGED <<queue, stalled>>

-----------------------------------------------------------------------------
\* Every variable has its type; the ring and the FIFO are never overfull.
UsbTypeOK ==
  /\ queue \in Seq(Bytes) /\ Len(queue) <= BufSize
  /\ mounted \in BOOLEAN /\ reading \in BOOLEAN
  /\ fifo \in 0 .. FifoSize
  /\ stallAge \in 0 .. Stall + 1
  /\ stalled \in BOOLEAN
  /\ wire \in Bytes \cup {Ended}
  /\ waited \in 0 .. Stall

\* Byte c may follow byte b on the wire.
Follows(b, c) == IF b[2] = b[1] THEN c[2] = 1 ELSE c = <<b[1], b[2] + 1>>

(***************************************************************************)
(* "never written in part, because a half SysEx on the wire is worse for   *)
(* the receiver than a missing one" (midi_output_usb.h): what TinyUSB has  *)
(* taken and what is still queued is a sequence of whole messages, however *)
(* often the ring fills up, the FIFO cuts a message in two, or the host    *)
(* comes and goes.                                                         *)
(***************************************************************************)
WholeMessages ==
  mounted =>
    LET all == <<wire>> \o queue IN
      /\ \A i \in 1 .. Len(queue) : Follows(all[i], all[i + 1])
      /\ all[Len(all)][2] = all[Len(all)][1]
=============================================================================
