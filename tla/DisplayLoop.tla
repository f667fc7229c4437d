----------------------------- MODULE DisplayLoop ----------------------------
(***************************************************************************)
(* The part of the main loop (core/src/picoface_main.cpp) in which the     *)
(* display, USB MIDI and the UI wait for each other: a frame is pushed out *)
(* half a tile row per pass, but only while no MIDI is queued, and the UI  *)
(* tick, which reads the panel and writes active sensing, waits for the    *)
(* frame.  Issue #161 was a deadlock between the three.                    *)
(***************************************************************************)
EXTENDS UsbMidiOut

CONSTANTS
  Rows,       \* half tile rows of a frame (16)
  UiPeriod,   \* ticks between two UI ticks (20 ms)
  Sense,      \* ticks between two active sensing messages (200 ms)
  SenseLen,   \* the length of one
  Replies     \* lengths of what is written in answer to the host

ASSUME DisplayAssumption ==
  /\ Rows \in Nat \ {0} /\ UiPeriod \in Nat /\ Sense \in Nat
  /\ Lengths = Replies \cup {SenseLen}

VARIABLES
  step,       \* the section of the loop that runs next
  mask,       \* rows set in picoface_ui_flush_mask
  uiAge,      \* ticks since last_ui_ms, counted up to UiPeriod
  senseAge    \* ticks since _lastTxSenseMs, counted up to Sense

loopVars == <<usbVars, step, mask, uiAge, senseAge>>

LoopInit ==
  /\ UsbInit
  /\ step = "flush" /\ mask = Rows /\ uiAge = 0 /\ senseAge = 0

\* Mutant: the display waits for a stalled queue as well.
MayFlushUnlessQueued == queue = <<>>

MayFlush == queue = <<>> \/ stalled

FlushRow ==
  /\ step = "flush" /\ mask # 0 /\ MayFlush
  /\ mask' = mask - 1
  /\ step' = "usb"
  /\ UNCHANGED <<usbVars, uiAge, senseAge>>

FlushNothing ==
  /\ step = "flush" /\ ~(mask # 0 /\ MayFlush)
  /\ step' = "usb"
  /\ UNCHANGED <<usbVars, mask, uiAge, senseAge>>

Usb(d) ==
  /\ step = "usb"
  /\ TudTask(d)
  /\ uiAge' = Later(uiAge, d, UiPeriod)
  /\ senseAge' = Later(senseAge, d, Sense)
  /\ step' = "process"
  /\ UNCHANGED mask

ProcessUsb ==
  /\ step = "process"
  /\ Process
  /\ step' = "midi"
  /\ UNCHANGED <<mask, uiAge, senseAge>>

\* A message from the host or from the DIN socket is answered.
Reply ==
  /\ step = "midi"
  /\ \E n \in Replies : Write(n)
  /\ UNCHANGED <<step, mask, uiAge, senseAge>>

MidiDone ==
  /\ step = "midi"
  /\ step' = "ui"
  /\ UNCHANGED <<usbVars, mask, uiAge, senseAge>>

UiDue == mask = 0 /\ uiAge >= UiPeriod

\* uiTick: RefaceMidiBase::tick may send active sensing, and the instrument
\* may arm a flush of some rows of the frame.
UiTick ==
  /\ step = "ui" /\ UiDue
  /\ IF senseAge >= Sense
     THEN Write(SenseLen) /\ senseAge' = 0
     ELSE UNCHANGED <<usbVars, senseAge>>
  /\ mask' \in 0 .. Rows
  /\ uiAge' = 0
  /\ step' = "flush"

UiSkip ==
  /\ step = "ui" /\ ~UiDue
  /\ step' = "flush"
  /\ UNCHANGED <<usbVars, mask, uiAge, senseAge>>

Delays == {0, 1}

LoopNext ==
  \/ FlushRow \/ FlushNothing
  \/ \E d \in Delays : Usb(d)
  \/ ProcessUsb
  \/ Reply \/ MidiDone
  \/ UiTick \/ UiSkip

\* The loop keeps running, messages end, and the clock advances.
LoopFairness ==
  /\ WF_loopVars(FlushRow \/ FlushNothing) /\ WF_loopVars(ProcessUsb)
  /\ SF_loopVars(MidiDone) /\ WF_loopVars(UiTick \/ UiSkip)
  /\ SF_loopVars(Usb(1))

LoopSpec == LoopInit /\ [][LoopNext]_loopVars /\ LoopFairness
-----------------------------------------------------------------------------
\* Every variable has its type.
LoopTypeOK ==
  /\ UsbTypeOK
  /\ step \in {"flush", "usb", "process", "midi", "ui"}
  /\ mask \in 0 .. Rows
  /\ uiAge \in 0 .. UiPeriod
  /\ senseAge \in 0 .. Sense

(***************************************************************************)
(* stalled(): "the device is mounted, bytes are pending, and TinyUSB has   *)
(* accepted nothing for kStallMs" (midi_output_usb.h).  write() discards   *)
(* the queue without clearing the flag and process() returns early when    *)
(* the queue is empty, so this rests on process() running between          *)
(* tud_task() and every write.                                             *)
(***************************************************************************)
StalledIsHonest ==
  step # "process" /\ stalled => mounted /\ queue # <<>> /\ waited >= Stall

(***************************************************************************)
(* Issue #161: display and panel never freeze for good, whether the host   *)
(* reads, has stopped reading or is gone, once it has settled for one of   *)
(* these and stopped asking for replies.                                   *)
(***************************************************************************)
HostSettles ==
  /\ <>[]mounted \/ <>[]~mounted
  /\ <>[]reading \/ <>[]~reading
  /\ <>[][~Reply]_loopVars

PanelKeepsRunning == HostSettles => []<><<UiTick>>_loopVars
=============================================================================
