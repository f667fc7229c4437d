----------------------------- MODULE MidiSerial -----------------------------
(***************************************************************************)
(* The receiving half of DIN MIDI (core/src/midi_serial.cpp): the UART     *)
(* interrupt puts bytes into a ring, process() takes them out in the main  *)
(* loop and parses them.  The ring is the queue that SpscRing implements.  *)
(*                                                                         *)
(* A byte is modelled with the message it belongs to and its place in it:  *)
(* place 0 is a status byte, the places 1 .. len are data, and len + 1 is  *)
(* the F7 of a SysEx.  The parser looks at no more than its value tells.   *)
(***************************************************************************)
EXTENDS DropTailQueue

CONSTANTS
  SysExMax,  \* kSysExMax (512)
  Voices,    \* the channel messages that may be sent
  SysExes    \* the SysEx messages that may be sent

DataNeeded(s) == IF s = "program" THEN 1 ELSE 2

ASSUME MidiSerialAssumption ==
  /\ Capacity \in Nat \ {0} /\ SysExMax \in Nat
  /\ \A m \in Voices : m.status \in {"note", "program"} /\ m.len = DataNeeded(m.status)
  /\ \A m \in SysExes : m.status = "sysex" /\ m.len \in Nat
  /\ Nothing \notin Voices \cup SysExes \cup {"note", "program"}

Common == [status |-> "common", len |-> 0, id |-> Nothing]
Realtime == [status |-> "realtime", len |-> 0, id |-> Nothing]
Messages == Voices \cup SysExes \cup {Common, Realtime}

LastPlace(m) == IF m \in SysExes THEN m.len + 1 ELSE m.len

\* "whole": history, no byte has been lost since the last status byte.
Bytes == UNION {[of : {m}, at : 0 .. LastPlace(m), whole : BOOLEAN] : m \in Messages}

\* What the parser keeps of a byte.
Content(b) == <<b.of, b.at>>

VARIABLES
  status,     \* status_: running status
  data,       \* data_ and dataLen_
  inSysEx,    \* inSysEx_
  sysex,      \* sysex_ and sysexLen_
  delivered,  \* history: what the callbacks were given for the last byte
  sending,    \* the sender: the message on the wire
  sent,       \* the place of its last byte
  running,    \* the sender's running status
  intact      \* history: no byte has been lost since its last status byte

parserVars == <<status, data, inSysEx, sysex, delivered>>
senderVars == <<sending, sent, running, intact>>
vars == <<queueVars, parserVars, senderVars>>

Init ==
  /\ QueueInit
  /\ status = Nothing /\ data = <<>> /\ inSysEx = FALSE /\ sysex = <<>>
  /\ delivered = Nothing
  /\ sending = Nothing /\ sent = 0 /\ running = Nothing /\ intact = FALSE

-----------------------------------------------------------------------------
(* process(), one action for each kind of byte.                            *)

First == Head(queue)
IsStatus(s) == queue # <<>> /\ First.at = 0 /\ First.of.status = s
IsEnd == queue # <<>> /\ First.of.status = "sysex" /\ First.at = First.of.len + 1
IsData == queue # <<>> /\ First.at > 0 /\ ~IsEnd

\* The byte is out of the ring before process() looks at it.
Advance == TakeFirst /\ UNCHANGED senderVars

ParseRealtime ==
  /\ IsStatus("realtime") /\ Advance
  /\ delivered' = Nothing
  /\ UNCHANGED <<status, data, inSysEx, sysex>>

ParseEnd ==
  /\ IsEnd /\ Advance
  /\ delivered' = IF inSysEx THEN [status |-> "sysex", data |-> sysex] ELSE Nothing
  /\ inSysEx' = FALSE
  /\ UNCHANGED <<status, data, sysex>>

ParseStart ==
  /\ IsStatus("sysex") /\ Advance
  /\ inSysEx' = TRUE /\ sysex' = <<>> /\ status' = Nothing
  /\ delivered' = Nothing
  /\ UNCHANGED data

ParseCommon ==
  /\ IsStatus("common") /\ Advance
  /\ status' = Nothing /\ inSysEx' = FALSE
  /\ delivered' = Nothing
  /\ UNCHANGED <<data, sysex>>

\* Mutant: data bytes of a message that was cut short are kept.
ParseVoiceStatusKeepsData ==
  /\ \E s \in {"note", "program"} : IsStatus(s) /\ status' = s
  /\ Advance
  /\ inSysEx' = FALSE
  /\ delivered' = Nothing
  /\ UNCHANGED <<data, sysex>>

ParseVoiceStatus ==
  /\ \E s \in {"note", "program"} : IsStatus(s) /\ status' = s
  /\ Advance
  /\ inSysEx' = FALSE /\ data' = <<>>
  /\ delivered' = Nothing
  /\ UNCHANGED sysex

ParseSysExData ==
  /\ IsData /\ inSysEx /\ Advance
  /\ sysex' = IF Len(sysex) < SysExMax THEN Append(sysex, Content(First)) ELSE sysex
  /\ delivered' = Nothing
  /\ UNCHANGED <<status, data, inSysEx>>

ParseStray ==
  /\ IsData /\ ~inSysEx /\ status = Nothing /\ Advance
  /\ delivered' = Nothing
  /\ UNCHANGED <<status, data, inSysEx, sysex>>

ParseData ==
  /\ IsData /\ ~inSysEx /\ status # Nothing /\ Advance
  /\ LET d == Append(data, Content(First)) IN
       IF Len(d) = DataNeeded(status)
       THEN data' = <<>> /\ delivered' = [status |-> status, data |-> d]
       ELSE data' = d /\ delivered' = Nothing
  /\ UNCHANGED <<status, inSysEx, sysex>>

Parse ==
  \/ ParseRealtime \/ ParseEnd \/ ParseStart \/ ParseCommon
  \/ ParseVoiceStatus \/ ParseSysExData \/ ParseStray \/ ParseData

-----------------------------------------------------------------------------
(* The sender at the other end of the cable, and the way its bytes take: a *)
(* byte reaches the interrupt, or is lost before that, because interrupts  *)
(* are off for longer than the UART's FIFO lasts (a settings save).        *)

Arrive(m, place) ==
  LET found == IF place = 0 /\ m # Realtime THEN TRUE ELSE intact IN
    /\ Put([of |-> m, at |-> place, whole |-> found])
    /\ intact' = (found /\ (kept' \/ m = Realtime))

Lose(m) ==
  /\ intact' = (intact /\ m = Realtime)
  /\ UNCHANGED queueVars

Transmit(m, place) ==
  /\ Arrive(m, place) \/ Lose(m)
  /\ UNCHANGED parserVars

\* A realtime byte may come at any time.
SendRealtime ==
  /\ Transmit(Realtime, 0)
  /\ UNCHANGED <<sending, sent, running>>

\* A new message, cutting short the one on the wire if there is one.
SendStatus ==
  /\ \E m \in Messages \ {Realtime} :
       /\ Transmit(m, 0)
       /\ sending' = IF m = Common THEN Nothing ELSE m
       /\ running' = IF m \in Voices THEN m.status ELSE Nothing
  /\ sent' = 0

\* The status byte may be left out if it would be the same again.
SendRunning ==
  /\ sending = Nothing
  /\ \E m \in Voices :
       /\ m.status = running
       /\ Transmit(m, 1)
       /\ sending' = IF m.len = 1 THEN Nothing ELSE m
  /\ sent' = IF sending' = Nothing THEN 0 ELSE 1
  /\ UNCHANGED running

SendNext ==
  /\ sending # Nothing
  /\ Transmit(sending, sent + 1)
  /\ sending' = IF sent + 1 = LastPlace(sending) THEN Nothing ELSE sending
  /\ sent' = IF sending' = Nothing THEN 0 ELSE sent + 1
  /\ UNCHANGED running

Send == SendRealtime \/ SendStatus \/ SendRunning \/ SendNext

-----------------------------------------------------------------------------
Next == Send \/ Parse

Spec == Init /\ [][Next]_vars
-----------------------------------------------------------------------------
\* Every variable has its type; data_ is never full between two bytes.
TypeOK ==
  /\ queue \in Seq(Bytes) /\ Len(queue) <= Capacity
  /\ got \in Bytes \cup {Nothing} /\ kept \in BOOLEAN
  /\ status \in {Nothing, "note", "program"}
  /\ data \in Seq(Messages \X Nat) /\ sysex \in Seq(Messages \X Nat)
  /\ status # Nothing => Len(data) < DataNeeded(status)
  /\ inSysEx \in BOOLEAN /\ Len(sysex) <= SysExMax
  /\ intact \in BOOLEAN
  /\ sending \in (Messages \cup {Nothing}) /\ sent \in Nat
  /\ running \in {Nothing, "note", "program"}

-----------------------------------------------------------------------------
(***************************************************************************)
(* After a loss the parser is back in step at the next status byte: from   *)
(* there on each message is delivered once, whole and with its last byte,  *)
(* and nothing else is, whatever realtime bytes, running status, messages  *)
(* cut short and earlier losses there are.  Overlong SysEx excepted.       *)
(***************************************************************************)
Due(b) ==
  IF b.of \in Voices \cup SysExes /\ b.at = LastPlace(b.of)
  THEN [status |-> b.of.status, data |-> [i \in 1 .. b.of.len |-> <<b.of, i>>]]
  ELSE Nothing

Overlong(b) == b.of \in SysExes /\ b.of.len > SysExMax

DeliversWhatWasSent ==
  got # Nothing /\ got.whole /\ ~Overlong(got) => delivered = Due(got)

(***************************************************************************)
(* "anything longer than this buffer is dropped rather than truncated"     *)
(* (midi_serial.h).                                                        *)
(* It does not hold: README, Observed.                                     *)
(***************************************************************************)
OverlongIsDropped ==
  got # Nothing /\ got.whole /\ Overlong(got) => delivered = Nothing

(***************************************************************************)
(* The reface layer and the D-50 expect of either wire what                *)
(* reface_midi.h says of it: "complete message, F0 and F7 included".       *)
(* It does not hold: README, Observed.                                     *)
(***************************************************************************)
SysExIsFramed ==
  delivered # Nothing /\ delivered.status = "sysex" =>
    LET d == delivered.data IN
      Len(d) >= 2 /\ d[1][2] = 0 /\ d[Len(d)][2] = d[1][1].len + 1
=============================================================================
