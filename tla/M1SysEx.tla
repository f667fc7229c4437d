------------------------------ MODULE M1SysEx -------------------------------
(***************************************************************************)
(* System exclusive of PicoFaceM1 (M1_SysEx.cpp, with the output of        *)
(* M1_Instrument.cpp): bank dumps come in as a stream, are unpacked into a *)
(* staging image and copied to memory at the F7; replies and dumps go out  *)
(* to both wires as their rings take them.                                 *)
(*                                                                         *)
(* Memory is a row of units 1 .. Units, and a dump carries one unit after  *)
(* the other.  A unit is known by the message it came in and by its place  *)
(* in it, the place in memory it was sent for; ALL DATA goes on with the   *)
(* sequencer's data, which this machine has no memory for.  A chunk of     *)
(* room in a ring is what a reply, a header, a unit or an F7 takes.        *)
(***************************************************************************)
EXTENDS Naturals

CONSTANTS
  Units,    \* the memory is this many units long
  Tail,     \* a bank may be sent with that many units more
  Values,   \* what tells the contents of one message from another's
  Wires,    \* the wires that feed the parser
  DinSize,  \* chunks the DIN transmit ring holds
  UsbSize,  \* chunks the USB queue holds
  Burst,    \* chunks of a dump that one poll() sends at most
  None

Banks == {"allPrograms", "allData"}
Kinds == Banks \cup {"write", "dumpRequest", "modeRequest", "other"}

\* Where a bank begins (dst_ and its place in the image).
First(kind) == IF kind = "allData" THEN 1 ELSE 2

\* What a unit of memory or of a dump may hold: whose it is, and where from.
Places == 1 .. Units + Tail
SentUnits == Values \X Places
Nothing == [i \in {} |-> None]

\* The data a message must bring: cap_ of a bank, the bytes of preBytes().
Need(kind) ==
  CASE kind \in Banks -> Units + 1 - First(kind)
    [] kind \in {"write", "dumpRequest"} -> 1
    [] OTHER -> 0

\* The data it is sent with at most.
Longest(kind) == Need(kind) + IF kind \in Banks THEN Tail ELSE 0

ASSUME SysExAssumption ==
  /\ Units \in Nat \ {0, 1} /\ Tail \in Nat /\ Values # {} /\ Wires # {}
  /\ DinSize \in Nat \ {0} /\ UsbSize \in Nat \ {0} /\ Burst \in Nat \ {0}
  /\ None \notin Kinds \cup SentUnits

VARIABLES
  loaded,   \* Memory::image(): what the message that ended last has put there
  locked,   \* Memory::protect
  func,     \* func_ while rx_ is Payload, otherwise None
  out,      \* out_ while there is a func (preLen_ where there is no data)
  stage,    \* g_stage
  wire,     \* what each wire is sending: a message, how much of it is sent,
            \* and whether a part of it has missed the parser
  dump,     \* txState_ and txPos_: chunks of the running dump already sent
  reply,    \* a reply is waiting (replyLen_ > 0)
  din,      \* chunks in the DIN transmit ring
  usb,      \* chunks in the USB queue
  host,     \* the USB host: it reads, it does not, or there is none
  stalled,  \* usbMidiOut().stalled()
  lost      \* history: the wires on which a chunk was lost, other than to a stalled host

parserVars == <<func, out, stage>>
outputVars == <<dump, reply, din, usb, lost>>
hostVars == <<host, stalled>>
vars == <<loaded, locked, parserVars, wire, outputVars, hostVars>>

DumpChunks == Units + 2   \* header, data, F7

Init ==
  /\ loaded = Nothing /\ locked = FALSE
  /\ func = None /\ out = 0 /\ stage = [i \in 1 .. Units |-> None]
  /\ wire = [w \in Wires |-> None]
  /\ dump = None /\ reply = FALSE /\ din = 0 /\ usb = 0 /\ lost = {}
  /\ host \in {"reads", "idles", "absent"} /\ stalled = FALSE

-----------------------------------------------------------------------------
(* Output.                                                                 *)

Least(m, n) == IF m < n THEN m ELSE n

Rings == [din |-> din, usb |-> usb, lost |-> lost]

\* Mutant: a USB host that does not read holds DIN back.
RoomOfBoth(r) == Least(DinSize - r.din, UsbSize - r.usb)

\* m1_sysex_room()
Room(r) ==
  IF stalled THEN DinSize - r.din ELSE Least(DinSize - r.din, UsbSize - r.usb)

\* m1_sysex_write(): each ring takes all of it or nothing.
Written(r, n) ==
  LET dinFits == r.din + n <= DinSize
      usbFits == r.usb + n <= UsbSize
  IN [din  |-> IF dinFits THEN r.din + n ELSE r.din,
      usb  |-> IF host = "absent" THEN 0 ELSE IF usbFits THEN r.usb + n ELSE r.usb,
      lost |-> r.lost \cup (IF dinFits THEN {} ELSE {"din"})
                      \cup (IF usbFits \/ host = "absent" \/ stalled THEN {} ELSE {"usb"})]

\* Mutant: the room is not looked at again after the reply.
PollStaleRoom(waiting, running) ==
  LET answers == waiting /\ Room(Rings) >= 1
      r == IF answers THEN Written(Rings, 1) ELSE Rings
      n == IF running = None THEN 0
           ELSE Least(Least(Room(Rings), Burst), DumpChunks - running)
      end == IF n > 0 THEN Written(r, n) ELSE r
  IN /\ reply' = (waiting /\ ~answers)
     /\ dump' = IF running = None \/ running + n = DumpChunks THEN None ELSE running + n
     /\ din' = end.din /\ usb' = end.usb /\ lost' = end.lost

\* poll(), with a reply waiting or not and a dump running or not.
Poll(waiting, running) ==
  LET answers == waiting /\ Room(Rings) >= 1
      r == IF answers THEN Written(Rings, 1) ELSE Rings
      n == IF running = None THEN 0
           ELSE Least(Least(Room(r), Burst), DumpChunks - running)
      end == IF n > 0 THEN Written(r, n) ELSE r
  IN /\ reply' = (waiting /\ ~answers)
     /\ dump' = IF running = None \/ running + n = DumpChunks THEN None ELSE running + n
     /\ din' = end.din /\ usb' = end.usb /\ lost' = end.lost

\* reply(): while one is waiting another is dropped.
Reply == Poll(TRUE, dump)

\* queueDump(): while one is running another is dropped.
QueueDump == IF dump = None THEN Poll(reply, 0) ELSE UNCHANGED outputVars

\* The mode data and the identity go out at once or not at all.
Answer ==
  LET r == IF Room(Rings) >= 1 THEN Written(Rings, 1) ELSE Rings IN
    /\ din' = r.din /\ usb' = r.usb /\ lost' = r.lost
    /\ UNCHANGED <<dump, reply>>

-----------------------------------------------------------------------------
(* finish(): the F7 has come.                                              *)

\* Mutant: the length is not checked.
LoadUnchecked(kind) ==
  /\ loaded' = IF locked THEN Nothing ELSE [i \in First(kind) .. Units |-> stage[i]]
  /\ Reply

\* loadBank()
Load(kind) ==
  /\ loaded' = IF out < Need(kind) \/ locked THEN Nothing
               ELSE [i \in First(kind) .. Units |-> stage[i]]
  /\ Reply

\* The edit buffer, which is nothing of this message, goes to a place in memory.
Write ==
  /\ IF out < 1 \/ locked THEN loaded' = Nothing
     ELSE \E i \in 1 .. Units : loaded' = [j \in {i} |-> None]
  /\ Reply

Finish(kind) ==
  \/ kind \in Banks /\ Load(kind)
  \/ kind = "write" /\ Write
  \/ kind = "dumpRequest" /\ (IF out < 1 THEN Reply ELSE QueueDump) /\ loaded' = Nothing
  \/ kind = "modeRequest" /\ Answer /\ loaded' = Nothing
  \/ kind = "other" /\ Reply /\ loaded' = Nothing

-----------------------------------------------------------------------------
(* byte(): one action for each kind of byte.  A wire sends messages, may   *)
(* cut one short with an F7, with another message or with a status byte,   *)
(* and may lose anything but an F0, without which MIDISerial passes on     *)
(* nothing of a message.                                                   *)

Send(w, message) == wire' = [wire EXCEPT ![w] = message]

\* The header of a message for this device.
Start(w) ==
  /\ wire[w] = None
  /\ \E kind \in Kinds, v \in Values :
       /\ kind \notin Banks => v = CHOOSE x \in Values : TRUE   \* no data
       /\ Send(w, [kind |-> kind, value |-> v, sent |-> 0, missed |-> FALSE])
       /\ func' = kind
  /\ out' = 0 /\ loaded' = Nothing
  /\ UNCHANGED <<locked, stage, outputVars, hostVars>>

\* out_ runs on past cap_, but is only ever compared with it.
Unpack(kind, unit) ==
  /\ out' = Least(out + 1, Need(kind))
  /\ stage' = IF kind \in Banks /\ out < Need(kind)
              THEN [stage EXCEPT ![First(kind) + out] = unit] ELSE stage

Data(w) ==
  /\ wire[w] # None /\ wire[w].sent < Longest(wire[w].kind)
  /\ LET m == wire[w]
         next == [m EXCEPT !.sent = @ + 1]
     IN \/ /\ func # None /\ Unpack(func, <<m.value, First(m.kind) + m.sent>>)
           /\ Send(w, next)
        \/ /\ UNCHANGED <<out, stage>>   \* lost, or not inside a message
           /\ Send(w, [next EXCEPT !.missed = TRUE])
  /\ UNCHANGED <<loaded, locked, func, outputVars, hostVars>>

\* F7, after as much as there was.
End(w) ==
  /\ wire[w] # None /\ Send(w, None)
  /\ func' = None /\ out' = 0
  /\ IF func # None THEN Finish(func) ELSE loaded' = Nothing /\ UNCHANGED outputVars
  /\ UNCHANGED <<locked, stage, hostVars>>

\* The F7 is lost, or MIDISerial sees a status byte and passes on no more of
\* the message: the next one starts inside this one.
Cut(w) ==
  /\ wire[w] # None /\ Send(w, None)
  /\ UNCHANGED <<loaded, locked, parserVars, outputVars, hostVars>>

\* A status byte in the stream itself; or the header of a message for another
\* device or channel or one that lost a byte, so that all of it is skipped.
Stray(w) ==
  /\ wire[w] # None \/ func # None
  /\ Send(w, None)
  /\ func' = None /\ out' = 0
  /\ UNCHANGED <<loaded, locked, stage, outputVars, hostVars>>

-----------------------------------------------------------------------------
(* The panel.  uiTick() polls in each pass.                                *)

Tick ==
  /\ reply \/ dump # None
  /\ Poll(reply, dump)
  /\ UNCHANGED <<loaded, locked, parserVars, wire, hostVars>>

PanelSend ==
  /\ dump = None /\ QueueDump
  /\ UNCHANGED <<loaded, locked, parserVars, wire, hostVars>>

PanelProtect ==
  /\ locked' = ~locked
  /\ UNCHANGED <<loaded, parserVars, wire, outputVars, hostVars>>

-----------------------------------------------------------------------------
(* The rings empty: the UART always, the USB queue when the host reads.    *)

DinDrain ==
  /\ din > 0 /\ din' = din - 1
  /\ UNCHANGED <<loaded, locked, parserVars, wire, dump, reply, usb, lost, hostVars>>

UsbTake ==
  /\ host = "reads" /\ usb > 0
  /\ usb' \in 0 .. usb - 1 /\ stalled' = FALSE
  /\ UNCHANGED <<loaded, locked, parserVars, wire, dump, reply, din, lost, host>>

UsbStall ==
  /\ host = "idles" /\ usb > 0 /\ ~stalled
  /\ stalled' = TRUE
  /\ UNCHANGED <<loaded, locked, parserVars, wire, outputVars, host>>

\* process() discards what is queued for a host that has gone.
UsbHost ==
  /\ host' \in {"reads", "idles", "absent"} \ {host}
  /\ usb' = IF host' = "absent" THEN 0 ELSE usb
  /\ stalled' = (stalled /\ ~(host' = "absent" /\ usb > 0))
  /\ UNCHANGED <<loaded, locked, parserVars, wire, dump, reply, din, lost>>

Receive == \E w \in Wires : Start(w) \/ Data(w) \/ End(w) \/ Cut(w) \/ Stray(w)

Next ==
  \/ Receive \/ Tick \/ PanelSend \/ PanelProtect
  \/ DinDrain \/ UsbTake \/ UsbStall \/ UsbHost

Spec == Init /\ [][Next]_vars

(***************************************************************************)
(* The main loop ticks and the UART sends.  A host that keeps coming back  *)
(* to read takes something in the end; the stall timer runs on while a     *)
(* host comes and goes without reading (midi_output_usb.cpp:73-84).        *)
(***************************************************************************)
Fairness ==
  /\ WF_vars(Tick) /\ WF_vars(DinDrain)
  /\ SF_vars(UsbTake) /\ SF_vars(UsbStall)

LiveSpec == Spec /\ Fairness

-----------------------------------------------------------------------------
Messages ==
  {m \in [kind : Kinds, value : Values, sent : 0 .. Units + Tail, missed : BOOLEAN] :
     m.sent <= Longest(m.kind)}

\* Every variable has its type; no ring is overfull.
TypeOK ==
  /\ loaded \in UNION {[places -> SentUnits \cup {None}] : places \in SUBSET (1 .. Units)}
  /\ locked \in BOOLEAN
  /\ func \in Kinds \cup {None} /\ out \in 0 .. Units
  /\ stage \in [1 .. Units -> SentUnits \cup {None}]
  /\ wire \in [Wires -> Messages \cup {None}]
  /\ dump \in (0 .. DumpChunks - 1) \cup {None} /\ reply \in BOOLEAN
  /\ din \in 0 .. DinSize /\ usb \in 0 .. UsbSize
  /\ host \in {"reads", "idles", "absent"} /\ stalled \in BOOLEAN
  /\ lost \subseteq {"din", "usb"}

(***************************************************************************)
(* A bank is loaded from the message that has just ended and from it       *)
(* alone, each unit at or before the place it was sent for and all in      *)
(* order, whatever was cut short or lost before and is still in the        *)
(* staging image; and it is loaded as it was sent, unless the message both *)
(* lost something and was longer than the bank: then what follows the      *)
(* bank makes up for what was lost (LoadIsWhole).  Of one wire; see the    *)
(* README for two.                                                         *)
(***************************************************************************)
LoadIsMessage ==
  [][\A w \in Wires :
       func \in Banks /\ loaded' # Nothing /\ End(w) =>
         LET m == wire[w]
             bank == First(m.kind) .. Units
         IN /\ DOMAIN loaded' = bank
            /\ \A i \in bank : loaded'[i] \in {m.value} \X (Places \ (1 .. i - 1))
            /\ \A i, j \in bank : i < j => loaded'[i][2] < loaded'[j][2]
            /\ \/ m.missed /\ m.sent > Need(m.kind)
               \/ \A i \in bank : loaded'[i] = <<m.value, i>>]_vars

(***************************************************************************)
(* "only copied into memory once the whole message has arrived with the    *)
(* right length" (M1_SysEx.cpp): what is loaded is what was sent for each  *)
(* place.  It does not hold: README, Observed.                             *)
(***************************************************************************)
LoadIsWhole ==
  [][\A w \in Wires :
       func \in Banks /\ loaded' # Nothing /\ End(w) =>
         \A i \in DOMAIN loaded' : loaded'[i] = <<wire[w].value, i>>]_vars

(***************************************************************************)
(* "both wires, paced by whichever ring is fuller" (M1_Instrument.cpp):    *)
(* nothing is ever lost on DIN, and on USB only what was written while the *)
(* host was known not to read.                                             *)
(***************************************************************************)
LosesOnlyStalled == lost = {}

(***************************************************************************)
(* "A host that does not read the USB endpoint must not hold DIN back"     *)
(* (M1_Instrument.cpp): when no more is asked for, all replies and dumps   *)
(* get out, whether the host reads, comes and goes, or does not read; so   *)
(* the store to flash that waits for sending() to end is not held up.      *)
(***************************************************************************)
SendingEnds ==
  <>[][~(Receive \/ PanelSend)]_vars => <>[](~reply /\ dump = None)

(***************************************************************************)
(* "one dump at a time", all or nothing, "because a half SysEx on the wire *)
(* is worse for the receiver than a missing one" (M1_SysEx.h,              *)
(* midi_output_usb.h): a reply does not go out inside a dump.              *)
(* It does not hold: README, Observed.                                     *)
(***************************************************************************)
NoReplyInsideDump ==
  [][reply /\ ~reply' => dump \in {None, 0}]_vars
=============================================================================
