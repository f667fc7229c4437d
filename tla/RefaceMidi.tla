----------------------------- MODULE RefaceMidi -----------------------------
(***************************************************************************)
(* The MIDI layer the reface ports share (reface_midi.cpp), as the main    *)
(* loop drives it (picoface_main.cpp): notes with channel filter and       *)
(* transposition, the settings that decide on both, and active sensing     *)
(* with one timeout for both wires.                                        *)
(*                                                                         *)
(* Time passes in units.  The engine is the set of notes it plays.         *)
(* What the layer sends is left out (see UsbMidiOut).                      *)
(***************************************************************************)
EXTENDS Integers, FiniteSets

CONSTANTS
  Wires,
  Usb,        \* the wires that carry packets; the others carry bytes (DIN)
  Keys,       \* of a keyboard
  Channels,
  All,        \* RX_CH_ALL
  MaxNote,    \* 127
  MaxShift,   \* the transposition goes from -MaxShift to MaxShift
  Octaves,    \* what uiOctave() may say, in notes
  Sense,      \* the longest a sensing sender is silent: 300 ms
  Timeout,    \* 350 ms
  Gap,        \* bound: the longest from process() to uiTick() in one pass
  MaxSenders  \* bound: wires in use

ASSUME RefaceAssumption ==
  /\ MaxNote \in Nat /\ MaxShift \in Nat /\ Keys \subseteq 0 .. MaxNote
  /\ Octaves \subseteq Int /\ 0 \in Octaves /\ All \notin Channels
  /\ Usb \subseteq Wires /\ MaxSenders \in Nat
  /\ Sense \in Nat \ {0} /\ Timeout \in Nat /\ Gap \in Nat
  /\ Sense + Gap <= Timeout

VARIABLES
  rx,         \* _sys[SYS_RX_CH]
  transpose,  \* _sys[SYS_TRANSPOSE] - 0x40
  octave,     \* 12 * uiOctave()
  sounding,   \* the notes the engine plays
  active,     \* _senseActive
  sinceRx,    \* now - _lastRxMs; not counted further than needed
  at,         \* where the main loop is: before process() or before uiTick()
  sincePoll,  \* how long uiTick() has been due
  sender,     \* what is at the other end of each wire
  quiet,      \* how long it has been silent
  mute,       \* how long it has sent nothing that restarts the timeout; when that
              \* was too long, until process() has seen what does
  waiting,    \* the wires on which an FE has come that is not processed yet
  held,       \* history: the keys, with wire and channel, that were sent as down
  shifted     \* history: a setting was changed under a sounding note

settings == <<rx, transpose, octave>>
senseVars == <<active, sinceRx>>
wireVars == <<sender, quiet, mute, waiting>>
history == <<held, shifted>>
vars == <<settings, sounding, senseVars, at, sincePoll, wireVars, history>>

Shifts == -MaxShift .. MaxShift

-----------------------------------------------------------------------------
\* channelOk()
Accepts(c) == rx = All \/ c = rx

Clamped(n, least, most) == IF n < least THEN least ELSE IF n > most THEN most ELSE n

\* transposeNote()
Transposed(k) == Clamped(k + transpose + octave, 0, MaxNote)

\* What loadSystemBlock() makes of a block an earlier firmware has stored.
Sane(shift) == IF shift \in Shifts THEN shift ELSE 0

Init ==
  /\ rx \in Channels \cup {All} /\ octave \in Octaves
  /\ \E stored \in -MaxShift - 1 .. MaxShift + 1 : transpose = Sane(stored)
  /\ sounding = {} /\ active = FALSE /\ sinceRx = 0
  /\ at = "poll" /\ sincePoll = 0
  /\ sender \in [Wires -> {"off", "plain", "sensing"}]
  /\ Cardinality({w \in Wires : sender[w] # "off"}) <= MaxSenders
  /\ quiet = [w \in Wires |-> 0] /\ mute = [w \in Wires |-> 0] /\ waiting = {}
  /\ held = {} /\ shifted = FALSE

-----------------------------------------------------------------------------
(* process(): what has come in on a wire.  Each USB packet restarts the     *)
(* timeout (notifyActivity()); over DIN the status byte of a channel       *)
(* message does, but not the data that follow in running status, nor SysEx.*)

Received(w) ==
  /\ at = "poll" /\ sender[w] # "off"
  /\ quiet' = [quiet EXCEPT ![w] = 0]
  /\ \/ sinceRx' = 0 /\ mute' = [mute EXCEPT ![w] = 0]
     \/ w \notin Usb /\ UNCHANGED <<sinceRx, mute>>
  /\ UNCHANGED <<active, at, sincePoll, sender, waiting>>

\* shifted is for as long as a note sounds that was struck before.
Plays(notes, changed) ==
  /\ sounding' = notes
  /\ shifted' = (notes # {} /\ (shifted \/ changed))

NoteOn(w, k, c) ==
  /\ <<w, k, c>> \notin held
  /\ Received(w) /\ held' = held \cup {<<w, k, c>>}
  /\ Plays(IF Accepts(c) THEN sounding \cup {Transposed(k)} ELSE sounding, FALSE)
  /\ UNCHANGED settings

\* Mutant: the note is not transposed on its way off.
NoteOffAsIs(w, k, c) ==
  /\ <<w, k, c>> \in held
  /\ Received(w) /\ held' = held \ {<<w, k, c>>}
  /\ Plays(IF Accepts(c) THEN sounding \ {k} ELSE sounding, FALSE)
  /\ UNCHANGED settings

\* Also a note on with velocity 0.
NoteOff(w, k, c) ==
  /\ <<w, k, c>> \in held
  /\ Received(w) /\ held' = held \ {<<w, k, c>>}
  /\ Plays(IF Accepts(c) THEN sounding \ {Transposed(k)} ELSE sounding, FALSE)
  /\ UNCHANGED settings

\* Omni off and on (124, 125), and the channel-mode messages the engine sees.
Omni(w, c) ==
  /\ Accepts(c) /\ Received(w)
  /\ rx' \in {rx, All, CHOOSE ch \in Channels : TRUE}
  /\ Plays({}, FALSE)
  /\ UNCHANGED <<transpose, octave, held>>

\* applySystemParam(SYS_TRANSPOSE)
Limited(v) == Clamped(v, -MaxShift, MaxShift)

\* A parameter change, or the whole block in a bulk dump, which is applied
\* parameter by parameter.  DIN delivers SysEx without its F0, and onSysEx()
\* takes nothing without.
SystemParams(w) ==
  /\ w \in Usb /\ Received(w)
  /\ \E v \in -MaxShift - 1 .. MaxShift + 1 : transpose' \in {transpose, Limited(v)}
  /\ rx' \in {rx} \cup Channels \cup {All}
  /\ Plays(sounding, <<rx, transpose>>' # <<rx, transpose>>)
  /\ UNCHANGED <<octave, held>>

\* A message that is nothing to notes or settings; any SysEx from DIN.
Other(w) == Received(w) /\ UNCHANGED <<settings, sounding, history>>

\* onRealtime(FE) for each that is waiting, and on to the rest of the pass.
Poll ==
  /\ at = "poll" /\ at' = "tick" /\ sincePoll' = 0
  /\ active' = (active \/ waiting # {})
  /\ sinceRx' = IF waiting # {} THEN 0 ELSE sinceRx
  /\ mute' = [w \in Wires |-> IF w \in waiting /\ mute[w] > Sense THEN 0 ELSE mute[w]]
  /\ waiting' = {}
  /\ UNCHANGED <<settings, sounding, sender, quiet, history>>

-----------------------------------------------------------------------------
(* The rest of a pass of the main loop.                                    *)

\* Mutant: the silence is taken for a lost cable one tick too early.
TickEarly ==
  /\ at = "tick" /\ at' = "poll" /\ sincePoll' = 0
  /\ IF active /\ sinceRx >= Timeout
     THEN active' = FALSE /\ Plays({}, FALSE)
     ELSE UNCHANGED <<active, sounding, shifted>>
  /\ UNCHANGED <<settings, sinceRx, wireVars, held>>

\* Mutant: the supervision ends without silence.
TickForgets ==
  /\ at = "tick" /\ at' = "poll" /\ sincePoll' = 0
  /\ active' = (active /\ sinceRx <= Timeout)
  /\ UNCHANGED <<settings, sinceRx, sounding, wireVars, history>>

\* tick(), from uiTick()
Tick ==
  /\ at = "tick" /\ at' = "poll" /\ sincePoll' = 0
  /\ IF active /\ sinceRx > Timeout
     THEN active' = FALSE /\ Plays({}, FALSE)
     ELSE UNCHANGED <<active, sounding, shifted>>
  /\ UNCHANGED <<settings, sinceRx, wireVars, held>>

\* No uiTick() in this pass: too early, or the display is being flushed.
Skip ==
  /\ at = "tick" /\ at' = "poll" /\ sincePoll' = 0
  /\ UNCHANGED <<settings, sounding, senseVars, wireVars, history>>

\* uiTick() turns the octave switch, or sets the receive channel.
Panel ==
  /\ at = "tick"
  /\ \/ octave' \in Octaves \ {octave} /\ rx' = rx
     \/ octave' = octave /\ rx' \in (Channels \cup {All}) \ {rx}
  /\ Plays(sounding, TRUE)
  /\ UNCHANGED <<transpose, senseVars, at, sincePoll, wireVars, held>>

-----------------------------------------------------------------------------
(* Senders and time.  A pass may take any time, a save of the settings for *)
(* instance, but for the part between process() and uiTick().              *)

SendFE(w) ==
  /\ sender[w] = "sensing"
  /\ quiet' = [quiet EXCEPT ![w] = 0] /\ waiting' = waiting \cup {w}
  /\ mute' = [mute EXCEPT ![w] = IF @ > Sense THEN @ ELSE 0]
  /\ UNCHANGED <<settings, sounding, senseVars, at, sincePoll, sender, history>>

\* What was down on the wire stays down as far as anybody knows.
Unplug(w) ==
  /\ sender[w] # "off" /\ sender' = [sender EXCEPT ![w] = "off"]
  /\ quiet' = [quiet EXCEPT ![w] = 0] /\ mute' = [mute EXCEPT ![w] = 0]
  /\ UNCHANGED <<settings, sounding, senseVars, at, sincePoll, waiting, history>>

TimePasses ==
  /\ \A w \in Wires : sender[w] = "sensing" => quiet[w] < Sense
  /\ at = "tick" => sincePoll < Gap
  /\ sinceRx' = IF sinceRx > Timeout THEN sinceRx ELSE sinceRx + 1
  /\ quiet' = [w \in Wires |-> IF sender[w] = "sensing" THEN quiet[w] + 1 ELSE 0]
  /\ mute' = [w \in Wires |-> IF sender[w] # "sensing" THEN 0
                              ELSE IF mute[w] > Sense THEN mute[w] ELSE mute[w] + 1]
  /\ sincePoll' = IF at = "tick" THEN sincePoll + 1 ELSE 0
  /\ UNCHANGED <<settings, sounding, active, at, sender, waiting, history>>

Receive ==
  \/ \E w \in Wires, k \in Keys, c \in Channels : NoteOn(w, k, c) \/ NoteOff(w, k, c)
  \/ \E w \in Wires, c \in Channels : Omni(w, c)
  \/ \E w \in Wires : SystemParams(w) \/ Other(w)

Next ==
  \/ Receive \/ Poll \/ Tick \/ Skip \/ Panel
  \/ \E w \in Wires : SendFE(w) \/ Unplug(w)
  \/ TimePasses

Spec == Init /\ [][Next]_vars

(***************************************************************************)
(* The main loop goes round, and calls uiTick() again and again, because   *)
(* the panel keeps running (DisplayLoop).  Time passes.                    *)
(***************************************************************************)
Fairness == WF_vars(Poll) /\ SF_vars(Tick) /\ WF_vars(TimePasses)
LiveSpec == Spec /\ Fairness

-----------------------------------------------------------------------------
\* Every variable has its type; the transposition is within its limits.
TypeOK ==
  /\ rx \in Channels \cup {All} /\ transpose \in Shifts /\ octave \in Octaves
  /\ sounding \subseteq 0 .. MaxNote
  /\ active \in BOOLEAN /\ sinceRx \in 0 .. Timeout + 1
  /\ at \in {"poll", "tick"} /\ sincePoll \in 0 .. Gap
  /\ sender \in [Wires -> {"off", "plain", "sensing"}]
  /\ quiet \in [Wires -> 0 .. Sense] /\ mute \in [Wires -> 0 .. Sense + 1]
  /\ waiting \subseteq Wires
  /\ held \subseteq Wires \X Keys \X Channels /\ shifted \in BOOLEAN

(***************************************************************************)
(* A note off is transposed with the settings of its own moment: as long   *)
(* as none of them is changed under a sounding note, whatever sounds is of *)
(* a key that is down, even where the limits of the range make one note of *)
(* two keys.                                                               *)
(***************************************************************************)
OffsFindTheirNotes ==
  ~shifted => \A n \in sounding : \E h \in held : Accepts(h[3]) /\ n = Transposed(h[2])

(***************************************************************************)
(* "silence for 350 ms means the cable is gone" (reface_midi.h): the notes *)
(* are not cut off while a sensing sender is there that sends an FE, a     *)
(* packet or a status byte in time, however long a pass of the main loop   *)
(* has kept them waiting and whatever other wires do.                      *)
(***************************************************************************)
NoFalseAlarm ==
  [][active /\ ~active' => \A w \in Wires : sender[w] = "sensing" => mute[w] > Sense]_vars

(***************************************************************************)
(* "any received byte resets the sense timeout" (reface_midi.h): the notes *)
(* are not cut off while a sensing sender is there that sends anything.    *)
(* It does not hold: README, Observed.                                     *)
(***************************************************************************)
AnyByteCounts ==
  [][active /\ ~active' => \A w \in Wires : sender[w] # "sensing"]_vars

(***************************************************************************)
(* Once a sender that is gone has been supervised and nothing else comes   *)
(* in, no note hangs.                                                      *)
(***************************************************************************)
GoneIsSilent ==
  active /\ (\A w \in Wires : sender[w] = "off") ~> sounding = {}
=============================================================================
