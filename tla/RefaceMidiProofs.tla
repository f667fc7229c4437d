-------------------------- MODULE RefaceMidiProofs --------------------------
(***************************************************************************)
(* Active sensing never silences a sender that says in time that it is     *)
(* there, and a note off finds its note while the settings stand, for any  *)
(* wires, keys, channels and limits.                                       *)
(***************************************************************************)
EXTENDS RefaceMidi, TLAPS

\* What the last byte that counts of a sensing sender has done to the timeout: it
\* has restarted it, or it waits for the next process().
Heard ==
  \A w \in Wires : sender[w] = "sensing" /\ mute[w] <= Sense =>
    /\ w \in waiting \/ sinceRx <= mute[w]
    /\ at = "tick" => sinceRx <= Sense + sincePoll

IInv == TypeOK /\ Heard
-----------------------------------------------------------------------------
\* Notes stay within the range, and shifted is a Boolean.
LEMMA NoteRange ==
  ASSUME NEW k \in Keys, TypeOK PROVE Transposed(k) \in 0 .. MaxNote
  BY RefaceAssumption DEF TypeOK, Shifts, Transposed, Clamped

\* The device starts with whatever settings were stored.
LEMMA InitIInv == Init => IInv
<1> SUFFICES ASSUME Init PROVE IInv
  OBVIOUS
<1>1. transpose \in Shifts
  BY RefaceAssumption DEF Init, Sane, Shifts
<1>2. /\ sinceRx \in 0 .. Timeout + 1 /\ sincePoll \in 0 .. Gap
      /\ quiet \in [Wires -> 0 .. Sense] /\ mute \in [Wires -> 0 .. Sense + 1]
  BY RefaceAssumption DEF Init
<1>3. TypeOK
  BY <1>1, <1>2 DEF Init, TypeOK
<1>4. Heard
  BY DEF Init, Heard
<1>5. QED
  BY <1>3, <1>4 DEF IInv

\* What the settings and the notes become keeps its type.
LEMMA PlaysType ==
  ASSUME TypeOK, NEW notes \in SUBSET (0 .. MaxNote), NEW changed \in BOOLEAN,
         Plays(notes, changed)
  PROVE  sounding' \subseteq 0 .. MaxNote /\ shifted' \in BOOLEAN
  BY DEF Plays

\* A received byte restarts the timeout, or leaves it and the sender's account.
LEMMA ReceivedHeard ==
  ASSUME IInv, NEW w \in Wires, Received(w)
  PROVE  /\ Heard'
         /\ active' \in BOOLEAN /\ sinceRx' \in 0 .. Timeout + 1
         /\ at' \in {"poll", "tick"} /\ sincePoll' \in 0 .. Gap
         /\ sender' \in [Wires -> {"off", "plain", "sensing"}]
         /\ quiet' \in [Wires -> 0 .. Sense] /\ mute' \in [Wires -> 0 .. Sense + 1]
         /\ waiting' \subseteq Wires
<1>1. quiet' \in [Wires -> 0 .. Sense] /\ at' = "poll" /\ UNCHANGED <<active, sincePoll, sender, waiting>>
  BY RefaceAssumption DEF IInv, TypeOK, Received
<1>2. mute' \in [Wires -> 0 .. Sense + 1] /\ sinceRx' \in 0 .. Timeout + 1
  BY RefaceAssumption DEF IInv, TypeOK, Received
<1>3. Heard'
  <2>1. CASE sinceRx' = 0
    BY <1>1, <1>2, <2>1, RefaceAssumption DEF Heard
  <2>2. CASE UNCHANGED <<sinceRx, mute>>
    BY <1>1, <2>2 DEF IInv, Heard
  <2>3. QED
    BY <2>1, <2>2 DEF Received
<1>4. QED
  BY <1>1, <1>2, <1>3 DEF IInv, TypeOK

\* Whatever comes in on a wire.
LEMMA ReceiveIInv == IInv /\ Receive => IInv'
<1> SUFFICES ASSUME IInv, Receive PROVE IInv'
  OBVIOUS
<1>1. TypeOK /\ held \subseteq Wires \X Keys \X Channels
  BY DEF IInv, TypeOK
<1>2. ASSUME NEW w \in Wires, NEW k \in Keys, NEW c \in Channels,
             NoteOn(w, k, c) \/ NoteOff(w, k, c)
      PROVE  IInv'
  <2>1. /\ Received(w) /\ UNCHANGED settings
        /\ \/ held' = held \cup {<<w, k, c>>}
           \/ held' = held \ {<<w, k, c>>}
        /\ \E notes \in SUBSET (0 .. MaxNote) : Plays(notes, FALSE)
    BY <1>1, <1>2, NoteRange DEF NoteOn, NoteOff, TypeOK
  <2>2. held' \subseteq Wires \X Keys \X Channels
    BY <1>1, <2>1
  <2>3. sounding' \subseteq 0 .. MaxNote /\ shifted' \in BOOLEAN
    BY <1>1, <2>1, PlaysType
  <2>4. QED
    BY <1>1, <2>1, <2>2, <2>3, ReceivedHeard DEF IInv, TypeOK, settings
<1>3. ASSUME NEW w \in Wires, NEW c \in Channels, Omni(w, c) PROVE IInv'
  <2>1. /\ Received(w) /\ UNCHANGED <<transpose, octave, held>>
        /\ rx' \in Channels \cup {All}
    BY <1>1, <1>3 DEF Omni, TypeOK
  <2>2. sounding' \subseteq 0 .. MaxNote /\ shifted' \in BOOLEAN
    BY <1>3 DEF Omni, Plays
  <2>3. QED
    BY <1>1, <2>1, <2>2, ReceivedHeard DEF IInv, TypeOK
<1>4. ASSUME NEW w \in Wires, SystemParams(w) PROVE IInv'
  <2>1. /\ Received(w) /\ UNCHANGED <<octave, held>>
        /\ rx' \in Channels \cup {All} /\ transpose' \in Shifts
    <3>1. PICK v \in -MaxShift - 1 .. MaxShift + 1 : transpose' \in {transpose, Limited(v)}
      BY <1>4 DEF SystemParams
    <3>2. Limited(v) \in Shifts
      BY RefaceAssumption DEF Limited, Clamped, Shifts
    <3>3. QED
      BY <1>1, <1>4, <3>1, <3>2 DEF SystemParams, TypeOK
  <2>2. sounding' \subseteq 0 .. MaxNote /\ shifted' \in BOOLEAN
    BY <1>1, <1>4 DEF SystemParams, Plays, TypeOK
  <2>3. QED
    BY <1>1, <2>1, <2>2, ReceivedHeard DEF IInv, TypeOK
<1>5. ASSUME NEW w \in Wires, Other(w) PROVE IInv'
  BY <1>1, <1>5, ReceivedHeard DEF Other, IInv, TypeOK, settings, history
<1>6. QED
  BY <1>2, <1>3, <1>4, <1>5 DEF Receive

\* After process() nothing that counts of a sensing sender is older than Sense.
LEMMA PollIInv == IInv /\ Poll => IInv'
<1> SUFFICES ASSUME IInv, Poll PROVE IInv'
  OBVIOUS
<1>1. mute' \in [Wires -> 0 .. Sense + 1]
  BY RefaceAssumption DEF IInv, TypeOK, Poll
<1>2. TypeOK'
  BY <1>1, RefaceAssumption DEF IInv, TypeOK, Poll, settings, history
<1>3. ASSUME NEW w \in Wires, sender[w] = "sensing", mute'[w] <= Sense
      PROVE  sinceRx' <= mute'[w] /\ sinceRx' <= Sense
  <2>1. /\ mute[w] \in 0 .. Sense + 1 /\ sinceRx \in 0 .. Timeout + 1
        /\ mute'[w] = (IF w \in waiting /\ mute[w] > Sense THEN 0 ELSE mute[w])
    BY DEF IInv, TypeOK, Poll
  <2>2. CASE waiting # {}
    BY <1>3, <2>1, <2>2, RefaceAssumption DEF Poll
  <2>3. CASE waiting = {}
    <3>1. mute'[w] = mute[w] /\ sinceRx' = sinceRx
      BY <2>1, <2>3 DEF Poll
    <3>2. sinceRx <= mute[w]
      BY <1>3, <2>3, <3>1 DEF IInv, Heard
    <3>3. QED
      BY <1>3, <2>1, <3>1, <3>2, RefaceAssumption
  <2>4. QED
    BY <2>2, <2>3
<1>4. Heard'
  BY <1>3, RefaceAssumption DEF Poll, Heard
<1>5. QED
  BY <1>2, <1>4 DEF IInv

\* The rest of a pass leaves the wires and the timeout alone.
LEMMA PassIInv == IInv /\ (Tick \/ Skip \/ Panel) => IInv'
<1> SUFFICES ASSUME IInv, Tick \/ Skip \/ Panel PROVE IInv'
  OBVIOUS
<1>1. /\ sincePoll' \in 0 .. Gap /\ at' \in {"poll", "tick"}
      /\ at' = "tick" => at = "tick" /\ sincePoll' = sincePoll
      /\ UNCHANGED <<sinceRx, wireVars, transpose, held>>
  <2>1. UNCHANGED <<sinceRx, wireVars, transpose, held>>
    BY DEF Tick, Skip, Panel, settings, history, senseVars
  <2>2. \/ at' = "poll" /\ sincePoll' = 0
        \/ at = "tick" /\ at' = at /\ sincePoll' = sincePoll
    BY DEF Tick, Skip, Panel
  <2>3. QED
    BY <2>1, <2>2, RefaceAssumption DEF IInv, TypeOK
<1>2. Heard'
  BY <1>1 DEF IInv, Heard, wireVars
<1>3. octave' \in Octaves /\ rx' \in Channels \cup {All}
  BY DEF IInv, TypeOK, Tick, Skip, Panel, settings
<1>4. sounding' \subseteq 0 .. MaxNote /\ active' \in BOOLEAN /\ shifted' \in BOOLEAN
  BY DEF IInv, TypeOK, Tick, Skip, Panel, Plays, senseVars, history
<1>5. TypeOK'
  BY <1>1, <1>3, <1>4 DEF IInv, TypeOK, wireVars
<1>6. QED
  BY <1>2, <1>5 DEF IInv

\* The senders and the clock.
LEMMA WireIInv ==
  IInv /\ ((\E w \in Wires : SendFE(w) \/ Unplug(w)) \/ TimePasses) => IInv'
<1> SUFFICES ASSUME IInv, (\E w \in Wires : SendFE(w) \/ Unplug(w)) \/ TimePasses PROVE IInv'
  OBVIOUS
<1>1. UNCHANGED <<settings, sounding, active, at, history>>
  BY DEF SendFE, Unplug, TimePasses, senseVars
<1>2. CASE \E w \in Wires : SendFE(w)
  <2>1. PICK w \in Wires : SendFE(w)
    BY <1>2
  <2>2. /\ quiet' = [quiet EXCEPT ![w] = 0] /\ waiting' = waiting \cup {w}
        /\ mute' = [mute EXCEPT ![w] = IF @ > Sense THEN @ ELSE 0]
        /\ UNCHANGED <<sinceRx, sincePoll, sender>>
    BY <2>1 DEF SendFE, senseVars
  <2>3. /\ quiet' \in [Wires -> 0 .. Sense] /\ mute' \in [Wires -> 0 .. Sense + 1]
        /\ waiting' \subseteq Wires
    BY <2>2, RefaceAssumption DEF IInv, TypeOK
  <2>4. \A v \in Wires : mute'[v] <= Sense => mute[v] <= Sense /\ (v # w => mute'[v] = mute[v])
    BY <2>2, RefaceAssumption DEF IInv, TypeOK
  <2>5. Heard'
    BY <1>1, <2>2, <2>4 DEF IInv, Heard
  <2>6. QED
    BY <1>1, <2>2, <2>3, <2>5 DEF IInv, TypeOK, settings, history
<1>3. CASE \E w \in Wires : Unplug(w)
  <2>1. PICK w \in Wires : Unplug(w)
    BY <1>3
  <2>2. /\ quiet' = [quiet EXCEPT ![w] = 0] /\ mute' = [mute EXCEPT ![w] = 0]
        /\ sender' = [sender EXCEPT ![w] = "off"]
        /\ UNCHANGED <<sinceRx, sincePoll, waiting>>
    BY <2>1 DEF Unplug, senseVars
  <2>3. /\ quiet' \in [Wires -> 0 .. Sense] /\ mute' \in [Wires -> 0 .. Sense + 1]
        /\ sender' \in [Wires -> {"off", "plain", "sensing"}]
    BY <2>2, RefaceAssumption DEF IInv, TypeOK
  <2>4. \A v \in Wires : sender'[v] = "sensing" => sender[v] = "sensing" /\ mute'[v] = mute[v]
    BY <2>2 DEF IInv, TypeOK
  <2>5. Heard'
    BY <1>1, <2>2, <2>4 DEF IInv, Heard
  <2>6. QED
    BY <1>1, <2>2, <2>3, <2>5 DEF IInv, TypeOK, settings, history
<1>4. CASE TimePasses
  <2>1. /\ \A w \in Wires : sender[w] = "sensing" => quiet[w] < Sense
        /\ at = "tick" => sincePoll < Gap
        /\ sinceRx' = (IF sinceRx > Timeout THEN sinceRx ELSE sinceRx + 1)
        /\ quiet' = [w \in Wires |-> IF sender[w] = "sensing" THEN quiet[w] + 1 ELSE 0]
        /\ mute' = [w \in Wires |-> IF sender[w] # "sensing" THEN 0
                                    ELSE IF mute[w] > Sense THEN mute[w] ELSE mute[w] + 1]
        /\ sincePoll' = (IF at = "tick" THEN sincePoll + 1 ELSE 0)
        /\ UNCHANGED <<sender, waiting>>
    BY <1>4 DEF TimePasses
  <2>2. /\ sinceRx \in 0 .. Timeout + 1 /\ sincePoll \in 0 .. Gap
        /\ \A w \in Wires : quiet[w] \in 0 .. Sense /\ mute[w] \in 0 .. Sense + 1
    BY DEF IInv, TypeOK
  <2>3. sinceRx' \in 0 .. Timeout + 1 /\ sincePoll' \in 0 .. Gap /\ sinceRx' <= sinceRx + 1
    BY <2>1, <2>2, RefaceAssumption
  <2>4. quiet' \in [Wires -> 0 .. Sense] /\ mute' \in [Wires -> 0 .. Sense + 1]
    <3>1. \A w \in Wires : (IF sender[w] = "sensing" THEN quiet[w] + 1 ELSE 0) \in 0 .. Sense
      BY <2>1, <2>2, RefaceAssumption
    <3>2. \A w \in Wires : (IF sender[w] # "sensing" THEN 0
                           ELSE IF mute[w] > Sense THEN mute[w] ELSE mute[w] + 1) \in 0 .. Sense + 1
      BY <2>2, RefaceAssumption
    <3>3. QED
      BY <2>1, <3>1, <3>2
  <2>5. Heard'
    <3>1. SUFFICES ASSUME NEW w \in Wires, sender[w] = "sensing", mute'[w] <= Sense
                   PROVE  /\ w \in waiting \/ sinceRx' <= mute'[w]
                          /\ at = "tick" => sinceRx' <= Sense + sincePoll'
      BY <1>1, <2>1 DEF Heard
    <3>2. mute'[w] = mute[w] + 1 /\ mute[w] <= Sense
      BY <2>1, <2>2, <3>1, RefaceAssumption
    <3>3. /\ w \in waiting \/ sinceRx <= mute[w]
          /\ at = "tick" => sinceRx <= Sense + sincePoll
      BY <3>1, <3>2 DEF IInv, Heard
    <3>4. w \in waiting \/ sinceRx' <= mute'[w]
      BY <2>2, <2>3, <3>2, <3>3
    <3>5. at = "tick" => sinceRx' <= Sense + sincePoll'
      BY <2>1, <2>2, <2>3, <3>3, RefaceAssumption
    <3>6. QED
      BY <3>4, <3>5
  <2>6. QED
    BY <1>1, <2>1, <2>3, <2>4, <2>5 DEF IInv, TypeOK, settings, history
<1>5. QED
  BY <1>2, <1>3, <1>4

LEMMA NextIInv == IInv /\ [Next]_vars => IInv'
<1>1. IInv /\ UNCHANGED vars => IInv'
  BY DEF vars, settings, senseVars, wireVars, history, IInv, TypeOK, Heard
<1>2. QED
  BY <1>1, ReceiveIInv, PollIInv, PassIInv, WireIInv DEF Next

\* The invariant behind the results on active sensing.
THEOREM Inductive == Spec => []IInv
<1>1. QED
  BY InitIInv, NextIInv, PTL DEF Spec

\* A sensing sender that says in time that it is there is never taken for a lost
\* cable: what counts of it has been heard within Sense + Gap, and that is within
\* the timeout, for any number of wires.
THEOREM NoFalseAlarmHolds == Spec => NoFalseAlarm
<1>1. IInv /\ [Next]_vars =>
        [active /\ ~active' => \A w \in Wires : sender[w] = "sensing" => mute[w] > Sense]_vars
  <2> SUFFICES ASSUME IInv, Next, active, ~active', NEW w \in Wires, sender[w] = "sensing",
                      ~(mute[w] > Sense)
               PROVE  FALSE
    OBVIOUS
  <2>1. at = "tick" /\ sinceRx > Timeout
    BY DEF Next, Receive, NoteOn, NoteOff, Omni, SystemParams, Other, Received, Poll, Tick, Skip,
      Panel, SendFE, Unplug, TimePasses, senseVars
  <2>2. mute[w] \in 0 .. Sense + 1 /\ sinceRx \in 0 .. Timeout + 1 /\ sincePoll \in 0 .. Gap
    BY DEF IInv, TypeOK
  <2>3. mute[w] <= Sense
    BY <2>2, RefaceAssumption
  <2>4. sinceRx <= Sense + sincePoll
    BY <2>1, <2>3 DEF IInv, Heard
  <2>5. QED
    BY <2>1, <2>2, <2>4, RefaceAssumption
<1>2. QED
  BY <1>1, Inductive, PTL DEF Spec, NoFalseAlarm
-----------------------------------------------------------------------------
\* Before anything sounds no note off can miss.
LEMMA InitOffs == Init => OffsFindTheirNotes
  BY DEF Init, OffsFindTheirNotes

\* With the settings as they are, a note that still sounds after a note off is
\* of another key, or of a channel that was let in.
LEMMA NoteOffs ==
  ASSUME IInv, OffsFindTheirNotes, NEW w \in Wires, NEW k \in Keys, NEW c \in Channels,
         NoteOn(w, k, c) \/ NoteOff(w, k, c)
  PROVE  OffsFindTheirNotes'
<1>1. /\ \A key : Transposed(key)' = Transposed(key)
      /\ \A ch : Accepts(ch)' = Accepts(ch)
  BY DEF NoteOn, NoteOff, settings, Transposed, Accepts
<1>2. SUFFICES ASSUME ~shifted', NEW n \in sounding'
               PROVE  \E h \in held' : Accepts(h[3]) /\ n = Transposed(h[2])
  BY <1>1 DEF OffsFindTheirNotes
<1>3. ~shifted
  BY <1>2 DEF NoteOn, NoteOff, Plays
<1>4. CASE NoteOn(w, k, c)
  <2>1. CASE n \in sounding
    BY <1>3, <1>4, <2>1 DEF NoteOn, OffsFindTheirNotes
  <2>2. CASE n \notin sounding
    <3>1. Accepts(c) /\ n = Transposed(k)
      BY <1>2, <1>4, <2>2 DEF NoteOn, Plays
    <3>2. <<w, k, c>> \in held'
      BY <1>4 DEF NoteOn
    <3>3. QED
      BY <3>1, <3>2
  <2>3. QED
    BY <2>1, <2>2
<1>5. CASE NoteOff(w, k, c)
  <2>1. n \in sounding /\ (Accepts(c) => n # Transposed(k))
    BY <1>2, <1>5 DEF NoteOff, Plays
  <2>2. PICK h \in held : Accepts(h[3]) /\ n = Transposed(h[2])
    BY <1>3, <2>1 DEF OffsFindTheirNotes
  <2>3. h # <<w, k, c>>
    BY <2>1, <2>2
  <2>4. h \in held'
    BY <1>5, <2>3 DEF NoteOff
  <2>5. QED
    BY <2>2, <2>4
<1>6. QED
  BY <1>4, <1>5

\* Everything else leaves notes, keys and settings alone, ends all notes, or
\* changes a setting under a sounding note, which shifted records.
LEMMA NextOffs == IInv /\ OffsFindTheirNotes /\ [Next]_vars => OffsFindTheirNotes'
<1> SUFFICES ASSUME IInv, OffsFindTheirNotes, [Next]_vars PROVE OffsFindTheirNotes'
  OBVIOUS
<1>1. CASE \E w \in Wires, k \in Keys, c \in Channels : NoteOn(w, k, c) \/ NoteOff(w, k, c)
  BY <1>1, NoteOffs
<1>2. CASE /\ UNCHANGED held
           /\ \/ sounding' = {}
              \/ sounding' = sounding /\ (~shifted' /\ sounding # {} => ~shifted /\ UNCHANGED settings)
  BY <1>2 DEF OffsFindTheirNotes, Accepts, Transposed, settings
<1>3. ASSUME (\E w \in Wires, c \in Channels : Omni(w, c)) \/ Tick
      PROVE  /\ UNCHANGED held
             /\ \/ sounding' = {}
                \/ sounding' = sounding /\ shifted' = shifted /\ UNCHANGED settings
  BY <1>3 DEF Omni, Tick, Plays
<1>4. ASSUME (\E w \in Wires : SystemParams(w)) \/ Panel
      PROVE  /\ UNCHANGED held /\ sounding' = sounding
             /\ ~shifted' /\ sounding # {} => ~shifted /\ UNCHANGED settings
  BY <1>4 DEF SystemParams, Panel, Plays, settings
<1>5. ASSUME Poll \/ Skip \/ (\E w \in Wires : Other(w)) \/ (\E w \in Wires : SendFE(w) \/ Unplug(w)) \/ TimePasses \/ UNCHANGED vars
      PROVE  UNCHANGED <<held, sounding, shifted, settings>>
  BY <1>5 DEF Poll, Skip, Other, SendFE, Unplug, TimePasses, vars, history, settings
<1>6. QED
  BY <1>1, <1>2, <1>3, <1>4, <1>5 DEF Next, Receive

\* As long as no setting is changed under a sounding note, what sounds is of a
\* key that is down, for any transposition and any limits of the range.
THEOREM OffsFindTheirNotesHolds == Spec => []OffsFindTheirNotes
<1>1. QED
  BY InitOffs, NextOffs, Inductive, PTL DEF Spec
=============================================================================
