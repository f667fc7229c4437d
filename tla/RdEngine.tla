------------------------------ MODULE RdEngine ------------------------------
(***************************************************************************)
(* PicoFaceRD from the MIDI event to the sounding voice: the receive       *)
(* channel and the command ring (rd_ipc_local.h) that RD_Midi.cpp fills    *)
(* and render() empties, the bridge with its pedal and its voice governor  *)
(* (RD_Synth_Bridge_v2), the voices (rd_new_engine.cpp), and the two cores *)
(* that render them, core 0 the even ones and core 1 the odd ones, once    *)
(* per block.                                                              *)
(*                                                                         *)
(* Notes are those of the packs: keys beyond their range are folded into   *)
(* it before the ring, so that one note may have several keys.             *)
(***************************************************************************)
EXTENDS Integers, Sequences, FiniteSets

CONSTANTS
  Notes,
  Pedal,        \* the damper pedal, let down and up like a key
  Channels,     \* the channels somebody plays on
  Settings,     \* what MidiCh can be set to, each as the channels it hears
  Voices,       \* kVoices
  RingSize,     \* slots of the command ring; one stays empty
  MaxStranded,  \* Bound: so many releases are lost to the engine at a time
  Instruments,
  Base,         \* autoBaseLimit() of each instrument
  Floor,        \* kAutoFloor
  Cut,          \* what an overload takes off the limit
  Fixed,        \* s_voiceModeTable
  AutoMode,     \* kVoiceModeAuto
  None

Slots == 0 .. Voices - 1

ASSUME EngineAssumption ==
  /\ Voices \in Nat \ {0} /\ RingSize \in Nat \ {0, 1}
  /\ Floor \in 1 .. Voices /\ Cut \in Nat \ {0} /\ Fixed \subseteq 1 .. Voices
  /\ Base \in [Instruments -> Floor .. Voices]
  /\ Pedal \notin Notes /\ Settings # {} /\ Settings \subseteq SUBSET Channels
  /\ None \notin Notes /\ None \notin {1} \X {"render", "publish"}
  /\ AutoMode \notin Fixed /\ IsFiniteSet(Notes)

VARIABLES
  rx,          \* rxChannel_: the channels that are heard
  held,        \* the keys and pedals that are down, of those the ring was told of
  stranded,    \* history: the notes, and the pedal, whose release was filtered or dropped
  ring,        \* the command ring
  pedal,       \* pedal_
  deferred,    \* deferredOff_
  instrument,  \* instrument_
  mode,        \* voiceMode_: AutoMode or the fixed number of voices
  auto,        \* autoLimit_
  effective,   \* effectiveLimit_
  voice,       \* _voices; one whose note is None is not active
  limit,       \* voice_limit_
  at,          \* where core 0 is
  asked,       \* s_rdn_req - s_rdn_done
  worker,      \* worker_poll(): the request it has read, less s_rdn_done, and what
               \* is next, or None
  rendered     \* history: how core 1 has rendered for the last request

inputVars == <<rx, held, stranded, ring>>
bridgeVars == <<pedal, deferred, instrument, mode, auto, effective>>
doorVars == <<asked, worker, rendered>>
vars == <<inputVars, bridgeVars, voice, limit, at, doorVars>>

-----------------------------------------------------------------------------
(* The voices.  Ages are ranks: 0 was struck in this block, and an active  *)
(* voice that was struck before another has a greater age.                 *)

Sounding(vs) == {s \in Slots : vs[s].note # None}
Lasting(vs) == {s \in Sounding(vs) : ~vs[s].killing}

\* The order in which cullToLimit() takes voices: releasing ones first, then
\* by age; of two struck in one block the later slot.
Sooner(vs, s, t) ==
  IF vs[s].released # vs[t].released THEN vs[s].released
  ELSE vs[s].age > vs[t].age \/ (vs[s].age = vs[t].age /\ s > t)

\* cullToLimit()
Culled(vs, n) ==
  LET surplus == Cardinality(Lasting(vs)) - n
      victims == {s \in Lasting(vs) :
                    Cardinality({t \in Lasting(vs) : Sooner(vs, t, s)}) < surplus}
  IN [s \in Slots |-> IF s \in victims THEN [vs[s] EXCEPT !.killing = TRUE] ELSE vs[s]]

\* allocVoice(): a free slot below the limit; at the limit the oldest
\* releasing voice or the oldest of all, one that is being faded out included.
Allocated(vs) ==
  LET free == Slots \ Sounding(vs)
      releasing == {s \in Sounding(vs) : vs[s].released}
      from == IF releasing # {} THEN releasing ELSE Sounding(vs)
  IN IF Cardinality(Sounding(vs)) < limit
     THEN CHOOSE s \in free : \A t \in free : s <= t
     ELSE CHOOSE s \in from :
            \A t \in from : vs[s].age > vs[t].age \/ (vs[s].age = vs[t].age /\ s <= t)

\* releaseVoice() for all voices of these notes.
Released(vs, notes) ==
  [s \in Slots |-> IF vs[s].note \in notes THEN [vs[s] EXCEPT !.released = TRUE] ELSE vs[s]]

Fresh(note) == [note |-> note, released |-> FALSE, killing |-> FALSE, age |-> 0]

\* Mutant: a voice struck over one that was to be faded out is one too many.
StruckUnculled(vs, note) ==
  LET rel == Released(vs, {note}) IN [rel EXCEPT ![Allocated(rel)] = Fresh(note)]

\* RdNewEngine::noteOn()
Struck(vs, note) ==
  LET rel == Released(vs, {note})
      s == Allocated(rel)
      new == [rel EXCEPT ![s] = Fresh(note)]
  IN IF rel[s].killing THEN Culled(new, limit) ELSE new

\* loadPack() switches the voices off as they are.
Unloaded(vs) == [s \in Slots |-> [vs[s] EXCEPT !.note = None, !.released = FALSE, !.age = 0]]

\* The clock has moved on by a block.
Aged(vs) ==
  [s \in Slots |->
     IF vs[s].note = None THEN vs[s]
     ELSE [vs[s] EXCEPT
       !.age = 1 + Cardinality({vs[t].age : t \in {u \in Sounding(vs) : vs[u].age < vs[s].age}})]]

-----------------------------------------------------------------------------
(* The governor.                                                           *)

Clamped(n, i) == IF n < Floor THEN Floor ELSE IF n > Base[i] THEN Base[i] ELSE n

\* applyVoiceMode(), with the limit, the instrument and the voices it finds;
\* "again" where setVoiceLimit() is called whatever has been before.
ApplyMode(m, a, i, vs, again) ==
  LET kept == IF m = AutoMode THEN Clamped(a, i) ELSE a
      n == IF m = AutoMode THEN kept ELSE m
      pushed == n # effective \/ again
  IN /\ mode' = m /\ auto' = kept /\ effective' = n
     /\ limit' = IF pushed THEN n ELSE limit
     /\ voice' = IF pushed THEN Culled(vs, n) ELSE vs

Lowered == IF auto >= Floor + Cut THEN auto - Cut ELSE Floor

\* governorTick(): an overload, a load that is neither high nor low, and a
\* low one at the end of the hold of 700 ms.
Govern(vs) ==
  \/ mode = AutoMode /\ ApplyMode(mode, Lowered, instrument, vs, TRUE)
  \/ voice' = vs /\ UNCHANGED <<mode, auto, effective, limit>>
  \/ /\ mode = AutoMode /\ auto < Base[instrument]
     /\ ApplyMode(mode, auto + 1, instrument, vs, FALSE)

-----------------------------------------------------------------------------
(* Events, between two calls of render(): RD_Midi.cpp and the panel.       *)

Packets ==
  [type : {"on", "off"}, note : Notes] \cup [type : {"pedal"}, down : BOOLEAN]
    \cup [type : {"allOff"}] \cup [type : {"instrument"}, id : Instruments]
    \cup [type : {"mode"}, mode : Fixed \cup {AutoMode}]

Event == at = "loop" /\ UNCHANGED <<bridgeVars, voice, limit, at, doorVars>>

\* rd_ipc_push() into a ring that is not full.
Push(p) == Len(ring) < RingSize - 1 /\ ring' = Append(ring, p)

\* What is filtered or dropped on the way down leaves no trace.
Press(key, ch, p) ==
  /\ Event /\ ch \in rx /\ Push(p)
  /\ held' = held \cup {<<key, ch>>} /\ stranded' = stranded \ {key}
  /\ UNCHANGED rx

\* The engine knows a note only, not on how many channels it is held.  The
\* release of what is not down does nothing unless it gets through.
Release(key, ch, p) ==
  /\ Event /\ UNCHANGED rx
  /\ \/ /\ ch \in rx /\ Push(p)
        /\ held' = {k \in held : k[1] # key} /\ stranded' = stranded \ {key}
     \/ /\ ch \notin rx \/ Len(ring) = RingSize - 1   \* channelMatches(), a full ring
        /\ <<key, ch>> \in held /\ held' = held \ {<<key, ch>>}
        /\ stranded' = stranded \cup {key} /\ Cardinality(stranded') <= MaxStranded
        /\ UNCHANGED ring

KeyDown(n, ch) == Press(n, ch, [type |-> "on", note |-> n])

KeyUp(n, ch) == Release(n, ch, [type |-> "off", note |-> n])

\* The pedal, and with FALSE also reset all controllers.
Foot(d, ch) ==
  LET p == [type |-> "pedal", down |-> d] IN
    IF d THEN Press(Pedal, ch, p) ELSE Release(Pedal, ch, p)

\* All notes off; what is still down counts no more.
AllOff(ch) ==
  /\ Event /\ ch \in rx /\ Push([type |-> "allOff"])
  /\ held' = {} /\ stranded' = {} /\ UNCHANGED rx

\* Patches and the voice mode, from the panel or by MIDI.
Panel ==
  /\ Event /\ UNCHANGED <<rx, held, stranded>>
  /\ \/ \E i \in Instruments : Push([type |-> "instrument", id |-> i])
     \/ \E m \in Fixed \cup {AutoMode} : Push([type |-> "mode", mode |-> m])

\* MidiCh on the SYS page.  Nothing is let go.
PanelChannel ==
  /\ Event /\ rx' \in Settings \ {rx}
  /\ UNCHANGED <<held, stranded, ring>>

\* voiceGovernorEmergency(), from onAudioUnderrun()
Underrun ==
  /\ at = "loop" /\ mode = AutoMode
  /\ ApplyMode(mode, Floor, instrument, voice, TRUE)
  /\ UNCHANGED <<inputVars, pedal, deferred, instrument, at, doorVars>>

-----------------------------------------------------------------------------
(* render(): the ring first, one command after the other (applyIpc()).     *)

NoteOn(n) ==
  /\ voice' = Struck(voice, n) /\ deferred' = deferred \ {n}
  /\ UNCHANGED <<pedal, instrument, mode, auto, effective, limit>>

NoteOff(n) ==
  /\ IF pedal
     THEN deferred' = deferred \cup {n} /\ UNCHANGED voice
     ELSE voice' = Released(voice, {n}) /\ UNCHANGED deferred
  /\ UNCHANGED <<pedal, instrument, mode, auto, effective, limit>>

\* Mutant: the notes let go under the pedal are forgotten when it comes up.
SustainForgets(down) ==
  /\ pedal' = down
  /\ deferred' = IF down THEN deferred ELSE {}
  /\ UNCHANGED <<voice, instrument, mode, auto, effective, limit>>

Sustain(down) ==
  /\ pedal' = down
  /\ IF down THEN UNCHANGED <<voice, deferred>>
     ELSE voice' = Released(voice, deferred) /\ deferred' = {}
  /\ UNCHANGED <<instrument, mode, auto, effective, limit>>

AllNotesOff ==
  /\ pedal' = FALSE /\ deferred' = {} /\ voice' = Released(voice, Notes)
  /\ UNCHANGED <<instrument, mode, auto, effective, limit>>

SetInstrument(i) ==
  /\ IF i = instrument THEN UNCHANGED <<voice, instrument, mode, auto, effective, limit>>
     ELSE /\ instrument' = i
          /\ ApplyMode(mode, IF mode = AutoMode THEN Base[i] ELSE auto, i, Unloaded(voice), FALSE)
  /\ UNCHANGED <<pedal, deferred>>

SetVoiceMode(m) ==
  /\ IF m = mode THEN UNCHANGED <<voice, mode, auto, effective, limit>>
     ELSE ApplyMode(m, IF m = AutoMode THEN Base[instrument] ELSE auto, instrument, voice, FALSE)
  /\ UNCHANGED <<pedal, deferred, instrument>>

Apply(p) ==
  \/ p.type = "on" /\ NoteOn(p.note)
  \/ p.type = "off" /\ NoteOff(p.note)
  \/ p.type = "pedal" /\ Sustain(p.down)
  \/ p.type = "allOff" /\ AllNotesOff
  \/ p.type = "instrument" /\ SetInstrument(p.id)
  \/ p.type = "mode" /\ SetVoiceMode(p.mode)

Pop ==
  /\ at \in {"loop", "drain"} /\ at' = "drain" /\ ring # <<>>
  /\ Apply(Head(ring)) /\ ring' = Tail(ring)
  /\ UNCHANGED <<rx, held, stranded, doorVars>>

-----------------------------------------------------------------------------
(* One block: renderBlock() on core 0, worker_poll() on core 1.            *)

Even == {s \in Slots : s % 2 = 0}
Odd == Slots \ Even

\* Mutant: a voice that has been faded out keeps its slot.
RenderedKept(slots, ended) ==
  [s \in Slots |->
     IF s \in slots \cap ended /\ ~voice[s].killing THEN Fresh(None) ELSE voice[s]]

\* renderVoicesBlock() over these slots: the voices to be faded out are free
\* afterwards, and some of the others have come to their end.
Rendered(slots, ended) ==
  [s \in Slots |->
     IF s \in slots \cap Sounding(voice) /\ (voice[s].killing \/ s \in ended)
     THEN Fresh(None) ELSE voice[s]]

Doorbell ==
  /\ at \in {"loop", "drain"} /\ ring = <<>> /\ at' = "even"
  /\ asked' = asked + 1 /\ rendered' = "not"
  /\ UNCHANGED <<inputVars, bridgeVars, voice, limit, worker>>

RenderEven(ended) ==
  /\ at = "even" /\ at' = "wait"
  /\ voice' = Rendered(Even, ended)
  /\ UNCHANGED <<inputVars, bridgeVars, limit, doorVars>>

\* Mutant: core 0 does not wait.
FinishEarly ==
  /\ at = "wait" /\ at' = "loop"
  /\ Govern(Aged(voice))
  /\ UNCHANGED <<inputVars, pedal, deferred, instrument, doorVars>>

\* Core 1 has answered: its buffer is added, and the governor looks at the load.
Finish ==
  /\ at = "wait" /\ asked = 0 /\ at' = "loop"
  /\ Govern(Aged(voice))
  /\ UNCHANGED <<inputVars, pedal, deferred, instrument, doorVars>>

\* Mutant: the answer is given before the voices have been rendered.
AnswerFirst ==
  /\ worker = None /\ asked # 0
  /\ worker' = <<0, "render">> /\ asked' = 0
  /\ UNCHANGED <<inputVars, bridgeVars, voice, limit, at, rendered>>

\* worker_poll(): the doorbell has rung.
Answer ==
  /\ worker = None /\ asked # 0
  /\ worker' = <<asked, "render">>
  /\ UNCHANGED <<inputVars, bridgeVars, voice, limit, at, asked, rendered>>

RenderOdd(ended) ==
  /\ worker # None /\ worker[2] = "render" /\ worker' = [worker EXCEPT ![2] = "publish"]
  /\ voice' = Rendered(Odd, ended)
  /\ rendered' = IF rendered = "not" /\ worker[1] = asked THEN "once" ELSE "wrong"
  /\ UNCHANGED <<inputVars, bridgeVars, limit, at, asked>>

Publish ==
  /\ worker # None /\ worker[2] = "publish" /\ worker' = None
  /\ asked' = asked - worker[1]
  /\ UNCHANGED <<inputVars, bridgeVars, voice, limit, at, rendered>>

-----------------------------------------------------------------------------
Init ==
  /\ rx \in Settings /\ held = {} /\ stranded = {} /\ ring = <<>>
  /\ pedal = FALSE /\ deferred = {} /\ instrument \in Instruments /\ mode = AutoMode
  /\ auto = Base[instrument] /\ effective = auto /\ limit = auto
  /\ voice = [s \in Slots |-> Fresh(None)]
  /\ at = "loop" /\ asked = 0 /\ worker = None /\ rendered = "not"

Play ==
  \/ \E ch \in Channels :
       \/ \E n \in Notes : KeyDown(n, ch) \/ KeyUp(n, ch)
       \/ \E d \in BOOLEAN : Foot(d, ch)
       \/ AllOff(ch)
  \/ Panel \/ PanelChannel

Core0 ==
  \/ Pop \/ Doorbell
  \/ \E ended \in SUBSET Even : RenderEven(ended)
  \/ Finish

Core1 == Answer \/ (\E ended \in SUBSET Odd : RenderOdd(ended)) \/ Publish

Next == Play \/ Underrun \/ Core0 \/ Core1

Spec == Init /\ [][Next]_vars

(***************************************************************************)
(* The main loop calls render() when a buffer is free, and one core or the *)
(* other gets on.                                                          *)
(* A note that has been let go ends: its release chain does, and so does   *)
(* the forced decay behind it (renderVoice()).                             *)
(***************************************************************************)
Fairness ==
  /\ WF_vars(Core0 \/ Core1)
  /\ SF_vars(RenderEven({s \in Even : voice[s].released}))
  /\ SF_vars(RenderOdd({s \in Odd : voice[s].released}))

LiveSpec == Spec /\ Fairness

-----------------------------------------------------------------------------
\* Every variable has its type; a slot of the ring stays empty.
TypeOK ==
  /\ rx \in Settings /\ stranded \subseteq Notes \cup {Pedal}
  /\ held \subseteq (Notes \cup {Pedal}) \X Channels
  /\ ring \in Seq(Packets) /\ Len(ring) < RingSize
  /\ pedal \in BOOLEAN /\ deferred \subseteq Notes
  /\ instrument \in Instruments /\ mode \in Fixed \cup {AutoMode}
  /\ auto \in 1 .. Voices /\ effective \in 1 .. Voices /\ limit \in 1 .. Voices
  /\ voice \in [Slots -> [note : Notes \cup {None}, released : BOOLEAN,
                          killing : BOOLEAN, age : 0 .. Voices]]
  /\ at \in {"loop", "drain", "even", "wait"}
  /\ asked \in {0, 1} /\ worker \in ({1} \X {"render", "publish"}) \cup {None}
  /\ rendered \in {"not", "once", "wrong"}

(***************************************************************************)
(* Through strikes, stolen slots, fades, program changes, overloads and    *)
(* underruns, no more voices than the governor's limit go on sounding, and *)
(* bridge and engine agree on what the limit is ("stolen slots may         *)
(* resurrect condemned voices", RD_Synth_Bridge_v2.cpp).                   *)
(***************************************************************************)
WithinLimit ==
  /\ Cardinality(Lasting(voice)) <= limit
  /\ limit = effective
  /\ mode = AutoMode => auto = limit /\ auto \in Floor .. Base[instrument]

\* Down, or let go without the engine being told.
Open == stranded \cup {key[1] : key \in held}

(***************************************************************************)
(* "A full ring silently dropping a note-off is the classic stuck-note     *)
(* bug" (rd_ipc_local.h); a change of the receive channel keeps one away,  *)
(* too.  Once the ring has been emptied, a voice that has not been         *)
(* released belongs to a note that is down, to one let go under the pedal, *)
(* or to one whose release was dropped or filtered; the next strike, the   *)
(* next release and all notes off that get through settle that.            *)
(***************************************************************************)
NoHangingNote ==
  ring = <<>> =>
    /\ pedal => Pedal \in Open
    /\ \A s \in Sounding(voice) :
         voice[s].released \/ voice[s].note \in Open \/ (pedal /\ voice[s].note \in deferred)

(***************************************************************************)
(* Core 1 is at the voices only while core 0 is in renderBlock(): no note, *)
(* cull or program change meets a voice that is being rendered.            *)
(***************************************************************************)
CoresApart == worker # None => at \in {"even", "wait"}

(***************************************************************************)
(* "ONE rendezvous per block" (rd_new_engine.cpp): when core 0 adds the    *)
(* worker's buffer, it was filled for this block and no other.             *)
(***************************************************************************)
BlockIsWhole == [][at = "wait" /\ at' # at => rendered = "once"]_vars

(***************************************************************************)
(* When keys and pedal have been let go for good, the engine was told so   *)
(* and gets no more commands, all voices fall silent, so that the settings *)
(* are saved in the end, which they are not while a voice sounds           *)
(* (settingsSaveAllowed()).                                                *)
(***************************************************************************)
SilenceComes ==
  <>[](Open = {}) /\ <>[][Len(ring') <= Len(ring)]_vars => <>[](Sounding(voice) = {})

(***************************************************************************)
(* The same of all that the players let go, heard or not.                  *)
(* It does not hold: README, Observed.                                     *)
(***************************************************************************)
LetGoIsSilent ==
  <>[](held = {}) /\ <>[][Len(ring') <= Len(ring)]_vars => <>[](Sounding(voice) = {})
=============================================================================
