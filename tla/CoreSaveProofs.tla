--------------------------- MODULE CoreSaveProofs ---------------------------
(***************************************************************************)
(* What the main loop's save keeps for every set of settings and every     *)
(* choice of the time constants in which the countdown of the update       *)
(* gesture outlasts the debounce.                                          *)
(***************************************************************************)
EXTENDS CoreSave, TLAPS

\* A save in progress still has its flag.
SavingIsDirty == phase \in {"writing", "written"} => dirty

\* The retry counter has seen every attempt made since the last touch.
AttemptsCounted ==
  /\ attempts <= MaxRetries
  /\ phase = "idle" /\ dirty => attempts <= retries
  /\ phase \in {"writing", "written"} => attempts <= retries + 1

\* In a calm gesture the debounce clock is as old as the gesture, so that an
\* unsaved edit is written before the pass that commits has ended.
CalmIsInTime ==
  /\ drained > 0 => held = Hold + 1
  /\ phase = "idle" /\ gesture = "calm" /\ fate = "owed" =>
       /\ held > 0
       /\ ~sounding
       /\ age > Debounce \/ age >= held - 1
       /\ step = "ui" => drained = 0

IInv ==
  /\ TypeOK
  /\ SavingIsDirty
  /\ NoForgottenEdit
  /\ AttemptsCounted
  /\ CalmIsInTime
-----------------------------------------------------------------------------
\* The loop starts with nothing to save.
LEMMA InitIInv == Init => IInv
<1> SUFFICES ASSUME Init PROVE IInv
  OBVIOUS
<1>1. TypeOK
  <2>1. RegTypeOK
    BY DEF Init, RegInit, RegTypeOK
  <2>2. 0 \in 0 .. MaxRetries - 1 /\ 0 \in 0 .. Debounce + 1 /\ 0 \in 0 .. Hold /\ 0 \in 0 .. Drain
    BY CoreSaveAssumption
  <2>3. QED
    BY <2>1, <2>2, CoreSaveAssumption DEF Init, RegInit, InitLoop, TypeOK
<1>2. SavingIsDirty /\ NoForgottenEdit /\ AttemptsCounted /\ CalmIsInTime
  BY CoreSaveAssumption
  DEF Init, InitLoop, RegInit, SavingIsDirty, NoForgottenEdit, AttemptsCounted, CalmIsInTime
<1>3. QED
  BY <1>1, <1>2 DEF IInv

\* Power comes and goes.
LEMMA PowerIInv == IInv /\ (Boot \/ Cut \/ EnterBootloader) => IInv'
<1> SUFFICES ASSUME IInv, Boot \/ Cut \/ EnterBootloader PROVE IInv'
  OBVIOUS
<1>1. CASE Boot
  <2>1. RegTypeOK' /\ Restored \in Payloads
    BY <1>1, CoreSaveAssumption DEF Boot, PowerOn, IInv, TypeOK, RegTypeOK, Restored
  <2>2. 0 \in 0 .. MaxRetries - 1 /\ 0 \in 0 .. Debounce + 1 /\ 0 \in 0 .. Hold /\ 0 \in 0 .. Drain
    BY CoreSaveAssumption
  <2>3. TypeOK'
    BY <1>1, <2>1, <2>2 DEF Boot, PowerOn, TypeOK
  <2>4. SavingIsDirty' /\ NoForgottenEdit' /\ AttemptsCounted' /\ CalmIsInTime'
    BY <1>1, CoreSaveAssumption
    DEF Boot, PowerOn, SavingIsDirty, NoForgottenEdit, AttemptsCounted, CalmIsInTime
  <2>5. QED
    BY <2>3, <2>4 DEF IInv
<1>2. CASE Cut \/ EnterBootloader
  <2>1. PowerLoss /\ UNCHANGED <<loopVars, history>>
    BY <1>2 DEF Cut, EnterBootloader
  <2>2. RegTypeOK'
    BY <2>1 DEF PowerLoss, IInv, TypeOK, RegTypeOK
  <2>3. phase' = "off"
    BY <2>1 DEF PowerLoss
  <2>4. QED
    BY <2>1, <2>2, <2>3
    DEF loopVars, history, IInv, TypeOK, SavingIsDirty, NoForgottenEdit, AttemptsCounted,
        CalmIsInTime
<1>3. QED
  BY <1>1, <1>2

\* MIDI disturbs the gesture whenever it leaves a note sounding.
LEMMA MidiIInv == IInv /\ Midi => IInv'
<1> SUFFICES ASSUME IInv, Midi PROVE IInv'
  OBVIOUS
<1>1. TypeOK'
  BY DEF Midi, Upset, IInv, TypeOK, RegTypeOK, regVars
<1>2. gesture' = "calm" => gesture = "calm" /\ ~sounding'
  BY DEF Midi, Upset, IInv, TypeOK
<1>3. QED
  BY <1>1, <1>2
  DEF Midi, IInv, SavingIsDirty, NoForgottenEdit, AttemptsCounted, CalmIsInTime, regVars

\* A touch restarts the debounce clock and the attempts; otherwise the clock
\* advances with the gesture.
LEMMA MarkDirtyFacts ==
  ASSUME IInv, NEW d \in Delays, NEW touched \in BOOLEAN, MarkDirty(d, touched)
  PROVE  /\ dirty' \in BOOLEAN /\ age' \in 0 .. Debounce + 1 /\ attempts' \in Nat
         /\ touched => dirty' /\ age' = 0 /\ attempts' = 0
         /\ ~touched => /\ dirty' = dirty
                        /\ attempts' = attempts
                        /\ age' > Debounce \/ age' = age + d
  BY CoreSaveAssumption DEF MarkDirty, Capped, Delays, IInv, TypeOK

\* The UI tick.
LEMMA UiTickIInv ==
  ASSUME IInv, NEW d \in Delays, NEW touched \in BOOLEAN, NEW all \in BOOLEAN,
         UiTick(d, touched, all)
  PROVE  IInv'
<1> DEFINE h == HeldAfter(d, all)
<1>1. /\ h \in Nat /\ held' = h
      /\ all /\ held = 0 => h = 1
      /\ all /\ held > 0 => h = held + d
      /\ ~all => h = 0
  BY DEF UiTick, HeldAfter, Delays, IInv, TypeOK
<1>2. h <= Hold + 1
  BY <1>1, CoreSaveAssumption DEF UiTick, Delays, IInv, TypeOK
<1>3. /\ drained' = IF Commits(h) THEN 1 ELSE 0
      /\ drained' \in 0 .. Drain
      /\ drained' = 0 => h <= Hold
      /\ drained' > 0 => h = Hold + 1
  <2>1. drained = 0 /\ (IF Commits(h) THEN drained' = 1 ELSE drained' = drained)
    BY DEF UiTick
  <2>2. Commits(h) <=> h >= Hold + 1
    BY <1>1, CoreSaveAssumption DEF Commits
  <2>3. QED
    BY <2>1, <2>2, <1>1, <1>2, CoreSaveAssumption
<1>4. MarkDirty(d, touched) /\ EditPanel(touched, h)
  BY DEF UiTick
<1>5. /\ live' \in Payloads
      /\ fate' \in {"owed", "saved", "dropped", "left"}
      /\ ~touched => live' = live
      /\ live' = live => fate' = fate
      /\ fate' # "owed" \/ touched \/ fate = "owed"
  BY <1>4 DEF EditPanel, IInv, TypeOK
<1>6. sounding' \in BOOLEAN /\ (sounding' => sounding)
  BY DEF UiTick, IInv, TypeOK
<1>7. /\ gesture' \in {"none", "calm", "disturbed", "edited"}
      /\ gesture' = "calm" => all
      /\ gesture' = "calm" /\ held = 0 => ~sounding /\ touched
      /\ gesture' = "calm" /\ held # 0 => live' = live /\ ~touched /\ gesture = "calm"
  BY DEF UiTick, Upset, IInv, TypeOK
<1>8. step' = "save" /\ phase = "idle" /\ UNCHANGED <<regVars, retries>> /\ step = "ui"
  BY DEF UiTick
<1>9. TypeOK'
  BY <1>1, <1>2, <1>3, <1>4, <1>5, <1>6, <1>7, <1>8, MarkDirtyFacts
  DEF IInv, TypeOK, RegTypeOK, regVars
<1>10. NoForgottenEdit' /\ SavingIsDirty' /\ AttemptsCounted'
  BY <1>4, <1>5, <1>8, MarkDirtyFacts, CoreSaveAssumption
  DEF IInv, TypeOK, NoForgottenEdit, SavingIsDirty, AttemptsCounted, regVars
<1>11. CalmIsInTime'
  <2>1. SUFFICES ASSUME gesture' = "calm", fate' = "owed"
                 PROVE  held' > 0 /\ ~sounding' /\ (age' > Debounce \/ age' >= held' - 1)
    BY <1>1, <1>3, <1>8 DEF CalmIsInTime
  <2>2. CASE held = 0
    <3>1. all /\ touched /\ ~sounding
      BY <2>1, <2>2, <1>7
    <3>2. held' = 1
      BY <3>1, <2>2, <1>1
    <3>3. age' = 0
      BY <3>1, <1>4, MarkDirtyFacts
    <3>4. ~sounding'
      BY <3>1, <1>6
    <3>5. QED
      BY <3>2, <3>3, <3>4
  <2>3. CASE held # 0
    <3>1. h = held + d /\ held > 0 /\ held \in Nat
      <4>1. all
        BY <2>1, <1>7
      <4>2. held > 0 /\ held \in Nat
        BY <2>3, CoreSaveAssumption DEF IInv, TypeOK
      <4>3. QED
        BY <4>1, <4>2, <1>1
    <3>2. ~sounding /\ (age > Debounce \/ age >= held - 1)
      BY <2>1, <2>3, <1>5, <1>7, <1>8 DEF IInv, CalmIsInTime
    <3>3. age' > Debounce \/ age' = age + d
      BY <2>1, <2>3, <1>4, <1>7, MarkDirtyFacts
    <3>4. d \in Nat /\ age \in Nat /\ Debounce \in Nat
      BY CoreSaveAssumption DEF Delays, IInv, TypeOK
    <3>5. QED
      BY <3>1, <3>2, <3>3, <3>4, <1>1, <1>6
  <2>4. QED
    BY <2>2, <2>3
<1>12. QED
  BY <1>9, <1>10, <1>11 DEF IInv

\* Ticks between the commitment and the bootloader.
LEMMA DrainingIInv ==
  ASSUME IInv, NEW d \in Delays, NEW touched \in BOOLEAN, UiTickDraining(d, touched)
  PROVE  IInv'
<1>1. /\ drained' \in 1 .. Drain /\ MarkDirty(d, touched) /\ phase = "idle"
      /\ UNCHANGED <<regVars, live, sounding, retries, held, fate>> /\ step' = "save"
  BY CoreSaveAssumption DEF UiTickDraining, Delays, IInv, TypeOK
<1>2. /\ gesture' \in {"none", "calm", "disturbed", "edited"}
      /\ gesture' = "calm" => fate # "owed"
  BY DEF UiTickDraining, Upset, IInv, TypeOK, CalmIsInTime
<1>3. TypeOK'
  BY <1>1, <1>2, MarkDirtyFacts DEF UiTickDraining, IInv, TypeOK, RegTypeOK, regVars
<1>4. NoForgottenEdit' /\ SavingIsDirty' /\ AttemptsCounted'
  BY <1>1, MarkDirtyFacts, CoreSaveAssumption
  DEF IInv, TypeOK, NoForgottenEdit, SavingIsDirty, AttemptsCounted, regVars
<1>5. CalmIsInTime'
  BY <1>1, <1>2 DEF UiTickDraining, IInv, CalmIsInTime
<1>6. QED
  BY <1>3, <1>4, <1>5 DEF IInv

\* Nothing is owed when a committed gesture finds no save due.
LEMMA SaveNotDueIInv == IInv /\ SaveNotDue => IInv'
<1> SUFFICES ASSUME IInv, SaveNotDue PROVE IInv'
  OBVIOUS
<1>1. CASE gesture = "calm" /\ fate = "owed"
  <2>1. dirty /\ ~sounding /\ (age > Debounce \/ age >= held - 1) /\ ~SaveDue
    BY <1>1 DEF SaveNotDue, IInv, CalmIsInTime, NoForgottenEdit
  <2>2. drained = 0
    BY <2>1, CoreSaveAssumption DEF SaveDue, IInv, TypeOK, CalmIsInTime
  <2>3. QED
    BY <2>2
    DEF SaveNotDue, IInv, TypeOK, RegTypeOK, SavingIsDirty, NoForgottenEdit, AttemptsCounted,
        CalmIsInTime, regVars, history
<1>2. CASE ~(gesture = "calm" /\ fate = "owed")
  BY <1>2
  DEF SaveNotDue, IInv, TypeOK, RegTypeOK, SavingIsDirty, NoForgottenEdit, AttemptsCounted,
      CalmIsInTime, regVars, history
<1>3. QED
  BY <1>1, <1>2

\* Nothing is owed any more by a loop that has nothing to save.
LEMMA SaveNothingIInv == IInv /\ SaveNothing => IInv'
<1> SUFFICES ASSUME IInv, SaveNothing PROVE IInv'
  OBVIOUS
<1>1. fate' \in {"saved", "dropped", "left"} /\ dirty' = FALSE /\ phase' = "idle"
  BY DEF SaveNothing, IInv, TypeOK, regVars
<1>2. QED
  BY <1>1
  DEF SaveNothing, IInv, TypeOK, RegTypeOK, SavingIsDirty, NoForgottenEdit, AttemptsCounted,
      CalmIsInTime, regVars

\* The write begins and takes effect.
LEMMA WritingIInv == IInv /\ (SaveBegin \/ SaveTakes) => IInv'
<1> SUFFICES ASSUME IInv, SaveBegin \/ SaveTakes PROVE IInv'
  OBVIOUS
<1>1. CASE SaveBegin
  <2>1. /\ phase = "idle" /\ phase' = "writing" /\ step = "save" /\ dirty /\ writing' = live
        /\ attempts' = attempts + 1
        /\ UNCHANGED <<reg, running, loopVars, fate, gesture>>
    BY <1>1 DEF SaveBegin, SaveDue, Begin
  <2>2. TypeOK'
    BY <2>1 DEF loopVars, IInv, TypeOK, RegTypeOK
  <2>3. AttemptsCounted'
    BY <2>1, CoreSaveAssumption DEF loopVars, IInv, TypeOK, AttemptsCounted
  <2>4. SavingIsDirty' /\ NoForgottenEdit' /\ CalmIsInTime'
    BY <2>1 DEF loopVars, IInv, SavingIsDirty, NoForgottenEdit, CalmIsInTime
  <2>5. QED
    BY <2>2, <2>3, <2>4 DEF IInv
<1>2. CASE SaveTakes
  <2>1. RegTypeOK'
    <3>1. Take /\ writing \in Payloads \cup {None} /\ reg \in [Instruments -> Payloads \cup {None}]
      BY <1>2 DEF SaveTakes, IInv, TypeOK, RegTypeOK
    <3>2. reg' \in [Instruments -> Payloads \cup {None}]
      BY <3>1 DEF Take
    <3>3. QED
      BY <3>1, <3>2 DEF Take, IInv, TypeOK, RegTypeOK
  <2>2. QED
    BY <1>2, <2>1
    DEF SaveTakes, Take, loopVars, history, IInv, TypeOK, SavingIsDirty, NoForgottenEdit,
        AttemptsCounted, CalmIsInTime
<1>3. QED
  BY <1>1, <1>2

\* The write returns.
LEMMA ReturnIInv == IInv /\ SaveReturns => IInv'
<1> SUFFICES ASSUME IInv, SaveReturns PROVE IInv'
  OBVIOUS
<1>1. CASE SaveSucceeded
  <2>1. RegTypeOK' /\ 0 \in 0 .. MaxRetries - 1
    BY <1>1, CoreSaveAssumption DEF SaveSucceeded, Acknowledge, IInv, TypeOK, RegTypeOK
  <2>2. TypeOK'
    BY <1>1, <2>1 DEF SaveSucceeded, Acknowledge, IInv, TypeOK
  <2>3. SavingIsDirty' /\ NoForgottenEdit' /\ AttemptsCounted' /\ CalmIsInTime'
    BY <1>1
    DEF SaveSucceeded, Acknowledge, IInv, SavingIsDirty, NoForgottenEdit, AttemptsCounted,
        CalmIsInTime
  <2>4. QED
    BY <2>2, <2>3 DEF IInv
<1>2. CASE SaveFailed
  <2>1. gesture' \in {"none", "disturbed", "edited"}
    BY <1>2 DEF SaveFailed, Upset, IInv, TypeOK
  <2>2. dirty /\ phase = "writing" /\ attempts <= retries + 1
    BY <1>2 DEF SaveFailed, Fail, IInv, SavingIsDirty, AttemptsCounted
  <2>3. RegTypeOK' /\ phase' = "idle"
    BY <1>2 DEF SaveFailed, Fail, IInv, TypeOK, RegTypeOK
  <2>4. retries' \in 0 .. MaxRetries - 1 /\ age' \in 0 .. Debounce + 1
    BY <1>2, CoreSaveAssumption DEF SaveFailed, IInv, TypeOK
  <2>5. TypeOK'
    BY <1>2, <2>1, <2>2, <2>3, <2>4 DEF SaveFailed, IInv, TypeOK
  <2>6. NoForgottenEdit' /\ SavingIsDirty' /\ CalmIsInTime'
    BY <1>2, <2>1, <2>2, <2>3 DEF SaveFailed, IInv, NoForgottenEdit, SavingIsDirty, CalmIsInTime
  <2>7. AttemptsCounted'
    BY <1>2, <2>2, <2>3, CoreSaveAssumption DEF SaveFailed, IInv, TypeOK, AttemptsCounted
  <2>8. QED
    BY <2>5, <2>6, <2>7 DEF IInv
<1>3. QED
  BY <1>1, <1>2 DEF SaveReturns

\* The inductive invariant of the main loop's save.
THEOREM Inductive == Spec => []IInv
<1>1. IInv /\ [Next]_vars => IInv'
  <2> SUFFICES ASSUME IInv, [Next]_vars PROVE IInv'
    OBVIOUS
  <2>1. CASE Panel
    BY <2>1, UiTickIInv, DrainingIInv DEF Panel
  <2>2. CASE UNCHANGED vars
    BY <2>2
    DEF vars, regVars, loopVars, history, IInv, TypeOK, RegTypeOK, SavingIsDirty,
        NoForgottenEdit, AttemptsCounted, CalmIsInTime
  <2>3. QED
    BY <2>1, <2>2, PowerIInv, MidiIInv, SaveNotDueIInv, SaveNothingIInv,
       WritingIInv, ReturnIInv DEF Next
<1>2. QED
  BY <1>1, InitIInv, PTL DEF Spec

\* Every variable of the loop keeps its type.
THEOREM TypeCorrect == Spec => []TypeOK
<1>1. IInv => TypeOK
  BY DEF IInv
<1>2. QED
  BY <1>1, Inductive, PTL

\* An edit that is neither saved nor given up is still going to be saved.
THEOREM NoForgottenEditHolds == Spec => []NoForgottenEdit
<1>1. IInv => NoForgottenEdit
  BY DEF IInv
<1>2. QED
  BY <1>1, Inductive, PTL

\* Between two touches flash is written at most MaxRetries times.
THEOREM BoundedHammeringHolds == Spec => []BoundedHammering
<1>1. IInv => BoundedHammering
  BY DEF IInv, AttemptsCounted, BoundedHammering
<1>2. QED
  BY <1>1, Inductive, PTL

\* An undisturbed update gesture leaves no edit behind.
THEOREM CalmUpdateKeepsEditsHolds == Spec => CalmUpdateKeepsEdits
<1>1. IInv => (EnterBootloader /\ gesture = "calm" => fate # "owed")
  BY CoreSaveAssumption DEF IInv, EnterBootloader, CalmIsInTime
<1>2. IInv => [EnterBootloader /\ gesture = "calm" => fate # "owed"]_vars
  BY <1>1
<1>3. QED
  BY <1>2, Inductive, PTL DEF CalmUpdateKeepsEdits
=============================================================================
