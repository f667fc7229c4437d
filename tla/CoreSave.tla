------------------------------ MODULE CoreSave ------------------------------
(***************************************************************************)
(* The main loop's debounced settings save and the three-button gesture    *)
(* that leaves for the bootloader (core/src/picoface_main.cpp), running on *)
(* the durable register that Veeprom implements.                           *)
(*                                                                         *)
(* One pass of the loop: MIDI arrives, the UI tick reads the panel, then   *)
(* the save is considered; a save blocks the loop until it returns.  Time  *)
(* advances with the UI ticks and is counted in ticks.                     *)
(*                                                                         *)
(* Left abstract: what an edit does (live becomes any other payload), the  *)
(* drawing, and long presses, which follow a press that already counted.   *)
(***************************************************************************)
EXTENDS SettingsRegister, Naturals

CONSTANTS
  Sized,       \* the instruments with a settingsSize() that fits a record; the
               \* others write their own, see Autosave
  Default,     \* the settings an instrument starts with when flash has none
  Debounce,    \* ticks without a touch after which the save may run (2000 ms)
  Arm,         \* ticks of the gesture until the core takes the screen (500 ms)
  Hold,        \* ticks of the gesture until it is committed (2500 ms)
  Drain,       \* ticks from there to the bootloader (150 ms)
  MaxRetries   \* failed writes in a row after which the save gives up (3)

ASSUME CoreSaveAssumption ==
  /\ Sized \subseteq Instruments /\ Default \in Payloads
  /\ Debounce \in Nat /\ Arm \in Nat /\ Hold \in Nat
  /\ Drain \in Nat \ {0} /\ MaxRetries \in Nat \ {0}
  /\ Debounce < Hold

VARIABLES
  step,       \* where the pass stands: "ui" or "save"
  live,       \* the instrument's current settings
  sounding,   \* notes are sounding: settingsSaveAllowed() is false
  dirty,      \* settings_dirty
  age,        \* ticks since last_edit_ms, counted up to Debounce + 1
  retries,    \* save_retries
  held,       \* 0: g_fwHoldSince = 0; n + 1: all three buttons down for n ticks
  drained,    \* 0: g_fwCommitted = 0; n + 1: committed n ticks ago
  fate,       \* history: the last panel edit is "owed", "saved", "dropped" or
              \* "left" to the instrument
  attempts,   \* history: writes begun since the panel was last touched
  gesture     \* history: "calm", "disturbed" or "edited" since it began

loopVars == <<step, live, sounding, dirty, age, retries, held, drained>>
history == <<fate, attempts, gesture>>
vars == <<regVars, loopVars, history>>

Restored == IF reg[running] = None THEN Default ELSE reg[running]
Upset(disturbance) == IF disturbance /\ gesture = "calm" THEN "disturbed" ELSE gesture
Capped(n, top) == IF n > top THEN top ELSE n
-----------------------------------------------------------------------------
InitLoop ==
  /\ step = "ui" /\ live = Default /\ sounding = FALSE
  /\ dirty = FALSE /\ age = 0 /\ retries = 0
  /\ held = 0 /\ drained = 0
  /\ fate = "saved" /\ attempts = 0 /\ gesture = "none"

Init == RegInit /\ InitLoop

\* Boot: every static starts over and settingsLoad() restores the record.
Boot ==
  /\ PowerOn(running)
  /\ step' = "ui" /\ live' = Restored /\ sounding' = FALSE
  /\ dirty' = FALSE /\ age' = 0 /\ retries' = 0
  /\ held' = 0 /\ drained' = 0
  /\ fate' = "saved" /\ attempts' = 0 /\ gesture' = "none"

Cut == PowerLoss /\ UNCHANGED <<loopVars, history>>

\* Section 3 of the loop: notes start and end, and settings change without
\* being marked dirty.
Midi ==
  /\ phase = "idle" /\ step = "ui"
  /\ live' \in Payloads
  /\ sounding' \in BOOLEAN
  /\ gesture' = Upset(sounding')
  /\ UNCHANGED <<regVars, step, dirty, age, retries, held, drained, fate, attempts>>

-----------------------------------------------------------------------------
(* Section 4, the UI tick: d ticks after the last one, "touched" is an     *)
(* encoder detent or a button going down, "all" the three-button gesture.  *)

HeldAfter(d, all) ==
  IF ~all THEN 0
  ELSE IF held = 0 THEN 1
  ELSE held + d

\* pf_firmware_update returns true: the instrument's uiTick is not called.
CoreOwnsScreen(h) == h > 1 /\ h - 1 >= Arm

\* Mutant: the gesture commits as soon as the core has taken the screen.
CommitsAtOnce(h) == h > 1 /\ h - 1 >= Arm

Commits(h) == h > 1 /\ h - 1 >= Hold

MarkDirty(d, touched) ==
  /\ dirty' = (dirty \/ touched)
  /\ age' = IF touched THEN 0 ELSE Capped(age + d, Debounce + 1)
  /\ attempts' = IF touched THEN 0 ELSE attempts

EditPanel(touched, h) ==
  \/ ~touched /\ UNCHANGED <<live, fate>>
  \/ touched /\ CoreOwnsScreen(h) /\ UNCHANGED <<live, fate>>
  \/ touched /\ ~CoreOwnsScreen(h)
     /\ live' \in Payloads
     /\ fate' = IF live' # live THEN "owed" ELSE fate

UiTick(d, touched, all) ==
  /\ phase = "idle" /\ step = "ui" /\ drained = 0
  /\ (all /\ held = 0) => touched    \* the third button has just gone down
  /\ LET h == HeldAfter(d, all) IN
       /\ held' = h
       /\ EditPanel(touched, h)
       /\ IF Commits(h)
          THEN drained' = 1 /\ sounding' \in {sounding, FALSE}    \* all sound off
          ELSE UNCHANGED <<drained, sounding>>
  /\ MarkDirty(d, touched)
  /\ gesture' = IF ~all THEN "none"
                ELSE IF held = 0 THEN (IF sounding THEN "disturbed" ELSE "calm")
                ELSE IF live' # live THEN "edited"
                ELSE Upset(touched)
  /\ step' = "save"
  /\ UNCHANGED <<regVars, retries>>

\* Committed: the panel is still read, but nothing reaches the instrument.
UiTickDraining(d, touched) ==
  /\ phase = "idle" /\ step = "ui" /\ drained > 0
  /\ drained + d - 1 < Drain
  /\ drained' = drained + d
  /\ MarkDirty(d, touched)
  /\ gesture' = Upset(touched)
  /\ step' = "save"
  /\ UNCHANGED <<regVars, live, sounding, retries, held, fate>>

\* reset_usb_boot: for the settings the same as a power cut between two saves.
EnterBootloader ==
  /\ phase = "idle" /\ step = "ui" /\ drained > 0
  /\ drained >= Drain
  /\ PowerLoss
  /\ UNCHANGED <<loopVars, history>>

-----------------------------------------------------------------------------
(* Section 5, the save.                                                    *)

\* Mutant: the save is due only at the moment the debounce time is up.
SaveDueExactly == dirty /\ age = Debounce /\ ~sounding

SaveDue == dirty /\ age > Debounce /\ ~sounding

SaveNotDue ==
  /\ phase = "idle" /\ step = "save"
  /\ ~SaveDue
  /\ step' = "ui"
  /\ UNCHANGED <<regVars, live, sounding, dirty, age, retries, held, drained, history>>

\* Nothing to save, or too much for a record.
SaveNothing ==
  /\ phase = "idle" /\ step = "save"
  /\ SaveDue /\ running \notin Sized
  /\ dirty' = FALSE /\ step' = "ui"
  /\ fate' = IF fate = "owed" THEN "left" ELSE fate
  /\ UNCHANGED <<regVars, live, sounding, age, retries, held, drained, attempts, gesture>>

SaveBegin ==
  /\ step = "save"
  /\ SaveDue /\ running \in Sized
  /\ Begin(live)
  /\ attempts' = attempts + 1
  /\ UNCHANGED <<loopVars, fate, gesture>>

SaveTakes == Take /\ UNCHANGED <<loopVars, history>>

SaveSucceeded ==
  /\ Acknowledge
  /\ dirty' = FALSE /\ retries' = 0 /\ fate' = "saved"
  /\ step' = "ui"
  /\ UNCHANGED <<live, sounding, age, held, drained, attempts, gesture>>

\* Mutant: a failed write clears the flag.
SaveFailedDropsEdit ==
  /\ Fail
  /\ dirty' = FALSE /\ retries' = retries
  /\ step' = "ui" /\ gesture' = Upset(TRUE)
  /\ UNCHANGED <<live, sounding, age, held, drained, fate, attempts>>

\* Mutant: failed writes are not counted.
SaveFailedNeverGivesUp ==
  /\ Fail
  /\ age' = 0 /\ dirty' = dirty /\ retries' = retries
  /\ step' = "ui" /\ gesture' = Upset(TRUE)
  /\ UNCHANGED <<live, sounding, held, drained, fate, attempts>>

\* Mutant: one attempt too many.
SaveFailedOffByOne ==
  /\ Fail
  /\ IF retries + 1 > MaxRetries
     THEN /\ dirty' = FALSE /\ retries' = 0 /\ age' = age
          /\ fate' = IF fate = "owed" THEN "dropped" ELSE fate
     ELSE /\ dirty' = dirty /\ retries' = retries + 1 /\ age' = 0
          /\ fate' = fate
  /\ step' = "ui" /\ gesture' = Upset(TRUE)
  /\ UNCHANGED <<live, sounding, held, drained, attempts>>

SaveFailed ==
  /\ Fail
  /\ IF retries + 1 >= MaxRetries
     THEN /\ dirty' = FALSE /\ retries' = 0 /\ age' = age
          /\ fate' = IF fate = "owed" THEN "dropped" ELSE fate
     ELSE /\ dirty' = dirty /\ retries' = retries + 1 /\ age' = 0
          /\ fate' = fate
  /\ step' = "ui" /\ gesture' = Upset(TRUE)
  /\ UNCHANGED <<live, sounding, held, drained, attempts>>

SaveReturns == SaveSucceeded \/ SaveFailed

-----------------------------------------------------------------------------
\* A tick is at most one unit of time after the last one.
Delays == {0, 1}

Panel ==
  \E d \in Delays, touched \in BOOLEAN :
    \/ \E all \in BOOLEAN : UiTick(d, touched, all)
    \/ UiTickDraining(d, touched)

Next ==
  \/ Boot \/ Cut
  \/ Midi \/ Panel \/ EnterBootloader
  \/ SaveNotDue \/ SaveNothing \/ SaveBegin \/ SaveTakes \/ SaveReturns

Touch ==
  \E d \in Delays :
    \/ \E all \in BOOLEAN : UiTick(d, TRUE, all)
    \/ UiTickDraining(d, TRUE)

TimePasses ==
  \/ \E touched, all \in BOOLEAN : UiTick(1, touched, all)
  \/ \E touched \in BOOLEAN : UiTickDraining(1, touched)
  \/ EnterBootloader

\* The loop never blocks for good, and the millisecond clock advances.
Fairness ==
  /\ WF_vars(SaveNotDue) /\ WF_vars(SaveNothing) /\ WF_vars(SaveBegin) /\ WF_vars(SaveReturns)
  /\ SF_vars(TimePasses)

Spec == Init /\ [][Next]_vars /\ Fairness
-----------------------------------------------------------------------------
\* Every variable has its type; a save runs only in the save step of a pass,
\* and the retry counter never rests at its limit.
TypeOK ==
  /\ RegTypeOK
  /\ step \in {"ui", "save"}
  /\ phase \in {"writing", "written"} => step = "save"
  /\ live \in Payloads
  /\ sounding \in BOOLEAN /\ dirty \in BOOLEAN
  /\ gesture \in {"none", "calm", "disturbed", "edited"}
  /\ age \in 0 .. Debounce + 1
  /\ retries \in 0 .. MaxRetries - 1
  /\ held \in 0 .. IF drained = 0 THEN Hold ELSE Hold + 1
  /\ drained \in 0 .. Drain
  /\ fate \in {"owed", "saved", "dropped", "left"}
  /\ attempts \in Nat

-----------------------------------------------------------------------------
(***************************************************************************)
(* "A failed write must not drop the edit": as long as a panel edit is     *)
(* neither in flash nor given up after the last retry nor left to an       *)
(* instrument that saves itself, the loop still means to save it, whatever *)
(* touches, failures and notes come in between.                            *)
(***************************************************************************)
NoForgottenEdit == phase # "off" /\ fate = "owed" => dirty

(***************************************************************************)
(* "Giving up after three attempts avoids hammering bad flash": between    *)
(* two touches of the panel flash is written at most three times.  The     *)
(* counter survives a touch, so what could go wrong is its bookkeeping     *)
(* over several edits and failures.                                        *)
(***************************************************************************)
BoundedHammering == attempts <= MaxRetries

(***************************************************************************)
(* Once the panel is left alone and the notes have died away, a panel edit *)
(* ends up in flash, or the save has given up on it or left it to the      *)
(* instrument, or the board is off.                                        *)
(***************************************************************************)
EditsReachFlash ==
  (<>[][~Touch]_vars /\ <>[]~sounding)
    => (fate = "owed" ~> (fate # "owed" \/ phase = "off"))

(***************************************************************************)
(* The bootloader takes no unsaved edit with it if nothing disturbed the   *)
(* gesture: no touch after the third button, no note, no failed write.     *)
(* The countdown is longer than the debounce; nothing else ensures it.     *)
(***************************************************************************)
CalmUpdateKeepsEdits ==
  [][EnterBootloader /\ gesture = "calm" => fate # "owed"]_vars

(***************************************************************************)
(* "Settings are NOT written on the way out. [...] the debounced save in   *)
(* the main loop has had two seconds of idle to run long before anyone     *)
(* holds three buttons down" (picoface_main.cpp): no edit that was made    *)
(* before the gesture is still unsaved when the bootloader takes over.     *)
(* It does not hold: README, Observed.                                     *)
(***************************************************************************)
UpdateKeepsEdits ==
  [][EnterBootloader /\ gesture # "edited" => fate # "owed"]_vars
=============================================================================
