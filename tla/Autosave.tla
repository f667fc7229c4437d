------------------------------ MODULE Autosave ------------------------------
(***************************************************************************)
(* SettingsAutosave (core/include/picoface/settings_autosave.h), the way   *)
(* the reface ports save: no edit is announced, a poll in the UI tick      *)
(* compares a snapshot of the instrument with what it believes flash to    *)
(* hold, and writes it once it has held still.  It runs on the durable     *)
(* register that Veeprom implements.  Time is counted in poll intervals.   *)
(***************************************************************************)
EXTENDS SettingsRegister, Naturals

CONSTANTS
  Default,   \* the settings an instrument starts with when flash has none
  Stable,    \* intervals a snapshot has to hold still (8: 2000 ms of 250 ms)
  MaxGap     \* bound on how many intervals late a poll may come

ASSUME AutosaveAssumption ==
  /\ Default \in Payloads /\ None \notin Payloads
  /\ Stable \in Nat \ {0}
  /\ MaxGap \in Nat \ {0}

VARIABLES
  live,           \* what gather() would find now
  lastSaved,      \* lastSaved_: what flash is believed to hold
  baseline,       \* baseline_: lastSaved has been filled in since boot
  pending,        \* pending_
  pendingActive,  \* pendingActive_
  pendingAge,     \* intervals from pendingSinceMs_ to the last poll
  early           \* history: live changed before the first poll, unsaved so far

task == <<lastSaved, baseline, pending, pendingActive, pendingAge>>
vars == <<regVars, live, task, early>>

Restored == IF reg[running] = None THEN Default ELSE reg[running]
-----------------------------------------------------------------------------
InitTask ==
  /\ lastSaved = None /\ baseline = FALSE
  /\ pending = None /\ pendingActive = FALSE /\ pendingAge = 0
  /\ early = FALSE

Init == RegInit /\ live = Default /\ InitTask

\* settings_boot_restore, and a fresh SettingsAutosave object.
Boot ==
  /\ PowerOn(running)
  /\ live' = Restored
  /\ lastSaved' = None /\ baseline' = FALSE
  /\ pending' = None /\ pendingActive' = FALSE /\ pendingAge' = 0
  /\ early' = FALSE

Cut == PowerLoss /\ UNCHANGED <<live, task, early>>

\* A note, a controller, a program change or the panel changes the settings
\* between two polls.
Change(v) ==
  /\ phase = "idle"
  /\ v # live
  /\ live' = v
  /\ early' = (early \/ ~baseline)
  /\ UNCHANGED <<regVars, task>>

-----------------------------------------------------------------------------
(* task(), d intervals after the last call that got past the poll clock.   *)

PollBaseline ==
  /\ phase = "idle" /\ ~baseline
  /\ lastSaved' = live
  /\ baseline' = TRUE
  /\ UNCHANGED <<regVars, live, pending, pendingActive, pendingAge, early>>

\* Mutant: the snapshot is not compared with what flash holds.
DiffersAlways == TRUE

Differs == live # lastSaved

PollUnchanged ==
  /\ phase = "idle" /\ baseline
  /\ ~Differs
  /\ pendingActive' = FALSE
  /\ UNCHANGED <<regVars, live, lastSaved, baseline, pending, pendingAge, early>>

\* Mutant: a snapshot that moves restarts the clock but is not taken over.
PollMovedKeepsFirst ==
  /\ phase = "idle" /\ baseline
  /\ Differs
  /\ ~pendingActive \/ live # pending
  /\ pending' = IF pendingActive THEN pending ELSE live
  /\ pendingActive' = TRUE
  /\ pendingAge' = 0
  /\ UNCHANGED <<regVars, live, lastSaved, baseline, early>>

PollMoved ==
  /\ phase = "idle" /\ baseline
  /\ Differs
  /\ ~pendingActive \/ live # pending
  /\ pending' = live
  /\ pendingActive' = TRUE
  /\ pendingAge' = 0
  /\ UNCHANGED <<regVars, live, lastSaved, baseline, early>>

Holding == baseline /\ Differs /\ pendingActive /\ live = pending

\* Mutant: one interval too many.
PollWaitOffByOne(d) ==
  /\ phase = "idle" /\ Holding
  /\ pendingAge + d <= Stable
  /\ pendingAge' = pendingAge + d
  /\ UNCHANGED <<regVars, live, lastSaved, baseline, pending, pendingActive, early>>

PollWait(d) ==
  /\ phase = "idle" /\ Holding
  /\ pendingAge + d < Stable
  /\ pendingAge' = pendingAge + d
  /\ UNCHANGED <<regVars, live, lastSaved, baseline, pending, pendingActive, early>>

PollSaves(d) ==
  /\ Holding
  /\ pendingAge + d >= Stable
  /\ Begin(pending)
  /\ UNCHANGED <<live, task, early>>

SaveTakes == Take /\ UNCHANGED <<live, task, early>>

SaveSucceeded ==
  /\ Acknowledge
  /\ lastSaved' = pending
  /\ pendingActive' = FALSE
  /\ early' = FALSE
  /\ UNCHANGED <<live, baseline, pending, pendingAge>>

\* Mutant: the result of veeprom_save is ignored.
SaveFailedUnnoticed ==
  /\ Fail
  /\ lastSaved' = pending
  /\ pendingActive' = FALSE
  /\ UNCHANGED <<live, baseline, pending, pendingAge, early>>

SaveFailed ==
  /\ Fail
  /\ pendingActive' = FALSE
  /\ UNCHANGED <<live, lastSaved, baseline, pending, pendingAge, early>>

-----------------------------------------------------------------------------
Poll ==
  \/ PollBaseline \/ PollUnchanged \/ PollMoved
  \/ \E d \in 1 .. MaxGap : PollWait(d) \/ PollSaves(d)

Next ==
  \/ Boot \/ Cut
  \/ \E v \in Payloads : Change(v)
  \/ Poll
  \/ SaveTakes \/ SaveSucceeded \/ SaveFailed

\* The loop keeps polling, a save returns, and the flash is not so worn that
\* every write fails.
Fairness ==
  /\ WF_vars(Poll)
  /\ WF_vars(SaveSucceeded \/ SaveFailed)
  /\ SF_vars(SaveTakes)

Spec == Init /\ [][Next]_vars /\ Fairness
-----------------------------------------------------------------------------
\* Every variable has its type; the clock of a pending snapshot never reaches
\* the time at which it would have been written, and only a save in progress
\* keeps the loop busy.
TypeOK ==
  /\ RegTypeOK
  /\ live \in Payloads
  /\ lastSaved \in Payloads \cup {None}
  /\ baseline \in BOOLEAN /\ (phase # "off" /\ baseline => lastSaved # None)
  /\ pending \in Payloads \cup {None}
  /\ pendingActive \in BOOLEAN
  /\ pendingAge \in 0 .. Stable - 1
  /\ early \in BOOLEAN

-----------------------------------------------------------------------------
(***************************************************************************)
(* What the task believes flash to hold is what a reboot would restore,    *)
(* across failed writes, power cuts and settings that move while they are  *)
(* pending; changes from before the first poll excepted, see               *)
(* BaselineIsFlash.  Were it not so, a change back to the believed value   *)
(* would never be written.                                                 *)
(***************************************************************************)
BeliefIsFlash ==
  phase = "idle" /\ baseline /\ ~early => lastSaved = Restored

(***************************************************************************)
(* Flash wears out: settings that are already in flash are not written     *)
(* again, even if they moved away and came back in the meantime.           *)
(***************************************************************************)
NoRedundantWrite == phase = "writing" /\ ~early => writing # Restored

(***************************************************************************)
(* Settings that stay put end up in flash, whoever changed them: failed    *)
(* writes are retried without limit.                                       *)
(***************************************************************************)
SettledIsSaved ==
  \A v \in Payloads :
    <>[](live = v /\ phase # "off" /\ ~early) => <>[](Restored = v)

(***************************************************************************)
(* "first poll: what is in place now is what flash has"                    *)
(* (settings_autosave.h), without exception.                               *)
(* It does not hold: README, Observed.                                     *)
(***************************************************************************)
BaselineIsFlash == phase = "idle" /\ baseline => lastSaved = Restored
=============================================================================
