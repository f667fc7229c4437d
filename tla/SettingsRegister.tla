-------------------------- MODULE SettingsRegister --------------------------
(***************************************************************************)
(* What the virtual EEPROM promises to an instrument: one durable register *)
(* per instrument.  While an instrument runs, its register changes at one  *)
(* indivisible moment of a save, or not at all: a power cut leaves the     *)
(* previous settings or the new ones, never a mixture and never older      *)
(* ones.  A save that is reported as done has happened, a save that is     *)
(* reported as failed has not.  A board that is flashed with another       *)
(* instrument keeps the first one's register until the newcomer saves;     *)
(* from then on nothing is promised about it.                              *)
(***************************************************************************)
CONSTANTS
  Instruments,   \* the firmwares that may be flashed onto the board
  Payloads,      \* the settings an instrument may store
  None           \* what an empty register holds

VARIABLES
  reg,       \* the settings a boot of each instrument would find
  running,   \* the instrument the board is flashed with
  phase,     \* "off", "idle", "writing" (not yet durable), "written"
  writing    \* the settings being saved

regVars == <<reg, running, phase, writing>>

RegTypeOK ==
  /\ reg \in [Instruments -> Payloads \cup {None}]
  /\ running \in Instruments
  /\ phase \in {"off", "idle", "writing", "written"}
  /\ writing \in Payloads \cup {None}

RegInit ==
  /\ reg = [i \in Instruments |-> None]
  /\ running \in Instruments
  /\ phase = "off"
  /\ writing = None

Begin(v) ==
  /\ phase = "idle"
  /\ phase' = "writing"
  /\ writing' = v
  /\ UNCHANGED <<reg, running>>

\* Making room for the record may cost the other instruments theirs.
Reclaim ==
  /\ phase = "writing"
  /\ reg' \in [Instruments -> Payloads \cup {None}]
  /\ reg'[running] = reg[running]
  /\ UNCHANGED <<running, phase, writing>>

\* The moment the save takes effect.
Take ==
  /\ phase = "writing"
  /\ reg' = [reg EXCEPT ![running] = writing]
  /\ phase' = "written"
  /\ UNCHANGED <<running, writing>>

Acknowledge ==
  /\ phase = "written"
  /\ phase' = "idle"
  /\ writing' = None
  /\ UNCHANGED <<reg, running>>

Fail ==
  /\ phase = "writing"
  /\ phase' = "idle"
  /\ writing' = None
  /\ UNCHANGED <<reg, running>>

\* The running instrument's register survives, or already holds what was
\* being written; only a cut in the middle of a save can touch the others.
PowerLoss ==
  /\ phase # "off"
  /\ phase' = "off"
  /\ writing' = None
  /\ reg' \in [Instruments -> Payloads \cup {None}]
  /\ \/ reg' = reg
     \/ /\ phase = "writing"
        /\ reg'[running] \in {reg[running], writing}
  /\ UNCHANGED running

PowerOn(i) ==
  /\ phase = "off"
  /\ phase' = "idle"
  /\ running' = i
  /\ UNCHANGED <<reg, writing>>

RegNext ==
  \/ \E v \in Payloads : Begin(v)
  \/ Reclaim \/ Take \/ Acknowledge \/ Fail
  \/ PowerLoss
  \/ \E i \in Instruments : PowerOn(i)

RegSpec == RegInit /\ [][RegNext]_regVars
=============================================================================
