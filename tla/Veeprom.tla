------------------------------ MODULE Veeprom ------------------------------
(***************************************************************************)
(* The virtual EEPROM (core/src/veeprom.cpp): two flash sectors used as a  *)
(* circular log of records, the newest valid one being the settings.  A    *)
(* save picks the next slot, erases a sector if it has to, programs one    *)
(* record, reads it back and only then moves its RAM pointer.  Interrupts  *)
(* are off and nobody else touches the flash meanwhile, so the only actor  *)
(* that interleaves with a save is the power supply.  A board may also be  *)
(* reflashed with another instrument of the collection while the log       *)
(* stays, because a .uf2 does not erase it.                                *)
(*                                                                         *)
(* Left abstract: a payload (version and length included) is one value of  *)
(* Payloads; CRC and magic are collision-free, so a slot is blank, garbage *)
(* or a whole record; a record's magic is the instrument it belongs to.    *)
(***************************************************************************)
EXTENDS Naturals

CONSTANTS
  SlotsPerSector,  \* records a sector holds (16 in the code)
  Instruments,     \* instruments the board may be flashed with
  Payloads,        \* settings worth telling apart
  None,            \* no slot, no settings
  Blank,           \* a slot that reads all ones
  Garbage,         \* a slot that is neither blank nor a record with a right CRC
  Faults,          \* how the flash may fail: see FaultKinds
  MaxSeq           \* bound on sequence numbers; flash endurance keeps them below 2^32

(***************************************************************************)
(* "unwritten": programming leaves the slot as it was.                     *)
(* "garbled":   programming leaves a slot whose CRC does not match.        *)
(* "misread":   the record is in flash and its CRC is right, but the       *)
(*              comparison of all 256 bytes fails: a bad bit in the header *)
(*              or the padding, which no CRC covers, or an unstable read.  *)
(***************************************************************************)
FaultKinds == {"unwritten", "garbled", "misread"}

ASSUME VeepromAssumption ==
  /\ SlotsPerSector \in Nat \ {0}
  /\ MaxSeq \in Nat
  /\ Faults \subseteq FaultKinds
  /\ Blank # Garbage

VARIABLES
  flash,     \* what each slot holds
  running,   \* the instrument whose firmware is on the board
  pc,        \* where the save in progress stands, "idle" or "off"
  lastSlot,  \* s_lastSlot: RAM pointer to the newest record
  lastSeq,   \* s_lastSeq: its sequence number
  target,    \* the slot of the save in progress or of the last one
  buf,       \* the record that save writes
  ret        \* what the last save returned

vars == <<flash, running, pc, lastSlot, lastSeq, target, buf, ret>>

Sectors == {0, 1}
Other(s) == 1 - s
Slots == Sectors \X (0 .. SlotsPerSector - 1)
Record == [owner : Instruments, seq : Nat, val : Payloads]

ASSUME SentinelAssumption ==
  /\ Blank \notin Record
  /\ Garbage \notin Record
  /\ None \notin Slots \cup Payloads \cup Record

-----------------------------------------------------------------------------
(* Scanning: slot_valid, veeprom_init, veeprom_load.                       *)

SlotValid(i, p) ==
  /\ flash[p] \notin {Blank, Garbage}
  /\ flash[p].owner = i

Valid(i) == {p \in Slots : SlotValid(i, p)}

\* Slots in the order the scan visits them.
Precedes(p, q) == p[1] < q[1] \/ (p[1] = q[1] /\ p[2] < q[2])

\* The scan replaces its candidate only by a strictly greater sequence number,
\* so it ends on the first of the slots that carry the greatest one.
IsNewest(i, p) ==
  /\ p \in Valid(i)
  /\ \A q \in Valid(i) \ {p} :
       \/ flash[q].seq < flash[p].seq
       \/ flash[q].seq = flash[p].seq /\ Precedes(p, q)

Load ==
  IF lastSlot = None THEN None
  ELSE IF ~SlotValid(running, lastSlot) THEN None
  ELSE flash[lastSlot].val

\* What a boot of instrument i would load from the flash as it is now.
Stored(i) ==
  IF \E p \in Slots : IsNewest(i, p)
  THEN flash[CHOOSE p \in Slots : IsNewest(i, p)].val
  ELSE None

-----------------------------------------------------------------------------
(* Where veeprom_save writes.                                              *)

\* Mutant: the wrap around the end of the log is missing.
SuccessorUnwrapped(p) ==
  IF p[2] + 1 < SlotsPerSector THEN <<p[1], p[2] + 1>> ELSE <<p[1] + 1, 0>>

Successor(p) ==
  IF p[2] + 1 < SlotsPerSector THEN <<p[1], p[2] + 1>> ELSE <<Other(p[1]), 0>>

Candidate == IF lastSlot = None THEN <<0, 0>> ELSE Successor(lastSlot)

\* Mutant: an obstacle restarts the same sector instead of the other one.
NextTargetSameSector ==
  IF Candidate[2] # 0 /\ flash[Candidate] # Blank
  THEN <<Candidate[1], 0>>
  ELSE Candidate

\* Mutant: the slot is not checked for being blank.
NextTargetUnchecked == Candidate

\* A slot inside a sector that is not blank cannot be programmed: start over
\* at the beginning of the other sector.
NextTarget ==
  IF Candidate[2] # 0 /\ flash[Candidate] # Blank
  THEN <<Other(Candidate[1]), 0>>
  ELSE Candidate

\* The first slot of a sector is only ever written after an erase.
NeedsErase(p) == p[2] = 0

-----------------------------------------------------------------------------
Init ==
  /\ flash = [p \in Slots |-> Blank]
  /\ running \in Instruments
  /\ pc = "off"
  /\ lastSlot = None
  /\ lastSeq = 0
  /\ target = None
  /\ buf = None
  /\ ret = "none"

\* veeprom_set_instrument and veeprom_init.  Booting another instrument than
\* the last one is the reflashing of the board.
Boot(i) ==
  /\ pc = "off"
  /\ running' = i
  /\ \/ /\ Valid(i) = {}
        /\ lastSlot' = None
        /\ lastSeq' = 0
     \/ \E p \in Slots :
          /\ IsNewest(i, p)
          /\ lastSlot' = p
          /\ lastSeq' = flash[p].seq
  /\ pc' = "idle"
  /\ UNCHANGED <<flash, target, buf, ret>>

\* The lock hook refuses, or the payload does not fit a record.
SaveRefused ==
  /\ pc = "idle"
  /\ ret' = "failed"
  /\ UNCHANGED <<flash, running, pc, lastSlot, lastSeq, target, buf>>

\* Mutant: the record carries the number of the previous one.
SaveBeginStaleSeq(v) ==
  /\ pc = "idle"
  /\ lastSeq < MaxSeq
  /\ target' = NextTarget
  /\ buf' = [owner |-> running, seq |-> lastSeq, val |-> v]
  /\ pc' = IF NeedsErase(NextTarget) THEN "erase" ELSE "program"
  /\ ret' = "none"
  /\ UNCHANGED <<flash, running, lastSlot, lastSeq>>

SaveBegin(v) ==
  /\ pc = "idle"
  /\ lastSeq < MaxSeq
  /\ target' = NextTarget
  /\ buf' = [owner |-> running, seq |-> lastSeq + 1, val |-> v]
  /\ pc' = IF NeedsErase(NextTarget) THEN "erase" ELSE "program"
  /\ ret' = "none"
  /\ UNCHANGED <<flash, running, lastSlot, lastSeq>>

Erase ==
  /\ pc = "erase"
  /\ flash' = [p \in Slots |-> IF p[1] = target[1] THEN Blank ELSE flash[p]]
  /\ pc' = "program"
  /\ UNCHANGED <<running, lastSlot, lastSeq, target, buf, ret>>

Program ==
  /\ pc = "program"
  /\ \/ flash' = [flash EXCEPT ![target] = buf]
     \/ "unwritten" \in Faults /\ flash' = flash
     \/ "garbled" \in Faults /\ flash' = [flash EXCEPT ![target] = Garbage]
  /\ pc' = "verify"
  /\ UNCHANGED <<running, lastSlot, lastSeq, target, buf, ret>>

\* Mutant: the record is acknowledged without being read back.
VerifyOkUnread ==
  /\ pc = "verify"
  /\ lastSlot' = target
  /\ lastSeq' = lastSeq + 1
  /\ ret' = "ok"
  /\ pc' = "idle"
  /\ UNCHANGED <<flash, running, target, buf>>

VerifyOk ==
  /\ pc = "verify"
  /\ flash[target] = buf
  /\ lastSlot' = target
  /\ lastSeq' = lastSeq + 1
  /\ ret' = "ok"
  /\ pc' = "idle"
  /\ UNCHANGED <<flash, running, target, buf>>

VerifyFailed ==
  /\ pc = "verify"
  /\ flash[target] # buf \/ "misread" \in Faults
  /\ ret' = "failed"
  /\ pc' = "idle"
  /\ UNCHANGED <<flash, running, lastSlot, lastSeq, target, buf>>

-----------------------------------------------------------------------------
(* The power fails: RAM is lost, and an erase or a program is left torn.   *)

LoseRam ==
  /\ pc' = "off"
  /\ lastSlot' = None
  /\ lastSeq' = 0
  /\ target' = None
  /\ buf' = None
  /\ ret' = "none"
  /\ UNCHANGED running

\* Each slot of the sector is as it was, wrecked, or already blank.
PowerLossInErase ==
  /\ pc = "erase"
  /\ \E kept, wrecked \in SUBSET {p \in Slots : p[1] = target[1]} :
       flash' = [p \in Slots |->
                   IF p[1] # target[1] \/ p \in kept THEN flash[p]
                   ELSE IF p \in wrecked THEN Garbage
                   ELSE Blank]
  /\ LoseRam

\* Nothing of the record, part of it, or all of it has been programmed.
PowerLossInProgram ==
  /\ pc = "program"
  /\ \E x \in {Blank, Garbage, buf} : flash' = [flash EXCEPT ![target] = x]
  /\ LoseRam

PowerLossElsewhere ==
  /\ pc \in {"idle", "verify"}
  /\ flash' = flash
  /\ LoseRam

PowerLoss == PowerLossInErase \/ PowerLossInProgram \/ PowerLossElsewhere

Next ==
  \/ \E i \in Instruments : Boot(i)
  \/ SaveRefused
  \/ \E v \in Payloads : SaveBegin(v)
  \/ Erase \/ Program \/ VerifyOk \/ VerifyFailed
  \/ PowerLoss

Spec == Init /\ [][Next]_vars
-----------------------------------------------------------------------------
\* Every variable has its type, and a save in progress has a slot and a record.
TypeOK ==
  /\ flash \in [Slots -> Record \cup {Blank, Garbage}]
  /\ running \in Instruments
  /\ pc \in {"off", "idle", "erase", "program", "verify"}
  /\ lastSlot \in Slots \cup {None}
  /\ lastSeq \in Nat
  /\ target \in Slots \cup {None}
  /\ buf \in Record \cup {None}
  /\ pc \in {"erase", "program", "verify"} => target # None /\ buf # None
  /\ ret \in {"none", "ok", "failed"}

-----------------------------------------------------------------------------
(***************************************************************************)
(* The erase never hits the sector that holds the settings a boot would    *)
(* load, whatever cuts, failed writes and other instruments came before:   *)
(* veeprom_save may be cut at any moment of the erase.                     *)
(***************************************************************************)
SafeErase ==
  pc = "erase" => \A p \in Slots : IsNewest(running, p) => p[1] # target[1]

(***************************************************************************)
(* A record is only ever programmed into a blank slot: programming flash   *)
(* clears bits and sets none, so anything else would be a mixture.  Blank  *)
(* is checked when the save begins and relied on after the erase.          *)
(***************************************************************************)
ProgramsBlank == pc = "program" => flash[target] = Blank

(***************************************************************************)
(* Between saves the RAM pointer of veeprom_load is not stale: it yields   *)
(* what a reboot at this moment would yield.  Acknowledged saves advance   *)
(* it, failed ones leave both alone.                                       *)
(***************************************************************************)
RamAgreesWithFlash == pc = "idle" => Load = Stored(running)

(***************************************************************************)
(* "monotonically increasing sequence number" (veeprom.h): no two records  *)
(* of an instrument carry the same number, so the newest one is unique and *)
(* the order in which the scan visits slots does not matter.               *)
(***************************************************************************)
SeqUnique ==
  \A i \in Instruments : \A p, q \in Valid(i) :
    flash[p].seq = flash[q].seq => p = q

(***************************************************************************)
(* "the failed slot is non-blank, so the veeprom sector-jump rule routes   *)
(* the retry to the other sector" (picoface_main.cpp): a save that follows *)
(* one whose verification failed goes to the other sector.                 *)
(* It does not hold: README, Observed.                                     *)
(***************************************************************************)
RetryMovesSector ==
  [][(/\ ret = "failed"
      /\ target # None
      /\ flash[target] # Blank
      /\ target # lastSlot
      /\ \E v \in Payloads : SaveBegin(v))
     => target'[1] # target[1]]_vars

(***************************************************************************)
(* The store implements one durable register per instrument: every save is *)
(* atomic across power cuts and failed writes, and an acknowledged save is *)
(* never rolled back while its instrument stays on the board.              *)
(***************************************************************************)
SavePhase ==
  CASE pc \in {"erase", "program"} -> "writing"
    [] pc = "verify" -> IF flash[target] = buf THEN "written" ELSE "writing"
    [] OTHER -> pc

Register == INSTANCE SettingsRegister WITH
  reg <- [i \in Instruments |-> Stored(i)],
  phase <- SavePhase,
  writing <- IF pc \in {"off", "idle"} THEN None ELSE buf.val

AtomicRegister == Register!RegSpec
=============================================================================
