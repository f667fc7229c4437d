--------------------------- MODULE VeepromProofs ---------------------------
(***************************************************************************)
(* The virtual EEPROM keeps its promises for every sector size, every set  *)
(* of instruments and payloads and every bound on the sequence numbers, as *)
(* long as the read-back of a record does not lie ("misread").             *)
(***************************************************************************)
EXTENDS Veeprom, TLAPS

ReliableReadback == "misread" \notin Faults

\* The slot whose record is complete but not yet acknowledged, if any.
InFlight == IF pc = "verify" THEN {target} ELSE {}

\* The RAM pointer is at the greatest sequence number among the records the
\* running instrument has been told about.
PointerOK ==
  \/ /\ lastSlot = None
     /\ lastSeq = 0
     /\ Valid(running) \subseteq InFlight
  \/ /\ lastSlot \in Valid(running)
     /\ flash[lastSlot].seq = lastSeq
     /\ lastSlot \notin InFlight
     /\ \A q \in Valid(running) \ InFlight : flash[q].seq <= lastSeq

\* The save in progress writes the next number, away from the newest record.
SaveOK ==
  /\ target \in Slots
  /\ target # lastSlot
  /\ buf \in Record
  /\ buf.owner = running
  /\ buf.seq = lastSeq + 1
  /\ pc = "erase" => lastSlot = None \/ lastSlot[1] # target[1]
  /\ pc = "program" => flash[target] = Blank
  /\ pc = "verify" => flash[target] \in {buf, Blank, Garbage}

NewestExists ==
  Valid(running) = {} \/ \E p \in Slots : IsNewest(running, p)

IInv ==
  /\ TypeOK
  /\ SeqUnique
  /\ NewestExists
  /\ pc # "off" => PointerOK
  /\ pc \in {"erase", "program", "verify"} => SaveOK
-----------------------------------------------------------------------------
(* Facts about slots and about what a step may do to the log.              *)

\* The successor of a slot is another slot, in the same sector unless the
\* sector ends there.
LEMMA SlotFacts ==
  /\ <<0, 0>> \in Slots /\ <<1, 0>> \in Slots
  /\ \A p \in Slots : /\ p = <<p[1], p[2]>>
                      /\ p[1] \in {0, 1}
                      /\ p[2] \in 0 .. SlotsPerSector - 1
                      /\ Successor(p) \in Slots
                      /\ Successor(p)[2] # 0 => Successor(p)[1] = p[1]
                      /\ Successor(p) # p
                      /\ <<Other(p[1]), 0>> \in Slots
                      /\ Successor(p)[2] = 0 => Successor(p)[1] = Other(p[1])
                      /\ Other(p[1]) # p[1]
  BY VeepromAssumption DEF Slots, Sectors, Successor, Other

\* The marks for no slot, blank and garbage are none of the values they stand beside.
LEMMA Sentinels ==
  /\ None \notin Slots
  /\ None \notin Payloads
  /\ None \notin Record
  /\ Blank \notin Record
  /\ Garbage \notin Record
  /\ Blank # Garbage
  BY SentinelAssumption, VeepromAssumption

\* The valid records of an instrument are records.
LEMMA ValidFacts ==
  ASSUME TypeOK, NEW i, NEW p \in Valid(i)
  PROVE  p \in Slots /\ flash[p] \in Record /\ flash[p].seq \in Nat /\ flash[p].owner = i
         /\ flash[p].val \in Payloads
  BY DEF TypeOK, Valid, SlotValid, Record

\* Erasing and wrecking slots removes records and invents none.
LEMMA Shrinking ==
  ASSUME TypeOK, flash' \in [Slots -> Record \cup {Blank, Garbage}],
         \A p \in Slots : flash'[p] \in {flash[p], Blank, Garbage},
         NEW i
  PROVE  /\ Valid(i)' \subseteq Valid(i)
         /\ \A p \in Valid(i)' : flash'[p] = flash[p]
  BY Sentinels DEF TypeOK, Valid, SlotValid

\* A complete program adds exactly one record, in the slot it writes.
LEMMA Growing ==
  ASSUME TypeOK, target \in Slots, buf \in Record, flash' = [flash EXCEPT ![target] = buf],
         flash[target] = Blank, NEW i
  PROVE  /\ Valid(i)' = IF i = buf.owner THEN Valid(i) \cup {target} ELSE Valid(i)
         /\ \A p \in Slots : p # target => flash'[p] = flash[p]
         /\ flash'[target] = buf
  BY Sentinels DEF TypeOK, Valid, SlotValid

-----------------------------------------------------------------------------
\* The variables of the store keep their types whatever faults and power cuts
\* occur; no assumption on the read-back is needed.
THEOREM TypeCorrect == Spec => []TypeOK
<1>1. Init => TypeOK
  BY DEF Init, TypeOK
<1>2. TypeOK /\ [Next]_vars => TypeOK'
  <2> SUFFICES ASSUME TypeOK, [Next]_vars PROVE TypeOK'
    OBVIOUS
  <2>1. CASE UNCHANGED vars
    BY <2>1 DEF TypeOK, vars
  <2>2. ASSUME NEW i \in Instruments, Boot(i) PROVE TypeOK'
    BY <2>2, ValidFacts DEF TypeOK, Boot, IsNewest
  <2>3. CASE SaveRefused
    BY <2>3 DEF TypeOK, SaveRefused
  <2>4. ASSUME NEW v \in Payloads, SaveBegin(v) PROVE TypeOK'
    <3>1. NextTarget \in Slots
      BY SlotFacts DEF TypeOK, NextTarget, Candidate
    <3>2. [owner |-> running, seq |-> lastSeq + 1, val |-> v] \in Record
      BY DEF TypeOK, Record
    <3>3. QED
      BY <2>4, <3>1, <3>2, Sentinels DEF TypeOK, SaveBegin
  <2>5. CASE Erase
    BY <2>5 DEF TypeOK, Erase
  <2>6. CASE Program
    <3>1. buf \in Record /\ target \in Slots
      BY <2>6 DEF TypeOK, Program
    <3>2. flash' \in [Slots -> Record \cup {Blank, Garbage}]
      BY <2>6, <3>1 DEF TypeOK, Program
    <3>3. QED
      BY <2>6, <3>1, <3>2 DEF TypeOK, Program
  <2>7. CASE VerifyOk
    BY <2>7 DEF TypeOK, VerifyOk
  <2>8. CASE VerifyFailed
    BY <2>8 DEF TypeOK, VerifyFailed
  <2>9. CASE PowerLoss
    <3>1. flash' \in [Slots -> Record \cup {Blank, Garbage}]
      <4>1. CASE PowerLossInErase
        BY <4>1 DEF TypeOK, PowerLossInErase
      <4>2. CASE PowerLossInProgram
        BY <4>2 DEF TypeOK, PowerLossInProgram
      <4>3. CASE PowerLossElsewhere
        BY <4>3 DEF TypeOK, PowerLossElsewhere
      <4>4. QED
        BY <2>9, <4>1, <4>2, <4>3 DEF PowerLoss
    <3>2. LoseRam
      BY <2>9 DEF PowerLoss, PowerLossInErase, PowerLossInProgram, PowerLossElsewhere
    <3>3. QED
      BY <3>1, <3>2 DEF TypeOK, LoseRam
  <2>10. QED
    BY <2>1, <2>2, <2>3, <2>4, <2>5, <2>6, <2>7, <2>8, <2>9 DEF Next
<1>3. QED
  BY <1>1, <1>2, PTL DEF Spec
-----------------------------------------------------------------------------
(* The inductive invariant.                                                *)

\* Where a save goes, given that the pointer is right.
LEMMA TargetFacts ==
  ASSUME IInv, pc = "idle"
  PROVE  /\ NextTarget \in Slots
         /\ NextTarget # lastSlot
         /\ NeedsErase(NextTarget) => lastSlot = None \/ lastSlot[1] # NextTarget[1]
         /\ ~NeedsErase(NextTarget) => flash[NextTarget] = Blank
<1>1. CASE lastSlot = None
  <2>1. NextTarget = <<0, 0>>
    BY <1>1 DEF NextTarget, Candidate
  <2>2. QED
    BY <1>1, <2>1, SlotFacts, Sentinels DEF NeedsErase
<1>2. CASE lastSlot # None
  <2>1. lastSlot \in Slots
    BY <1>2 DEF IInv, TypeOK
  <2>2. Candidate = Successor(lastSlot)
    BY <1>2 DEF Candidate
  <2>3. CASE Candidate[2] # 0 /\ flash[Candidate] # Blank
    <3>1. NextTarget = <<Other(lastSlot[1]), 0>>
      BY <2>1, <2>2, <2>3, SlotFacts DEF NextTarget
    <3>2. NextTarget \in Slots /\ NextTarget[1] # lastSlot[1]
      BY <2>1, <3>1, SlotFacts
    <3>3. QED
      BY <3>1, <3>2 DEF NeedsErase
  <2>4. CASE ~(Candidate[2] # 0 /\ flash[Candidate] # Blank)
    <3>1. NextTarget = Successor(lastSlot)
      BY <2>2, <2>4 DEF NextTarget
    <3>2. NextTarget[2] = 0 => NextTarget[1] # lastSlot[1]
      BY <2>1, <3>1, SlotFacts
    <3>3. NextTarget[2] # 0 => flash[NextTarget] = Blank
      BY <2>2, <2>4, <3>1
    <3>4. QED
      BY <2>1, <3>1, <3>2, <3>3, SlotFacts DEF NeedsErase
  <2>5. QED
    BY <2>3, <2>4
<1>3. QED
  BY <1>1, <1>2

\* While the pointer is right, the newest record is where it points.
LEMMA PointerIsNewest ==
  ASSUME IInv, pc # "off", pc # "verify", lastSlot # None
  PROVE  IsNewest(running, lastSlot)
<1>1. /\ lastSlot \in Valid(running)
      /\ flash[lastSlot].seq = lastSeq
      /\ \A q \in Valid(running) : flash[q].seq <= lastSeq
  BY DEF IInv, PointerOK, InFlight
<1>2. \A q \in Valid(running) \ {lastSlot} : flash[q].seq # lastSeq
  BY <1>1 DEF IInv, SeqUnique, TypeOK
<1>3. \A q \in Valid(running) : flash[q].seq \in Nat /\ lastSeq \in Nat
  BY ValidFacts DEF IInv, TypeOK
<1>4. QED
  BY <1>1, <1>2, <1>3 DEF IsNewest

\* And conversely: what a scan would settle on is what the pointer names.
LEMMA NewestIsPointer ==
  ASSUME IInv, pc # "off", pc # "verify", NEW p \in Slots, IsNewest(running, p)
  PROVE  p = lastSlot
<1>1. PointerOK /\ InFlight = {} /\ p \in Valid(running)
  BY DEF IInv, InFlight, IsNewest
<1>2. /\ lastSlot \in Valid(running)
      /\ flash[lastSlot].seq = lastSeq
      /\ flash[p].seq <= lastSeq
  BY <1>1 DEF PointerOK
<1>3. flash[p].seq \in Nat /\ flash[lastSlot].seq \in Nat
  BY <1>1, <1>2, ValidFacts DEF IInv
<1>4. lastSlot # p => flash[lastSlot].seq <= flash[p].seq
  BY <1>2, <1>3 DEF IsNewest
<1>5. QED
  BY <1>1, <1>2, <1>3, <1>4 DEF IInv, SeqUnique, TypeOK

\* A step that removes records but leaves the newest one of the running
\* instrument keeps the numbers unique and the newest one newest.
LEMMA KeepNewest ==
  ASSUME TypeOK, SeqUnique, running' = running,
         flash' \in [Slots -> Record \cup {Blank, Garbage}],
         \A p \in Slots : flash'[p] \in {flash[p], Blank, Garbage},
         \A p \in Slots : IsNewest(running, p) => flash'[p] = flash[p],
         NewestExists
  PROVE  SeqUnique' /\ NewestExists'
<1>1. \A i : /\ Valid(i)' \subseteq Valid(i)
             /\ \A p \in Valid(i)' : flash'[p] = flash[p]
  BY Shrinking
<1>2. SeqUnique'
  <2>1. ASSUME NEW i \in Instruments, NEW p \in Valid(i)', NEW q \in Valid(i)',
               flash'[p].seq = flash'[q].seq
        PROVE  p = q
    <3>1. p \in Valid(i) /\ q \in Valid(i) /\ flash[p].seq = flash[q].seq
      BY <1>1, <2>1
    <3>2. QED
      BY <3>1 DEF SeqUnique
  <2>2. QED
    BY <2>1 DEF SeqUnique
<1>3. CASE Valid(running) = {}
  <2>1. \A p \in Slots : flash[p] \in {Blank, Garbage} \/ flash[p].owner # running
    BY <1>3 DEF Valid, SlotValid
  <2>2. \A p \in Slots : flash'[p] \in {Blank, Garbage} \/ flash'[p].owner # running
    BY <2>1
  <2>3. Valid(running)' = {}
    BY <2>2 DEF Valid, SlotValid
  <2>4. QED
    BY <1>2, <2>3 DEF NewestExists
<1>4. ASSUME NEW p \in Slots, IsNewest(running, p) PROVE IsNewest(running, p)'
  <2>1. flash'[p] = flash[p] /\ p \in Valid(running)
    BY <1>4 DEF IsNewest
  <2>2. p \in Valid(running)'
    BY <2>1 DEF Valid, SlotValid
  <2>3. QED
    BY <1>1, <1>4, <2>1, <2>2 DEF IsNewest
<1>5. QED
  BY <1>2, <1>3, <1>4 DEF NewestExists

\* An empty log satisfies the inductive invariant.
LEMMA InitIInv == Init => IInv
  <1> SUFFICES ASSUME Init PROVE IInv
    OBVIOUS
  <1>1. TypeOK
    BY DEF Init, TypeOK
  <1>2. \A i : Valid(i) = {}
    BY DEF Init, Valid, SlotValid
  <1>3. QED
    BY <1>1, <1>2 DEF Init, IInv, SeqUnique, NewestExists

\* The scan at boot puts the pointer on the newest record.
LEMMA BootIInv ==
  ASSUME IInv, NEW i \in Instruments, Boot(i), TypeOK'
  PROVE  IInv'
<1>1. flash' = flash /\ pc' = "idle" /\ running' = i
  BY DEF Boot
<1>2. SeqUnique'
  BY <1>1 DEF IInv, SeqUnique, Valid, SlotValid
<1>3. CASE Valid(i) = {} /\ lastSlot' = None /\ lastSeq' = 0
  <2>1. Valid(running)' = {}
    BY <1>1, <1>3 DEF Valid, SlotValid
  <2>2. NewestExists' /\ PointerOK'
    BY <1>3, <2>1 DEF NewestExists, PointerOK
  <2>3. QED
    BY <1>1, <1>2, <2>2 DEF IInv
<1>4. ASSUME NEW p \in Slots, IsNewest(i, p), lastSlot' = p, lastSeq' = flash[p].seq
      PROVE  IInv'
  <2>1. Valid(running)' = Valid(i)
    BY <1>1 DEF Valid, SlotValid
  <2>2. IsNewest(running, p)'
    BY <1>1, <1>4, <2>1 DEF IsNewest
  <2>3. \A q \in Valid(i) : flash[q].seq <= flash[p].seq
    BY <1>4, ValidFacts DEF IsNewest, IInv
  <2>4. PointerOK'
    BY <1>1, <1>4, <2>1, <2>3 DEF PointerOK, InFlight, IsNewest
  <2>5. QED
    BY <1>1, <1>2, <2>2, <2>4 DEF IInv, NewestExists
<1>5. QED
  BY <1>3, <1>4 DEF Boot

\* A save starts on a slot that does not endanger the newest record.
LEMMA SaveBeginIInv ==
  ASSUME IInv, NEW v \in Payloads, SaveBegin(v), TypeOK'
  PROVE  IInv'
<1>1. /\ pc = "idle" /\ flash' = flash /\ running' = running
      /\ lastSlot' = lastSlot /\ lastSeq' = lastSeq /\ target' = NextTarget
      /\ buf' = [owner |-> running, seq |-> lastSeq + 1, val |-> v]
      /\ pc' = IF NeedsErase(NextTarget) THEN "erase" ELSE "program"
  BY DEF SaveBegin
<1>2. Valid(running)' = Valid(running) /\ InFlight = {} /\ InFlight' = {}
  BY <1>1 DEF Valid, SlotValid, InFlight
<1>3. SeqUnique' /\ NewestExists' /\ PointerOK'
  BY <1>1, <1>2 DEF IInv, SeqUnique, NewestExists, PointerOK, IsNewest, Valid, SlotValid
<1>4. buf' \in Record
  BY <1>1, Sentinels DEF IInv, TypeOK, Record
<1>5. SaveOK'
  BY <1>1, <1>4, TargetFacts DEF SaveOK, NeedsErase
<1>6. QED
  BY <1>3, <1>5 DEF IInv

\* The erase spares the newest record and leaves the target blank.
LEMMA EraseIInv ==
  ASSUME IInv, Erase, TypeOK'
  PROVE  IInv'
<1>1. /\ pc = "erase" /\ pc' = "program" /\ running' = running
      /\ lastSlot' = lastSlot /\ lastSeq' = lastSeq /\ target' = target /\ buf' = buf
      /\ flash' = [p \in Slots |-> IF p[1] = target[1] THEN Blank ELSE flash[p]]
  BY DEF Erase
<1>2. /\ TypeOK /\ SeqUnique /\ NewestExists /\ PointerOK /\ SaveOK
      /\ InFlight = {} /\ InFlight' = {}
  BY <1>1 DEF IInv, InFlight
<1>3. \A p \in Slots : flash'[p] \in {flash[p], Blank, Garbage}
  BY <1>1
<1>4. lastSlot # None => lastSlot \in Slots /\ flash'[lastSlot] = flash[lastSlot]
  BY <1>1, <1>2 DEF SaveOK, TypeOK
<1>5. flash' \in [Slots -> Record \cup {Blank, Garbage}]
  BY DEF TypeOK
<1>6. SeqUnique' /\ NewestExists'
  <2>1. \A p \in Slots : IsNewest(running, p) => flash'[p] = flash[p]
    BY <1>1, <1>4, NewestIsPointer, Sentinels
  <2>2. QED
    BY <1>1, <1>2, <1>3, <1>5, <2>1, KeepNewest
<1>7. Valid(running)' \subseteq Valid(running) /\ \A p \in Valid(running)' : flash'[p] = flash[p]
  BY <1>1, <1>2, Sentinels DEF Valid, SlotValid
<1>8. PointerOK'
  <2>1. CASE lastSlot = None
    BY <1>1, <1>2, <1>7, <2>1, Sentinels DEF PointerOK, Valid
  <2>2. CASE lastSlot # None
    <3>1. lastSlot \in Valid(running)'
      BY <1>1, <1>2, <1>4, <2>2 DEF PointerOK, Valid, SlotValid
    <3>2. QED
      BY <1>1, <1>2, <1>4, <1>7, <2>2, <3>1 DEF PointerOK
  <2>3. QED
    BY <2>1, <2>2
<1>9. SaveOK'
  BY <1>1, <1>2 DEF SaveOK
<1>10. QED
  BY <1>1, <1>6, <1>8, <1>9 DEF IInv

\* What programming the target leaves, whether the power stays or not.
LEMMA ProgramEffect ==
  ASSUME IInv, pc = "program", running' = running,
         NEW x \in {Blank, Garbage, buf}, flash' = [flash EXCEPT ![target] = x]
  PROVE  /\ SeqUnique' /\ NewestExists'
         /\ flash' \in [Slots -> Record \cup {Blank, Garbage}]
         /\ flash'[target] = x
         /\ target \notin Valid(running)
         /\ Valid(running)' \ {target} = Valid(running)
         /\ \A p \in Valid(running) : flash'[p] = flash[p]
         /\ x = buf => \A p \in Slots : p = target => IsNewest(running, p)'
<1>1. /\ TypeOK /\ SeqUnique /\ NewestExists /\ PointerOK /\ SaveOK /\ InFlight = {}
  BY DEF IInv, InFlight
<1>2. target \in Slots /\ buf \in Record /\ flash[target] = Blank /\ target \notin Valid(running)
      /\ buf.owner = running /\ buf.seq = lastSeq + 1
  BY <1>1 DEF SaveOK, Valid, SlotValid
<1>3. flash' \in [Slots -> Record \cup {Blank, Garbage}]
  BY <1>1, <1>2 DEF TypeOK
<1>4. /\ flash'[target] = x
      /\ Valid(running)' \ {target} = Valid(running)
      /\ \A p \in Valid(running) : flash'[p] = flash[p]
  BY <1>1, <1>2 DEF TypeOK, Valid, SlotValid
<1>5. CASE x \in {Blank, Garbage}
  <2>1. \A p \in Slots : flash'[p] \in {flash[p], Blank, Garbage}
    BY <1>1, <1>5 DEF TypeOK
  <2>2. \A p \in Slots : IsNewest(running, p) => flash'[p] = flash[p]
    BY <1>4 DEF IsNewest
  <2>3. QED
    BY <1>1, <1>2, <1>3, <1>4, <1>5, <2>1, <2>2, KeepNewest, Sentinels
<1>6. CASE x = buf
  <2>1. flash' = [flash EXCEPT ![target] = buf]
    BY <1>6
  <2>2. \A p \in Valid(running) : flash[p].seq \in Nat /\ lastSeq \in Nat /\ flash[p].seq <= lastSeq
    <3>1. \A p \in Valid(running) : flash[p].seq \in Nat
      BY <1>1, ValidFacts
    <3>2. QED
      BY <1>1, <3>1 DEF PointerOK, TypeOK
  <2>3. Valid(running)' = Valid(running) \cup {target}
    BY <1>1, <1>2, <1>4, <2>1, Sentinels DEF TypeOK, Valid, SlotValid
  <2>4. SeqUnique'
    <3>1. ASSUME NEW i \in Instruments, NEW p \in Valid(i)', NEW q \in Valid(i)',
                 flash'[p].seq = flash'[q].seq
          PROVE  p = q
      <4>1. CASE i = running
        <5>1. p \in Valid(running) \cup {target} /\ q \in Valid(running) \cup {target}
          BY <2>1, <3>1, <4>1, <1>1, <1>2 DEF Valid, SlotValid, TypeOK
        <5>2. p \in Valid(running) /\ q \in Valid(running) => p = q
          BY <1>1, <1>4, <3>1 DEF SeqUnique, TypeOK
        <5>3. \A r \in Valid(running) : flash'[r].seq # flash'[target].seq
          BY <1>2, <1>4, <1>6, <2>2
        <5>4. QED
          BY <3>1, <5>1, <5>2, <5>3
      <4>2. CASE i # running
        <5>1. /\ p \in Valid(i) /\ q \in Valid(i)
              /\ flash'[p] = flash[p] /\ flash'[q] = flash[q]
          <6>1. Valid(i)' = Valid(i) /\ target \notin Valid(i)
            BY <1>1, <1>2, <2>1, <4>2, Growing DEF Valid, SlotValid
          <6>2. \A r \in Slots : r # target => flash'[r] = flash[r]
            BY <1>1, <1>2, <2>1, Growing
          <6>3. QED
            BY <3>1, <6>1, <6>2 DEF Valid
        <5>2. QED
          BY <1>1, <3>1, <5>1 DEF SeqUnique
      <4>3. QED
        BY <4>1, <4>2
    <3>2. QED
      BY <3>1 DEF SeqUnique
  <2>5. ASSUME NEW p \in Slots, p = target PROVE IsNewest(running, p)'
    <3>1. \A q \in Valid(running) : flash'[q].seq < flash'[target].seq
      BY <1>2, <1>4, <1>6, <2>2
    <3>2. QED
      BY <2>3, <2>5, <3>1 DEF IsNewest
  <2>6. QED
    BY <1>2, <1>3, <1>4, <2>4, <2>5 DEF NewestExists
<1>7. QED
  BY <1>5, <1>6

\* A programmed record is the only one with its number.
LEMMA ProgramIInv ==
  ASSUME IInv, Program, TypeOK'
  PROVE  IInv'
<1>1. /\ pc = "program" /\ pc' = "verify" /\ running' = running
      /\ lastSlot' = lastSlot /\ lastSeq' = lastSeq /\ target' = target /\ buf' = buf
  BY DEF Program
<1>2. TypeOK /\ PointerOK /\ SaveOK /\ InFlight = {} /\ InFlight' = {target}
  BY <1>1 DEF IInv, InFlight
<1>3. PICK x \in {Blank, Garbage, buf} : flash' = [flash EXCEPT ![target] = x]
  <2>1. target \in Slots /\ flash[target] = Blank
    BY <1>1, <1>2 DEF SaveOK
  <2>2. [flash EXCEPT ![target] = Blank] = flash
    BY <1>2, <2>1 DEF TypeOK
  <2>3. QED
    BY <2>2 DEF Program
<1>4. /\ SeqUnique' /\ NewestExists'
      /\ flash'[target] = x
      /\ target \notin Valid(running)
      /\ Valid(running)' \ {target} = Valid(running)
      /\ \A p \in Valid(running) : flash'[p] = flash[p]
  BY <1>1, <1>3, ProgramEffect
<1>5. PointerOK'
  BY <1>1, <1>2, <1>4 DEF PointerOK
<1>6. SaveOK'
  BY <1>1, <1>2, <1>4 DEF SaveOK
<1>7. QED
  BY <1>1, <1>4, <1>5, <1>6 DEF IInv

\* Acknowledging moves the pointer to the new record; failing needs none
\* of it to have reached the flash.
LEMMA VerifyIInv ==
  ASSUME ReliableReadback, IInv, VerifyOk \/ VerifyFailed, TypeOK'
  PROVE  IInv'
<1>1. /\ pc = "verify" /\ pc' = "idle" /\ running' = running /\ flash' = flash
  BY DEF VerifyOk, VerifyFailed
<1>2. TypeOK /\ PointerOK /\ SaveOK /\ InFlight = {target} /\ InFlight' = {}
  BY <1>1 DEF IInv, InFlight
<1>3. Valid(running)' = Valid(running)
  BY <1>1 DEF Valid, SlotValid
<1>4. SeqUnique' /\ NewestExists'
  BY <1>1 DEF IInv, SeqUnique, NewestExists, IsNewest, Valid, SlotValid
<1>5. \A p \in Valid(running) : flash[p].seq \in Nat
  BY <1>2, ValidFacts
<1>6. CASE VerifyOk
  <2>1. flash[target] = buf /\ lastSlot' = target /\ lastSeq' = lastSeq + 1
    BY <1>6 DEF VerifyOk
  <2>2. target \in Valid(running) /\ flash[target].seq = lastSeq + 1
    BY <1>1, <1>2, <2>1, Sentinels DEF SaveOK, Valid, SlotValid
  <2>3. \A q \in Valid(running) : flash[q].seq <= lastSeq + 1
    BY <1>2, <1>5, <2>2 DEF PointerOK, TypeOK
  <2>4. PointerOK'
    BY <1>1, <1>2, <1>3, <2>1, <2>2, <2>3 DEF PointerOK
  <2>5. QED
    BY <1>1, <1>4, <2>4 DEF IInv
<1>7. CASE VerifyFailed
  <2>1. flash[target] # buf /\ lastSlot' = lastSlot /\ lastSeq' = lastSeq
    BY <1>7 DEF VerifyFailed, ReliableReadback
  <2>2. target \notin Valid(running)
    BY <1>1, <1>2, <2>1 DEF SaveOK, Valid, SlotValid
  <2>3. PointerOK'
    BY <1>1, <1>2, <1>3, <2>1, <2>2 DEF PointerOK
  <2>4. QED
    BY <1>1, <1>4, <2>3 DEF IInv
<1>8. QED
  BY <1>6, <1>7

\* Whatever a power cut leaves in flash, the numbers stay unique.
LEMMA PowerLossIInv ==
  ASSUME IInv, PowerLoss, TypeOK'
  PROVE  IInv'
<1>1. pc' = "off" /\ running' = running
  BY DEF PowerLoss, PowerLossInErase, PowerLossInProgram, PowerLossElsewhere, LoseRam
<1>2. CASE PowerLossInErase
  <2>1. pc = "erase" /\ TypeOK /\ SeqUnique /\ NewestExists /\ SaveOK
    BY <1>2 DEF PowerLossInErase, IInv
  <2>2. \A p \in Slots : /\ flash'[p] \in {flash[p], Blank, Garbage}
                         /\ p[1] # target[1] => flash'[p] = flash[p]
    BY <1>2 DEF PowerLossInErase
  <2>3. \A p \in Slots : IsNewest(running, p) => flash'[p] = flash[p]
    BY <2>1, <2>2, NewestIsPointer, Sentinels DEF SaveOK
  <2>4. flash' \in [Slots -> Record \cup {Blank, Garbage}]
    BY DEF TypeOK
  <2>5. SeqUnique' /\ NewestExists'
    BY <1>1, <2>1, <2>2, <2>3, <2>4, KeepNewest
  <2>6. QED
    BY <1>1, <2>5 DEF IInv
<1>3. CASE PowerLossInProgram
  <2>1. SeqUnique' /\ NewestExists'
    BY <1>1, <1>3, ProgramEffect DEF PowerLossInProgram
  <2>2. QED
    BY <1>1, <2>1 DEF IInv
<1>4. CASE PowerLossElsewhere
  BY <1>1, <1>4 DEF PowerLossElsewhere, IInv, SeqUnique, NewestExists, IsNewest, Valid, SlotValid
<1>5. QED
  BY <1>2, <1>3, <1>4 DEF PowerLoss

\* The inductive invariant holds of every behaviour whose read-back is honest.
THEOREM Inductive == ReliableReadback => (Spec => []IInv)
<1> SUFFICES ASSUME ReliableReadback PROVE Spec => []IInv
  OBVIOUS
<1>1. IInv /\ TypeOK' /\ [Next]_vars => IInv'
  <2> SUFFICES ASSUME IInv, TypeOK', [Next]_vars PROVE IInv'
    OBVIOUS
  <2>1. CASE UNCHANGED vars \/ SaveRefused
    <3>1. /\ flash' = flash /\ running' = running /\ pc' = pc /\ lastSlot' = lastSlot
          /\ lastSeq' = lastSeq /\ target' = target /\ buf' = buf
      BY <2>1 DEF vars, SaveRefused
    <3>2. QED
      BY <3>1 DEF IInv, SeqUnique, NewestExists, PointerOK, InFlight, SaveOK, IsNewest,
                  Valid, SlotValid
  <2>2. QED
    BY <2>1, BootIInv, SaveBeginIInv, EraseIInv, ProgramIInv, VerifyIInv, PowerLossIInv DEF Next
<1>2. QED
  BY <1>1, InitIInv, TypeCorrect, PTL DEF Spec
-----------------------------------------------------------------------------
(* The safety properties.                                                  *)

\* No erase ever takes the sector a boot would load its settings from.
THEOREM SafeEraseHolds == ReliableReadback => (Spec => []SafeErase)
<1>1. IInv => SafeErase
  BY NewestIsPointer, Sentinels DEF SafeErase, IInv, SaveOK
<1>2. QED
  BY <1>1, Inductive, PTL

\* No record is ever programmed over another one.
THEOREM ProgramsBlankHolds == ReliableReadback => (Spec => []ProgramsBlank)
<1>1. IInv => ProgramsBlank
  BY DEF ProgramsBlank, IInv, SaveOK
<1>2. QED
  BY <1>1, Inductive, PTL

\* Sequence numbers are never used twice.
THEOREM SeqUniqueHolds == ReliableReadback => (Spec => []SeqUnique)
<1>1. IInv => SeqUnique
  BY DEF IInv
<1>2. QED
  BY <1>1, Inductive, PTL

\* A scan has at most one result.
LEMMA NewestUnique ==
  TypeOK => \A i : \A p, q \in Slots : IsNewest(i, p) /\ IsNewest(i, q) => p = q
<1> SUFFICES ASSUME TypeOK, NEW i, NEW p \in Slots, NEW q \in Slots,
                    IsNewest(i, p), IsNewest(i, q), p # q
             PROVE  FALSE
  OBVIOUS
<1>1. flash[p].seq \in Nat /\ flash[q].seq \in Nat
  BY ValidFacts DEF IsNewest
<1>2. ~(Precedes(p, q) /\ Precedes(q, p))
  BY VeepromAssumption DEF Precedes, Slots, Sectors
<1>3. QED
  BY <1>1, <1>2 DEF IsNewest

\* The newest record is what a boot loads.
LEMMA StoredNewest ==
  TypeOK => \A i : \A p \in Slots : IsNewest(i, p) => Stored(i) = flash[p].val
<1> SUFFICES ASSUME TypeOK, NEW i, NEW p \in Slots, IsNewest(i, p)
             PROVE  Stored(i) = flash[p].val
  OBVIOUS
<1>1. (CHOOSE q \in Slots : IsNewest(i, q)) = p
  BY NewestUnique
<1>2. QED
  BY <1>1 DEF Stored

\* What a boot loads is a payload or nothing.
LEMMA StoredType == TypeOK => \A i : Stored(i) \in Payloads \cup {None}
<1> SUFFICES ASSUME TypeOK, NEW i PROVE Stored(i) \in Payloads \cup {None}
  OBVIOUS
<1>1. CASE \E p \in Slots : IsNewest(i, p)
  <2>1. PICK p \in Slots : IsNewest(i, p)
    BY <1>1
  <2>2. Stored(i) = flash[p].val /\ p \in Valid(i)
    BY <2>1, StoredNewest DEF IsNewest
  <2>3. QED
    BY <2>2, ValidFacts
<1>2. CASE ~\E p \in Slots : IsNewest(i, p)
  BY <1>2 DEF Stored
<1>3. QED
  BY <1>1, <1>2

\* Between saves, the RAM copy answers what a reboot would answer.
THEOREM RamAgreesHolds == ReliableReadback => (Spec => []RamAgreesWithFlash)
<1>1. IInv => RamAgreesWithFlash
  <2> SUFFICES ASSUME IInv, pc = "idle" PROVE Load = Stored(running)
    BY DEF RamAgreesWithFlash
  <2>1. CASE lastSlot = None
    <3>1. ~\E p \in Slots : IsNewest(running, p)
      BY <2>1, NewestIsPointer, Sentinels
    <3>2. QED
      BY <2>1, <3>1 DEF Load, Stored
  <2>2. CASE lastSlot # None
    <3>1. IsNewest(running, lastSlot) /\ lastSlot \in Slots
      BY <2>2, PointerIsNewest DEF IInv, TypeOK
    <3>2. Stored(running) = flash[lastSlot].val
      BY <3>1, StoredNewest DEF IInv
    <3>3. QED
      BY <2>2, <3>1, <3>2 DEF Load, IsNewest, Valid
  <2>3. QED
    BY <2>1, <2>2
<1>2. QED
  BY <1>1, Inductive, PTL
-----------------------------------------------------------------------------
(* The store implements a durable register.                                *)

\* A step that leaves the flash alone leaves every register alone.
LEMMA SameFlash ==
  ASSUME flash' = flash, NEW i
  PROVE  Stored(i)' = Stored(i)
  BY DEF Stored, IsNewest, Valid, SlotValid

\* What is stored after the step, by the newest record after the step.
LEMMA StoredAfter ==
  /\ TypeOK' => \A i : \A p \in Slots : IsNewest(i, p)' => Stored(i)' = flash'[p].val
  /\ TypeOK' => \A i : Stored(i)' \in Payloads \cup {None}
<1>1. (TypeOK => \A i : \A p \in Slots : IsNewest(i, p) => Stored(i) = flash[p].val)'
  BY StoredNewest, PTL
<1>2. (TypeOK => \A i : Stored(i) \in Payloads \cup {None})'
  BY StoredType, PTL
<1>3. QED
  BY <1>1, <1>2

\* The registers of a step that leaves alone the newest record of i and only
\* removes others, or none at all.
LEMMA KeepStored ==
  ASSUME TypeOK, TypeOK', NEW i,
         \A p \in Slots : flash'[p] \in {flash[p], Blank, Garbage},
         \A p \in Slots : IsNewest(i, p) => flash'[p] = flash[p],
         Valid(i) = {} \/ \E p \in Slots : IsNewest(i, p)
  PROVE  Stored(i)' = Stored(i)
<1>1. /\ Valid(i)' \subseteq Valid(i)
      /\ \A p \in Valid(i)' : flash'[p] = flash[p]
  BY Shrinking DEF TypeOK
<1>2. CASE Valid(i) = {}
  BY <1>1, <1>2 DEF Stored, IsNewest
<1>3. ASSUME NEW p \in Slots, IsNewest(i, p) PROVE Stored(i)' = Stored(i)
  <2>1. flash'[p] = flash[p] /\ p \in Valid(i)
    BY <1>3 DEF IsNewest
  <2>2. p \in Valid(i)'
    BY <2>1 DEF Valid, SlotValid
  <2>3. IsNewest(i, p)'
    BY <1>1, <1>3, <2>1, <2>2 DEF IsNewest
  <2>4. QED
    BY <1>3, <2>1, <2>3, StoredNewest, StoredAfter
<1>4. QED
  BY <1>2, <1>3

\* A step that leaves alone the records of an instrument leaves its register alone.
LEMMA SameValid ==
  ASSUME NEW i, Valid(i)' = Valid(i), \A p \in Valid(i) : flash'[p] = flash[p]
  PROVE  Stored(i)' = Stored(i)
<1>1. \A p \in Slots : IsNewest(i, p)' = IsNewest(i, p)
  BY DEF IsNewest
<1>2. \A p \in Slots : IsNewest(i, p) => flash'[p] = flash[p]
  BY DEF IsNewest
<1>3. CASE \E p \in Slots : IsNewest(i, p)
  <2>1. (CHOOSE p \in Slots : IsNewest(i, p)') = (CHOOSE p \in Slots : IsNewest(i, p))
    BY <1>1
  <2>2. QED
    BY <1>1, <1>2, <1>3, <2>1 DEF Stored
<1>4. CASE ~\E p \in Slots : IsNewest(i, p)
  BY <1>1, <1>4 DEF Stored
<1>5. QED
  BY <1>3, <1>4

\* Programming the whole record changes the running instrument's register to
\* it and no other register; programming anything else changes none.
LEMMA ProgramStored ==
  ASSUME IInv, TypeOK', pc = "program", running' = running,
         NEW x \in {Blank, Garbage, buf}, flash' = [flash EXCEPT ![target] = x],
         NEW i
  PROVE  /\ i = running /\ x = buf => Stored(i)' = buf.val
         /\ i # running \/ x # buf => Stored(i)' = Stored(i)
<1>1. TypeOK /\ target \in Slots /\ buf \in Record /\ flash[target] = Blank /\ buf.owner = running
  BY DEF IInv, SaveOK
<1>2. target \notin Valid(i) /\ flash'[target] = x
  BY <1>1 DEF Valid, SlotValid, TypeOK
<1>3. \A p \in Slots : p # target => flash'[p] = flash[p]
  BY <1>1 DEF TypeOK
<1>4. CASE i # running \/ x # buf
  <2>1. Valid(i)' = Valid(i)
    BY <1>1, <1>2, <1>3, <1>4, Sentinels DEF Valid, SlotValid
  <2>2. \A p \in Valid(i) : flash'[p] = flash[p]
    BY <1>2, <1>3 DEF Valid
  <2>3. QED
    BY <1>4, <2>1, <2>2, SameValid
<1>5. CASE i = running /\ x = buf
  <2>1. ASSUME NEW p \in Slots, p = target PROVE IsNewest(i, p)'
    BY <1>5, <2>1, ProgramEffect DEF IsNewest, Valid, SlotValid
  <2>2. QED
    BY <1>1, <1>2, <1>5, <2>1, StoredAfter
<1>6. QED
  BY <1>4, <1>5

\* An empty log is a set of empty registers.
LEMMA InitRegister == Init => Register!RegInit
  <1> SUFFICES ASSUME Init PROVE Register!RegInit
    OBVIOUS
  <1>1. \A i : Stored(i) = None
    BY DEF Init, Stored, IsNewest, Valid, SlotValid
  <1>2. QED
    BY <1>1 DEF Init, Register!RegInit, SavePhase

\* Every step of the store is a step of the register or invisible to it.
LEMMA StepRegister ==
  ASSUME ReliableReadback, IInv, TypeOK', [Next]_vars
  PROVE  [Register!RegNext]_(Register!regVars)
<1> DEFINE reg == [i \in Instruments |-> Stored(i)]
           writing == IF pc \in {"off", "idle"} THEN None ELSE buf.val
<1>1. TypeOK /\ reg' \in [Instruments -> Payloads \cup {None}]
  BY StoredAfter DEF IInv
<1>2. flash' = flash => reg' = reg
  BY SameFlash
<1>3. CASE UNCHANGED vars
  BY <1>2, <1>3 DEF vars, Register!regVars, SavePhase
<1>4. ASSUME NEW i \in Instruments, Boot(i) PROVE Register!PowerOn(i)
  BY <1>2, <1>4 DEF Boot, Register!PowerOn, SavePhase
<1>5. CASE SaveRefused
  BY <1>2, <1>5 DEF SaveRefused, Register!regVars, SavePhase
<1>6. ASSUME NEW v \in Payloads, SaveBegin(v) PROVE Register!Begin(v)
  BY <1>2, <1>6 DEF SaveBegin, Register!Begin, SavePhase
<1>7. CASE Erase
  <2>1. /\ pc = "erase" /\ pc' = "program" /\ running' = running /\ buf' = buf
        /\ \A p \in Slots : flash'[p] \in {flash[p], Blank, Garbage}
        /\ \A p \in Slots : p[1] # target[1] => flash'[p] = flash[p]
    BY <1>7 DEF Erase
  <2>2. \A p \in Slots : IsNewest(running, p) => flash'[p] = flash[p]
    BY <2>1, NewestIsPointer, Sentinels DEF IInv, SaveOK
  <2>3. ASSUME NEW i, i = running PROVE Stored(i)' = Stored(i)
    BY <1>1, <2>1, <2>2, <2>3, KeepStored DEF IInv, NewestExists
  <2>4. reg'[running] = reg[running]
    BY <2>3 DEF IInv, TypeOK
  <2>5. Register!Reclaim
    BY <1>1, <2>1, <2>4 DEF Register!Reclaim, SavePhase
  <2>6. QED
    BY <2>5 DEF Register!RegNext
<1>8. CASE Program
  <2>1. /\ pc = "program" /\ pc' = "verify" /\ running' = running /\ buf' = buf
        /\ target' = target
    BY <1>8 DEF Program
  <2>2. /\ target \in Slots /\ buf \in Record /\ flash[target] = Blank
        /\ [flash EXCEPT ![target] = Blank] = flash
    BY <1>1, <2>1 DEF IInv, SaveOK, TypeOK
  <2>3. PICK x \in {Blank, Garbage, buf} : flash' = [flash EXCEPT ![target] = x]
    BY <1>8, <2>2 DEF Program
  <2>4. flash'[target] = x
    BY <1>1, <2>2, <2>3 DEF TypeOK
  <2>5. CASE x = buf
    <3>1. \A i : Stored(i)' = IF i = running THEN buf.val ELSE Stored(i)
      BY <2>1, <2>3, <2>5, ProgramStored
    <3>2. reg' = [reg EXCEPT ![running] = writing]
      BY <2>1, <3>1 DEF IInv, TypeOK
    <3>3. SavePhase = "writing" /\ SavePhase' = "written"
      BY <2>1, <2>4, <2>5 DEF SavePhase
    <3>4. Register!Take
      BY <2>1, <3>2, <3>3 DEF Register!Take
    <3>5. QED
      BY <3>4 DEF Register!RegNext
  <2>6. CASE x # buf
    <3>1. \A i : Stored(i)' = Stored(i)
      BY <2>1, <2>3, <2>6, ProgramStored
    <3>2. SavePhase = "writing" /\ SavePhase' = "writing"
      BY <2>1, <2>4, <2>6 DEF SavePhase
    <3>3. QED
      BY <2>1, <3>1, <3>2 DEF Register!regVars
  <2>7. QED
    BY <2>5, <2>6
<1>9. CASE VerifyOk
  BY <1>2, <1>9 DEF VerifyOk, Register!RegNext, Register!Acknowledge, SavePhase
<1>10. CASE VerifyFailed
  BY <1>2, <1>10 DEF VerifyFailed, ReliableReadback, Register!RegNext, Register!Fail, SavePhase
<1>11. CASE PowerLoss
  <2>1. pc' = "off" /\ running' = running /\ pc # "off"
    BY <1>11 DEF PowerLoss, PowerLossInErase, PowerLossInProgram, PowerLossElsewhere, LoseRam
  <2>2. SavePhase' = "off" /\ SavePhase # "off" /\ writing' = None
    BY <2>1 DEF SavePhase, TypeOK
  <2>3. \/ reg' = reg
        \/ SavePhase = "writing" /\ reg'[running] \in {reg[running], writing}
    <3>1. CASE PowerLossInErase
      <4>1. /\ pc = "erase"
            /\ \A p \in Slots : flash'[p] \in {flash[p], Blank, Garbage}
            /\ \A p \in Slots : p[1] # target[1] => flash'[p] = flash[p]
        BY <3>1 DEF PowerLossInErase
      <4>2. \A p \in Slots : IsNewest(running, p) => flash'[p] = flash[p]
        BY <4>1, NewestIsPointer, Sentinels DEF IInv, SaveOK
      <4>3. ASSUME NEW i, i = running PROVE Stored(i)' = Stored(i)
        BY <1>1, <4>1, <4>2, <4>3, KeepStored DEF IInv, NewestExists
      <4>4. QED
        BY <4>1, <4>3 DEF IInv, TypeOK, SavePhase
    <3>2. CASE PowerLossInProgram
      <4>1. PICK x \in {Blank, Garbage, buf} : flash' = [flash EXCEPT ![target] = x]
        BY <3>2 DEF PowerLossInProgram
      <4>2. \A i : Stored(i)' = IF i = running /\ x = buf THEN buf.val ELSE Stored(i)
        BY <2>1, <3>2, <4>1, ProgramStored DEF PowerLossInProgram
      <4>3. QED
        BY <3>2, <4>2 DEF IInv, TypeOK, PowerLossInProgram, SavePhase
    <3>3. CASE PowerLossElsewhere
      BY <1>2, <3>3 DEF PowerLossElsewhere
    <3>4. QED
      BY <1>11, <3>1, <3>2, <3>3 DEF PowerLoss
  <2>4. Register!PowerLoss
    BY <1>1, <2>1, <2>2, <2>3 DEF Register!PowerLoss
  <2>5. QED
    BY <2>4 DEF Register!RegNext
<1>12. QED
  BY <1>3, <1>4, <1>5, <1>6, <1>7, <1>8, <1>9, <1>10, <1>11 DEF Next, Register!RegNext

\* Saves are atomic across power cuts and failed writes, acknowledged ones last.
THEOREM AtomicRegisterHolds == ReliableReadback => (Spec => AtomicRegister)
<1> SUFFICES ASSUME ReliableReadback PROVE Spec => AtomicRegister
  OBVIOUS
<1>1. IInv /\ TypeOK' /\ [Next]_vars => [Register!RegNext]_(Register!regVars)
  BY StepRegister
<1>2. QED
  BY <1>1, InitRegister, Inductive, TypeCorrect, PTL DEF Spec, AtomicRegister, Register!RegSpec
=============================================================================
