--------------------------- MODULE AutosaveProofs ---------------------------
(***************************************************************************)
(* What the autosave task believes of flash is true, for every set of      *)
(* settings, every settling time and however late the polls come.          *)
(***************************************************************************)
EXTENDS Autosave, TLAPS

\* The belief survives into the write, which only replaces it at its end.
Belief ==
  /\ phase \in {"idle", "writing"} /\ baseline /\ ~early => lastSaved = Restored
  /\ phase = "idle" /\ ~baseline /\ ~early => live = Restored

\* What is being written is the pending snapshot, and it is news.
Writing ==
  /\ phase \in {"writing", "written"} =>
       baseline /\ writing = pending /\ pending \in Payloads /\ pending # lastSaved
  /\ phase = "written" => reg[running] = writing

IInv == TypeOK /\ Belief /\ Writing
-----------------------------------------------------------------------------
\* The task starts with nothing believed.
LEMMA InitIInv == Init => IInv
<1> SUFFICES ASSUME Init PROVE IInv
  OBVIOUS
<1>1. RegTypeOK /\ 0 \in 0 .. Stable - 1
  BY AutosaveAssumption DEF Init, RegInit, RegTypeOK
<1>2. QED
  BY <1>1, AutosaveAssumption
  DEF Init, InitTask, RegInit, IInv, TypeOK, Belief, Writing

\* Booting restores the register and forgets the belief; a cut forgets both.
LEMMA PowerIInv == IInv /\ (Boot \/ Cut) => IInv'
<1> SUFFICES ASSUME IInv, Boot \/ Cut PROVE IInv'
  OBVIOUS
<1>1. CASE Boot
  <2>1. /\ RegTypeOK' /\ Restored \in Payloads /\ 0 \in 0 .. Stable - 1
        /\ phase' = "idle" /\ Restored' = Restored
    BY <1>1, AutosaveAssumption DEF Boot, PowerOn, IInv, TypeOK, RegTypeOK, Restored
  <2>2. QED
    BY <1>1, <2>1 DEF Boot, IInv, TypeOK, Belief, Writing
<1>2. CASE Cut
  <2>1. RegTypeOK' /\ phase' = "off" /\ UNCHANGED <<live, task, early>>
    BY <1>2 DEF Cut, PowerLoss, IInv, TypeOK, RegTypeOK
  <2>2. QED
    BY <2>1 DEF task, IInv, TypeOK, Belief, Writing
<1>3. QED
  BY <1>1, <1>2

\* Settings that change before the first poll are the exception the history
\* variable records.
LEMMA ChangeIInv == ASSUME IInv, NEW v \in Payloads, Change(v) PROVE IInv'
<1>1. early' \in BOOLEAN /\ (~early' => ~early /\ baseline)
  BY DEF Change, IInv, TypeOK
<1>2. RegTypeOK' /\ Restored' = Restored
  BY DEF Change, regVars, IInv, TypeOK, RegTypeOK, Restored
<1>3. QED
  BY <1>1, <1>2 DEF Change, regVars, task, IInv, TypeOK, Belief, Writing

\* A poll that writes nothing.
LEMMA QuietPollIInv ==
  ASSUME IInv, NEW d \in 1 .. MaxGap, PollBaseline \/ PollUnchanged \/ PollMoved \/ PollWait(d)
  PROVE  IInv'
<1>1. UNCHANGED <<regVars, live, early>> /\ phase = "idle"
  BY DEF PollBaseline, PollUnchanged, PollMoved, PollWait
<1>2. RegTypeOK' /\ Restored' = Restored
  BY <1>1 DEF regVars, IInv, TypeOK, RegTypeOK, Restored
<1>3. pendingAge' \in 0 .. Stable - 1
  BY AutosaveAssumption DEF PollBaseline, PollUnchanged, PollMoved, PollWait, IInv, TypeOK
<1>4. /\ baseline' \in BOOLEAN /\ pendingActive' \in BOOLEAN
      /\ lastSaved' \in Payloads \cup {None} /\ pending' \in Payloads \cup {None}
      /\ baseline' => lastSaved' # None
  <2>1. live \in Payloads /\ None \notin Payloads
    BY AutosaveAssumption DEF IInv, TypeOK
  <2>2. CASE PollBaseline
    BY <2>1, <2>2 DEF PollBaseline, IInv, TypeOK
  <2>3. CASE PollUnchanged
    BY <2>1, <2>3, <1>1 DEF PollUnchanged, IInv, TypeOK
  <2>4. CASE PollMoved
    BY <2>1, <2>4, <1>1 DEF PollMoved, IInv, TypeOK
  <2>5. CASE PollWait(d)
    BY <2>1, <2>5, <1>1 DEF PollWait, IInv, TypeOK
  <2>6. QED
    BY <2>2, <2>3, <2>4, <2>5
<1>5. Belief'
  <2>1. CASE PollBaseline
    BY <2>1, <1>1, <1>2 DEF PollBaseline, regVars, IInv, Belief
  <2>2. CASE PollUnchanged \/ PollMoved \/ PollWait(d)
    BY <2>2, <1>1, <1>2 DEF PollUnchanged, PollMoved, PollWait, regVars, IInv, Belief
  <2>3. QED
    BY <2>1, <2>2
<1>6. QED
  BY <1>1, <1>2, <1>3, <1>4, <1>5 DEF regVars, IInv, TypeOK, Writing

\* A poll that writes, the write, and its end.
LEMMA SaveIInv ==
  ASSUME IInv, (\E d \in 1 .. MaxGap : PollSaves(d)) \/ SaveTakes \/ SaveSucceeded \/ SaveFailed
  PROVE  IInv'
<1>1. CASE \E d \in 1 .. MaxGap : PollSaves(d)
  <2>1. /\ phase = "idle" /\ phase' = "writing" /\ writing' = pending
        /\ pending = live /\ live # lastSaved /\ baseline
        /\ UNCHANGED <<reg, running, live, task, early>>
    BY <1>1 DEF PollSaves, Begin, Holding, Differs
  <2>2. RegTypeOK' /\ Restored' = Restored
    BY <2>1 DEF IInv, TypeOK, RegTypeOK, Restored
  <2>3. QED
    BY <2>1, <2>2 DEF task, IInv, TypeOK, Belief, Writing
<1>2. CASE SaveTakes
  <2>1. /\ phase = "writing" /\ phase' = "written" /\ UNCHANGED <<running, writing, live, task, early>>
        /\ reg' = [reg EXCEPT ![running] = writing]
    BY <1>2 DEF SaveTakes, Take
  <2>2. /\ writing \in Payloads /\ running \in Instruments
        /\ reg \in [Instruments -> Payloads \cup {None}]
    BY <2>1 DEF IInv, TypeOK, RegTypeOK, Writing
  <2>3. RegTypeOK' /\ reg'[running'] = writing'
    BY <2>1, <2>2 DEF IInv, TypeOK, RegTypeOK
  <2>4. QED
    BY <2>1, <2>3 DEF task, IInv, TypeOK, Belief, Writing
<1>3. CASE SaveSucceeded
  <2>1. /\ phase = "written" /\ phase' = "idle" /\ UNCHANGED <<reg, running>>
        /\ lastSaved' = pending /\ writing' = None
    BY <1>3 DEF SaveSucceeded, Acknowledge
  <2>2. RegTypeOK' /\ Restored' = pending /\ pending \in Payloads /\ baseline
    BY <2>1, AutosaveAssumption DEF IInv, TypeOK, RegTypeOK, Writing, Restored
  <2>3. QED
    BY <1>3, <2>1, <2>2, AutosaveAssumption DEF SaveSucceeded, IInv, TypeOK, Belief, Writing
<1>4. CASE SaveFailed
  <2>1. /\ phase = "writing" /\ phase' = "idle" /\ UNCHANGED <<reg, running>> /\ writing' = None
    BY <1>4 DEF SaveFailed, Fail
  <2>2. RegTypeOK' /\ Restored' = Restored /\ baseline
    BY <2>1 DEF IInv, TypeOK, RegTypeOK, Writing, Restored
  <2>3. QED
    BY <1>4, <2>1, <2>2 DEF SaveFailed, IInv, TypeOK, Belief, Writing
<1>5. QED
  BY <1>1, <1>2, <1>3, <1>4

\* The inductive invariant of the autosave task.
THEOREM Inductive == Spec => []IInv
<1>1. IInv /\ [Next]_vars => IInv'
  <2> SUFFICES ASSUME IInv, [Next]_vars PROVE IInv'
    OBVIOUS
  <2>1. CASE Boot \/ Cut
    BY <2>1, PowerIInv
  <2>2. CASE \E v \in Payloads : Change(v)
    BY <2>2, ChangeIInv
  <2>3. CASE Poll
    <3>1. 1 \in 1 .. MaxGap
      BY AutosaveAssumption
    <3>2. QED
      BY <2>3, <3>1, QuietPollIInv, SaveIInv DEF Poll
  <2>4. CASE SaveTakes \/ SaveSucceeded \/ SaveFailed
    BY <2>4, SaveIInv
  <2>5. CASE UNCHANGED vars
    BY <2>5 DEF vars, regVars, task, IInv, TypeOK, RegTypeOK, Belief, Writing, Restored
  <2>6. QED
    BY <2>1, <2>2, <2>3, <2>4, <2>5 DEF Next
<1>2. QED
  BY <1>1, InitIInv, PTL DEF Spec

\* Every variable of the task keeps its type.
THEOREM TypeCorrect == Spec => []TypeOK
<1>1. IInv => TypeOK
  BY DEF IInv
<1>2. QED
  BY <1>1, Inductive, PTL

\* From the first poll on, what the task compares with is what flash holds.
THEOREM BeliefIsFlashHolds == Spec => []BeliefIsFlash
<1>1. IInv => BeliefIsFlash
  BY DEF IInv, Belief, BeliefIsFlash
<1>2. QED
  BY <1>1, Inductive, PTL

\* Flash is never worn by writing what it holds already.
THEOREM NoRedundantWriteHolds == Spec => []NoRedundantWrite
<1>1. IInv => NoRedundantWrite
  BY DEF IInv, Belief, Writing, NoRedundantWrite
<1>2. QED
  BY <1>1, Inductive, PTL
=============================================================================
