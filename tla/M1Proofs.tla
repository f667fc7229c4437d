------------------------------ MODULE M1Proofs ------------------------------
(***************************************************************************)
(* The M1's memory.  For any number of sectors and any contents, what      *)
(* differs from its mirror in flash is marked, and no boot ever finds a    *)
(* mixture.  What SysEx loads into it is one message, if one wire sends,   *)
(* and what it sends is lost only where the host does not read.            *)
(***************************************************************************)
EXTENDS M1Memory, M1SysEx, TLAPS, WellFoundedInduction

\* store() goes through the marked sectors from the first, which holds the
\* header, so that the header is right before any other sector is touched.
Progress ==
  /\ dirty # {} => 0 \in dirty
  /\ \A s \in Sectors, step \in {"erase", "program"} :
       writing = <<s, step>> =>
         /\ s \in dirty
         /\ \A t \in dirty : t < s => flash[t] = image[t]
         /\ s > 0 => header = image

MemoryIInv == MemoryTypeOK /\ Progress /\ MirrorIsCovered
-----------------------------------------------------------------------------
\* Sectors are numbers from 0, and a store's place is none of the sentinels.
LEMMA SectorFacts ==
  /\ 0 \in Sectors /\ Sectors \subseteq Nat
  /\ \A s \in Sectors : s + 1 \in Nat
  /\ \A s \in Sectors, step \in {"erase", "program"} : <<s, step>> # Idle
  BY MemoryAssumption DEF Sectors

\* NextDirty is the first marked sector from least on, or Idle.
LEMMA NextDirtyFirst ==
  ASSUME NEW least \in Nat, dirty \subseteq Sectors
  PROVE  \/ NextDirty(least) = Idle /\ \A t \in dirty : t < least
         \/ \E m \in dirty :
              /\ NextDirty(least) = <<m, "erase">> /\ least <= m
              /\ \A t \in dirty : t < m => t < least
<1> DEFINE rest == {s \in dirty : s >= least}
<1>1. CASE rest = {}
  BY <1>1, SectorFacts DEF NextDirty
<1>2. CASE rest # {}
  <2> DEFINE first == CHOOSE s \in rest : \A t \in rest : s <= t
  <2>1. rest \subseteq Nat
    BY SectorFacts
  <2>2. \E x \in rest : \A y \in rest : ~(<<y, x>> \in OpToRel(<, Nat))
    BY <1>2, <2>1, WFMin, NatLessThanWellFounded, Zenon
  <2>3. \E x \in rest : \A y \in rest : x <= y
    <3>1. PICK x \in rest : \A y \in rest : ~(<<y, x>> \in OpToRel(<, Nat))
      BY <2>2
    <3>2. \A y \in rest : y < x => <<y, x>> \in OpToRel(<, Nat)
      BY <2>1 DEF OpToRel
    <3>3. \A y \in rest : ~(y < x)
      BY <3>1, <3>2, Zenon
    <3>4. \A y \in rest : x <= y
      BY <2>1, <3>3
    <3>5. QED
      BY <3>4
  <2>4. first \in rest /\ \A t \in rest : first <= t
    BY <2>3, Zenon
  <2>5. NextDirty(least) = <<first, "erase">>
    BY <1>2 DEF NextDirty
  <2> HIDE DEF first
  <2>6. \A t \in dirty : t < first => t < least
    BY <2>4, SectorFacts
  <2>7. QED
    BY <2>4, <2>5, <2>6
<1>3. QED
  BY <1>1, <1>2

\* What a boot finds is an image.
LEMMA FoundIsImage == MemoryTypeOK => Found \in Images
  BY MemoryAssumption DEF MemoryTypeOK, Found, Intact

\* A device boots with empty flash or with a mirror.
LEMMA InitMemory == MemoryInit => MemoryIInv
<1> SUFFICES ASSUME MemoryInit PROVE MemoryIInv
  OBVIOUS
<1>1. flash \in [Sectors -> Contents \cup {Garbage}] /\ header \in Images \cup {Garbage}
  BY MemoryAssumption DEF MemoryInit, Images
<1>2. MemoryTypeOK
  BY <1>1, MemoryAssumption DEF MemoryInit, MemoryTypeOK, Found, Intact
<1>3. Progress
  BY SectorFacts DEF MemoryInit, Progress
<1>4. MirrorIsCovered
  BY DEF MemoryInit, MirrorIsCovered, Found, Intact
<1>5. QED
  BY <1>2, <1>3, <1>4 DEF MemoryIInv

\* A boot in any state of the flash.
LEMMA PowerCycleIInv == MemoryIInv /\ PowerCycle => MemoryIInv'
<1> SUFFICES ASSUME MemoryIInv, PowerCycle PROVE MemoryIInv'
  OBVIOUS
<1>1. Found' = Found /\ Intact' = Intact
  BY DEF PowerCycle, Found, Intact
<1>2. MemoryTypeOK'
  BY FoundIsImage DEF MemoryIInv, MemoryTypeOK, PowerCycle, Intact
<1>3. Progress'
  BY SectorFacts DEF PowerCycle, Progress
<1>4. MirrorIsCovered'
  BY <1>1 DEF PowerCycle, MirrorIsCovered, Found, Intact
<1>5. QED
  BY <1>2, <1>3, <1>4 DEF MemoryIInv

\* A change of RAM that marks what it may have changed, and sector 0.
LEMMA MarkedIInv ==
  ASSUME MemoryIInv, writing = Idle,
         NEW range \in SUBSET Sectors,
         image' \in Images, \A s \in Sectors \ range : image'[s] = image[s],
         dirty' = dirty \cup range \cup {0}, recent' = TRUE,
         UNCHANGED <<fromFlash, protect, sounding, flash, header, writing>>
  PROVE  MemoryIInv'
<1>1. MemoryTypeOK'
  BY SectorFacts DEF MemoryIInv, MemoryTypeOK
<1>2. Progress'
  BY SectorFacts DEF Progress
<1>3. MirrorIsCovered'
  BY SectorFacts DEF MemoryIInv, MirrorIsCovered
<1>4. QED
  BY <1>1, <1>2, <1>3 DEF MemoryIInv

\* A change by one value over a range of sectors.
LEMMA ChangeIInv ==
  ASSUME MemoryIInv, NEW range \in SUBSET Sectors, NEW c \in Contents, Change(range, c)
  PROVE  MemoryIInv'
<1>1. image' \in Images /\ \A s \in Sectors \ range : image'[s] = image[s]
  BY DEF MemoryIInv, MemoryTypeOK, Change, Put, Images
<1>2. QED
  BY <1>1, MarkedIInv DEF Change, Touch

\* Every change of the image on the panel or by a dump.
LEMMA EditIInv == MemoryIInv /\ (WriteRecord \/ EditGlobal \/ LoadBank \/ FactoryReset) => MemoryIInv'
<1> SUFFICES ASSUME MemoryIInv, WriteRecord \/ EditGlobal \/ LoadBank \/ FactoryReset PROVE MemoryIInv'
  OBVIOUS
<1>1. CASE WriteRecord
  <2>1. PICK s \in Sectors, c \in Contents :
          \E t \in {s, s + 1} \cap Sectors : Change({s, t}, c)
    BY <1>1 DEF WriteRecord
  <2>2. QED
    BY <2>1, ChangeIInv
<1>2. CASE EditGlobal
  BY <1>2, SectorFacts, ChangeIInv DEF EditGlobal
<1>3. CASE LoadBank
  <2>1. PICK from \in Sectors, to \in Sectors, c \in Contents : Change(from .. to, c)
    BY <1>3 DEF LoadBank
  <2>2. from .. to \subseteq Sectors
    BY MemoryAssumption DEF Sectors
  <2>3. QED
    BY <2>1, <2>2, ChangeIInv
<1>4. CASE FactoryReset
  BY <1>4, MemoryAssumption, MarkedIInv DEF FactoryReset, Touch
<1>5. QED
  BY <1>1, <1>2, <1>3, <1>4

\* The switch, the notes and the clock change nothing the mirror is about.
LEMMA PlayerIInv == MemoryIInv /\ (ToggleProtect \/ Play \/ Settle \/ UNCHANGED memoryVars) => MemoryIInv'
<1> SUFFICES ASSUME MemoryIInv, ToggleProtect \/ Play \/ Settle \/ UNCHANGED memoryVars PROVE MemoryIInv'
  OBVIOUS
<1>1. UNCHANGED <<image, dirty, fromFlash, flash, header, writing>>
  BY DEF ToggleProtect, Play, Settle, memoryVars
<1>2. MemoryTypeOK'
  BY <1>1 DEF MemoryIInv, MemoryTypeOK, ToggleProtect, Play, Settle, memoryVars
<1>3. Progress' /\ MirrorIsCovered'
  BY <1>1 DEF MemoryIInv, Progress, MirrorIsCovered, Found, Intact
<1>4. QED
  BY <1>2, <1>3 DEF MemoryIInv
-----------------------------------------------------------------------------
(* store()                                                                 *)

\* It begins with sector 0, which is marked whenever any is.
LEMMA StoreBeginIInv == MemoryIInv /\ StoreBegin => MemoryIInv'
<1> SUFFICES ASSUME MemoryIInv, StoreBegin PROVE MemoryIInv'
  OBVIOUS
<1>1. dirty \subseteq Sectors /\ 0 \in dirty
  BY DEF MemoryIInv, MemoryTypeOK, Progress, StoreBegin
<1>2. NextDirty(0) = <<0, "erase">>
  <2>1. PICK m \in dirty :
          NextDirty(0) = <<m, "erase">> /\ \A t \in dirty : t < m => t < 0
    BY <1>1, NextDirtyFirst, SectorFacts
  <2>2. m = 0
    BY <1>1, <2>1, SectorFacts
  <2>3. QED
    BY <2>1, <2>2
<1>3. writing' = <<0, "erase">> /\ UNCHANGED <<image, dirty, fromFlash, protect, recent, sounding, flash, header>>
  BY <1>2 DEF StoreBegin
<1>4. MemoryTypeOK'
  BY <1>3, SectorFacts DEF MemoryIInv, MemoryTypeOK
<1>5. Progress'
  BY <1>1, <1>3, SectorFacts DEF Progress
<1>6. MirrorIsCovered'
  BY <1>3 DEF MemoryIInv, MirrorIsCovered, Found, Intact
<1>7. QED
  BY <1>4, <1>5, <1>6 DEF MemoryIInv

\* The sector that is erased is marked.
LEMMA StoreEraseIInv == MemoryIInv /\ StoreErase => MemoryIInv'
<1> SUFFICES ASSUME MemoryIInv, NEW s \in Sectors,
                    writing = <<s, "erase">>,
                    flash' = [flash EXCEPT ![s] = Garbage],
                    header' = (IF s = 0 THEN Garbage ELSE header),
                    writing' = <<s, "program">>,
                    UNCHANGED <<image, dirty, fromFlash, protect, recent, sounding>>
             PROVE  MemoryIInv'
  BY DEF StoreErase
<1>1. /\ s \in dirty
      /\ s > 0 => header = image
      /\ \A t \in dirty : t < s => flash[t] = image[t]
  BY DEF MemoryIInv, Progress
<1>2. MemoryTypeOK'
  BY DEF MemoryIInv, MemoryTypeOK
<1>3. \A t \in Sectors : t # s => flash'[t] = flash[t]
  BY DEF MemoryIInv, MemoryTypeOK
<1>4. Progress'
  <2>1. \A t \in dirty : t < s => flash'[t] = image'[t]
    BY <1>1, <1>3, SectorFacts DEF MemoryIInv, MemoryTypeOK
  <2>2. s > 0 => header' = image'
    BY <1>1, SectorFacts
  <2>3. QED
    BY <1>1, <2>1, <2>2 DEF MemoryIInv, Progress
<1>5. MirrorIsCovered'
  <2>1. fromFlash => \A t \in Sectors : flash'[t] # image[t] => t \in dirty
    BY <1>1, <1>3 DEF MemoryIInv, MirrorIsCovered
  <2>2. 0 \in dirty /\ dirty # {}
    BY <1>1 DEF MemoryIInv, Progress
  <2>3. QED
    BY <2>1, <2>2 DEF MirrorIsCovered
<1>6. QED
  BY <1>2, <1>4, <1>5 DEF MemoryIInv

\* When the last marked sector is programmed, flash agrees with RAM wherever
\* it was marked, and it agreed elsewhere all along.
LEMMA StoreProgramIInv == MemoryIInv /\ StoreProgram => MemoryIInv'
<1> SUFFICES ASSUME MemoryIInv, NEW s \in Sectors,
                    writing = <<s, "program">>,
                    flash' = [flash EXCEPT ![s] = image[s]],
                    header' = (IF s = 0 THEN image ELSE header),
                    writing' = NextDirty(s + 1),
                    dirty' = (IF writing' = Idle THEN {} ELSE dirty),
                    UNCHANGED <<image, fromFlash, protect, recent, sounding>>
             PROVE  MemoryIInv'
  BY DEF StoreProgram
<1>1. /\ s \in dirty
      /\ s > 0 => header = image
      /\ \A t \in dirty : t < s => flash[t] = image[t]
  BY DEF MemoryIInv, Progress
<1>2. /\ dirty \subseteq Sectors /\ flash \in [Sectors -> Contents \cup {Garbage}]
      /\ image \in Images /\ image \in [Sectors -> Contents]
  BY DEF MemoryIInv, MemoryTypeOK, Images
<1>3. header' = image
  <2>1. s \in Nat
    BY SectorFacts
  <2>2. s = 0 \/ s > 0
    BY <2>1
  <2>3. QED
    BY <1>1, <2>2
<1>4. /\ flash' \in [Sectors -> Contents \cup {Garbage}] /\ flash'[s] = image[s]
      /\ \A t \in Sectors : t # s => flash'[t] = flash[t]
  BY <1>2
<1>5. \A t \in dirty : t < s + 1 => flash'[t] = image[t]
  BY <1>1, <1>2, <1>4, SectorFacts
<1>6. CASE writing' = Idle
  <2>1. \A t \in dirty : t < s + 1
    BY <1>2, <1>6, NextDirtyFirst, SectorFacts
  <2>2. fromFlash => \A t \in Sectors : flash'[t] = image[t]
    BY <1>4, <1>5, <2>1 DEF MemoryIInv, MirrorIsCovered
  <2>3. fromFlash => flash' = image
    BY <1>2, <1>4, <2>2
  <2>4. MemoryTypeOK'
    BY <1>2, <1>3, <1>4, <1>6 DEF MemoryIInv, MemoryTypeOK
  <2>5. Progress'
    BY <1>6, SectorFacts DEF Progress
  <2>6. MirrorIsCovered'
    BY <1>2, <1>3, <2>2, <2>3, MemoryAssumption DEF MirrorIsCovered, Found, Intact
  <2>7. QED
    BY <2>4, <2>5, <2>6 DEF MemoryIInv
<1>7. CASE writing' # Idle
  <2>1. PICK m \in dirty :
          /\ writing' = <<m, "erase">> /\ s + 1 <= m
          /\ \A t \in dirty : t < m => t < s + 1
    BY <1>2, <1>7, NextDirtyFirst, SectorFacts
  <2>2. MemoryTypeOK'
    BY <1>2, <1>3, <1>4, <1>7, <2>1 DEF MemoryIInv, MemoryTypeOK
  <2>3. Progress'
    BY <1>2, <1>3, <1>5, <1>7, <2>1 DEF MemoryIInv, Progress
  <2>4. MirrorIsCovered'
    BY <1>1, <1>3, <1>4, <1>7 DEF MemoryIInv, MirrorIsCovered
  <2>5. QED
    BY <2>2, <2>3, <2>4 DEF MemoryIInv
<1>8. QED
  BY <1>6, <1>7

\* Each step of a store, an edit and a power cut keep the invariant.
LEMMA NextMemory == MemoryIInv /\ [MemoryNext]_memoryVars => MemoryIInv'
  BY PowerCycleIInv, EditIInv, PlayerIInv, StoreBeginIInv, StoreEraseIInv, StoreProgramIInv
  DEF MemoryNext

\* The invariant behind the results below.
THEOREM MemoryInductive == MemorySpec => []MemoryIInv
<1>1. QED
  BY InitMemory, NextMemory, PTL DEF MemorySpec

\* The variables of the memory keep their types, the marks within the image.
THEOREM MemoryTypeCorrect == MemorySpec => []MemoryTypeOK
<1>1. MemoryIInv => MemoryTypeOK
  BY DEF MemoryIInv
<1>2. QED
  BY <1>1, MemoryInductive, PTL

\* For every number of sectors, what differs between RAM and a mirror that
\* was found at boot is marked.
THEOREM MirrorIsCoveredHolds == MemorySpec => []MirrorIsCovered
<1>1. MemoryIInv => MirrorIsCovered
  BY DEF MemoryIInv
<1>2. QED
  BY <1>1, MemoryInductive, PTL
-----------------------------------------------------------------------------
\* With sector s changed alone and not by its header, only the image that the
\* header was made of can check out.
LEMMA StoreFound ==
  MemoryIInv /\ (StoreErase \/ StoreProgram) => Found' \in {Preload, image}
<1> SUFFICES ASSUME MemoryIInv, StoreErase \/ StoreProgram PROVE Found' \in {Preload, image}
  OBVIOUS
<1>1. CASE StoreErase
  <2>1. PICK s \in Sectors : flash' = [flash EXCEPT ![s] = Garbage]
    BY <1>1 DEF StoreErase
  <2>2. flash'[s] = Garbage
    BY <2>1 DEF MemoryIInv, MemoryTypeOK
  <2>3. header' \in Images \cup {Garbage}
    BY <1>1 DEF StoreErase, MemoryIInv, MemoryTypeOK
  <2>4. ~Intact'
    BY <2>2, <2>3, MemoryAssumption DEF Intact, Images
  <2>5. QED
    BY <2>4 DEF Found
<1>2. CASE StoreProgram
  <2>1. PICK s \in Sectors :
          writing = <<s, "program">> /\ header' = (IF s = 0 THEN image ELSE header)
    BY <1>2 DEF StoreProgram
  <2>2. s > 0 => header = image
    BY <2>1 DEF MemoryIInv, Progress
  <2>3. s \in Nat
    BY SectorFacts
  <2>4. s = 0 \/ s > 0
    BY <2>3
  <2>5. header' = image
    BY <2>1, <2>2, <2>4
  <2>6. QED
    BY <2>5 DEF Found
<1>3. QED
  BY <1>1, <1>2

\* Wherever the power fails in a store, and however edits and stores follow
\* each other, the next boot finds the preload, what it would have found
\* before, or RAM.
THEOREM BootFindsSnapshotHolds == MemorySpec => BootFindsSnapshot
<1>1. MemoryIInv /\ [MemoryNext]_memoryVars => [Found' \in {Found, Preload, image}]_memoryVars
  <2> SUFFICES ASSUME MemoryIInv, MemoryNext PROVE Found' \in {Found, Preload, image}
    OBVIOUS
  <2>1. CASE StoreErase \/ StoreProgram
    BY <2>1, StoreFound
  <2>2. CASE ~(StoreErase \/ StoreProgram)
    <3>1. UNCHANGED <<flash, header>>
      BY <2>2 DEF MemoryNext, PowerCycle, WriteRecord, EditGlobal, LoadBank, Change,
        FactoryReset, StoreBegin, ToggleProtect, Play, Settle
    <3>2. QED
      BY <3>1 DEF Found, Intact
  <2>3. QED
    BY <2>1, <2>2
<1>2. QED
  BY <1>1, MemoryInductive, PTL DEF MemorySpec, BootFindsSnapshot

-----------------------------------------------------------------------------
(***************************************************************************)
(* SysEx (M1SysEx).                                                        *)
(***************************************************************************)

\* The first n units unpacked of a bank are message m's and in order; they are
\* all there is of it, if nothing has missed the parser, and fewer than were
\* sent, if something has and what follows the bank has not begun.
Unpacked(m, bank, n, buf) ==
  LET filled == First(bank) .. First(bank) + n - 1 IN
    /\ bank = m.kind /\ n <= Need(bank) /\ n <= m.sent
    /\ \A i \in filled : buf[i] \in {m.value} \X (i .. First(bank) + m.sent - 1)
    /\ \A i, j \in filled : i < j => buf[i][2] < buf[j][2]
    /\ m.missed => (m.sent <= Need(bank) => n < m.sent)
    /\ ~m.missed => n = Least(m.sent, Need(bank)) /\ \A i \in filled : buf[i] = <<m.value, i>>

\* That is what the staging buf holds of the message on the wire.
Staged ==
  \A w \in Wires :
    wire[w] # None /\ func \in Banks => Unpacked(wire[w], func, out, stage)

\* One of the two wires, USB and DIN, is in use.
OneWire == \E w \in Wires : Wires = {w}

\* What is written is never more than the room just found, so the types are
\* all that is needed to exclude a loss.
SysExIInv == TypeOK /\ LosesOnlyStalled
-----------------------------------------------------------------------------
\* No message needs more data than memory is long; a bank ends where it does.
LEMMA NeedRange ==
  ASSUME NEW kind \in Kinds
  PROVE  /\ Need(kind) \in 0 .. Units /\ First(kind) \in {1, 2}
         /\ kind \in Banks => First(kind) + Need(kind) = Units + 1
         /\ Longest(kind) \in Nat /\ First(kind) + Longest(kind) <= Units + Tail + 1
  BY SysExAssumption DEF Need, First, Longest, Kinds, Banks

\* The unit that comes next has a place.
LEMMA NextUnit ==
  ASSUME NEW m \in Messages, m.sent < Longest(m.kind)
  PROVE  /\ <<m.value, First(m.kind) + m.sent>> \in SentUnits
         /\ [m EXCEPT !.sent = @ + 1] \in Messages
         /\ [[m EXCEPT !.sent = @ + 1] EXCEPT !.missed = TRUE] \in Messages
<1>1. m.kind \in Kinds /\ m.value \in Values /\ m.sent \in Nat /\ Units \in Nat /\ Tail \in Nat
  BY SysExAssumption DEF Messages
<1>2. /\ First(m.kind) + m.sent \in Places /\ m.sent + 1 \in 0 .. Units + Tail
      /\ m.sent + 1 <= Longest(m.kind)
  BY <1>1, NeedRange DEF Places
<1>3. QED
  BY <1>1, <1>2 DEF Messages, SentUnits

\* What memory may have been given: units of a message, in some of its places.
LoadedOK ==
  loaded \in UNION {[places -> SentUnits \cup {None}] : places \in SUBSET (1 .. Units)}

\* What the output rings may hold, how far a dump may be, what the host may do.
RingStates == [din : 0 .. DinSize, usb : 0 .. UsbSize, lost : SUBSET {"din", "usb"}]
RunningDumps == (0 .. DumpChunks - 1) \cup {None}
HostOK == host \in {"reads", "idles", "absent"} /\ stalled \in BOOLEAN

\* The room that is found is there in the DIN ring, and in the USB queue too
\* unless the host is known not to read.
LEMMA RoomIs ==
  ASSUME NEW r \in RingStates, HostOK
  PROVE  /\ Room(r) \in Nat
         /\ r.din + Room(r) <= DinSize
         /\ stalled \/ r.usb + Room(r) <= UsbSize
  BY SysExAssumption DEF Room, Least, RingStates, HostOK

\* What fits in the room found is written and loses nothing.
LEMMA WrittenFits ==
  ASSUME NEW r \in RingStates, HostOK, NEW n \in Nat, n <= Room(r)
  PROVE  Written(r, n) \in RingStates /\ Written(r, n).lost = r.lost
<1>1. r.din + n <= DinSize /\ (stalled \/ r.usb + n <= UsbSize)
  BY RoomIs, SysExAssumption DEF RingStates
<1>2. /\ Written(r, n).din = r.din + n
      /\ Written(r, n).usb \in 0 .. UsbSize
      /\ Written(r, n).lost = r.lost
  BY <1>1, SysExAssumption DEF Written, RingStates, HostOK
<1>3. Written(r, n) = [din |-> Written(r, n).din, usb |-> Written(r, n).usb,
                       lost |-> Written(r, n).lost]
  BY DEF Written
<1>4. QED
  BY <1>1, <1>2, <1>3, SysExAssumption DEF RingStates

\* Whatever waits and runs, poll() keeps the rings' bounds and loses nothing.
LEMMA PollKeeps ==
  ASSUME Rings \in RingStates, HostOK,
         NEW waiting \in BOOLEAN, NEW running \in RunningDumps, Poll(waiting, running)
  PROVE  /\ reply' \in BOOLEAN /\ dump' \in RunningDumps
         /\ din' \in 0 .. DinSize /\ usb' \in 0 .. UsbSize /\ lost' = lost
<1> DEFINE answers == waiting /\ Room(Rings) >= 1
           r == IF answers THEN Written(Rings, 1) ELSE Rings
           n == IF running = None THEN 0
                ELSE Least(Least(Room(r), Burst), DumpChunks - running)
           end == IF n > 0 THEN Written(r, n) ELSE r
<1>1. r \in RingStates /\ r.lost = lost
  BY WrittenFits, RoomIs DEF Rings
<1> HIDE DEF r
<1>2. n \in Nat /\ n <= Room(r) /\ (running # None => running + n <= DumpChunks)
  <2>1. Room(r) \in Nat
    BY <1>1, RoomIs
  <2>2. CASE running = None
    BY <2>1, <2>2
  <2>3. CASE running # None
    <3>1. DumpChunks - running \in Nat /\ running \in Nat /\ DumpChunks \in Nat
      BY <2>3, SysExAssumption DEF RunningDumps, DumpChunks
    <3>2. Burst \in Nat
      BY SysExAssumption
    <3>3. QED
      BY <2>1, <2>3, <3>1, <3>2 DEF Least
  <2>4. QED
    BY <2>2, <2>3
<1> HIDE DEF n
<1>3. end \in RingStates /\ end.lost = lost
  BY <1>1, <1>2, WrittenFits
<1>4. dump' \in RunningDumps
  <2>1. dump' = IF running = None \/ running + n = DumpChunks THEN None ELSE running + n
    BY Zenon DEF Poll, n, r
  <2>2. QED
    BY <1>2, <2>1, SysExAssumption DEF RunningDumps, DumpChunks
<1>5. reply' \in BOOLEAN
  BY DEF Poll
<1>6. din' = end.din /\ usb' = end.usb /\ lost' = end.lost
  BY Zenon DEF Poll, n, r
<1>7. QED
  BY <1>3, <1>4, <1>5, <1>6 DEF RingStates

\* A message that loads nothing.
LEMMA NothingIsOK ==
  Nothing \in UNION {[places -> SentUnits \cup {None}] : places \in SUBSET (1 .. Units)}
<1>1. Nothing \in [{} -> SentUnits \cup {None}]
  BY DEF Nothing
<1>2. {} \in SUBSET (1 .. Units)
  OBVIOUS
<1>3. QED
  BY <1>1, <1>2

\* What finish() makes of the output: a reply, a dump, an answer at once.
LEMMA FinishKeeps ==
  ASSUME TypeOK, NEW kind \in Kinds, Finish(kind)
  PROVE  /\ LoadedOK'
         /\ reply' \in BOOLEAN /\ dump' \in RunningDumps
         /\ din' \in 0 .. DinSize /\ usb' \in 0 .. UsbSize /\ lost' = lost
<1>1. Rings \in RingStates /\ HostOK
  BY DEF TypeOK, Rings, RingStates, HostOK
<1>2. dump \in RunningDumps /\ 0 \in RunningDumps /\ reply \in BOOLEAN
  BY SysExAssumption DEF TypeOK, RunningDumps, DumpChunks
<1>3. Reply \/ QueueDump \/ Answer
  BY DEF Finish, Load, Write
<1>4. /\ reply' \in BOOLEAN /\ dump' \in RunningDumps
      /\ din' \in 0 .. DinSize /\ usb' \in 0 .. UsbSize /\ lost' = lost
  <2>1. CASE Reply
    BY <1>1, <1>2, <2>1, PollKeeps DEF Reply
  <2>2. CASE QueueDump
    BY <1>1, <1>2, <2>2, PollKeeps DEF QueueDump, outputVars, TypeOK
  <2>3. CASE Answer
    <3> DEFINE r == IF Room(Rings) >= 1 THEN Written(Rings, 1) ELSE Rings
    <3>1. r \in RingStates /\ r.lost = lost
      BY <1>1, WrittenFits, RoomIs DEF Rings
    <3>2. din' = r.din /\ usb' = r.usb /\ lost' = r.lost /\ dump' = dump /\ reply' = reply
      BY <2>3, Zenon DEF Answer
    <3> HIDE DEF r
    <3>3. QED
      BY <1>2, <3>1, <3>2 DEF RingStates
  <2>4. QED
    BY <1>3, <2>1, <2>2, <2>3
<1>5. LoadedOK'
  <2>1. CASE kind \in Banks /\ Load(kind)
    <3>1. CASE loaded' = Nothing
      BY <3>1, NothingIsOK DEF LoadedOK
    <3>2. CASE loaded' = [i \in First(kind) .. Units |-> stage[i]]
      <4>1. First(kind) .. Units \subseteq 1 .. Units
        BY NeedRange, SysExAssumption
      <4>2. loaded' \in [First(kind) .. Units -> SentUnits \cup {None}]
        BY <3>2, <4>1 DEF TypeOK
      <4>3. QED
        BY <4>1, <4>2 DEF LoadedOK
    <3>3. QED
      BY <2>1, <3>1, <3>2 DEF Load
  <2>2. CASE Write
    <3>1. CASE loaded' = Nothing
      BY <3>1, NothingIsOK DEF LoadedOK
    <3>2. CASE \E i \in 1 .. Units : loaded' = [j \in {i} |-> None]
      <4>1. PICK i \in 1 .. Units : loaded' = [j \in {i} |-> None]
        BY <3>2
      <4>2. loaded' \in [{i} -> SentUnits \cup {None}] /\ {i} \in SUBSET (1 .. Units)
        BY <4>1
      <4>3. QED
        BY <4>2 DEF LoadedOK
    <3>3. QED
      BY <2>2, <3>1, <3>2 DEF Write
  <2>3. CASE loaded' = Nothing
    BY <2>3, NothingIsOK DEF LoadedOK
  <2>4. QED
    BY <2>1, <2>2, <2>3 DEF Finish
<1>6. QED
  BY <1>4, <1>5

\* Nothing is received, queued or lost at first.
LEMMA InitSysEx == Init => SysExIInv
<1> SUFFICES ASSUME Init PROVE SysExIInv
  OBVIOUS
<1>1. LoadedOK
  BY NothingIsOK DEF Init, LoadedOK
<1>2. stage \in [1 .. Units -> SentUnits \cup {None}]
  BY DEF Init
<1>3. dump \in RunningDumps /\ din \in 0 .. DinSize /\ usb \in 0 .. UsbSize /\ out \in 0 .. Units
  BY SysExAssumption DEF Init, RunningDumps
<1>4. QED
  BY <1>1, <1>2, <1>3 DEF Init, SysExIInv, TypeOK, LosesOnlyStalled, RunningDumps, LoadedOK

\* A byte that is received.
LEMMA ReceiveSysEx ==
  ASSUME SysExIInv, NEW w \in Wires, Start(w) \/ Data(w) \/ End(w) \/ Cut(w) \/ Stray(w)
  PROVE  SysExIInv'
<1> USE DEF SysExIInv, LosesOnlyStalled
<1>1. CASE Start(w)
  <2>1. PICK kind \in Kinds, v \in Values :
          /\ Send(w, [kind |-> kind, value |-> v, sent |-> 0, missed |-> FALSE])
          /\ func' = kind
    BY <1>1 DEF Start
  <2>2. [kind |-> kind, value |-> v, sent |-> 0, missed |-> FALSE] \in Messages
    BY NeedRange, SysExAssumption DEF Messages
  <2>3. wire' \in [Wires -> Messages \cup {None}]
    BY <2>1, <2>2 DEF Send, TypeOK
  <2>4. func' \in Kinds /\ out' \in 0 .. Units
    BY <1>1, <2>1, SysExAssumption DEF Start
  <2>5. LoadedOK'
    BY <1>1, NothingIsOK DEF Start, LoadedOK
  <2>6. QED
    BY <1>1, <2>3, <2>4, <2>5 DEF Start, TypeOK, outputVars, hostVars, LoadedOK
<1>2. CASE Data(w)
  <2> DEFINE m == wire[w]
             next == [m EXCEPT !.sent = @ + 1]
             unit == <<m.value, First(m.kind) + m.sent>>
  <2>1. m \in Messages /\ m.sent < Longest(m.kind)
    BY <1>2 DEF Data, TypeOK
  <2>2. unit \in SentUnits /\ next \in Messages /\ [next EXCEPT !.missed = TRUE] \in Messages
    BY <2>1, NextUnit
  <2>3. \/ func # None /\ Unpack(func, unit) /\ Send(w, next)
        \/ UNCHANGED <<out, stage>> /\ Send(w, [next EXCEPT !.missed = TRUE])
    BY <1>2, Zenon DEF Data
  <2> HIDE DEF next, unit
  <2>4. wire' \in [Wires -> Messages \cup {None}]
    BY <2>2, <2>3 DEF Send, TypeOK
  <2>5. out' \in 0 .. Units /\ stage' \in [1 .. Units -> SentUnits \cup {None}]
    <3>1. CASE func # None /\ Unpack(func, unit)
      <4>1. func \in Kinds /\ Need(func) \in 0 .. Units
        BY <3>1, NeedRange DEF TypeOK
      <4>2. out' \in 0 .. Units
        BY <3>1, <4>1, SysExAssumption DEF Unpack, Least, TypeOK
      <4>3. QED
        BY <2>2, <3>1, <4>2 DEF Unpack, TypeOK
    <3>2. CASE UNCHANGED <<out, stage>>
      BY <3>2 DEF TypeOK
    <3>3. QED
      BY <2>3, <3>1, <3>2
  <2>6. UNCHANGED <<loaded, locked, func, outputVars, hostVars>>
    BY <1>2, Zenon DEF Data
  <2>7. QED
    BY <2>4, <2>5, <2>6 DEF TypeOK, outputVars, hostVars
<1>3. CASE End(w)
  <2>1. wire' \in [Wires -> Messages \cup {None}] /\ func' = None /\ out' \in 0 .. Units
    BY <1>3, SysExAssumption DEF End, Send, TypeOK
  <2>2. CASE func # None
    <3>1. func \in Kinds /\ Finish(func)
      BY <1>3, <2>2 DEF End, TypeOK
    <3>2. /\ LoadedOK'
          /\ reply' \in BOOLEAN /\ dump' \in RunningDumps
          /\ din' \in 0 .. DinSize /\ usb' \in 0 .. UsbSize /\ lost' = lost
      BY <3>1, FinishKeeps
    <3>3. QED
      BY <1>3, <2>1, <3>2 DEF End, TypeOK, hostVars, RunningDumps, LoadedOK
  <2>3. CASE func = None
    <3>1. LoadedOK'
      BY <1>3, <2>3, NothingIsOK DEF End, LoadedOK
    <3>2. QED
      BY <1>3, <2>1, <2>3, <3>1 DEF End, TypeOK, outputVars, hostVars, LoadedOK
  <2>4. QED
    BY <2>2, <2>3
<1>4. CASE Cut(w) \/ Stray(w)
  <2>1. wire' \in [Wires -> Messages \cup {None}]
    BY <1>4 DEF Cut, Stray, Send, TypeOK
  <2>2. func' \in Kinds \cup {None} /\ out' \in 0 .. Units /\ stage' = stage
    BY <1>4, SysExAssumption DEF Cut, Stray, TypeOK, parserVars
  <2>3. QED
    BY <1>4, <2>1, <2>2 DEF Cut, Stray, TypeOK, outputVars, hostVars
<1>5. QED
  BY <1>1, <1>2, <1>3, <1>4

\* The panel, the main loop's poll, and the rings as they empty.
LEMMA SendSysEx ==
  SysExIInv /\ (Tick \/ PanelSend \/ PanelProtect \/ DinDrain \/ UsbTake \/ UsbStall \/ UsbHost)
    => SysExIInv'
<1> SUFFICES ASSUME SysExIInv,
                    Tick \/ PanelSend \/ PanelProtect \/ DinDrain \/ UsbTake \/ UsbStall \/ UsbHost
             PROVE  SysExIInv'
  OBVIOUS
<1> USE DEF SysExIInv, LosesOnlyStalled
<1>1. Rings \in RingStates /\ HostOK /\ reply \in BOOLEAN
      /\ dump \in RunningDumps /\ 0 \in RunningDumps
  BY SysExAssumption DEF TypeOK, Rings, RingStates, HostOK, RunningDumps, DumpChunks
<1>2. CASE Tick \/ PanelSend
  <2>1. /\ reply' \in BOOLEAN /\ dump' \in RunningDumps
        /\ din' \in 0 .. DinSize /\ usb' \in 0 .. UsbSize /\ lost' = lost
    BY <1>1, <1>2, PollKeeps DEF Tick, PanelSend, QueueDump
  <2>2. UNCHANGED <<loaded, locked, parserVars, wire, hostVars>>
    BY <1>2 DEF Tick, PanelSend
  <2>3. QED
    BY <2>1, <2>2 DEF TypeOK, parserVars, hostVars, RunningDumps
<1>3. CASE PanelProtect
  BY <1>3 DEF PanelProtect, TypeOK, parserVars, outputVars, hostVars
<1>4. CASE DinDrain
  BY <1>4, SysExAssumption DEF DinDrain, TypeOK, parserVars, hostVars
<1>5. CASE UsbTake
  <2>1. usb \in 0 .. UsbSize /\ usb' \in 0 .. usb - 1 /\ stalled' = FALSE
    BY <1>5 DEF UsbTake, TypeOK
  <2>2. usb' \in 0 .. UsbSize /\ stalled' \in BOOLEAN
    <3>1. usb' \in 0 .. UsbSize
      BY <2>1, SysExAssumption
    <3>2. QED
      BY <2>1, <3>1
  <2>3. QED
    BY <1>5, <2>2 DEF UsbTake, TypeOK, parserVars
<1>6. CASE UsbStall
  BY <1>6 DEF UsbStall, TypeOK, parserVars, outputVars
<1>7. CASE UsbHost
  BY <1>7, SysExAssumption DEF UsbHost, TypeOK, parserVars
<1>8. QED
  BY <1>2, <1>3, <1>4, <1>5, <1>6, <1>7

\* Each byte and each step of the output keeps the invariant.
LEMMA NextSysEx == SysExIInv /\ [Next]_vars => SysExIInv'
<1>1. SysExIInv /\ UNCHANGED vars => SysExIInv'
  BY DEF SysExIInv, TypeOK, LosesOnlyStalled, vars, parserVars, outputVars, hostVars
<1>2. SysExIInv /\ Receive => SysExIInv'
  BY ReceiveSysEx, Zenon DEF Receive
<1>3. QED
  BY <1>1, <1>2, SendSysEx, Zenon DEF Next

\* The invariant of reception and output: types, bounds, and nothing lost.
THEOREM SysExInductive == Spec => []SysExIInv
  BY InitSysEx, NextSysEx, PTL DEF Spec

\* Reception never unpacks past the staging area; the rings are never overfull.
THEOREM SysExTypeCorrect == Spec => []TypeOK
<1>1. SysExIInv => TypeOK
  BY DEF SysExIInv
<1>2. QED
  BY <1>1, SysExInductive, PTL

\* For every size of the rings and the burst, a reply or a dump finds room for what it
\* writes: DIN loses nothing, and USB only what a host known not to read leaves.
THEOREM LosesOnlyStalledHolds == Spec => []LosesOnlyStalled
<1>1. SysExIInv => LosesOnlyStalled
  BY DEF SysExIInv
<1>2. QED
  BY <1>1, SysExInductive, PTL
-----------------------------------------------------------------------------
\* The message with one more unit sent.
More(m) == [m EXCEPT !.sent = @ + 1]

\* A unit that reaches the parser is unpacked, or past the end of the bank.
LEMMA UnitUnpacked ==
  ASSUME NEW m \in Messages, NEW bank \in Banks, NEW n \in Nat,
         NEW buf \in [1 .. Units -> SentUnits \cup {None}],
         Unpacked(m, bank, n, buf),
         NEW n2, n2 = Least(n + 1, Need(bank)),
         NEW buf2,
         buf2 = IF n < Need(bank)
                  THEN [buf EXCEPT ![First(bank) + n] = <<m.value, First(m.kind) + m.sent>>]
                  ELSE buf
  PROVE  Unpacked(More(m), bank, n2, buf2)
<1> DEFINE f == First(bank)
           need == Need(bank)
<1>1. /\ f \in {1, 2} /\ need \in Nat /\ f + need = Units + 1 /\ Units \in Nat
      /\ bank \in Kinds /\ bank = m.kind
  BY NeedRange, SysExAssumption DEF Kinds, Unpacked
<1>2. /\ More(m).kind = m.kind /\ More(m).value = m.value /\ More(m).missed = m.missed
      /\ More(m).sent = m.sent + 1 /\ m.sent \in Nat /\ m.missed \in BOOLEAN
  BY SysExAssumption DEF More, Messages
<1>3. /\ n <= need /\ n <= m.sent
      /\ \A i \in f .. f + n - 1 : buf[i] \in {m.value} \X (i .. f + m.sent - 1)
      /\ \A i, j \in f .. f + n - 1 : i < j => buf[i][2] < buf[j][2]
      /\ m.missed => (m.sent <= need => n < m.sent)
      /\ ~m.missed => n = Least(m.sent, need) /\ \A i \in f .. f + n - 1 : buf[i] = <<m.value, i>>
  BY Zenon DEF Unpacked
<1> HIDE DEF f, need
<1>4. CASE n < need
  <2>1. n2 = n + 1
    BY <1>1, <1>4 DEF Least, need
  <2>2. f + n \in 1 .. Units
    BY <1>1, <1>4
  <2>3. buf2 = [buf EXCEPT ![f + n] = <<m.value, f + m.sent>>]
    BY <1>1, <1>4 DEF f, need
  <2>4. buf2[f + n] = <<m.value, f + m.sent>>
    BY <2>2, <2>3
  <2>5. \A i \in f .. f + n - 1 : buf2[i] = buf[i]
    <3>1. \A i \in f .. f + n - 1 : i \in 1 .. Units /\ i # f + n
      BY <1>1, <1>4
    <3>2. QED
      BY <2>3, <3>1
  <2>6. \A i \in f .. f + n2 - 1 : i \in f .. f + n - 1 \/ i = f + n
    BY <1>1, <2>1
  <2>7. \A i \in f .. f + n2 - 1 : buf2[i] \in {m.value} \X (i .. f + (m.sent + 1) - 1)
    <3>1. ASSUME NEW i \in f .. f + n - 1
          PROVE  buf2[i] \in {m.value} \X (i .. f + (m.sent + 1) - 1)
      <4>1. PICK place \in i .. f + m.sent - 1 : buf[i] = <<m.value, place>>
        BY <1>3
      <4>2. place \in i .. f + (m.sent + 1) - 1
        BY <1>1, <1>2
      <4>3. QED
        BY <2>5, <4>1, <4>2
    <3>2. f + m.sent \in f + n .. f + (m.sent + 1) - 1
      BY <1>1, <1>2, <1>3
    <3>3. buf2[f + n] \in {m.value} \X (f + n .. f + (m.sent + 1) - 1)
      BY <2>4, <3>2
    <3>4. QED
      BY <2>6, <3>1, <3>3, Zenon
  <2>8. \A i, j \in f .. f + n2 - 1 : i < j => buf2[i][2] < buf2[j][2]
    <3>1. SUFFICES ASSUME NEW i \in f .. f + n2 - 1, NEW j \in f .. f + n2 - 1, i < j
                   PROVE  buf2[i][2] < buf2[j][2]
      OBVIOUS
    <3>2. i \in f .. f + n - 1
      BY <1>1, <2>1, <3>1
    <3>3. CASE j \in f .. f + n - 1
      BY <1>3, <2>5, <3>1, <3>2, <3>3
    <3>4. CASE j = f + n
      <4>1. PICK place \in i .. f + m.sent - 1 : buf[i] = <<m.value, place>>
        BY <1>3, <3>2
      <4>2. buf2[i][2] = place /\ buf2[j][2] = f + m.sent
        BY <2>4, <2>5, <3>2, <3>4, <4>1
      <4>3. place < f + m.sent
        BY <1>1, <1>2, <3>2
      <4>4. QED
        BY <4>2, <4>3
    <3>5. QED
      BY <2>6, <3>3, <3>4
  <2>9. m.missed => (m.sent + 1 <= need => n2 < m.sent + 1)
    BY <1>1, <1>2, <1>3, <2>1
  <2>10. ~m.missed => n2 = Least(m.sent + 1, need) /\ \A i \in f .. f + n2 - 1 : buf2[i] = <<m.value, i>>
    <3>1. SUFFICES ASSUME ~m.missed
                   PROVE  n2 = Least(m.sent + 1, need) /\ \A i \in f .. f + n2 - 1 : buf2[i] = <<m.value, i>>
      OBVIOUS
    <3>2. n = m.sent
      BY <1>1, <1>2, <1>3, <1>4, <3>1 DEF Least
    <3>3. n2 = Least(m.sent + 1, need)
      BY <1>1, <1>2, <1>4, <2>1, <3>2 DEF Least
    <3>4. \A i \in f .. f + n - 1 : buf2[i] = <<m.value, i>>
      BY <1>3, <2>5, <3>1
    <3>5. QED
      BY <2>4, <2>6, <3>2, <3>3, <3>4, Zenon
  <2>11. bank = m.kind /\ n2 <= need /\ n2 <= m.sent + 1
    BY <1>1, <1>2, <1>3, <1>4, <2>1
  <2>12. QED
    BY <1>2, <2>7, <2>8, <2>9, <2>10, <2>11, Zenon DEF Unpacked, f, need
<1>5. CASE n = need
  <2>1. n2 = n /\ buf2 = buf
    BY <1>1, <1>5 DEF Least, need
  <2>2. \A i \in f .. f + n - 1 : buf[i] \in {m.value} \X (i .. f + (m.sent + 1) - 1)
    <3>1. SUFFICES ASSUME NEW i \in f .. f + n - 1
                   PROVE  buf[i] \in {m.value} \X (i .. f + (m.sent + 1) - 1)
      OBVIOUS
    <3>2. PICK place \in i .. f + m.sent - 1 : buf[i] = <<m.value, place>>
      BY <1>3
    <3>3. place \in i .. f + (m.sent + 1) - 1
      BY <1>1, <1>2
    <3>4. QED
      BY <3>2, <3>3
  <2>3. m.missed => (m.sent + 1 <= need => n < m.sent + 1)
    BY <1>1, <1>2, <1>3
  <2>4. ~m.missed => n = Least(m.sent + 1, need)
    BY <1>1, <1>2, <1>3, <1>5 DEF Least
  <2>5. n <= need /\ n <= m.sent + 1
    BY <1>1, <1>2, <1>3
  <2>6. QED
    BY <1>1, <1>2, <1>3, <2>1, <2>2, <2>3, <2>4, <2>5, Zenon DEF Unpacked, f, need
<1>6. QED
  BY <1>1, <1>3, <1>4, <1>5

\* A unit that is lost leaves the staging image, which is then behind.
LEMMA UnitMissed ==
  ASSUME NEW m \in Messages, NEW bank \in Banks, NEW n \in Nat, NEW buf,
         Unpacked(m, bank, n, buf)
  PROVE  Unpacked([More(m) EXCEPT !.missed = TRUE], bank, n, buf)
<1> DEFINE f == First(bank)
           need == Need(bank)
           late == [More(m) EXCEPT !.missed = TRUE]
<1>1. f \in {1, 2} /\ need \in Nat /\ bank = m.kind
  BY NeedRange, SysExAssumption DEF Kinds, Unpacked
<1>2. /\ late.kind = m.kind /\ late.value = m.value /\ late.missed = TRUE
      /\ late.sent = m.sent + 1 /\ m.sent \in Nat
  BY SysExAssumption DEF More, Messages
<1>3. /\ n <= need /\ n <= m.sent
      /\ \A i \in f .. f + n - 1 : buf[i] \in {m.value} \X (i .. f + m.sent - 1)
      /\ \A i, j \in f .. f + n - 1 : i < j => buf[i][2] < buf[j][2]
  BY Zenon DEF Unpacked
<1> HIDE DEF f, need, late
<1>4. \A i \in f .. f + n - 1 : buf[i] \in {m.value} \X (i .. f + (m.sent + 1) - 1)
  <2>1. SUFFICES ASSUME NEW i \in f .. f + n - 1
                 PROVE  buf[i] \in {m.value} \X (i .. f + (m.sent + 1) - 1)
    OBVIOUS
  <2>2. PICK place \in i .. f + m.sent - 1 : buf[i] = <<m.value, place>>
    BY <1>3
  <2>3. place \in i .. f + (m.sent + 1) - 1
    BY <1>1, <1>2
  <2>4. QED
    BY <2>2, <2>3
<1>5. n < m.sent + 1 /\ n <= m.sent + 1
  BY <1>2, <1>3
<1>6. Unpacked(late, bank, n, buf)
  BY <1>1, <1>2, <1>3, <1>4, <1>5, Zenon DEF Unpacked, f, need
<1>7. QED
  BY <1>6 DEF late

\* With one wire, what is staged of the message on it is that message's.
LEMMA NextStaged ==
  ASSUME OneWire, TypeOK, Staged, [Next]_vars
  PROVE  Staged'
<1>1. PICK w \in Wires : Wires = {w}
  BY DEF OneWire
<1>2. CASE Start(w)
  <2>1. PICK kind \in Kinds, v \in Values :
          Send(w, [kind |-> kind, value |-> v, sent |-> 0, missed |-> FALSE]) /\ func' = kind
    BY <1>2 DEF Start
  <2> DEFINE m == [kind |-> kind, value |-> v, sent |-> 0, missed |-> FALSE]
  <2>2. wire'[w] = m /\ out' = 0
    BY <1>1, <1>2, <2>1 DEF Start, Send, TypeOK
  <2>3. Need(kind) \in Nat /\ First(kind) \in {1, 2}
    BY NeedRange
  <2>4. \A i \in First(kind) .. First(kind) + 0 - 1 : FALSE
    BY <2>3
  <2>5. 0 <= Need(kind) /\ 0 <= 0 /\ 0 = Least(0, Need(kind))
    BY <2>3 DEF Least
  <2>6. m.kind = kind /\ m.value = v /\ m.sent = 0 /\ m.missed = FALSE
    OBVIOUS
  <2> HIDE DEF m
  <2>7. Unpacked(m, kind, 0, stage')
    BY <2>4, <2>5, <2>6, Zenon DEF Unpacked
  <2>8. QED
    BY <1>1, <2>1, <2>2, <2>7, Zenon DEF Staged
<1>3. CASE Data(w)
  <2> DEFINE m == wire[w]
  <2>1. /\ m # None /\ m \in Messages /\ func' = func /\ out \in Nat
        /\ stage \in [1 .. Units -> SentUnits \cup {None}]
    BY <1>3, SysExAssumption DEF Data, TypeOK
  <2>2. SUFFICES ASSUME func \in Banks
                 PROVE  Unpacked(wire'[w], func, out', stage')
    BY <1>1, <2>1, Zenon DEF Staged
  <2>3. Unpacked(m, func, out, stage)
    BY <2>1, <2>2 DEF Staged
  <2>4. CASE Unpack(func, <<m.value, First(m.kind) + m.sent>>) /\ Send(w, More(m))
    <3>1. wire'[w] = More(m)
      BY <2>4 DEF Send, TypeOK
    <3>2. /\ out' = Least(out + 1, Need(func))
          /\ stage' = IF out < Need(func)
                      THEN [stage EXCEPT ![First(func) + out] = <<m.value, First(m.kind) + m.sent>>]
                      ELSE stage
      BY <2>2, <2>4 DEF Unpack
    <3>3. QED
      BY <2>1, <2>2, <2>3, <3>1, <3>2, UnitUnpacked
  <2>5. CASE UNCHANGED <<out, stage>> /\ Send(w, [More(m) EXCEPT !.missed = TRUE])
    <3>1. wire'[w] = [More(m) EXCEPT !.missed = TRUE]
      BY <2>5 DEF Send, TypeOK
    <3>2. QED
      BY <2>1, <2>2, <2>3, <2>5, <3>1, UnitMissed
  <2>6. QED
    BY <1>3, <2>4, <2>5, Zenon DEF Data, More
<1>4. CASE End(w) \/ Cut(w) \/ Stray(w)
  <2>1. wire'[w] = None
    BY <1>1, <1>4 DEF End, Cut, Stray, Send, TypeOK
  <2>2. QED
    BY <1>1, <2>1 DEF Staged
<1>5. CASE UNCHANGED <<wire, func, out, stage>>
  BY <1>5 DEF Staged
<1>6. QED
  <2>1. Tick \/ PanelSend \/ PanelProtect \/ DinDrain \/ UsbTake \/ UsbStall \/ UsbHost
          \/ UNCHANGED vars => UNCHANGED <<wire, func, out, stage>>
    BY DEF Tick, PanelSend, PanelProtect, DinDrain, UsbTake, UsbStall, UsbHost, vars, parserVars
  <2>2. Receive => Start(w) \/ Data(w) \/ End(w) \/ Cut(w) \/ Stray(w)
    BY <1>1 DEF Receive
  <2>3. QED
    BY <1>2, <1>3, <1>4, <1>5, <2>1, <2>2 DEF Next

\* What the end of a message loads: its bank, whole unless what followed the bank
\* made up for something lost.
LoadsIt(w) ==
  func \in Banks /\ loaded' # Nothing /\ End(w) =>
    LET m == wire[w]
        bank == First(m.kind) .. Units
    IN /\ DOMAIN loaded' = bank
       /\ \A i \in bank : loaded'[i] \in {m.value} \X (Places \ (1 .. i - 1))
       /\ \A i, j \in bank : i < j => loaded'[i][2] < loaded'[j][2]
       /\ \/ m.missed /\ m.sent > Need(m.kind)
          \/ \A i \in bank : loaded'[i] = <<m.value, i>>

\* The staging image is loaded only when it is full.
LEMMA LoadsMessage ==
  ASSUME NEW w \in Wires, TypeOK, Staged
  PROVE  LoadsIt(w)
<1> SUFFICES ASSUME func \in Banks, loaded' # Nothing, End(w)
             PROVE  LET m == wire[w]
                        bank == First(m.kind) .. Units
                    IN /\ DOMAIN loaded' = bank
                       /\ \A i \in bank : loaded'[i] \in {m.value} \X (Places \ (1 .. i - 1))
                       /\ \A i, j \in bank : i < j => loaded'[i][2] < loaded'[j][2]
                       /\ \/ m.missed /\ m.sent > Need(m.kind)
                          \/ \A i \in bank : loaded'[i] = <<m.value, i>>
  BY DEF LoadsIt
<1> DEFINE m == wire[w]
           f == First(func)
           need == Need(func)
<1>1. m # None /\ m \in Messages /\ func # None /\ func \in Kinds
  BY SysExAssumption DEF End, TypeOK, Kinds, Banks
<1>2. Unpacked(m, func, out, stage)
  BY <1>1 DEF Staged
<1>3. Load(func)
  BY <1>1 DEF End, Finish, Banks
<1>4. /\ f \in {1, 2} /\ need \in Nat /\ f + need = Units + 1 /\ Units \in Nat /\ Tail \in Nat
      /\ out \in Nat /\ m.sent \in Nat /\ m.sent <= Units + Tail
      /\ m.missed \in BOOLEAN
  BY <1>1, NeedRange, SysExAssumption DEF TypeOK, Messages
<1>5. ~(out < need) /\ loaded' = [i \in f .. Units |-> stage[i]]
  BY <1>3 DEF Load
<1>6. /\ func = m.kind /\ out <= need /\ out <= m.sent
      /\ \A i \in f .. f + out - 1 : stage[i] \in {m.value} \X (i .. f + m.sent - 1)
      /\ \A i, j \in f .. f + out - 1 : i < j => stage[i][2] < stage[j][2]
      /\ m.missed => (m.sent <= need => out < m.sent)
      /\ ~m.missed => \A i \in f .. f + out - 1 : stage[i] = <<m.value, i>>
  BY <1>2, Zenon DEF Unpacked
<1> HIDE DEF f, need, m
<1>7. out = need /\ f + out - 1 = Units
  BY <1>4, <1>5, <1>6
<1>8. DOMAIN loaded' = f .. Units /\ \A i \in f .. Units : loaded'[i] = stage[i]
  BY <1>5
<1>10. f + m.sent <= Units + Tail + 1
  <2>1. m.sent <= Longest(func)
    BY <1>1, <1>6 DEF Messages, m
  <2>2. Longest(func) \in Nat /\ f + Longest(func) <= Units + Tail + 1
    BY <1>1, NeedRange DEF f
  <2>3. QED
    BY <1>4, <2>1, <2>2
<1>11. \A i \in f .. Units : loaded'[i] \in {m.value} \X (Places \ (1 .. i - 1))
  <2>1. SUFFICES ASSUME NEW i \in f .. Units
                 PROVE  stage[i] \in {m.value} \X (Places \ (1 .. i - 1))
    BY <1>8
  <2>2. PICK place \in i .. f + m.sent - 1 : stage[i] = <<m.value, place>>
    BY <1>6, <1>7
  <2>3. f + m.sent - 1 <= Units + Tail
    BY <1>4, <1>10
  <2>4. place \in Places \ (1 .. i - 1)
    BY <1>4, <2>2, <2>3 DEF Places
  <2>5. QED
    BY <2>2, <2>4
<1>12. \A i, j \in f .. Units : i < j => loaded'[i][2] < loaded'[j][2]
  BY <1>6, <1>7, <1>8
<1>13. (m.missed /\ m.sent > need) \/ \A i \in f .. Units : loaded'[i] = <<m.value, i>>
  <2>1. CASE m.missed
    BY <1>4, <1>6, <1>7, <2>1
  <2>2. CASE ~m.missed
    BY <1>6, <1>7, <1>8, <2>2
  <2>3. QED
    BY <2>1, <2>2
<1>14. func = m.kind
  BY <1>6
<1>15. QED
  BY <1>8, <1>11, <1>12, <1>13, <1>14 DEF f, need, m

\* With one wire in use, what a bank or a complete memory dump loads is the message
\* that ended and nothing of an earlier one that was cut short, and all of it,
\* unless it lost something and what followed the bank made up for that.
THEOREM LoadIsMessageHolds == OneWire => (Spec => LoadIsMessage)
<1> SUFFICES ASSUME OneWire PROVE Spec => LoadIsMessage
  OBVIOUS
<1>1. Init => Staged
  BY DEF Init, Staged
<1>2. TypeOK /\ Staged /\ [Next]_vars => Staged'
  BY NextStaged
<1>3. TypeOK /\ Staged /\ [Next]_vars => [\A w \in Wires : LoadsIt(w)]_vars
  BY LoadsMessage
<1>4. LoadIsMessage <=> [][\A w \in Wires : LoadsIt(w)]_vars
  BY PTL DEF LoadIsMessage, LoadsIt
<1>5. QED
  BY <1>1, <1>2, <1>3, <1>4, SysExTypeCorrect, PTL DEF Spec
=============================================================================
