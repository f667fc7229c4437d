------------------------------ MODULE M1Memory ------------------------------
(***************************************************************************)
(* The memory of PicoFaceM1 (m1_memory.cpp, with its callers in            *)
(* M1_Controller.cpp and M1_Instrument.cpp): an image in RAM, mirrored to  *)
(* flash sector by sector.  Sector 0 begins with a header that holds the   *)
(* CRC of the whole image.                                                 *)
(*                                                                         *)
(* An image is a function from sectors to contents; no two images have the *)
(* same CRC, so that the header is modelled by the image it was computed   *)
(* over.  The power may fail between any two steps, and within an erase or *)
(* a program, which leaves garbage in that sector.                         *)
(***************************************************************************)
EXTENDS Naturals

CONSTANTS
  LastSector,  \* kSectors - 1
  Contents,    \* what a sector's part of the image may be
  Preload,     \* the factory preload
  Garbage,     \* what no image has: an erased or half-written sector
  Idle         \* no store() is running

Sectors == 0 .. LastSector
Images == [Sectors -> Contents]

ASSUME MemoryAssumption ==
  /\ LastSector \in Nat
  /\ Preload \in Images
  /\ Garbage \notin Contents /\ Garbage \notin Images
  /\ Idle \notin Sectors \X {"erase", "program"}

VARIABLES
  image,      \* img_
  dirty,      \* dirty_: the sectors to write
  fromFlash,  \* fromFlash_
  protect,    \* the memory protect switch
  recent,     \* memChangedMs_ is less than 1500 ms ago
  sounding,   \* activeVoices() > 0
  flash,      \* what the sectors hold
  header,     \* the image whose CRC the header in sector 0 holds
  writing     \* store(): the sector it has come to and what is next there

memoryVars == <<image, dirty, fromFlash, protect, recent, sounding,
                flash, header, writing>>

-----------------------------------------------------------------------------
(* init(): what is found in flash, if it checks out, or the preload.       *)

Intact == header # Garbage /\ flash = header

\* Mutant: the header is believed without its CRC.
FoundUnchecked ==
  IF header # Garbage
  THEN [s \in Sectors |-> IF flash[s] \in Contents THEN flash[s] ELSE Preload[s]]
  ELSE Preload

\* What the next boot loads.
Found == IF Intact THEN header ELSE Preload

\* Empty flash, or a mirror an earlier life of the device has left.
MemoryInit ==
  /\ \/ flash = [s \in Sectors |-> Garbage] /\ header = Garbage
     \/ flash = Preload /\ header = Preload
  /\ image = Found /\ fromFlash = Intact /\ dirty = {}
  /\ protect = FALSE /\ recent = FALSE /\ sounding = FALSE
  /\ writing = Idle

PowerCycle ==
  /\ image' = Found /\ fromFlash' = Intact /\ dirty' = {}
  /\ protect' = FALSE /\ recent' = FALSE /\ sounding' = FALSE
  /\ writing' = Idle
  /\ UNCHANGED <<flash, header>>

-----------------------------------------------------------------------------
(* Changes of the image.  Each touches the sectors it lies in, and sector  *)
(* 0 for the header's CRC.                                                 *)

\* Mutant: only the sector the range begins in is marked.
TouchFirst(range) ==
  LET first == CHOOSE s \in range : \A t \in range : s <= t IN
    dirty' = dirty \cup {first} \cup {0} /\ recent' = TRUE

\* Mutant: the last sector is not left out of the range.
TouchBeyond(range) ==
  dirty' = dirty \cup range \cup {s + 1 : s \in range} \cup {0} /\ recent' = TRUE

\* Mutant: the header, with the CRC of the image, is not marked.
TouchNoHeader(range) == dirty' = dirty \cup range /\ recent' = TRUE

\* Memory::touch() and the time of the change.
Touch(range) == dirty' = dirty \cup range \cup {0} /\ recent' = TRUE

Put(range, c) == image' = [s \in Sectors |-> IF s \in range THEN c ELSE image[s]]

Change(range, c) ==
  /\ writing = Idle
  /\ Put(range, c) /\ Touch(range)
  /\ UNCHANGED <<fromFlash, protect, sounding, flash, header, writing>>

\* writeProgram(), writeCombi(): a record may lie across a sector boundary.
WriteRecord ==
  /\ ~protect
  /\ \E s \in Sectors, c \in Contents : \E t \in {s, s + 1} \cap Sectors : Change({s, t}, c)

\* A global parameter or a drum kit edited on the panel: not protected.
EditGlobal == \E c \in Contents : Change({0}, c)

\* A bank or ALL DATA dump taken over from the staging image.
LoadBank ==
  /\ ~protect
  /\ \E from, to \in Sectors, c \in Contents : from <= to /\ Change(from .. to, c)

FactoryReset ==
  /\ writing = Idle /\ ~protect
  /\ image' = Preload /\ Touch(Sectors)
  /\ UNCHANGED <<fromFlash, protect, sounding, flash, header, writing>>

-----------------------------------------------------------------------------
(* store(), called from uiTick() when nothing has changed for 1500 ms and  *)
(* nothing sounds.  The main loop stands still until it returns.  It also  *)
(* waits for a dump being sent to end, which it does (M1SysEx,             *)
(* SendingEnds).                                                           *)

NextDirty(least) ==
  LET rest == {s \in dirty : s >= least} IN
    IF rest = {} THEN Idle
    ELSE <<CHOOSE s \in rest : \A t \in rest : s <= t, "erase">>

StoreBegin ==
  /\ writing = Idle /\ dirty # {} /\ ~recent /\ ~sounding
  /\ writing' = NextDirty(0)
  /\ UNCHANGED <<image, dirty, fromFlash, protect, recent, sounding, flash, header>>

StoreErase ==
  \E s \in Sectors :
    /\ writing = <<s, "erase">>
    /\ flash' = [flash EXCEPT ![s] = Garbage]
    /\ header' = IF s = 0 THEN Garbage ELSE header
    /\ writing' = <<s, "program">>
    /\ UNCHANGED <<image, dirty, fromFlash, protect, recent, sounding>>

\* dirty_ is cleared when all the sectors have been written.
StoreProgram ==
  \E s \in Sectors :
    /\ writing = <<s, "program">>
    /\ flash' = [flash EXCEPT ![s] = image[s]]
    /\ header' = IF s = 0 THEN image ELSE header
    /\ writing' = NextDirty(s + 1)
    /\ dirty' = IF writing' = Idle THEN {} ELSE dirty
    /\ UNCHANGED <<image, fromFlash, protect, recent, sounding>>

-----------------------------------------------------------------------------
(* The player and the clock.                                               *)

ToggleProtect ==
  /\ writing = Idle /\ protect' = ~protect
  /\ UNCHANGED <<image, dirty, fromFlash, recent, sounding, flash, header, writing>>

\* A note begins, or the last one has faded.
Play ==
  /\ writing = Idle /\ sounding' = ~sounding
  /\ UNCHANGED <<image, dirty, fromFlash, protect, recent, flash, header, writing>>

Settle ==
  /\ writing = Idle /\ recent' = FALSE
  /\ UNCHANGED <<image, dirty, fromFlash, protect, sounding, flash, header, writing>>

MemoryNext ==
  \/ PowerCycle \/ WriteRecord \/ EditGlobal \/ LoadBank \/ FactoryReset
  \/ StoreBegin \/ StoreErase \/ StoreProgram
  \/ ToggleProtect \/ Play \/ Settle

MemorySpec == MemoryInit /\ [][MemoryNext]_memoryVars

(***************************************************************************)
(* The main loop keeps calling uiTick() and store() runs to its end.       *)
(***************************************************************************)
MemoryFairness ==
  /\ WF_memoryVars(StoreBegin) /\ WF_memoryVars(StoreErase) /\ WF_memoryVars(StoreProgram)
  /\ WF_memoryVars(recent /\ Settle)

LiveMemory == MemorySpec /\ MemoryFairness

-----------------------------------------------------------------------------
\* Every variable has its type.
MemoryTypeOK ==
  /\ image \in Images /\ dirty \subseteq Sectors
  /\ fromFlash \in BOOLEAN /\ protect \in BOOLEAN
  /\ recent \in BOOLEAN /\ sounding \in BOOLEAN
  /\ flash \in [Sectors -> Contents \cup {Garbage}]
  /\ header \in Images \cup {Garbage}
  /\ writing \in (Sectors \X {"erase", "program"}) \cup {Idle}

(***************************************************************************)
(* "Writing erases and programs only the sectors that changed"             *)
(* (m1_memory.h): once a boot has found a mirror, a sector of flash that   *)
(* differs from RAM is marked, however edits, loads, resets, interrupted   *)
(* stores and boots follow each other; so a store makes RAM permanent, and *)
(* with nothing marked a power cycle changes nothing.                      *)
(***************************************************************************)
MirrorIsCovered ==
  fromFlash =>
    /\ \A s \in Sectors : flash[s] # image[s] => s \in dirty
    /\ header # image => 0 \in dirty
    /\ dirty = {} => Found = image

(***************************************************************************)
(* What the next boot will find never becomes a mixture of two states of   *)
(* the memory: a step leaves it alone, or makes it the preload, or makes   *)
(* it the image that RAM holds at that moment (m1_memory.cpp:96-103).      *)
(***************************************************************************)
BootFindsSnapshot == [][Found' \in {Found, Preload, image}]_memoryVars

(***************************************************************************)
(* "Writing erases and programs only the sectors that changed, and only    *)
(* when asked to" (m1_memory.h): when the playing and the editing stop,    *)
(* the store comes to its end, and after a boot that found a mirror the    *)
(* next boot finds what RAM holds - whatever stores, power cuts and edits  *)
(* came before, and however often the edits put the store off.  After a    *)
(* boot that found none it says only that nothing is left marked: that the *)
(* memory is then not in flash is what run m1_first_store shows.           *)
(***************************************************************************)
Disturb == PowerCycle \/ WriteRecord \/ EditGlobal \/ LoadBank \/ FactoryReset \/ Play

QuietIsStored ==
  <>[][~Disturb]_memoryVars =>
    <>[](sounding \/ (dirty = {} /\ (fromFlash => Found = image)))

(***************************************************************************)
(* "A first boot, or a mirror that does not check out, starts from the     *)
(* factory preload" and is from then on mirrored by writing "only the      *)
(* sectors that changed" (m1_memory.h): with nothing left to write, what   *)
(* the player has made of the preload is found by the next boot.           *)
(* It does not hold (run m1_first_store).                                  *)
(***************************************************************************)
NothingPendingIsSaved ==
  writing = Idle /\ dirty = {} /\ image # Preload => Found = image
=============================================================================
