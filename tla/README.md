# Verification of PicoVintageSynthCollection

TLA+ models of the control logic of the firmware in `src/`, TLC configurations
that check them on small instances, and TLAPS proofs that hold for every value
of the constants. All paths below are relative to `src/`.

The repository builds eleven synthesizers from one core: an RP2350 board with
an I2S DAC, USB and DIN MIDI, an OLED, encoders and push buttons. What can go
wrong in the sound is numeric code; what can go wrong in the *system* is control
code that is shared by all of them (`core/`, `lib/`) plus the stores and queues
some instruments bring along. The models are about the latter.

## 1. Inventory

### How the parts interact

    core 0, main() in core/src/picoface_main.cpp, one endless loop:

      1 audio      producer renders a buffer if the pool has a free one
                   (or counts down a pending sample-rate change)
      2 display    one half tile row of a pending frame, unless USB MIDI is queued
      3 MIDI       tud_task, USB out queue, USB in, DIN in and out
                       -> Instrument::handle...   (may write MIDI, may edit)
      4 UI tick    every 20 ms, and only when no frame is pending:
                   encoders, buttons, three-button gesture, Instrument::uiTick
                   (may write active sensing, may arm a frame, may mark edits)
      5 save       settings_dirty, 2 s without a touch, no note sounding
                       -> Instrument::settingsSave -> veeprom_save (interrupts off)

    interrupts on core 0: I2S DMA (takes and returns audio buffers),
                          UART (fills the DIN receive ring),
                          encoder PIO (counts detents)
    core 1:               used by PicoFaceRD only, renders half of the voices

There is no operating system and no lock: sections of the loop exclude each
other by running in turn, interrupts and core 1 share rings and flags with it.

### Components

| Component | State | Operations | What makes it correct | Hard because of |
|---|---|---|---|---|
| virtual EEPROM (`core/src/veeprom.cpp`) | flash sectors A, B; RAM pointer to the newest slot; sequence number | boot scan, `veeprom_load`, `veeprom_save` (target slot, erase, program, read back, CRC) | after a power cut at any moment the previous or the new record is found, whole; never erases the newest record; never programs a slot that is not blank | power cuts inside erase and program, failed writes and retries, long histories of both, reflashing with another instrument |
| debounced save and update gesture (`picoface_main.cpp`) | `settings_dirty`, `last_edit_ms`, `save_retries`, `g_fwHoldSince`, `g_fwCommitted` | mark dirty, save, retry, give up; arm, show, commit, enter bootloader | no edit is forgotten; flash is not hammered; the bootloader takes no edit with it | races between touches, notes, failures and the gesture's clock |
| autosave of the reface ports (`settings_autosave.h`, `settings.cpp` of YC, CP, DX) | last saved copy, pending copy and its age, baseline flag | poll: baseline, unchanged, moved, wait, save | what it believes flash to hold is what flash holds; settled settings are saved once | settings that move while pending or return; failed writes; changes before the first poll |
| USB MIDI output (`midi_output_usb.cpp`) | byte ring, stall clock, stall flag | `write`, `process`, `stalled` | whole messages only; the stall flag means what it says | host that stops reading, unplugs, returns; FIFO boundary inside a message |
| display flush (`picoface_main.cpp` 2, `ui/display.cpp`) | mask of rows to push | arm, push one row, `busy` | every frame ends and the UI tick gets its turn | three parties waiting for one another (issue #161) |
| audio producer and rate change (`picoface_main.cpp` 1) | drain countdown | render, give, count, switch, arm the countdown | no buffer from before a change is queued when the hardware switches; the hardware ends at the engine's rate | the interrupt between any two steps; a change while a countdown runs |
| audio pipeline (`lib/audio`) | free, prepared and playing buffers, underrun count, clock divider | take, give, DMA interrupt | no more buffers are out than there are; the divider changes before the buffers it is for | interrupt against main loop |
| DIN MIDI (`midi_serial.cpp`) | receive ring, parser (status, data, SysEx buffer, flags), transmit ring | UART interrupt, `process`, `write` | whole messages in order; running status; real-time bytes anywhere; oversize SysEx dropped | interrupt against main loop, ring overflow, unterminated SysEx |
| USB MIDI input (`midi_input_usb.cpp`) | SysEx buffer and its length | packet handler | SysEx reassembled or dropped whole | split and interrupted SysEx |
| reface MIDI layer (`reface/reface_midi.cpp`) | active-sensing clocks, transpose, octave | note in and out, `tick`, system block | a note-off reaches the note it belongs to; notes end when the link dies | transposition changes under held notes; late ticks |
| buttons and encoders (`lib/encoder`, `picoface_main.cpp`) | debounce, long-press clock, detents | sample, edge, long press | one event per press | bounce against the 20 ms tick |
| UI kit, list view (`core/src/ui`) | cursor, top line | move, draw | the cursor is visible | - |
| clock, flash timing, display start (`pico_hw.cpp`) | - | one-shot at boot | - | measured hardware |
| USB descriptors, serial | constant | - | - | - |
| PicoFaceRD | command ring (256), pedal and deferred note-offs, governor limit, voices split over two cores, doorbell | push and pop, note on and off, pedal, program change, overload, underrun, render | an answer is read only when it is complete; no note hangs; no more voices last than the limit | two cores, full ring, voices stolen while they are being faded out |
| PicoFaceJ6 | voices, patch bank of one flash sector | store patch | a power cut loses at most the patch being stored | one sector, no second copy |
| PicoFaceM1 | memory image and its mirror of eight sectors, SysEx parser with staging image, reply and dump in progress | edit, load, reset, store; receive, reply, dump in pieces | a boot finds a whole memory; a bank is loaded whole or not at all; nothing is lost on the way out and sending ends | CRC over several sectors, power cuts in a store; lost bytes; a host that does not read |
| PicoFaceYC, CP, DX, MD, SM, OB, JV, D5 | voices, parameters, menus | notes, controllers, menus | - | numeric code; voice allocation is the candidate |
| tools, host tests, boards | not firmware | - | - | - |

`PROJECT.json` lists the same components with what is modelled of each, and
under `hazards` every place where this code is hard to test.

## 2. Modules

    SettingsRegister   what a caller may rely on: one durable register per instrument
       ^   ^   ^
       |   |   +-- Autosave      the polling save of the reface ports
       |   +------ CoreSave      the debounced save and the update gesture
       +---------- Veeprom       the flash log that implements the register
                                 (PROPERTY AtomicRegister, a refinement)
    UsbMidiOut  <- DisplayLoop   the loop around the USB queue
    DropTailQueue      what a ring promises: a queue that drops only when full
       ^   ^
       |   +------ MidiSerial    the DIN parser behind it
       +---------- SpscRing      the ring between interrupt and main loop
                                 (PROPERTY RingIsQueue, a refinement)
    AudioPipeline      main loop, DMA interrupt and the change of the sample rate
    RefaceMidi         notes, settings and active sensing of the reface ports
    RdEngine           PicoFaceRD from the MIDI event to the voices on two cores
    M1Memory           PicoFaceM1's memory and its mirror in flash
    M1SysEx            PicoFaceM1's dumps, in and out

    VeepromProofs, CoreSaveProofs, AutosaveProofs    theorems on the stores,
    MainLoopProofs     on AudioPipeline and on UsbMidiOut in DisplayLoop,
    DinMidiProofs      on SpscRing and MidiSerial,
    M1Proofs           on M1Memory and M1SysEx,
    RefaceMidiProofs, RdEngineProofs                 on their namesakes
    MC*                constants for TLC

A proof module about two models extends both, so the names of the two differ:
`RingInit`, `LoopSpec` and the like.

**SettingsRegister** is the abstract specification: a save in progress (`Begin`)
takes effect at one instant (`Take`) or not at all, the caller learns which
(`Acknowledge` only after it, `Fail` only without it), and a power cut
(`PowerLoss`) leaves the register as it was or with what was being written.
Making room (`Reclaim`) may cost *other* instruments their records. CoreSave and
Autosave extend it and therefore run on what Veeprom is shown to provide.

**Veeprom** has one action per flash operation of `veeprom_save`, since a power
cut can fall between any two: choice of the target slot, erase of its sector
when it is the first of one (a cut leaves the sector in any mixture of blank,
wrecked and old slots), program (a fault leaves the slot as it was or `Garbage`,
a cut may also have finished it), read-back. `Boot` is the scan for the newest valid record of the
instrument that runs. A record is `[seq, instrument, payload]`; the CRC is
modelled by what it does: `Garbage` fails it. `running` changes when the board
is reflashed with another instrument, which leaves the log alone. `Faults` names
what a failed write may do: `unwritten`, `garbled`, and `misread` (the record is
good but the comparison said no).

**CoreSave** is sections 3 to 5 of the loop. `Midi` changes settings and starts
and ends notes; `UiTick` reads the panel (encoder and button touches, the level
of the three buttons), lets the instrument act on a touch unless the core owns
the screen, and marks it; `SaveBegin` .. `SaveReturns` is section 5, and
`SaveNothing` the same for an instrument that reports no size, or too large a
one (YC, CP and DX report 0 and write their own record, see Autosave). Clocks are
ages in ticks, capped where the code stops telling them apart. `fate`,
`attempts` and `gesture` are history: what happened to the last edit, how often
flash was written since the last touch, whether the gesture was disturbed.

**Autosave** is `SettingsAutosave::task` with the calls its three users make.

**UsbMidiOut** is the ring of `midi_output_usb.cpp` as the sequence of bytes in
it; a byte is the length of its message and the position in it, which is all
that wholeness depends on. TinyUSB and the host (`TudTask`) are modelled from
how the code uses them. **DisplayLoop** puts it into the loop: flush, tud_task,
process, the messages that are answered, the UI tick with active sensing.

**SpscRing** is the receive ring of `midi_serial.cpp` with its indices. `Irq` is
the interrupt with one byte; `process()` is split where the interrupt can come
in between: `Fetch` reads the oldest byte, `TakeOut` moves the tail.
**MidiSerial** is the parser on the queue the ring implements, one action per
kind of byte, with a sender that uses running status, puts real-time bytes
anywhere and cuts messages short, and a cable on which any byte may get lost (a
settings save turns interrupts off for longer than the UART's FIFO lasts). A
byte is its message and its place in it, so that mixing up two messages shows.

**AudioPipeline** has one action for each step of the producer loop (take a free
buffer, render, give, count down, look whether the rate has changed) and `Irq`,
the DMA interrupt, between any two of them: it sets the clock divider if the
format has changed, then takes up to `PerPlay` prepared blocks or plays silence.
A block is the *era* it was rendered in, the number of changes before it; `format`
and `freq` are the eras whose rate the format and the divider hold. `armed` and
`late` are history: for which era the countdown was started, and how many blocks
of the engine's era were played at another rate.

**RefaceMidi** is the MIDI layer as the main loop drives it, `Poll` for
`process()` and `Tick` or `Skip` for the rest of a pass. What restarts the
sensing timeout depends on the wire: every packet over USB, over DIN the status
byte of a channel message, but not the data bytes that follow in running status,
nor SysEx (`Received`). FE is kept in `waiting` from its arrival to the next
`Poll`, because a pass can take longer than the timeout (a settings save).
Senders sense, do not, or are unplugged. `quiet` is how long one has sent
nothing at all, `mute` how long nothing that restarts the timeout. `held` is
what the senders' keyboards have down, `shifted` remembers a change of settings,
by MIDI or on the panel, under a sounding note.

**RdEngine** follows a key to its voice: `KeyDown` .. `Panel` push packets onto the
ring (`RD_Midi.cpp`), unless the receive channel filters them or the ring is full;
`PanelChannel` changes that channel and nothing else. `Pop` applies the packets one
by one (`applyIpc()`) to the pedal, the deferred note-offs, the governor and the
voices, then `Doorbell`, `RenderEven` and `Finish` on core 0 and `Answer`, `RenderOdd`
and `Publish` on core 1 render a block. `held` is what is down, keys and pedals
alike; `stranded` remembers what was let go without the engine being told, until
the next strike or release of it or all notes off gets through. A voice is its
note, whether it has been released, whether it is to be faded out, and its age as
a rank among the ages, which is all that stealing and culling depend on. A load is
an overload, a normal one, or a low one at the end of the hold, at the end of each
block. An underrun sends the limit to its floor.

**M1Memory** keeps RAM image, dirty marks and flash sectors; the header's CRC is
the image it was computed over. `StoreErase` and `StoreProgram` write one sector;
`PowerCycle` may come between any two steps, and after `StoreErase` also stands
for a cut inside erase or program. **M1SysEx** has one action per kind of byte of
the parser with its staging image, `Poll` for the pacing by both rings, and what
empties them: the UART, and a USB host that reads, does not, or comes and goes.
One unit of data stands for the bytes that carry it, and is known by its message
and its place in it. A message may end after any number of units, up to `Tail`
more than the bank has (ALL DATA goes on with the sequencer's part); the parser
counts on but stores no more than fit, and `finish()` refuses only what is too
short. `loaded` is what the message that ended last has put into memory.

## 3. What the runs show

| Run | Question | Answer |
|---|---|---|
| `veeprom` | Does the log survive cuts at every step, failed and garbled writes, and other instruments' records? | yes: implements SettingsRegister (`AtomicRegister`), never erases the newest record (`SafeErase`), programs blank slots only (`ProgramsBlank`), RAM agrees with what a reboot finds (`RamAgreesWithFlash`), sequence numbers are unique (`SeqUnique`) |
| `core_save` | Is an edit ever forgotten, flash hammered, an edit lost to an undisturbed gesture? | no; and an edit reaches flash or is given up (`EditsReachFlash`) |
| `autosave` | Does the task know what flash holds, write only news, save what settles? | yes, for changes after the first poll |
| `display` | Can display, USB queue and UI tick wait for one another for good? Are messages whole? | no, whatever the host does (`PanelKeepsRunning`); yes (`WholeMessages`); and the stall flag is honest (`StalledIsHonest`) |
| `din_ring` | Is the ring between interrupt and main loop a queue? | yes (`RingIsQueue`) |
| `din_midi` | Are DIN messages delivered whole, once and in order, and does the parser recover from lost bytes? | yes: from the first status byte after a loss on (`DeliversWhatWasSent`) |
| `m1_memory` | What does PicoFaceM1 find in flash after cuts inside its many-sector store? | a whole memory it has had, or the preload (`BootFindsSnapshot`); what differs from RAM is marked (`MirrorIsCovered`); quiet memory ends up in flash, once a boot has found a mirror (`QuietIsStored`) |
| `m1_first_store` | Does that also hold after a boot that found no mirror, as `m1_memory.h:10-12` suggests? | no, see the finding |
| `m1_sysex` | What is loaded when dumps are cut short, lose bytes, or are longer than the bank? Is output lost, or stuck on a host that does not read? | for one wire, units of the message that has just ended only and in order, and what was sent unless the message lost something and was longer than the bank (`LoadIsMessage`, Observation 10); nothing is lost but to a stalled host (`LosesOnlyStalled`); sending ends (`SendingEnds`) |
| `audio` | Does the hardware rate change at the right moment? | no block from before the change counted for is queued (`DrainedBeforeSwitch`), at most a pool of blocks is played at the old rate (`MismatchBounded`), and it settles (`RateSettles`) |
| `rd` | Do voices stay within the limit, do notes end, do the cores keep apart? | yes: `WithinLimit`, `CoresApart`, `BlockIsWhole`; notes end of whose release the engine was told: `NoHangingNote`, `SilenceComes` (Observation 11) |
| `reface` | Do note offs find their notes? Does active sensing silence lost cables only? | yes while settings stay (`OffsFindTheirNotes`), no false alarm for a sender that sends in time what restarts the timeout (`NoFalseAlarm`, Observation 12), and once all wires are gone all is silent (`GoneIsSilent`) |

Every property is paired with a mutated operation (an operator next to the
original, marked `Mutant:`) under which TLC finds it violated.

### Finding

**The first store of PicoFaceM1 does not survive** (run `m1_first_store`). After a
boot that found no mirror, `m1_memory.cpp:104` clears the marks although flash
holds nothing of the preload that RAM has now. The first edit marks its sector
and sector 0; the store writes these two with a CRC over the whole image, of
which the other sectors are blank; the next boot sees a wrong CRC and starts
from the preload again. It goes on like this until something touches every
sector (ALL DATA, factory reset). `MirrorIsCovered` therefore speaks of boots
that found a mirror.

### Observed

Further disagreements between the code and what a comment says of it. The
modules state each as a property that does not hold; TLC shows it when the
property is put into a configuration, as given in brackets.

1. `picoface_main.cpp:560-562` expects a retry to reach the other sector because
   the failed slot is not blank. `veeprom.cpp:181-196` checks that only for slots
   inside a sector; the first slot is erased and tried again. A sector that has
   worn out at its first slot is tried three times and then given up.
   [`RetryMovesSector` in `MCVeeprom.cfg`]
2. `veeprom.h:52` calls the sequence number monotonic; a retry after a good
   record that was reported as failed repeats it, so that two valid records share
   a number and the order of the scan decides which one a boot loads. It needs a
   read-back that fails although the CRC is right: a bad bit in the header or the
   padding, neither of which the CRC covers. [`SeqUnique` with `misread` among
   `Faults`]
3. `picoface_main.cpp:206-208` argues that the debounced save has run long
   before the bootloader is entered. It has if nothing disturbs the gesture
   (`CalmUpdateKeepsEdits`, proved); a held note alone is enough to break it.
   [`UpdateKeepsEdits` in `MCCoreSave.cfg`]
4. SysEx received over DIN comes without F0 and F7 (`midi_serial.cpp:203-226`),
   but `RefaceMidiBase::onSysEx` and `D5_Midi::onSysEx` look for F0 in the first
   byte, so that they ignore every SysEx from that socket. USB delivers both.
   [`SysExIsFramed` in `MCMidiSerial.cfg`]
5. An overlong SysEx over DIN is cut off and delivered (`midi_serial.cpp:248-251`)
   although `midi_serial.h:67-68` says it is dropped. [`OverlongIsDropped`, same]
6. `settings_autosave.h:43` takes the first poll's settings for flash contents;
   MIDI handled before it becomes the baseline and is never saved.
   [`BaselineIsFlash` in `MCAutosave.cfg`]
7. A reply of PicoFaceM1 that falls due while a dump is running is written between
   two chunks of it (`M1_SysEx.cpp:255`) and ends the dump for the receiver,
   although the header promises "one dump at a time".
   [`NoReplyInsideDump` in `MCM1SysEx.cfg`]
8. USB and DIN feed the same parser of PicoFaceM1. Two dumps at a time are
   mixed in the staging image and loaded as one. [`LoadIsMessage` with
   `Wires = {usb, din}`]
9. A change of the sample rate that is noticed on the very block that ends the
   countdown of an earlier one: `audio_set_sample_freq(inst.sampleRate())` reads
   the newest rate, so the hardware goes to it while blocks of the rate in
   between are queued. The new countdown then finds nothing left to change.
   [`NeverAhead` in `MCAudioPipeline.cfg`]
10. `M1_SysEx.cpp:10-11` says that a bank is only copied into memory "once the
    whole message has arrived with the right length". `loadBank` (136) refuses
    only what is too short. ALL DATA goes on after the memory with the
    sequencer's part (166-168), so that a dump that has lost some bytes is
    filled up by what follows and loaded, all of it behind the loss in the wrong
    place. [`LoadIsWhole` in `MCM1SysEx.cfg`]
11. The panel of PicoFaceRD changes the receive channel (`RD_Controller.cpp:250-255`)
    without letting anything go; the release of a key that is down is then
    filtered (`RD_Midi.cpp:66`, `72`) and the voice sounds on until the note is
    struck or released again, or all notes off comes, on a channel that is heard.
    While it sounds no settings are saved. A packet dropped by a full ring
    (`rd_ipc_local.h:44`) does the same. [`LetGoIsSilent` in `MCRdEngine.cfg`]
12. `reface_midi.h:82` says that any received byte resets the sense timeout. Over
    DIN it is reset by the status byte of a channel message
    (`midi_serial.cpp:232-240`) and by FE, not by data in running status nor by
    SysEx: a sender that need not send FE because it has enough else to send is
    taken for gone after 350 ms, and its notes are cut off. [`AnyByteCounts` in
    `MCRefaceMidi.cfg`]

Observed without a property: `save_retries` is not reset by a new edit, so an
edit made after two failed attempts at an older one has a single attempt. One
sensing clock serves both wires of a reface port, so that traffic on one hides
that the other is gone. An outgoing dump of PicoFaceM1 is packed from the live
image over many ticks and may mix two states of the memory.

### Bounds

* `veeprom`: two slots per sector instead of 16, sequence numbers up to
  7, two instruments, two payloads, symmetric in both. Seven saves pass
  around the four slots almost twice, so every slot is rewritten and the sector
  jump happens in both directions, with failures and instrument changes at
  every point. Three slots per sector give the same answers (200 thousand
  states, checked once, too slow to keep). The proofs have no such bound.
* `core_save`: a tick is 250 ms: debounce 2000 ms = 8, core takes the screen
  500 ms = 2, commit 2500 ms = 10, drain 150 ms rounded up to 1, three attempts
  as in the code. Several UI ticks may fall into one unit (`Delays` has 0).
  Two payloads: an edit changes the settings or does not. Two instruments, of
  which one saves itself. 159 228 states.
* `autosave`: a unit is one poll of 250 ms, 8 of them to settle, polls up to 3
  intervals late; three payloads so that settings can move while pending.
* `display`: ring 6, FIFO 3, messages of 1, 2 and 4 bytes, so that a message is
  longer than the FIFO, the ring fills with room for a part of the next one,
  and several messages queue. Two rows per frame, stall after 3 ticks.
* `din_ring`: four places, three bytes to tell apart: full, empty and wrapped
  around in all combinations. `din_midi`: a queue of one byte, since bytes may be
  lost at any point anyway and a longer queue only delays the parser (two places
  with one SysEx less were checked once, 5.7 million states); two notes to mix
  up, a message with one data byte, a SysEx that fits the buffer and one that
  does not.
* `m1_memory`: three sectors (the one with the header, one in the middle, the
  last) instead of eight, two contents per sector; 18 216 states.
* `m1_sysex`: two units of memory, so that one bank is a part of the other, one
  more that a bank may be sent with, two values, both rings one chunk long and a
  dump of four chunks, so that pacing always bites; one wire. A wire may lose
  anything but an F0: with both an F7 and the next F0 lost a parser that knows no
  length cannot tell two messages apart. 386 120 states.
* `audio`: the firmware's own numbers, 6 buffers, 4 blocks per transfer, a
  countdown of 5, and three changes, so that a countdown is restarted and a
  change falls on its end; 4 499 states.
* `rd`: two notes and two voices, one on each core, so that every strike beyond
  the first steals or is below a limit that moves between 1 and 2; two
  instruments with limits 2 and 1; a ring of two packets, which fills; one
  fixed voice mode; a channel that is played on and may be set or not. One
  release is lost to the engine at a time (`MaxStranded`): one is enough to leave
  any note or the pedal behind, in any state of the others. 946 164 states.
* `reface`: a USB and a DIN wire, of which one is in use (`MaxSenders`), two keys,
  two channels, notes 0 to 2, so that the limits of the range fold keys onto one
  note, transposition by one, octave switch by two; FE at most 3 units apart,
  timeout 4, one unit between `process()` and the tick, which is just as tight as
  300, 350 and 50 ms. The proofs are for any number of wires in use. 1 412 592
  states.
* `MaxSeq`, `MaxGap`, `MaxChanges`, `Gap`, `MaxSenders`, `MaxStranded` and the caps
  on ages, `late`, `sinceRx` and `mute` are the only bounds in guards and initial
  states.

### Fairness

* Sections of the loop: weak fairness. The loop is endless and every section
  returns; the code has no blocking wait in the modelled part.
* Clock: strong fairness of a step in which time advances, because such a step
  alternates with others that disable it. Milliseconds pass.
* `SaveTakes` in `Autosave`: strong fairness. Flash that fails every time is
  retried for ever and nothing would be saved. `CoreSave` needs no such
  assumption since giving up is one of its outcomes.
* `MidiDone`: strong fairness, messages do not arrive without end.
* The host owes nothing. `PanelKeepsRunning` assumes only that it settles for
  one behaviour, be it not reading for ever, and stops asking for replies;
  `EditsReachFlash` assumes that the panel is left alone and that notes end.
* The DMA runs (weak fairness of `Irq`), and one core or the other gets on: weak
  fairness of `Core0 \/ Core1`, which is enough because core 1 stops when it has
  answered. A
  released voice ends (its release and the forced decay behind it in
  `renderVoice()`): strong fairness of the rendering step in which all released
  voices end.
* `Tick` of RefaceMidi: strong fairness, because the UI tick is skipped in some
  passes but not for good, which is `PanelKeepsRunning` of run `display`.
* `UsbTake` and `UsbStall` of M1SysEx: strong fairness. A host that keeps coming
  back to read takes something; the stall clock runs on while a host comes and
  goes. A host that stays and does not read owes nothing.
* `SilenceComes` assumes that in the end everything has been let go, that the
  engine was told so, and that no more commands come.
* `QuietIsStored` assumes that no dump is being sent for ever, which is
  `SendingEnds` of run `m1_sysex`.

## 4. What is proved

| Theorem | Statement |
|---|---|
| `VeepromProofs!Inductive` | the inductive invariant `IInv` of the log |
| `TypeCorrect`, `SafeEraseHolds`, `ProgramsBlankHolds`, `SeqUniqueHolds`, `RamAgreesHolds` | the five invariants of run `veeprom` |
| `AtomicRegisterHolds` | `Spec => Reg!Spec`: the log implements the register |
| `CoreSaveProofs!TypeCorrect`, `NoForgottenEditHolds`, `BoundedHammeringHolds`, `CalmUpdateKeepsEditsHolds` | the safety properties of run `core_save` |
| `AutosaveProofs!TypeCorrect`, `BeliefIsFlashHolds`, `NoRedundantWriteHolds` | the safety properties of run `autosave` |
| `DinMidiProofs!RingTypeCorrect`, `RingIsQueueHolds` | a ring of any size implements `DropTailQueue` |
| `DinMidiProofs!SerialInductive`, `SerialTypeCorrect`, `DeliversWhatWasSentHolds` | the property of run `din_midi` |
| `MainLoopProofs!PipelineInductive`, `PipelineTypeCorrect`, `MismatchBoundedHolds`, `DrainedBeforeSwitchHolds` | the safety properties of run `audio` |
| `MainLoopProofs!LoopInductive`, `LoopTypeCorrect`, `WholeMessagesHolds`, `StalledIsHonestHolds` | the safety properties of run `display` |
| `M1Proofs!MemoryInductive`, `MemoryTypeCorrect`, `MirrorIsCoveredHolds`, `BootFindsSnapshotHolds` | the safety properties of run `m1_memory` |
| `M1Proofs!SysExInductive`, `SysExTypeCorrect`, `LosesOnlyStalledHolds`, `LoadIsMessageHolds` | the safety properties of run `m1_sysex` |
| `RdEngineProofs!Inductive`, `TypeCorrect`, `WithinLimitHolds`, `NoHangingNoteHolds`, `CoresApartHolds`, `BlockIsWholeHolds` | the safety properties of run `rd` |
| `RefaceMidiProofs!Inductive`, `NoFalseAlarmHolds`, `OffsFindTheirNotesHolds` | the safety properties of run `reface` |

They hold for any number of slots, instruments, payloads, sectors, buffers,
voices, notes, messages and wires, any thresholds, any size of the rings and any
bound, under the named assumptions of the modules and:

* `VeepromProofs`: theorems that need unique sequence numbers carry the premise
  `ReliableReadback` (`"misread" \notin Faults`). Observation 2 is what
  happens without it.
* `CoreSave`: `Debounce < Hold`, which the code's 2000 and 2500 ms satisfy. It is
  the whole reason for `CalmUpdateKeepsEdits`: nothing else orders the two.
* `Autosave`: `None` is no payload.
* `AudioPipeline`: `Drain = Buffers - 1`, the 5 and the 6 of the code.
* `RefaceMidi`: `Sense + Gap <= Timeout`, 300 + 50 <= 350 ms.
* `MidiSerial`: `Nothing` is no message and no status; `len` of a voice message is
  what its status needs.
* `M1SysEx`: `LoadIsMessageHolds` has the premise `OneWire`. Observation 8 is what
  happens with two. The statement itself excepts messages that lost something and
  are longer than the bank (Observation 10). `LosesOnlyStalledHolds` needs no
  premise.
* `RdEngine`: every instrument's base limit lies between the floor and the number
  of voices. Nothing is assumed of the channel settings or of what was lost.

Arguments:

* **Veeprom.** Neither `SafeErase` nor `RamAgreesWithFlash` is inductive: both
  rest on where the RAM pointer is. `IInv` adds that sequence numbers are
  unique, that a newest record exists if any does (`NewestExists`), that the RAM
  pointer is at the greatest number among the records known to be good
  (`PointerOK`, which leaves out the record that is being verified), and that a
  save in progress writes the next number, never in the pointer's slot and never
  erasing its sector (`SaveOK`). Two lemmas carry the steps: a cut only removes
  records (`Shrinking`), a complete program adds exactly one (`Growing`). The
  refinement maps an instrument's register to the payload of its newest valid
  record; the program that completes a record is `Take`, an erase or a cut inside
  one is `Reclaim` or `PowerLoss`, a boot, a begun save and its result are their
  namesakes, everything else stutters.
* **CoreSave.** `IInv` adds that a save in progress has its flag set, that
  `retries` has counted every attempt since the last touch (`AttemptsCounted`),
  and `CalmIsInTime`: in a calm gesture with an edit still owed the debounce
  clock is at least as old as the gesture, no note sounds, and the gesture has
  not been committed when the UI tick runs. Since `Debounce < Hold`, the save
  falls due in the pass that commits at the latest.
* **Autosave.** `IInv` adds what the belief rests on: a fresh task without a
  baseline has the restored settings in place, and a save in progress writes
  `pending`, which differs from what is believed.

* **SpscRing.** `RingIInv` says that what `process()` has read is still the oldest byte
  in the ring, so that the interrupt cannot have overwritten it, and that only
  bytes are between tail and head. The refinement maps the queue to the slots
  from tail to head, around the end.
* **MidiSerial.** The property speaks of one byte at the moment it is taken, so
  `SerialIInv` has to say why that byte will be understood from the moment it is
  sent. A byte before which nothing was lost is *in step* (`InStep`): it is a
  status byte, or it follows the last byte before it in the ring that is not a
  real-time byte, or, if there is none, the parser holds exactly its message's
  earlier data (`Ready`). The same holds of every byte the sender may send next
  while nothing has been lost (`SenderInStep`). Taking the first byte turns
  "follows it" into `Ready` for the next one (`ParseInStep`); a byte that is sent
  turns `SenderInStep` into `InStep` of the byte and, if it got into the ring, of
  whatever may follow it (`TransmitKeeps`). A loss ends `intact`, and with it both
  obligations, until the next status byte.
* **UsbMidiOut in DisplayLoop.** `LoopIInv` adds to `WholeMessages` that what a
  host leaves behind when it goes is gone once `process()` has run (`GoneIsEmpty`),
  and that the stall timer runs only with bytes queued and no longer than these
  have waited (`StallIsWait`). Whole messages are handled with a predicate of two
  arguments, a byte and the queue behind it (`Whole`): a message written behind
  whole ones leaves whole ones, and cut anywhere, the last byte sent and the rest
  are whole again (`WholeWithMessage`, `WholeAfter`). The order of the sections
  matters: between `tud_task()` and `process()` the flag may be out of date, and a
  write there would break `StallIsWait`.
* **M1Memory.** `MemoryIInv` adds that sector 0 is marked whenever any sector is, and
  what a store in progress has done (`Progress`): the marked sectors before its
  place hold RAM's contents and the header RAM's image, so that clearing the marks
  at its end loses nothing. A boot finds an image only if header and all sectors
  agree, which cannot happen half-way: sector 0 goes first and its header is of
  the image as RAM holds it.
* **M1SysEx.** Nothing is lost because no write is longer than the room just found:
  the reply is written first and the room looked at again for the chunk
  (`WrittenFits`, `PollKeeps`), so types are all the invariant needs. For loading,
  `Staged` says of the message on the wire (`Unpacked`) that what has been unpacked
  of it is in order, each unit at or before the place it was sent for; that all of
  it is there if nothing was missed; and that less than what was sent is there if
  something was, as long as the message is no longer than the bank. An F0 starts
  again from nothing, and `Load` refuses what is too short. So a message that lost
  something loads only if it is longer than the bank.
* **AudioPipeline.** Each round of the loop gives one block and counts one down.
  `PipelineIInv` says how many blocks were given since the countdown began (`Counted`):
  that many blocks from the end of the queue, or all there are, are of the armed
  era or a later one. At the switch `Counted` is the size of the pool. That is why
  five is enough: the block given in the round that starts the count is the sixth.
* **RdEngine.** Three parts. *Rendezvous*: at most one request is out, only
  while core 0 is in `renderBlock()`, and it is answered only after the odd
  voices have been rendered for it. *Governed*: culling marks exactly the surplus
  in an order that is strict (lemmas on finite sets), a stolen slot keeps the
  count unless it was condemned, and then the limit is restored. *Accounted*: the
  pedal will be up when the ring has been emptied, unless it is *open*, that is
  down or let go without the engine being told; and every note that sounds or is
  about to is open, deferred under a pedal, or has its note-off behind it in the
  ring. A filtered or dropped release moves a key from `held` to `stranded`, both
  of them open; one that gets through puts a packet into the ring as it takes the
  key out of either.
* **RefaceMidi.** `IInv` adds for each sensing sender whose `mute` is within bounds
  (`Heard`) that the timeout has been running no longer than it has been mute or
  something of it is waiting, so that at a tick the silence is at most `Sense` plus
  the time since `process()`. Transposition is a function of the settings, so a note
  off reaches the note of its key as long as they stay, and a second key on the
  same note has its own note on in `held`.

**Only model-checked:** liveness (`EditsReachFlash`, `SettledIsSaved`,
`PanelKeepsRunning`, `QuietIsStored`, `SendingEnds`, `RateSettles`, `SilenceComes`,
`GoneIsSilent`), which is beyond the prover. Every safety property of every passing
run is proved.

## 5. What is not modelled

* Signal processing, parameter tables, menus and drawing: numeric code and
  layout. No state of the modelled protocols depends on them. Of the 160
  thousand lines of the implementation some 130 thousand are wave and data tables.
* Byte layout of flash records. A record is valid or `Garbage`; that the sequence
  number lies outside the CRC, so that a torn header may carry a wrong number
  with a good body, is a hazard of its own.
* SysEx of PicoFaceM1 below the unit: bits that a byte lost inside a 7-bit group
  moves into its neighbours, and a header of which a byte was lost: the message
  is skipped in the model, whereas in the code its first data byte may be taken
  for the function. Running status at a DIN input that has
  not seen a status byte yet: RefaceMidi lets such data play (MidiSerial has the
  parser).
* Index arithmetic of the outgoing rings, represented by sequences and counts.
* The patch store of PicoFaceJ6 (`j6_patchstore.cpp`): one sector, erased and
  rewritten for each patch, no second copy. It promises nothing across a power
  cut that could be checked.
* PicoFaceM1: the voice governor (`M1_Instrument.cpp:68-71`, `96-102`), edit
  buffers, universal inquiries (as the mode request).
* PicoFaceRD: effects, pitch bend and tuning, packs that do not load.
* The transmit ring of DIN MIDI and the SysEx reassembly of USB MIDI input.
* Debounce and long presses of the buttons; the consumer pool of the audio
  library, of which a buffer is always free when the interrupt asks.
* One-shot register programming at boot, descriptors, host tools, boards.

## 6. Plan

Order: what can lose a user's data first, then what can freeze or mute the
instrument, then what can garble it.

1. *done* SettingsRegister, Veeprom, CoreSave, Autosave with proofs;
   UsbMidiOut, DisplayLoop with runs.
2. *done* SpscRing with proofs, MidiSerial.
3. *done* AudioPipeline, RefaceMidi, RdEngine, M1Memory with proofs; M1SysEx.
4. **UsbMidiIn** and the DIN transmit ring, against the same statement of what is
   delivered; **Buttons**, debounce and long press under the tick.
5. Voice allocation of the other engines, as in RdEngine.
6. *done* Proofs of DeliversWhatWasSent, WholeMessages, StalledIsHonest,
   LosesOnlyStalled and LoadIsMessage. *open* A ring-index refinement of the
   outgoing queue, and the parser on SpscRing itself in place of the queue.
