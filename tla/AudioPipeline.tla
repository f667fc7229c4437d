--------------------------- MODULE AudioPipeline ----------------------------
(***************************************************************************)
(* From the main loop's render() to the I2S port: the pool of buffers the  *)
(* main loop fills (audio.cpp), the DMA interrupt that empties it          *)
(* (audio_i2s.c, sample_conversion.h) and the change of the sample rate    *)
(* that has to wait for the buffers already queued (picoface_main.cpp).    *)
(*                                                                         *)
(* Rates are told apart by when the engine went over to them: era n + 1 is *)
(* what the engine renders at after its n-th change.  A block is the era   *)
(* it was rendered in.                                                     *)
(***************************************************************************)
EXTENDS Naturals, Sequences, FiniteSets

CONSTANTS
  Buffers,    \* init_audio(..., 6)
  PerPlay,    \* blocks in a consumer buffer
  Drain,      \* rateDrain = 5
  MaxChanges  \* bound: changes of the rate

ASSUME PipelineAssumption ==
  /\ Buffers \in Nat \ {0} /\ PerPlay \in Nat \ {0} /\ MaxChanges \in Nat
  /\ Drain = Buffers - 1 /\ Drain > 0

VARIABLES
  at,         \* where the main loop is in its producer loop
  prepared,   \* the producer pool's prepared list
  engine,     \* the era the engine renders in
  changed,    \* sampleRateChanged_
  rateDrain,  \* blocks still to be given before the switch; 0 when idle (-1)
  format,     \* s_audio_format.sample_freq
  freq,       \* shared_state.freq: what the PIO clocks out at
  armed,      \* history: the engine's era when the count was last started
  late        \* history: blocks of the engine's era played at another rate

vars == <<at, prepared, engine, changed, rateDrain, format, freq, armed, late>>

Init ==
  /\ at = "take" /\ prepared = <<>>
  /\ engine = 0 /\ changed = FALSE /\ rateDrain = 0
  /\ format = 0 /\ freq = 0 /\ armed = 0 /\ late = 0

Goes(from, to) == at = from /\ at' = to

-----------------------------------------------------------------------------
(* The main loop; the interrupt may come between any two of its steps.     *)

\* Mutant: nobody looks whether one is free.
TakeAnyway ==
  /\ Goes("take", "render")
  /\ UNCHANGED <<prepared, engine, changed, rateDrain, format, freq, armed, late>>

\* take_audio_buffer(): one is free; the main loop does not wait for it.
Take ==
  /\ Len(prepared) < Buffers
  /\ Goes("take", "render")
  /\ UNCHANGED <<prepared, engine, changed, rateDrain, format, freq, armed, late>>

\* render() begins with the commands that have come in; one of them may be
\* for an instrument of another rate (RD_Synth_Bridge::setInstrument()).
Render ==
  /\ Goes("render", "give")
  /\ UNCHANGED <<engine, changed, late>>
  /\ UNCHANGED <<prepared, rateDrain, format, freq, armed>>

RenderChanged ==
  /\ Goes("render", "give")
  /\ engine < MaxChanges
  /\ engine' = engine + 1 /\ changed' = TRUE /\ late' = 0
  /\ UNCHANGED <<prepared, rateDrain, format, freq, armed>>

Give ==
  /\ Goes("give", "count")
  /\ prepared' = Append(prepared, engine)
  /\ UNCHANGED <<engine, changed, rateDrain, format, freq, armed, late>>

\* Mutant: the count stops one short of its end.
CountNever ==
  /\ Goes("count", "consume")
  /\ rateDrain' = IF rateDrain > 1 THEN rateDrain - 1 ELSE rateDrain
  /\ UNCHANGED <<prepared, engine, changed, format, freq, armed, late>>

\* The last of the count: audio_set_sample_freq(sampleRate()).
Count ==
  /\ Goes("count", "consume")
  /\ rateDrain' = IF rateDrain > 0 THEN rateDrain - 1 ELSE 0
  /\ format' = IF rateDrain = 1 THEN engine ELSE format
  /\ UNCHANGED <<prepared, engine, changed, freq, armed, late>>

\* Mutant: one block less is waited for.
ConsumeShort ==
  /\ Goes("consume", "take")
  /\ rateDrain' = IF changed THEN Drain - 1 ELSE rateDrain
  /\ armed' = IF changed THEN engine ELSE armed
  /\ changed' = FALSE
  /\ UNCHANGED <<prepared, engine, format, freq, late>>

\* Mutant: one block more is waited for.
ConsumeLong ==
  /\ Goes("consume", "take")
  /\ rateDrain' = IF changed THEN Drain + 1 ELSE rateDrain
  /\ armed' = IF changed THEN engine ELSE armed
  /\ changed' = FALSE
  /\ UNCHANGED <<prepared, engine, format, freq, late>>

\* consumeSampleRateChange(): the count starts, or starts again.
Consume ==
  /\ Goes("consume", "take")
  /\ rateDrain' = IF changed THEN Drain ELSE rateDrain
  /\ armed' = IF changed THEN engine ELSE armed
  /\ changed' = FALSE
  /\ UNCHANGED <<prepared, engine, format, freq, late>>

-----------------------------------------------------------------------------
(* The DMA interrupt: a consumer buffer has been played.  The clock is set *)
(* first (wrap_consumer_take()), then the next one is filled with what is  *)
(* prepared (consumer_pool_take()); with nothing prepared it is silence.   *)

Least(m, n) == IF m < n THEN m ELSE n

\* What is played late is not counted beyond the first block too many.
Irq ==
  LET n == Least(PerPlay, Len(prepared))
      wrong == {i \in 1 .. n : prepared[i] = engine /\ format # engine}
  IN /\ freq' = format
     /\ prepared' = SubSeq(prepared, n + 1, Len(prepared))
     /\ late' = Least(late + Cardinality(wrong), Buffers + 1)
     /\ UNCHANGED <<at, engine, changed, rateDrain, format, armed>>

Producer == Take \/ Render \/ Give \/ Count \/ Consume
Next == Producer \/ RenderChanged \/ Irq

Spec == Init /\ [][Next]_vars

(***************************************************************************)
(* The main loop goes round and the DMA plays on.  Nobody has to change    *)
(* the rate.                                                               *)
(***************************************************************************)
Fairness == WF_vars(Producer) /\ WF_vars(Irq)
LiveSpec == Spec /\ Fairness

-----------------------------------------------------------------------------
Eras == 0 .. MaxChanges

\* Every variable has its type, and no more buffers are out than there are.
TypeOK ==
  /\ at \in {"take", "render", "give", "count", "consume"}
  /\ prepared \in Seq(Eras)
  /\ Len(prepared) + (IF at \in {"render", "give"} THEN 1 ELSE 0) <= Buffers
  /\ engine \in Eras /\ changed \in BOOLEAN /\ rateDrain \in 0 .. Drain
  /\ format \in Eras /\ freq \in Eras /\ armed \in Eras /\ late \in 0 .. Buffers + 1

(***************************************************************************)
(* "The core must not switch the hardware rate immediately: the roughly    *)
(* five buffers already queued ... were rendered at the old rate"          *)
(* (picoface_main.cpp): whenever the rate is switched, no block rendered   *)
(* before the change that was counted for is queued any more, however the  *)
(* interrupt falls between the steps of the loop and however often the     *)
(* count was started again.                                                *)
(***************************************************************************)
DrainedBeforeSwitch ==
  [][format' # format => \A i \in 1 .. Len(prepared') : prepared'[i] >= armed']_vars

(***************************************************************************)
(* The price of waiting, that new blocks are played at the old rate, is    *)
(* bounded: of each change, whatever others are counted for, no more than  *)
(* the blocks that fit in the pool are.                                    *)
(***************************************************************************)
MismatchBounded == late <= Buffers

(***************************************************************************)
(* When the rate changes no more the hardware ends up at the engine's, in  *)
(* whatever step of an earlier count the last change came.                 *)
(***************************************************************************)
RateSettles == <>[][~RenderChanged]_vars => <>[](freq = engine)

(***************************************************************************)
(* What the same comment says of the rate itself: no block is played at    *)
(* the rate of a later change than the one it was rendered after.          *)
(* It does not hold: README, Observed.                                     *)
(***************************************************************************)
NeverAhead ==
  [][prepared' # prepared /\ Irq =>
       \A i \in 1 .. Least(PerPlay, Len(prepared)) : prepared[i] >= freq']_vars
=============================================================================
