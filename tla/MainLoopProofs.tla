--------------------------- MODULE MainLoopProofs ---------------------------
(***************************************************************************)
(* The main loop's two waits.                                              *)
(*                                                                         *)
(* The change of the sample rate, for every number of buffers: as many     *)
(* blocks are counted as can be queued, so that none of an earlier rate is *)
(* left at the switch and no more than these are played at the wrong one.  *)
(*                                                                         *)
(* The USB MIDI queue between display, panel and host: only whole messages *)
(* go out, and a queue that is called stalled has waited long enough.      *)
(***************************************************************************)
EXTENDS AudioPipeline, DisplayLoop, SequenceTheorems, FiniteSetTheorems, TLAPS

\* How many blocks have been given since the one that began the count, with it.
Counted == Drain - rateDrain + (IF at = "count" THEN 2 ELSE 1)

\* The same for the engine's last change, which may not be counted for yet.
Since == IF changed THEN (IF at = "give" THEN 0 ELSE 1) ELSE Counted

\* A change waits for consume; until then the block just given is of the
\* engine's era, and no block is of a later one.
Pending ==
  /\ changed => at \in {"give", "count", "consume"}
  /\ at \in {"count", "consume"} /\ Len(prepared) > 0 => prepared[Len(prepared)] = engine
  /\ \A i \in 1 .. Len(prepared) : prepared[i] <= engine
  /\ format <= engine /\ armed <= engine

\* While a count runs, what was given since it began is of its era or later.
CountedEras ==
  rateDrain > 0 =>
    \A i \in 1 .. Len(prepared) : i > Len(prepared) - Counted => prepared[i] >= armed

\* A change the hardware has not followed is pending or being counted for,
\* and what is played of its era has been given since.
NotFollowed ==
  format # engine =>
    /\ changed \/ (rateDrain > 0 /\ armed = engine)
    /\ \A i \in 1 .. Len(prepared) : prepared[i] = engine => i > Len(prepared) - Since
    /\ late + Least(Since, Len(prepared)) <= Since

PipelineIInv == TypeOK /\ Pending /\ CountedEras /\ NotFollowed /\ MismatchBounded
-----------------------------------------------------------------------------
\* What follows from the types, and the ranges of the two counts.
Ranges ==
  /\ Drain \in Nat /\ Buffers = Drain + 1 /\ PerPlay \in Nat \ {0}
  /\ Len(prepared) \in 0 .. Buffers
  /\ at \in {"render", "give"} => Len(prepared) <= Drain
  /\ engine \in Nat /\ format \in Nat /\ armed \in Nat
  /\ late \in Nat /\ rateDrain \in 0 .. Drain
  /\ Counted \in 1 .. Drain + 2 /\ (rateDrain > 0 => Counted <= Buffers)
  /\ Since \in Nat /\ (changed \/ rateDrain > 0 => Since <= Buffers)
  /\ \A i \in 1 .. Len(prepared) : prepared[i] \in Nat

\* How far the counts can get.
LEMMA CountRanges == PipelineIInv => Ranges
<1> SUFFICES ASSUME PipelineIInv PROVE Ranges
  OBVIOUS
<1>1. /\ Len(prepared) \in 0 .. Buffers /\ prepared \in Seq(Eras)
      /\ at \in {"render", "give"} => Len(prepared) <= Drain
      /\ rateDrain \in 0 .. Drain /\ Drain \in Nat /\ Buffers = Drain + 1
      /\ changed \in BOOLEAN
  BY PipelineAssumption, LenProperties DEF PipelineIInv, TypeOK
<1>2. Counted \in 1 .. Drain + 2 /\ (rateDrain > 0 => Counted <= Buffers)
  BY <1>1 DEF Counted
<1>3. Since \in Nat /\ (changed \/ rateDrain > 0 => Since <= Buffers)
  BY <1>1, <1>2 DEF Since
<1>4. \A i \in 1 .. Len(prepared) : prepared[i] \in Nat
  <2>1. Eras \subseteq Nat
    BY PipelineAssumption DEF Eras
  <2>2. \A i \in 1 .. Len(prepared) : prepared[i] \in Eras
    BY <1>1, ElementOfSeq
  <2>3. QED
    BY <2>1, <2>2
<1>5. QED
  BY <1>1, <1>2, <1>3, <1>4, PipelineAssumption DEF Ranges, PipelineIInv, TypeOK, Eras

\* No more blocks of the interval from a to n than it has places.
LEMMA CountWithin ==
  ASSUME NEW a \in Int, NEW n \in Nat, NEW W, W \subseteq a .. n
  PROVE  Cardinality(W) \in Nat /\ Cardinality(W) <= IF a <= n THEN n - a + 1 ELSE 0
<1>1. /\ IsFiniteSet(a .. n)
      /\ Cardinality(a .. n) = IF a > n THEN 0 ELSE n - a + 1
  BY FS_Interval
<1>2. IsFiniteSet(W) /\ Cardinality(W) <= Cardinality(a .. n)
  BY <1>1, FS_Subset
<1>3. Cardinality(W) \in Nat
  BY <1>2, FS_CardinalityType
<1>4. QED
  BY <1>1, <1>2, <1>3

\* What is left of a sequence when n are taken from its front.
LEMMA TakenFromFront ==
  ASSUME NEW S, NEW s \in Seq(S), NEW n \in 0 .. Len(s)
  PROVE  LET rest == SubSeq(s, n + 1, Len(s)) IN
           /\ rest \in Seq(S) /\ Len(rest) = Len(s) - n
           /\ \A i \in 1 .. Len(s) - n : rest[i] = s[i + n] /\ i + n \in 1 .. Len(s)
<1> DEFINE rest == SubSeq(s, n + 1, Len(s))
<1>1. Len(s) \in Nat /\ n \in Int /\ n + 1 \in Int /\ Len(s) \in Int
  BY LenProperties
<1>2. \A i \in n + 1 .. Len(s) : s[i] \in S
  BY <1>1, ElementOfSeq
<1>3. /\ rest \in Seq(S)
      /\ Len(rest) = IF n + 1 <= Len(s) THEN Len(s) - (n + 1) + 1 ELSE 0
      /\ \A i \in 1 .. Len(s) - (n + 1) + 1 : rest[i] = s[n + 1 + i - 1]
  BY <1>1, <1>2, SubSeqProperties
<1> HIDE DEF rest
<1>4. Len(rest) = Len(s) - n
  BY <1>1, <1>3
<1>5. \A i \in 1 .. Len(s) - n : i \in 1 .. Len(s) - (n + 1) + 1 /\ n + 1 + i - 1 = i + n
  BY <1>1
<1>6. \A i \in 1 .. Len(s) - n : rest[i] = s[i + n] /\ i + n \in 1 .. Len(s)
  BY <1>1, <1>3, <1>5
<1>7. QED
  BY <1>3, <1>4, <1>6 DEF rest

\* The device starts with nothing queued and nothing to follow.
LEMMA InitPipeline == Init => PipelineIInv
<1> SUFFICES ASSUME Init PROVE PipelineIInv
  OBVIOUS
<1>1. prepared \in Seq(Eras) /\ Len(prepared) = 0 /\ 0 \in Eras
  BY PipelineAssumption, EmptySeq DEF Init, Eras
<1>2. TypeOK
  <2>1. late \in 0 .. Buffers + 1 /\ rateDrain \in 0 .. Drain
    BY PipelineAssumption DEF Init
  <2>2. Len(prepared) + (IF at \in {"render", "give"} THEN 1 ELSE 0) <= Buffers
    BY <1>1, PipelineAssumption DEF Init
  <2>3. QED
    BY <1>1, <2>1, <2>2 DEF Init, TypeOK
<1>3. Pending /\ CountedEras /\ NotFollowed /\ MismatchBounded
  BY <1>1, PipelineAssumption DEF Init, Pending, CountedEras, NotFollowed, MismatchBounded
<1>4. QED
  BY <1>2, <1>3 DEF PipelineIInv

\* Steps that move the loop on and touch nothing.
LEMMA PassIInv == PipelineIInv /\ (Take \/ Render) => PipelineIInv'
<1> SUFFICES ASSUME PipelineIInv, Take \/ Render PROVE PipelineIInv'
  OBVIOUS
<1>0. Ranges
  BY CountRanges
<1>1. /\ \/ at = "take" /\ at' = "render" /\ Len(prepared) < Buffers
         \/ at = "render" /\ at' = "give"
      /\ UNCHANGED <<prepared, engine, changed, rateDrain, format, freq, armed, late>>
  BY DEF Take, Render, Goes
<1>2. ~changed /\ Counted' = Counted /\ Since' = Since
  BY <1>1 DEF PipelineIInv, Pending, Counted, Since
<1>3. TypeOK'
  BY <1>1, <1>0, PipelineAssumption DEF Ranges, PipelineIInv, TypeOK
<1>4. Pending'
  BY <1>1, <1>2 DEF PipelineIInv, Pending
<1>5. CountedEras' /\ NotFollowed' /\ MismatchBounded'
  BY <1>1, <1>2 DEF PipelineIInv, CountedEras, NotFollowed, MismatchBounded
<1>6. QED
  BY <1>3, <1>4, <1>5 DEF PipelineIInv

\* A new era, of which no block is queued.
LEMMA RenderChangedIInv == PipelineIInv /\ RenderChanged => PipelineIInv'
<1> SUFFICES ASSUME PipelineIInv, RenderChanged PROVE PipelineIInv'
  OBVIOUS
<1>0. Ranges
  BY CountRanges
<1>1. /\ at = "render" /\ at' = "give" /\ engine' = engine + 1 /\ changed' = TRUE
      /\ late' = 0 /\ UNCHANGED <<prepared, rateDrain, format, freq, armed>>
  BY DEF RenderChanged, Goes
<1>2. engine' \in Eras
  BY <1>1, PipelineAssumption DEF RenderChanged, PipelineIInv, TypeOK, Eras
<1>3. TypeOK'
  BY <1>1, <1>2, PipelineAssumption DEF PipelineIInv, TypeOK
<1>4. Pending'
  BY <1>1, <1>0 DEF Ranges, PipelineIInv, Pending
<1>5. Counted' = Counted /\ Since' = 0
  BY <1>1 DEF Counted, Since
<1>6. CountedEras'
  BY <1>1, <1>5 DEF PipelineIInv, CountedEras
<1>7. \A i \in 1 .. Len(prepared) : prepared[i] # engine'
  BY <1>1, <1>0 DEF Ranges, PipelineIInv, Pending
<1>8. NotFollowed'
  BY <1>1, <1>5, <1>7, <1>0 DEF Ranges, PipelineIInv, NotFollowed, Least
<1>9. MismatchBounded'
  BY <1>1, PipelineAssumption DEF MismatchBounded
<1>10. QED
  BY <1>3, <1>4, <1>6, <1>8, <1>9 DEF PipelineIInv

\* The block that is given counts for every count that runs.
LEMMA GiveIInv == PipelineIInv /\ Give => PipelineIInv'
<1> SUFFICES ASSUME PipelineIInv, Give PROVE PipelineIInv'
  OBVIOUS
<1>0. Ranges
  BY CountRanges
<1>1. /\ at = "give" /\ at' = "count" /\ prepared' = Append(prepared, engine)
      /\ UNCHANGED <<engine, changed, rateDrain, format, freq, armed, late>>
  BY DEF Give, Goes
<1>2. /\ prepared' \in Seq(Eras) /\ Len(prepared') = Len(prepared) + 1
      /\ \A i \in 1 .. Len(prepared) : prepared'[i] = prepared[i]
      /\ prepared'[Len(prepared')] = engine
  BY <1>1, AppendProperties DEF PipelineIInv, TypeOK
<1>3. TypeOK'
  BY <1>1, <1>2, <1>0, PipelineAssumption DEF Ranges, PipelineIInv, TypeOK
<1>4. Pending'
  BY <1>1, <1>2, <1>0 DEF Ranges, PipelineIInv, Pending
<1>5. Counted' = Counted + 1 /\ Since' = Since + 1
  BY <1>1, <1>0 DEF Ranges, PipelineIInv, Counted, Since
<1>6. CountedEras'
  BY <1>1, <1>2, <1>5, <1>0 DEF Ranges, PipelineIInv, Pending, CountedEras
<1>7. NotFollowed'
  BY <1>1, <1>2, <1>5, <1>0 DEF Ranges, PipelineIInv, NotFollowed, Least
<1>8. MismatchBounded'
  BY <1>1 DEF PipelineIInv, MismatchBounded
<1>9. QED
  BY <1>3, <1>4, <1>6, <1>7, <1>8 DEF PipelineIInv

\* The count goes down, or the hardware follows the engine.
LEMMA CountIInv == PipelineIInv /\ Count => PipelineIInv'
<1> SUFFICES ASSUME PipelineIInv, Count PROVE PipelineIInv'
  OBVIOUS
<1>0. Ranges
  BY CountRanges
<1>1. /\ at = "count" /\ at' = "consume"
      /\ rateDrain' = (IF rateDrain > 0 THEN rateDrain - 1 ELSE 0)
      /\ format' = (IF rateDrain = 1 THEN engine ELSE format)
      /\ UNCHANGED <<prepared, engine, changed, freq, armed, late>>
  BY DEF Count, Goes
<1>2. TypeOK'
  BY <1>1, <1>0, PipelineAssumption DEF Ranges, PipelineIInv, TypeOK
<1>3. Pending'
  BY <1>1, <1>0 DEF Ranges, PipelineIInv, Pending
<1>4. rateDrain > 0 => Counted' = Counted /\ Since' = Since
  BY <1>1, <1>0 DEF Ranges, PipelineIInv, Counted, Since
<1>5. CountedEras'
  BY <1>1, <1>4, <1>0 DEF Ranges, PipelineIInv, CountedEras
<1>6. NotFollowed'
  <2>1. CASE rateDrain = 1
    BY <1>1, <2>1 DEF NotFollowed
  <2>2. CASE rateDrain > 1
    BY <1>1, <1>4, <2>2, <1>0 DEF Ranges, PipelineIInv, NotFollowed
  <2>3. CASE rateDrain = 0
    <3>1. format # engine => changed
      BY <2>3 DEF PipelineIInv, NotFollowed
    <3>2. changed => Since' = Since
      BY <1>1 DEF Since
    <3>3. QED
      BY <1>1, <2>3, <3>1, <3>2 DEF PipelineIInv, NotFollowed
  <2>4. QED
    BY <2>1, <2>2, <2>3, <1>0 DEF Ranges, PipelineIInv
<1>7. MismatchBounded'
  BY <1>1 DEF PipelineIInv, MismatchBounded
<1>8. QED
  BY <1>2, <1>3, <1>5, <1>6, <1>7 DEF PipelineIInv

\* The count starts, with the block that was just given, or it is left alone.
LEMMA ConsumeIInv == PipelineIInv /\ Consume => PipelineIInv'
<1> SUFFICES ASSUME PipelineIInv, Consume PROVE PipelineIInv'
  OBVIOUS
<1>0. Ranges
  BY CountRanges
<1>1. /\ at = "consume" /\ at' = "take" /\ changed' = FALSE
      /\ rateDrain' = (IF changed THEN Drain ELSE rateDrain)
      /\ armed' = (IF changed THEN engine ELSE armed)
      /\ UNCHANGED <<prepared, engine, format, freq, late>>
  BY DEF Consume, Goes
<1>2. TypeOK'
  <2>1. rateDrain' \in 0 .. Drain /\ armed' \in Eras
    BY <1>1, <1>0 DEF Ranges, PipelineIInv, TypeOK
  <2>2. Len(prepared') + (IF at' \in {"render", "give"} THEN 1 ELSE 0) <= Buffers
    BY <1>1, <1>0 DEF Ranges
  <2>3. QED
    BY <1>1, <2>1, <2>2 DEF PipelineIInv, TypeOK
<1>3. Pending'
  BY <1>1, <1>0 DEF Ranges, PipelineIInv, Pending
<1>4. CASE changed
  <2>1. Counted' = 1 /\ Since = 1 /\ Since' = 1
    BY <1>1, <1>4, PipelineAssumption DEF Counted, Since
  <2>2. CountedEras'
    BY <1>1, <1>4, <2>1, <1>0 DEF Ranges, PipelineIInv, Pending, CountedEras
  <2>3. NotFollowed'
    BY <1>1, <1>4, <2>1, PipelineAssumption DEF PipelineIInv, NotFollowed
  <2>4. QED
    BY <1>1, <1>2, <1>3, <2>2, <2>3 DEF PipelineIInv, MismatchBounded
<1>5. CASE ~changed
  <2>1. Counted' = Counted /\ Since' = Since
    BY <1>1, <1>5 DEF Counted, Since
  <2>2. CountedEras' /\ NotFollowed'
    BY <1>1, <1>5, <2>1 DEF PipelineIInv, CountedEras, NotFollowed
  <2>3. QED
    BY <1>1, <1>2, <1>3, <2>2 DEF PipelineIInv, MismatchBounded
<1>6. QED
  BY <1>4, <1>5

\* The interrupt takes from the front; what it plays at another rate than the
\* engine's has been given since the engine's last change.
LEMMA IrqIInv == PipelineIInv /\ Irq => PipelineIInv'
<1> SUFFICES ASSUME PipelineIInv, Irq PROVE PipelineIInv'
  OBVIOUS
<1>0. Ranges
  BY CountRanges
<1> DEFINE n == Least(PerPlay, Len(prepared))
           wrong == {i \in 1 .. n : prepared[i] = engine /\ format # engine}
<1>1. /\ freq' = format /\ prepared' = SubSeq(prepared, n + 1, Len(prepared))
      /\ late' = Least(late + Cardinality(wrong), Buffers + 1)
      /\ UNCHANGED <<at, engine, changed, rateDrain, format, armed>>
  BY DEF Irq
<1>2. n \in 0 .. Len(prepared)
  BY PipelineAssumption, <1>0 DEF Ranges, PipelineIInv, Least
<1>3. /\ prepared' \in Seq(Eras) /\ Len(prepared') = Len(prepared) - n
      /\ \A i \in 1 .. Len(prepared') : prepared'[i] = prepared[i + n] /\ i + n \in 1 .. Len(prepared)
  <2>1. prepared \in Seq(Eras)
    BY DEF PipelineIInv, TypeOK
  <2> HIDE DEF n
  <2>2. QED
    BY <1>1, <1>2, <2>1, TakenFromFront
<1> HIDE DEF n
<1>4. Counted' = Counted /\ Since' = Since
  BY <1>1 DEF Counted, Since
<1>5. Pending'
  <2>1. at \in {"count", "consume"} /\ Len(prepared') > 0 => prepared'[Len(prepared')] = engine
    BY <1>2, <1>3, <1>0 DEF Ranges, PipelineIInv, Pending
  <2>2. \A i \in 1 .. Len(prepared') : prepared'[i] <= engine
    BY <1>2, <1>3, <1>0 DEF Ranges, PipelineIInv, Pending
  <2>3. QED
    BY <1>1, <2>1, <2>2 DEF PipelineIInv, Pending
<1>6. CountedEras'
  BY <1>1, <1>2, <1>3, <1>4, <1>0 DEF Ranges, PipelineIInv, CountedEras
<1>7. Cardinality(wrong) \in Nat
  <2>1. wrong \subseteq 1 .. n
    OBVIOUS
  <2>2. n \in Nat
    BY <1>2, <1>0 DEF Ranges
  <2> HIDE DEF wrong
  <2> DEFINE one == 1
  <2>3. one \in Int /\ wrong \subseteq one .. n
    BY <2>1
  <2> HIDE DEF one
  <2>4. QED
    BY <2>2, <2>3, CountWithin
<1>8. format = engine => late' = late
  <2>1. SUFFICES ASSUME format = engine PROVE late' = late
    OBVIOUS
  <2>2. Cardinality(wrong) = 0
    BY <2>1, FS_EmptySet
  <2>3. QED
    BY <1>1, <2>2, PipelineAssumption, <1>0 DEF Ranges, PipelineIInv, Least, MismatchBounded
<1>9. ASSUME format # engine
      PROVE  late + Cardinality(wrong) + Least(Since, Len(prepared) - n) <= Since
  <2> DEFINE first == Len(prepared) - Since + 1
  <2>1. n \in Nat /\ n <= Len(prepared) /\ Len(prepared) \in Nat /\ Since \in Nat /\ late \in Nat
    BY <1>2, <1>0 DEF Ranges
  <2>2. first \in Int /\ wrong \subseteq first .. n
    BY <1>2, <1>9, <1>0 DEF Ranges, PipelineIInv, NotFollowed
  <2> HIDE DEF wrong
  <2>3. Cardinality(wrong) <= IF first <= n THEN n - first + 1 ELSE 0
    <3> HIDE DEF first
    <3>1. QED
      BY <2>1, <2>2, CountWithin
  <2>4. late + Least(Since, Len(prepared)) <= Since
    BY <1>9 DEF PipelineIInv, NotFollowed
  <2>5. CASE Since <= Len(prepared)
    <3>1. late = 0
      BY <2>1, <2>4, <2>5 DEF Least
    <3>2. QED
      BY <1>7, <2>1, <2>3, <2>5, <3>1 DEF Least
  <2>6. CASE Since > Len(prepared)
    <3>1. late + Len(prepared) <= Since
      BY <2>1, <2>4, <2>6 DEF Least
    <3>2. Cardinality(wrong) <= n
      <4> DEFINE one == 1
      <4>1. one \in Int /\ wrong \subseteq one .. n
        BY DEF wrong
      <4> HIDE DEF one
      <4>2. Cardinality(wrong) <= IF one <= n THEN n - one + 1 ELSE 0
        BY <2>1, <4>1, CountWithin
      <4>3. QED
        BY <2>1, <4>2 DEF one
    <3>3. QED
      BY <1>7, <2>1, <2>6, <3>1, <3>2 DEF Least
  <2>7. QED
    BY <2>1, <2>5, <2>6
<1> HIDE DEF wrong
<1>10. NotFollowed'
  <2>1. SUFFICES ASSUME format # engine PROVE NotFollowed'
    BY <1>1 DEF NotFollowed
  <2>2. \A i \in 1 .. Len(prepared') : prepared'[i] = engine => i > Len(prepared') - Since
    BY <1>2, <1>3, <2>1, <1>0 DEF Ranges, PipelineIInv, NotFollowed
  <2>3. late' + Least(Since, Len(prepared')) <= Since
    <3>1. late' <= late + Cardinality(wrong) /\ late' \in Nat
      BY <1>1, <1>7, PipelineAssumption, <1>0 DEF Ranges, PipelineIInv, Least
    <3>2. late + Cardinality(wrong) + Least(Since, Len(prepared')) <= Since
      BY <1>3, <1>9, <2>1
    <3>3. late \in Nat /\ Since \in Nat /\ Len(prepared') \in Nat /\ Least(Since, Len(prepared')) \in Nat
      BY <1>2, <1>3, <1>0 DEF Ranges, Least
    <3>4. QED
      BY <1>7, <3>1, <3>2, <3>3
  <2>4. QED
    BY <1>1, <1>4, <2>1, <2>2, <2>3 DEF PipelineIInv, NotFollowed
<1>11. late' <= Buffers /\ late' \in 0 .. Buffers + 1
  <2>1. CASE format = engine
    BY <1>8, <2>1, PipelineAssumption, <1>0 DEF Ranges, PipelineIInv, MismatchBounded
  <2>2. CASE format # engine
    <3>1. Since <= Buffers /\ Since \in Nat
      BY <2>2, <1>0 DEF Ranges, PipelineIInv, NotFollowed
    <3>2. late + Cardinality(wrong) <= Since
      BY <1>2, <1>7, <1>9, <2>2, <3>1, <1>0 DEF Ranges, PipelineIInv, Least
    <3>3. QED
      BY <1>1, <1>7, <3>1, <3>2, PipelineAssumption, <1>0 DEF Ranges, PipelineIInv, Least
  <2>3. QED
    BY <2>1, <2>2
<1>12. TypeOK'
  <2>1. Len(prepared') + (IF at' \in {"render", "give"} THEN 1 ELSE 0) <= Buffers
    <3>1. Len(prepared') \in Nat /\ Len(prepared') <= Len(prepared)
      BY <1>2, <1>3, <1>0 DEF Ranges
    <3>2. Len(prepared) <= Buffers /\ (at' \in {"render", "give"} => Len(prepared) + 1 <= Buffers)
      BY <1>1, <1>0 DEF Ranges
    <3>3. QED
      BY <3>1, <3>2, <1>0 DEF Ranges
  <2>2. QED
    BY <1>1, <1>3, <1>11, <2>1 DEF PipelineIInv, TypeOK
<1>13. QED
  BY <1>5, <1>6, <1>10, <1>11, <1>12 DEF PipelineIInv, MismatchBounded

\* Each step of the producer and of the interrupt keeps the invariant.
LEMMA NextPipeline == PipelineIInv /\ [Next]_vars => PipelineIInv'
<1>1. PipelineIInv /\ UNCHANGED vars => PipelineIInv'
  BY DEF vars, PipelineIInv, TypeOK, Pending, CountedEras, NotFollowed, MismatchBounded, Counted, Since
<1>2. QED
  BY <1>1, PassIInv, RenderChangedIInv, GiveIInv, CountIInv, ConsumeIInv, IrqIInv
  DEF Next, Producer

\* The invariant behind the results below.
THEOREM PipelineInductive == Spec => []PipelineIInv
<1>1. QED
  BY InitPipeline, NextPipeline, PTL DEF Spec

\* No more buffers are out than there are, and the count stays in range.
THEOREM PipelineTypeCorrect == Spec => []TypeOK
<1>1. PipelineIInv => TypeOK
  BY DEF PipelineIInv
<1>2. QED
  BY <1>1, PipelineInductive, PTL

\* Of each change no more blocks are played at another rate than fit in the
\* pool, for every number of buffers and every size of a transfer.
THEOREM MismatchBoundedHolds == Spec => []MismatchBounded
<1>1. PipelineIInv => MismatchBounded
  BY DEF PipelineIInv
<1>2. QED
  BY <1>1, PipelineInductive, PTL

\* When the last block of a count has been given, as many as can be queued
\* have been given since it began.
THEOREM DrainedBeforeSwitchHolds == Spec => DrainedBeforeSwitch
<1> DEFINE Drained == \A i \in 1 .. Len(prepared') : prepared'[i] >= armed'
<1>1. PipelineIInv /\ [Next]_vars => [format' # format => Drained]_vars
  <2> SUFFICES ASSUME PipelineIInv, Next, format' # format PROVE Drained
    OBVIOUS
  <2>0. Ranges
    BY CountRanges
  <2>1. /\ Count /\ at = "count" /\ rateDrain = 1
        /\ UNCHANGED <<prepared, armed>>
    BY DEF Next, Producer, Take, Render, RenderChanged, Give, Count, Consume, Irq, Goes
  <2>2. Counted = Buffers
    BY <2>1, <2>0 DEF Ranges, PipelineIInv, Counted
  <2>3. \A i \in 1 .. Len(prepared) : prepared[i] >= armed
    BY <2>1, <2>2, <2>0 DEF Ranges, PipelineIInv, CountedEras
  <2>4. QED
    BY <2>1, <2>3
<1>2. QED
  BY <1>1, PipelineInductive, PTL DEF Spec, DrainedBeforeSwitch

-----------------------------------------------------------------------------
(***************************************************************************)
(* The outgoing USB MIDI queue in the loop (UsbMidiOut, DisplayLoop).      *)
(***************************************************************************)

\* Nothing waits for a host that is gone, once process() has run.
GoneIsEmpty ==
  ~mounted => wire = Ended /\ (step # "process" => queue = <<>>)

\* How long the stall timer has run is how long the same bytes have waited.
StallIsWait ==
  /\ stallAge # 0 => queue # <<>> /\ stallAge <= waited + 1
  /\ stalled => stallAge = Stall + 1

LoopIInv == LoopTypeOK /\ WholeMessages /\ GoneIsEmpty /\ StallIsWait
-----------------------------------------------------------------------------
\* A queue behind byte w is a sequence of whole messages.
Whole(w, q) ==
  IF q = <<>> THEN w[2] = w[1]
  ELSE /\ Follows(w, q[1])
       /\ \A i \in 1 .. Len(q) - 1 : Follows(q[i], q[i + 1])
       /\ q[Len(q)][2] = q[Len(q)][1]

\* The same, said of the sequence that has w in front.
LEMMA WholeIs ==
  ASSUME NEW S, NEW w \in S, NEW q \in Seq(S)
  PROVE  Whole(w, q) <=>
           /\ \A i \in 1 .. Len(q) : Follows((<<w>> \o q)[i], (<<w>> \o q)[i + 1])
           /\ (<<w>> \o q)[Len(<<w>> \o q)][2] = (<<w>> \o q)[Len(<<w>> \o q)][1]
<1> DEFINE all == <<w>> \o q
<1>1. Len(q) \in Nat /\ (q = <<>> <=> Len(q) = 0)
  BY EmptySeq, LenProperties
<1>2. <<w>> \in Seq(S) /\ Len(<<w>>) = 1 /\ <<w>>[1] = w
  OBVIOUS
<1>3. /\ Len(all) = Len(q) + 1
      /\ \A i \in 1 .. Len(q) + 1 : all[i] = IF i <= 1 THEN w ELSE q[i - 1]
  BY <1>1, <1>2, ConcatProperties
<1> HIDE DEF all
<1>4. all[1] = w /\ \A i \in 1 .. Len(q) : all[i + 1] = q[i]
  BY <1>1, <1>3
<1>5. CASE q = <<>>
  BY <1>1, <1>3, <1>4, <1>5 DEF Whole
<1>6. CASE q # <<>>
  <2>1. Len(q) \in 1 .. Len(q) /\ 1 \in 1 .. Len(q)
    BY <1>1, <1>6
  <2>2. all[Len(all)] = q[Len(q)]
    BY <1>3, <1>4, <2>1
  <2>3. (\A i \in 1 .. Len(q) : Follows(all[i], all[i + 1])) <=>
          Follows(w, q[1]) /\ \A i \in 1 .. Len(q) - 1 : Follows(q[i], q[i + 1])
    <3>1. ASSUME \A i \in 1 .. Len(q) : Follows(all[i], all[i + 1])
          PROVE  Follows(w, q[1]) /\ \A i \in 1 .. Len(q) - 1 : Follows(q[i], q[i + 1])
      <4>1. Follows(w, q[1])
        BY <1>4, <2>1, <3>1
      <4>2. ASSUME NEW i \in 1 .. Len(q) - 1 PROVE Follows(q[i], q[i + 1])
        <5>1. i \in 1 .. Len(q) /\ i + 1 \in 1 .. Len(q)
          BY <1>1
        <5>2. Follows(all[i + 1], all[(i + 1) + 1])
          BY <3>1, <5>1
        <5>3. QED
          BY <1>4, <5>1, <5>2
      <4>3. QED
        BY <4>1, <4>2
    <3>2. ASSUME Follows(w, q[1]), \A i \in 1 .. Len(q) - 1 : Follows(q[i], q[i + 1]),
                 NEW i \in 1 .. Len(q)
          PROVE  Follows(all[i], all[i + 1])
      <4>1. CASE i = 1
        BY <1>4, <2>1, <3>2, <4>1
      <4>2. CASE i # 1
        <5>1. i - 1 \in 1 .. Len(q) - 1 /\ i - 1 \in 1 .. Len(q) /\ (i - 1) + 1 = i
          BY <1>1, <4>2
        <5>2. Follows(q[i - 1], q[(i - 1) + 1])
          BY <3>2, <5>1
        <5>3. all[(i - 1) + 1] = q[i - 1] /\ all[i + 1] = q[i]
          BY <1>4, <5>1
        <5>4. QED
          BY <5>1, <5>2, <5>3
      <4>3. QED
        BY <4>1, <4>2
    <3>3. QED
      BY <3>1, <3>2
  <2>4. QED
    BY <1>6, <2>2, <2>3 DEF Whole, all
<1>7. QED
  BY <1>5, <1>6 DEF all

\* What WholeMessages says, without that sequence.
LEMMA WholeMessagesIs ==
  UsbTypeOK => (WholeMessages <=> (mounted => Whole(wire, queue)))
<1> SUFFICES ASSUME UsbTypeOK PROVE WholeMessages <=> (mounted => Whole(wire, queue))
  OBVIOUS
<1>1. queue \in Seq(Bytes \cup {Ended}) /\ wire \in Bytes \cup {Ended}
  BY DEF UsbTypeOK
<1>2. QED
  BY <1>1, WholeIs DEF WholeMessages

\* A message is whole.
LEMMA MessageIs ==
  ASSUME NEW n \in Lengths, n <= BufSize
  PROVE  /\ Message(n) \in Seq(Bytes) /\ Len(Message(n)) = n /\ n \in Nat \ {0}
         /\ \A i \in 1 .. n : Message(n)[i] = <<n, i>>
<1>1. n \in Nat \ {0} /\ BufSize \in Nat
  BY UsbAssumption
<1>2. \A i \in 1 .. n : <<n, i>> \in Bytes
  BY <1>1 DEF Bytes
<1>3. QED
  BY <1>1, <1>2 DEF Message

\* A message behind whole messages leaves whole messages.
LEMMA WholeWithMessage ==
  ASSUME NEW w, NEW q \in Seq(Bytes), Whole(w, q), NEW n \in Lengths, n <= BufSize
  PROVE  Whole(w, q \o Message(n)) /\ q \o Message(n) # <<>>
<1> DEFINE l == Len(q)
           longer == q \o Message(n)
<1>1. /\ Message(n) \in Seq(Bytes) /\ Len(Message(n)) = n /\ n \in Nat \ {0}
      /\ \A i \in 1 .. n : Message(n)[i] = <<n, i>>
  BY MessageIs
<1>2. l \in Nat /\ (q = <<>> <=> l = 0)
  BY EmptySeq, LenProperties
<1>3. /\ Len(longer) = l + n /\ longer \in Seq(Bytes)
      /\ \A i \in 1 .. l + n : longer[i] = IF i <= l THEN q[i] ELSE Message(n)[i - l]
  BY <1>1, ConcatProperties
<1>4. longer # <<>>
  <2>1. Len(longer) # 0
    BY <1>1, <1>2, <1>3
  <2>2. QED
    BY <2>1, EmptySeq
<1> HIDE DEF longer
<1>5. /\ \A i \in 1 .. l : longer[i] = q[i]
      /\ \A i \in 1 .. n : longer[l + i] = <<n, i>>
  <2>1. ASSUME NEW i \in 1 .. n PROVE longer[l + i] = <<n, i>>
    <3>1. l + i \in 1 .. l + n /\ ~(l + i <= l) /\ (l + i) - l = i
      BY <1>1, <1>2
    <3>2. QED
      BY <1>1, <1>3, <3>1
  <2>2. ASSUME NEW i \in 1 .. l PROVE longer[i] = q[i]
    <3>1. i \in 1 .. l + n /\ i <= l
      BY <1>1, <1>2
    <3>2. QED
      BY <1>3, <3>1
  <2>3. QED
    BY <2>1, <2>2
<1>6. longer[Len(longer)] = <<n, n>>
  BY <1>1, <1>3, <1>5
<1>7. ASSUME NEW i \in l + 1 .. l + n - 1 PROVE Follows(longer[i], longer[i + 1])
  <2>1. i - l \in 1 .. n /\ (i - l) + 1 \in 1 .. n /\ l + (i - l) = i
        /\ l + ((i - l) + 1) = i + 1 /\ i - l # n
    BY <1>1, <1>2
  <2>2. longer[i] = <<n, i - l>> /\ longer[i + 1] = <<n, (i - l) + 1>>
    BY <1>5, <2>1
  <2>3. QED
    BY <2>1, <2>2 DEF Follows
<1>8. 1 \in 1 .. n /\ longer[l + 1] = <<n, 1>>
  BY <1>1, <1>5
<1>9. ASSUME l = 0 PROVE Whole(w, longer)
  <2>1. Follows(w, longer[1])
    BY <1>2, <1>8, <1>9 DEF Whole, Follows
  <2>2. Len(longer) - 1 = l + n - 1 /\ 1 .. l + n - 1 = l + 1 .. l + n - 1
    BY <1>1, <1>3, <1>9
  <2>3. \A i \in 1 .. Len(longer) - 1 : Follows(longer[i], longer[i + 1])
    BY <1>7, <2>2
  <2>4. QED
    BY <1>4, <1>6, <2>1, <2>3 DEF Whole
<1>10. ASSUME l # 0 PROVE Whole(w, longer)
  <2>1. /\ Follows(w, q[1]) /\ q[l][2] = q[l][1]
        /\ \A i \in 1 .. l - 1 : Follows(q[i], q[i + 1])
    BY <1>2, <1>10 DEF Whole
  <2>2. Follows(longer[l], longer[l + 1])
    <3>1. longer[l] = q[l]
      BY <1>2, <1>5, <1>10
    <3>2. QED
      BY <1>8, <2>1, <3>1 DEF Follows
  <2>3. ASSUME NEW i \in 1 .. l - 1 PROVE Follows(longer[i], longer[i + 1])
    <3>1. longer[i] = q[i] /\ longer[i + 1] = q[i + 1]
      BY <1>2, <1>5
    <3>2. QED
      BY <2>1, <3>1
  <2>4. \A i \in 1 .. l + n - 1 : Follows(longer[i], longer[i + 1])
    <3> TAKE i \in 1 .. l + n - 1
    <3>1. i \in 1 .. l - 1 \/ i = l \/ i \in l + 1 .. l + n - 1
      BY <1>1, <1>2
    <3>2. QED
      BY <1>7, <2>2, <2>3, <3>1
  <2>5. Follows(w, longer[1])
    BY <1>2, <1>5, <1>10, <2>1
  <2>6. Len(longer) - 1 = l + n - 1
    BY <1>1, <1>2, <1>3
  <2>7. QED
    BY <1>4, <1>6, <2>4, <2>5, <2>6 DEF Whole
<1>11. QED
  BY <1>4, <1>9, <1>10 DEF longer

\* What is left after the first n bytes have gone out follows the last of them.
LEMMA WholeAfter ==
  ASSUME NEW w, NEW q \in Seq(Bytes), Whole(w, q), NEW n \in 1 .. Len(q)
  PROVE  /\ Whole(q[n], SubSeq(q, n + 1, Len(q)))
         /\ SubSeq(q, n + 1, Len(q)) \in Seq(Bytes)
         /\ Len(SubSeq(q, n + 1, Len(q))) = Len(q) - n
<1> DEFINE rest == SubSeq(q, n + 1, Len(q))
           l == Len(q)
<1>1. l \in Nat /\ q # <<>>
  BY EmptySeq, LenProperties
<1>2. \A i \in n + 1 .. l : q[i] \in Bytes
  BY <1>1, ElementOfSeq
<1>3. /\ rest \in Seq(Bytes) /\ Len(rest) = l - n
      /\ \A i \in 1 .. l - n : rest[i] = q[n + i]
  <2>1. n + 1 \in Int /\ l \in Int
    BY <1>1
  <2>2. /\ rest \in Seq(Bytes) /\ Len(rest) = IF n + 1 <= l THEN l - (n + 1) + 1 ELSE 0
        /\ \A i \in 1 .. l - (n + 1) + 1 : rest[i] = q[(n + 1) + i - 1]
    BY <1>2, <2>1, SubSeqProperties
  <2> HIDE DEF rest
  <2>3. \A i \in 1 .. l - n : rest[i] = q[n + i]
    <3> TAKE i \in 1 .. l - n
    <3>1. i \in 1 .. l - (n + 1) + 1 /\ (n + 1) + i - 1 = n + i
      BY <1>1
    <3>2. QED
      BY <2>2, <3>1
  <2>4. QED
    BY <1>1, <2>2, <2>3
<1> HIDE DEF rest
<1>4. /\ \A i \in 1 .. l - 1 : Follows(q[i], q[i + 1])
      /\ q[l][2] = q[l][1]
  BY <1>1 DEF Whole
<1>5. CASE n = l
  <2>1. rest = <<>>
    BY <1>1, <1>3, <1>5, EmptySeq
  <2>2. Whole(q[n], rest)
    BY <1>4, <1>5, <2>1 DEF Whole
  <2>3. QED
    BY <1>3, <2>2 DEF rest
<1>6. CASE n # l
  <2>1. rest # <<>>
    <3>1. Len(rest) # 0
      BY <1>1, <1>3, <1>6
    <3>2. QED
      BY <3>1, EmptySeq
  <2>2. Follows(q[n], rest[1])
    BY <1>1, <1>3, <1>4, <1>6
  <2>3. ASSUME NEW i \in 1 .. (l - n) - 1 PROVE Follows(rest[i], rest[i + 1])
    <3>1. /\ n + i \in 1 .. l - 1 /\ i \in 1 .. l - n /\ i + 1 \in 1 .. l - n
          /\ n + (i + 1) = (n + i) + 1
      BY <1>1
    <3>2. rest[i] = q[n + i] /\ rest[i + 1] = q[(n + i) + 1]
      BY <1>3, <3>1
    <3>3. QED
      BY <1>4, <3>1, <3>2
  <2>4. rest[l - n] = q[l]
    BY <1>1, <1>3, <1>6
  <2>5. Whole(q[n], rest)
    BY <1>3, <1>4, <2>1, <2>2, <2>3, <2>4 DEF Whole
  <2>6. QED
    BY <1>3, <2>5 DEF rest
<1>7. QED
  BY <1>5, <1>6
-----------------------------------------------------------------------------
\* What concerns the queue, and when process() has last run.
Queued(processed) ==
  /\ UsbTypeOK
  /\ mounted => Whole(wire, queue)
  /\ ~mounted => wire = Ended /\ (processed => queue = <<>>)
  /\ StallIsWait

\* The invariant, with the part that concerns the queue as one.
LoopParts ==
  /\ Queued(step # "process")
  /\ step \in {"flush", "usb", "process", "midi", "ui"}
  /\ mask \in 0 .. Rows /\ uiAge \in 0 .. UiPeriod /\ senseAge \in 0 .. Sense

\* The two forms are equal, in this state and in the next.
LEMMA LoopIs == LoopIInv <=> LoopParts
  BY WholeMessagesIs DEF LoopIInv, LoopTypeOK, Queued, GoneIsEmpty, LoopParts

LEMMA LoopIsNext == LoopIInv' <=> LoopParts'
  BY LoopIs, PTL

\* The numbers that the proofs about the queue need.
LEMMA UsbScalars ==
  ASSUME UsbTypeOK
  PROVE  /\ Len(queue) \in Nat /\ (queue = <<>> <=> Len(queue) = 0)
         /\ BufSize \in Nat /\ FifoSize \in Nat \ {0} /\ Stall \in Nat \ {0}
         /\ wire \in Bytes \cup {Ended} /\ queue \in Seq(Bytes)
  BY EmptySeq, LenProperties, UsbAssumption DEF UsbTypeOK

\* The empty queue.
LEMMA EmptyQueue ==
  <<>> \in Seq(Bytes) /\ Len(<<>>) = 0 /\ (\A w : Whole(w, <<>>) <=> w[2] = w[1])
  BY EmptySeq DEF Whole

\* A message is written whole or not at all, and none to a host that is gone.
LEMMA WriteKeeps ==
  ASSUME Queued(TRUE), NEW n \in Lengths, Write(n)
  PROVE  Queued(TRUE)'
<1>1. UNCHANGED <<mounted, reading, fifo, stallAge, stalled, wire>>
  BY DEF Write
<1>2. UsbTypeOK
  BY DEF Queued
<1>3. CASE ~mounted
  <2>1. queue' = queue
    BY <1>3 DEF Write, Queued
  <2>2. queue = <<>> /\ stallAge = 0 /\ waited' = 0
    BY <1>3, <2>1, Zenon DEF Write, Queued, StallIsWait
  <2>3. waited' \in 0 .. Stall
    BY <1>2, <2>2, UsbScalars
  <2>4. UsbTypeOK'
    BY <1>1, <1>2, <2>1, <2>3 DEF UsbTypeOK
  <2>5. QED
    BY <1>1, <1>3, <2>1, <2>2, <2>4 DEF Queued, StallIsWait
<1>4. CASE mounted /\ BufSize - Len(queue) < n
  <2>1. queue' = queue /\ waited' \in {0, waited} /\ (queue # <<>> => waited' = waited)
    BY <1>4 DEF Write
  <2>2. waited' \in 0 .. Stall
    BY <1>2, <2>1, UsbScalars DEF UsbTypeOK
  <2>3. UsbTypeOK'
    BY <1>1, <1>2, <2>1, <2>2 DEF UsbTypeOK
  <2>4. QED
    BY <1>1, <1>4, <2>1, <2>3 DEF Queued, StallIsWait
<1>5. CASE mounted /\ ~(BufSize - Len(queue) < n)
  <2>1. queue' = queue \o Message(n)
    BY <1>5 DEF Write
  <2>2. n \in Nat \ {0} /\ n <= BufSize /\ Len(queue) + n <= BufSize
    BY <1>2, <1>5, UsbScalars, UsbAssumption
  <2>3. /\ Message(n) \in Seq(Bytes) /\ Len(Message(n)) = n
        /\ queue \in Seq(Bytes) /\ Whole(wire, queue)
    BY <1>2, <1>5, <2>2, MessageIs DEF UsbTypeOK, Queued
  <2>4. Whole(wire, queue') /\ queue' # <<>>
    BY <2>1, <2>2, <2>3, WholeWithMessage
  <2>5. queue' \in Seq(Bytes) /\ Len(queue') <= BufSize
    BY <2>1, <2>2, <2>3, ConcatProperties
  <2>6. waited' = waited
    BY <2>4 DEF Write
  <2>7. UsbTypeOK'
    BY <1>1, <1>2, <2>5, <2>6 DEF UsbTypeOK
  <2>8. Whole(wire, queue)'
    BY <1>1, <2>4 DEF Whole
  <2>9. StallIsWait'
    BY <1>1, <2>4, <2>6 DEF Queued, StallIsWait
  <2>10. QED
    BY <1>1, <1>5, <2>7, <2>8, <2>9 DEF Queued
<1>6. QED
  BY <1>3, <1>4, <1>5

\* process() empties the queue of a host that is gone, and sends what fits.
LEMMA ProcessKeeps ==
  ASSUME Queued(FALSE), Process
  PROVE  Queued(TRUE)'
<1>1. UsbTypeOK
  BY DEF Queued
<1>2. CASE ProcessEmpty
  <2>1. queue = <<>> /\ UNCHANGED usbVars
    BY <1>2 DEF ProcessEmpty
  <2>2. QED
    BY <2>1 DEF Queued, UsbTypeOK, StallIsWait, Whole, usbVars
<1>3. CASE ProcessUnmounted
  <2>1. /\ ~mounted /\ queue' = <<>> /\ stallAge' = 0 /\ stalled' = FALSE /\ waited' = 0
        /\ UNCHANGED <<mounted, reading, fifo, wire>>
    BY <1>3 DEF ProcessUnmounted
  <2>2. queue' \in Seq(Bytes) /\ Len(queue') <= BufSize
    BY <1>1, <2>1, EmptyQueue, UsbScalars
  <2>3. UsbTypeOK'
    <3>1. stallAge' \in 0 .. Stall + 1 /\ waited' \in 0 .. Stall
      BY <2>1, UsbAssumption
    <3>2. QED
      BY <1>1, <2>1, <2>2, <3>1, Zenon DEF UsbTypeOK
  <2>4. QED
    BY <2>1, <2>3 DEF Queued, StallIsWait
<1>4. CASE ProcessProgress
  <2> DEFINE n == Fewer(Len(queue), FifoSize - fifo)
  <2>1. /\ mounted /\ n > 0
        /\ queue' = SubSeq(queue, n + 1, Len(queue)) /\ fifo' = fifo + n /\ wire' = queue[n]
        /\ stallAge' = 0 /\ stalled' = FALSE /\ waited' = 0
        /\ UNCHANGED <<mounted, reading>>
    BY <1>4 DEF ProcessProgress
  <2>2. n \in 1 .. Len(queue) /\ fifo + n \in 0 .. FifoSize
    <3>1. Len(queue) \in Nat /\ fifo \in 0 .. FifoSize /\ FifoSize \in Nat
      BY <1>1, UsbScalars, Zenon DEF UsbTypeOK
    <3>2. PICK l \in Nat : l = Len(queue)
      BY <3>1
    <3>3. Fewer(l, FifoSize - fifo) > 0
      BY <2>1, <3>2
    <3>4. Fewer(l, FifoSize - fifo) \in 1 .. l /\ fifo + Fewer(l, FifoSize - fifo) \in 0 .. FifoSize
      BY <3>1, <3>3 DEF Fewer
    <3>5. QED
      BY <3>2, <3>4
  <2> HIDE DEF n
  <2>3. Whole(wire, queue) /\ queue \in Seq(Bytes)
    BY <1>1, <2>1, UsbScalars DEF Queued
  <2>4. /\ Whole(wire', queue') /\ queue' \in Seq(Bytes) /\ Len(queue') = Len(queue) - n
    BY <2>1, <2>2, <2>3, WholeAfter
  <2>5. queue' \in Seq(Bytes) /\ Len(queue') <= BufSize /\ wire' \in Bytes
    BY <1>1, <2>1, <2>2, <2>4, UsbScalars, ElementOfSeq DEF UsbTypeOK
  <2>6. UsbTypeOK'
    <3>1. stallAge' \in 0 .. Stall + 1 /\ waited' \in 0 .. Stall
      BY <2>1, UsbAssumption
    <3>2. QED
      BY <1>1, <2>1, <2>2, <2>5, <3>1, Zenon DEF UsbTypeOK
  <2>7. Whole(wire, queue)'
    BY <2>4 DEF Whole
  <2>8. QED
    BY <2>1, <2>6, <2>7 DEF Queued, StallIsWait
<1>5. CASE ProcessBlocked
  <2>1. /\ queue # <<>> /\ mounted
        /\ UNCHANGED <<queue, mounted, reading, fifo, wire, waited>>
        /\ \/ stallAge = 0 /\ stallAge' = 1 /\ stalled' = stalled
           \/ /\ stallAge # 0 /\ stallAge' = stallAge
              /\ stalled' = (stalled \/ stallAge - 1 >= Stall)
    BY <1>5 DEF ProcessBlocked
  <2>2. stallAge \in 0 .. Stall + 1 /\ waited \in 0 .. Stall /\ Stall \in Nat \ {0}
    BY <1>1, UsbScalars DEF UsbTypeOK
  <2>3. stallAge' \in 0 .. Stall + 1 /\ stallAge' <= waited + 1
    BY <2>1, <2>2 DEF Queued, StallIsWait
  <2>4. stalled' \in BOOLEAN /\ (stalled' => stallAge' = Stall + 1)
    <3>1. CASE stallAge = 0
      BY <1>1, <2>1, <2>2, <3>1 DEF Queued, StallIsWait, UsbTypeOK
    <3>2. CASE stallAge # 0
      <4>1. (stalled \/ stallAge - 1 >= Stall) => stallAge = Stall + 1
        BY <2>2, <3>2 DEF Queued, StallIsWait
      <4>2. QED
        BY <2>1, <3>2, <4>1
    <3>3. QED
      BY <3>1, <3>2
  <2>5. UsbTypeOK'
    BY <1>1, <2>1, <2>3, <2>4 DEF UsbTypeOK
  <2>6. QED
    BY <2>1, <2>3, <2>4, <2>5 DEF Queued, StallIsWait, Whole
<1>6. QED
  BY <1>2, <1>3, <1>4, <1>5 DEF Process

\* While tud_task() runs the host may go; the queue is stale until process() runs.
LEMMA TudTaskKeeps ==
  ASSUME Queued(TRUE), NEW d \in Delays, TudTask(d)
  PROVE  Queued(FALSE)'
<1>1. UsbTypeOK /\ d \in {0, 1}
  BY DEF Queued, Delays
<1>2. /\ mounted' \in BOOLEAN /\ reading' \in BOOLEAN
      /\ queue' = queue /\ stalled' = stalled
      /\ fifo' \in {0, fifo}
      /\ wire' = IF ~mounted' THEN Ended ELSE wire
      /\ stallAge' = IF stallAge = 0 THEN 0 ELSE Later(stallAge, d, Stall + 1)
      /\ waited' = IF queue = <<>> THEN 0 ELSE Later(waited, d, Stall)
  BY DEF TudTask
<1>3. stallAge \in 0 .. Stall + 1 /\ waited \in 0 .. Stall /\ Stall \in Nat \ {0}
  BY <1>1, UsbScalars DEF UsbTypeOK
<1>4. /\ stallAge' \in 0 .. Stall + 1 /\ waited' \in 0 .. Stall
      /\ stallAge' # 0 => queue # <<>> /\ stallAge' <= waited' + 1
      /\ stallAge = Stall + 1 => stallAge' = Stall + 1
  BY <1>1, <1>2, <1>3 DEF Later, Queued, StallIsWait
<1>5. UsbTypeOK'
  <2>1. fifo' \in 0 .. FifoSize /\ wire' \in Bytes \cup {Ended}
    BY <1>1, <1>2, UsbScalars DEF UsbTypeOK
  <2>2. QED
    BY <1>1, <1>2, <1>4, <2>1 DEF UsbTypeOK
<1>6. mounted' => Whole(wire', queue')
  <2>1. CASE mounted
    BY <1>2, <2>1 DEF Queued
  <2>2. CASE ~mounted
    <3>1. queue = <<>> /\ wire = Ended
      BY <2>2 DEF Queued
    <3>2. QED
      BY <1>2, <3>1 DEF Whole, Ended
  <2>3. QED
    BY <2>1, <2>2
<1>7. (mounted => Whole(wire, queue))'
  BY <1>6 DEF Whole
<1>8. StallIsWait'
  BY <1>2, <1>4 DEF Queued, StallIsWait
<1>9. QED
  BY <1>2, <1>5, <1>7, <1>8 DEF Queued

\* What does not concern the queue.
LEMMA SameQueue ==
  ASSUME Queued(TRUE), UNCHANGED usbVars
  PROVE  Queued(TRUE)'
  BY DEF Queued, UsbTypeOK, StallIsWait, Whole, usbVars

\* At the start nothing is queued.
LEMMA InitLoop == LoopInit => LoopIInv
<1> SUFFICES ASSUME LoopInit PROVE LoopIInv
  OBVIOUS
<1>1. /\ queue = <<>> /\ mounted = FALSE /\ reading = FALSE /\ fifo = 0
      /\ stallAge = 0 /\ stalled = FALSE /\ wire = Ended /\ waited = 0
      /\ step = "flush" /\ mask = Rows /\ uiAge = 0 /\ senseAge = 0
  BY DEF LoopInit, UsbInit
<1>2. queue \in Seq(Bytes) /\ Len(queue) <= BufSize
  BY <1>1, EmptyQueue, UsbAssumption
<1>3. UsbTypeOK
  <2>1. 0 \in 0 .. FifoSize /\ 0 \in 0 .. Stall + 1 /\ 0 \in 0 .. Stall
    BY UsbAssumption
  <2>2. QED
    BY <1>1, <1>2, <2>1, Zenon DEF UsbTypeOK
<1>4. Queued(step # "process")
  BY <1>1, <1>3 DEF Queued, StallIsWait
<1>5. QED
  BY <1>1, <1>4, LoopIs, DisplayAssumption DEF LoopParts

\* Each section of the loop keeps the invariant.
LEMMA NextLoop == LoopIInv /\ [LoopNext]_loopVars => LoopIInv'
<1> SUFFICES ASSUME LoopIInv, [LoopNext]_loopVars PROVE LoopIInv'
  OBVIOUS
<1>1. /\ Queued(step # "process")
      /\ step \in {"flush", "usb", "process", "midi", "ui"}
      /\ mask \in 0 .. Rows /\ uiAge \in 0 .. UiPeriod /\ senseAge \in 0 .. Sense
  BY LoopIs DEF LoopParts
<1>2. LoopIInv' <=> /\ Queued(step # "process")'
                    /\ step' \in {"flush", "usb", "process", "midi", "ui"}
                    /\ mask' \in 0 .. Rows /\ uiAge' \in 0 .. UiPeriod
                    /\ senseAge' \in 0 .. Sense
  BY LoopIsNext DEF LoopParts
<1>3. CASE FlushRow
  <2>1. Queued(TRUE)
    BY <1>1, <1>3 DEF FlushRow, Queued
  <2>2. step' = "usb" /\ UNCHANGED <<usbVars, uiAge, senseAge>> /\ mask' \in 0 .. Rows
    BY <1>1, <1>3, DisplayAssumption DEF FlushRow
  <2>3. Queued(step # "process")'
    BY <2>1, <2>2, SameQueue DEF Queued
  <2>4. QED
    BY <1>1, <1>2, <2>2, <2>3
<1>4. CASE FlushNothing \/ MidiDone \/ UiSkip
  <2>1. Queued(TRUE)
    BY <1>1, <1>4 DEF FlushNothing, MidiDone, UiSkip, Queued
  <2>2. step' \in {"usb", "ui", "flush"} /\ UNCHANGED <<usbVars, mask, uiAge, senseAge>>
    BY <1>4 DEF FlushNothing, MidiDone, UiSkip
  <2>3. Queued(step # "process")'
    BY <2>1, <2>2, SameQueue DEF Queued
  <2>4. QED
    BY <1>1, <1>2, <2>2, <2>3
<1>5. ASSUME NEW d \in Delays, Usb(d) PROVE LoopIInv'
  <2>1. Queued(TRUE)
    BY <1>1, <1>5 DEF Usb, Queued
  <2>2. /\ step' = "process" /\ UNCHANGED mask
        /\ uiAge' \in 0 .. UiPeriod /\ senseAge' \in 0 .. Sense
    BY <1>1, <1>5, DisplayAssumption DEF Usb, Later, Delays
  <2>3. Queued(step # "process")'
    BY <1>5, <2>1, <2>2, TudTaskKeeps DEF Usb, Queued
  <2>4. QED
    BY <1>1, <1>2, <2>2, <2>3
<1>6. CASE ProcessUsb
  <2>1. Queued(FALSE)
    BY <1>1, <1>6 DEF ProcessUsb, Queued
  <2>2. step' = "midi" /\ UNCHANGED <<mask, uiAge, senseAge>>
    BY <1>6 DEF ProcessUsb
  <2>3. Queued(step # "process")'
    BY <1>6, <2>1, <2>2, ProcessKeeps DEF ProcessUsb, Queued
  <2>4. QED
    BY <1>1, <1>2, <2>2, <2>3
<1>7. CASE Reply
  <2>1. Queued(TRUE)
    BY <1>1, <1>7 DEF Reply, Queued
  <2>2. step' = "midi" /\ UNCHANGED <<mask, uiAge, senseAge>>
    BY <1>7 DEF Reply
  <2>3. PICK n \in Lengths : Write(n)
    BY <1>7, DisplayAssumption DEF Reply
  <2>4. Queued(step # "process")'
    BY <2>1, <2>2, <2>3, WriteKeeps DEF Queued
  <2>5. QED
    BY <1>1, <1>2, <2>2, <2>4
<1>8. CASE UiTick
  <2>1. Queued(TRUE)
    BY <1>1, <1>8 DEF UiTick, Queued
  <2>2. /\ step' = "flush" /\ mask' \in 0 .. Rows /\ uiAge' \in 0 .. UiPeriod
        /\ senseAge' \in 0 .. Sense
        /\ Write(SenseLen) \/ UNCHANGED usbVars
    BY <1>1, <1>8, DisplayAssumption DEF UiTick
  <2>3. Queued(TRUE)'
    BY <2>1, <2>2, SameQueue, WriteKeeps, DisplayAssumption
  <2>4. Queued(step # "process")'
    BY <2>2, <2>3 DEF Queued
  <2>5. QED
    BY <1>1, <1>2, <2>2, <2>4
<1>9. CASE UNCHANGED loopVars
  BY <1>9 DEF LoopIInv, LoopTypeOK, UsbTypeOK, WholeMessages, GoneIsEmpty, StallIsWait,
              loopVars, usbVars
<1>10. QED
  BY <1>3, <1>4, <1>5, <1>6, <1>7, <1>8, <1>9 DEF LoopNext

\* The invariant behind both properties of the queue: what is in it follows the byte
\* on the wire, is gone with the host, and has waited as long as the stall timer runs.
THEOREM LoopInductive == LoopSpec => []LoopIInv
  BY InitLoop, NextLoop, PTL DEF LoopSpec

\* The ring and the FIFO are never overfull, and the loop keeps its types.
THEOREM LoopTypeCorrect == LoopSpec => []LoopTypeOK
<1>1. LoopIInv => LoopTypeOK
  BY DEF LoopIInv
<1>2. QED
  BY <1>1, LoopInductive, PTL

\* For every size of ring and FIFO and every set of messages, only whole messages go
\* out to a host that stays, however the ring fills up and the FIFO cuts them.
THEOREM WholeMessagesHolds == LoopSpec => []WholeMessages
<1>1. LoopIInv => WholeMessages
  BY DEF LoopIInv
<1>2. QED
  BY <1>1, LoopInductive, PTL

\* stalled() is true only of a mounted host that has left bytes waiting for the whole
\* of kStallMs, at every place of the loop where it is read.
THEOREM StalledIsHonestHolds == LoopSpec => []StalledIsHonest
<1>1. LoopIInv => StalledIsHonest
  BY UsbAssumption DEF LoopIInv, LoopTypeOK, UsbTypeOK, GoneIsEmpty, StallIsWait, StalledIsHonest
<1>2. QED
  BY <1>1, LoopInductive, PTL
=============================================================================
