--------------------------- MODULE RdEngineProofs ---------------------------
(***************************************************************************)
(* For any number of voices, notes and instruments and any size of the     *)
(* ring: the rendezvous of the two cores, the voice limit, and that no     *)
(* note is left hanging.  The ages only rank the voices; that there is a   *)
(* first voice to cull and an oldest one to steal comes from the           *)
(* well-foundedness of < on Nat.                                           *)
(***************************************************************************)
EXTENDS RdEngine, FiniteSetTheorems, WellFoundedInduction, TLAPS

-----------------------------------------------------------------------------
(* The rendezvous.                                                         *)

\* One request at a time, and only inside renderBlock(); core 1 has read the
\* one that is outstanding, and has rendered for it before it answers.
Rendezvous ==
  /\ asked \in {0, 1}
  /\ worker \in ({1} \X {"render", "publish"}) \cup {None}
  /\ worker # None => asked = 1
  /\ asked = 1 => at \in {"even", "wait"}
  /\ at \in {"even", "wait"} =>
       rendered = IF asked = 1 /\ (worker = None \/ worker[2] = "render") THEN "not" ELSE "once"
\* Nothing is asked at first.
LEMMA InitRendezvous == Init => Rendezvous
  BY DEF Init, Rendezvous

\* Core 0 outside renderBlock() and the player do not touch the doorbell.
LEMMA OutsideBlock ==
  Rendezvous /\ (Play \/ Underrun \/ Pop) => Rendezvous'
<1> SUFFICES ASSUME Rendezvous, Play \/ Underrun \/ Pop PROVE Rendezvous'
  OBVIOUS
<1>1. UNCHANGED doorVars /\ at \in {"loop", "drain"} /\ at' \in {"loop", "drain"}
  BY DEF Play, KeyDown, KeyUp, Foot, AllOff, Panel, PanelChannel, Press, Release, Event,
    Underrun, Pop
<1>2. asked = 0
  BY <1>1 DEF Rendezvous
<1>3. QED
  BY <1>1, <1>2 DEF Rendezvous, doorVars

\* Core 0 asks when the last request has been answered, and leaves when this
\* one has.
LEMMA Core0Block ==
  Rendezvous /\ (Doorbell \/ (\E ended \in SUBSET Even : RenderEven(ended)) \/ Finish)
    => Rendezvous'
<1> SUFFICES ASSUME Rendezvous,
                    Doorbell \/ (\E ended \in SUBSET Even : RenderEven(ended)) \/ Finish
             PROVE  Rendezvous'
  OBVIOUS
<1>1. CASE Doorbell
  <2>1. asked = 0 /\ worker = None
    BY <1>1 DEF Doorbell, Rendezvous
  <2>2. asked' = 1 /\ worker' = None /\ at' = "even" /\ rendered' = "not"
    BY <1>1, <2>1 DEF Doorbell
  <2>3. QED
    BY <2>2 DEF Rendezvous
<1>2. CASE \E ended \in SUBSET Even : RenderEven(ended)
  <2>1. at = "even" /\ at' = "wait" /\ UNCHANGED doorVars
    BY <1>2 DEF RenderEven
  <2>2. QED
    BY <2>1 DEF Rendezvous, doorVars
<1>3. CASE Finish
  <2>1. asked = 0 /\ at' = "loop" /\ UNCHANGED doorVars
    BY <1>3 DEF Finish
  <2>2. QED
    BY <2>1 DEF Rendezvous, doorVars
<1>4. QED
  BY <1>1, <1>2, <1>3

\* Core 1 answers what it has read, after it has rendered for it.
LEMMA Core1Block == Rendezvous /\ Core1 => Rendezvous'
<1> SUFFICES ASSUME Rendezvous, Core1 PROVE Rendezvous'
  OBVIOUS
<1>1. CASE Answer
  <2>1. asked = 1 /\ at \in {"even", "wait"} /\ worker = None /\ rendered = "not"
    BY <1>1 DEF Answer, Rendezvous
  <2>2. worker' = <<1, "render">> /\ UNCHANGED <<at, asked, rendered>>
    BY <1>1, <2>1 DEF Answer
  <2>3. QED
    BY <2>1, <2>2 DEF Rendezvous
<1>2. CASE \E ended \in SUBSET Odd : RenderOdd(ended)
  <2>1. /\ worker = <<1, "render">> /\ asked = 1 /\ rendered = "not"
        /\ at \in {"even", "wait"}
    BY <1>2 DEF RenderOdd, Rendezvous
  <2>2. /\ worker' = <<1, "publish">> /\ rendered' = "once" /\ UNCHANGED <<at, asked>>
    BY <1>2, <2>1 DEF RenderOdd
  <2>3. worker' # None
    BY <2>2, EngineAssumption
  <2>4. QED
    BY <2>1, <2>2, <2>3 DEF Rendezvous
<1>3. CASE Publish
  <2>1. /\ worker = <<1, "publish">> /\ worker # None /\ asked = 1 /\ rendered = "once"
        /\ at \in {"even", "wait"}
    BY <1>3 DEF Publish, Rendezvous
  <2>2. worker' = None /\ asked' = 0 /\ UNCHANGED <<at, rendered>>
    BY <1>3, <2>1 DEF Publish
  <2>3. QED
    BY <2>1, <2>2 DEF Rendezvous
<1>4. QED
  BY <1>1, <1>2, <1>3 DEF Core1

\* No step of the system disturbs it.
LEMMA NextRendezvous == Rendezvous /\ [Next]_vars => Rendezvous'
<1>1. Rendezvous /\ UNCHANGED vars => Rendezvous'
  BY DEF vars, doorVars, Rendezvous
<1>2. QED
  BY <1>1, OutsideBlock, Core0Block, Core1Block DEF Next, Core0

-----------------------------------------------------------------------------
(* The voices.                                                             *)

VoiceRec == [note : Notes \cup {None}, released : BOOLEAN, killing : BOOLEAN, age : 0 .. Voices]
Bank == [Slots -> VoiceRec]

\* The kVoices slots can be counted.
LEMMA AllSlots == IsFiniteSet(Slots) /\ Cardinality(Slots) = Voices
<1>1. Voices \in Int /\ 0 \in Int /\ Voices - 1 \in Int /\ ~(0 > Voices - 1)
  BY EngineAssumption
<1>2. (Voices - 1) - 0 + 1 = Voices
  BY <1>1
<1>3. /\ IsFiniteSet(0 .. Voices - 1)
      /\ Cardinality(0 .. Voices - 1) = (Voices - 1) - 0 + 1
  BY <1>1, FS_Interval
<1>4. QED
  BY <1>2, <1>3 DEF Slots

\* So can the slots of any set.
LEMMA SlotSets ==
  ASSUME NEW A \in SUBSET Slots
  PROVE  IsFiniteSet(A) /\ Cardinality(A) \in 0 .. Voices
<1>1. IsFiniteSet(Slots) /\ Cardinality(Slots) = Voices
  BY AllSlots
<1>2. IsFiniteSet(A) /\ Cardinality(A) <= Voices
  BY <1>1, FS_Subset
<1>3. Cardinality(A) \in Nat
  BY <1>2, FS_CardinalityType
<1>4. QED
  BY <1>2, <1>3, EngineAssumption

\* Sooner orders the voices.
LEMMA SoonerOrders ==
  ASSUME NEW vs \in Bank, NEW s \in Slots, NEW t \in Slots, NEW u \in Slots
  PROVE  /\ ~Sooner(vs, s, s)
         /\ Sooner(vs, s, t) /\ Sooner(vs, t, u) => Sooner(vs, s, u)
<1>1. /\ vs[s].age \in Int /\ vs[t].age \in Int /\ vs[u].age \in Int
      /\ s \in Int /\ t \in Int /\ u \in Int
  BY EngineAssumption DEF Bank, VoiceRec, Slots
<1>2. vs[s].released \in BOOLEAN /\ vs[t].released \in BOOLEAN /\ vs[u].released \in BOOLEAN
  BY DEF Bank, VoiceRec
<1>3. QED
  BY <1>1, <1>2 DEF Sooner

\* Of the voices in a set, those with fewer than n others of the set sooner
\* are at least n, or all of them.
LEMMA SoonestAreEnough ==
  ASSUME NEW vs \in Bank, NEW A \in SUBSET Slots, NEW n \in Int
  PROVE  LET soonest == {s \in A : Cardinality({t \in A : Sooner(vs, t, s)}) < n} IN
           soonest = A \/ n <= Cardinality(soonest)
<1> DEFINE before(s) == {t \in A : Sooner(vs, t, s)}
           soonest == {s \in A : Cardinality(before(s)) < n}
           ranks == {Cardinality(before(s)) : s \in A \ soonest}
<1>1. \A s \in A : IsFiniteSet(before(s)) /\ Cardinality(before(s)) \in Nat
  BY SlotSets
<1>2. SUFFICES ASSUME soonest # A PROVE n <= Cardinality(soonest)
  OBVIOUS
<1>3. ranks # {} /\ ranks \subseteq Nat
  BY <1>1, <1>2
<1>4. \E r \in ranks : \A q \in ranks : r <= q
  <2> HIDE DEF ranks
  <2>1. PICK r \in ranks : \A q \in ranks : ~(<<q, r>> \in OpToRel(<, Nat))
    BY <1>3, WFMin, NatLessThanWellFounded, Zenon
  <2>2. \A q \in ranks : q < r => <<q, r>> \in OpToRel(<, Nat)
    BY <1>3 DEF OpToRel
  <2>3. \A q \in ranks : ~(q < r)
    BY <2>1, <2>2, Zenon
  <2>4. \A q \in ranks : r <= q
    BY <1>3, <2>3
  <2>5. QED
    BY <2>4
<1>5. PICK s \in A \ soonest :
        \A t \in A \ soonest : Cardinality(before(s)) <= Cardinality(before(t))
  BY <1>4, Zenon
<1>6. n <= Cardinality(before(s))
  BY <1>1, <1>5
<1>7. before(s) \subseteq soonest
  <2>1. SUFFICES ASSUME NEW t \in before(s), t \notin soonest PROVE FALSE
    BY Zenon
  <2>2. t \in A /\ Sooner(vs, t, s)
    OBVIOUS
  <2>3. before(t) \subseteq before(s)
    BY <2>2, SoonerOrders
  <2>4. t \in before(s) /\ t \notin before(t)
    BY <2>2, SoonerOrders
  <2>5. /\ Cardinality(before(s)) <= Cardinality(before(t))
        /\ Cardinality(before(s)) \in Nat /\ Cardinality(before(t)) \in Nat
        /\ IsFiniteSet(before(s))
    BY <1>1, <1>5, <2>1, <2>2, Zenon
  <2> HIDE DEF before
  <2>6. /\ Cardinality(before(t)) <= Cardinality(before(s))
        /\ Cardinality(before(t)) # Cardinality(before(s))
    BY <2>3, <2>4, <2>5, FS_Subset
  <2>7. QED
    BY <2>5, <2>6
<1>8. soonest \in SUBSET Slots /\ before(s) \in SUBSET soonest /\ Cardinality(before(s)) \in Nat
  BY <1>1, <1>5, <1>7
<1> HIDE DEF soonest, before
<1>9. /\ IsFiniteSet(soonest) /\ Cardinality(soonest) \in Nat
      /\ Cardinality(before(s)) <= Cardinality(soonest)
  BY <1>8, SlotSets, FS_Subset
<1>10. QED
  BY <1>6, <1>8, <1>9

\* After a cull no more than n voices go on sounding, on the same notes.
LEMMA CullBounds ==
  ASSUME NEW vs \in Bank, NEW n \in Nat
  PROVE  /\ Culled(vs, n) \in Bank
         /\ Cardinality(Lasting(Culled(vs, n))) <= n
         /\ \A s \in Slots : /\ Culled(vs, n)[s].note = vs[s].note
                             /\ Culled(vs, n)[s].released = vs[s].released
<1> DEFINE all == Lasting(vs)
           surplus == Cardinality(all) - n
           victims == {s \in all : Cardinality({t \in all : Sooner(vs, t, s)}) < surplus}
           new == [s \in Slots |-> IF s \in victims THEN [vs[s] EXCEPT !.killing = TRUE] ELSE vs[s]]
<1>1. Culled(vs, n) = new
  BY DEF Culled
<1>2. all \in SUBSET Slots /\ victims \subseteq all
  BY DEF Lasting, Sounding
<1>3. victims = all \/ surplus <= Cardinality(victims)
  <2>1. surplus \in Int
    BY <1>2, SlotSets
  <2> HIDE DEF surplus, all
  <2>2. QED
    BY <1>2, <2>1, SoonestAreEnough
<1> HIDE DEF victims
<1>4. new \in Bank
  BY DEF Bank, VoiceRec
<1>5. \A s \in Slots : new[s].note = vs[s].note /\ new[s].released = vs[s].released
  BY DEF Bank, VoiceRec
<1>6. Lasting(new) = all \ victims
  <2>1. \A s \in Slots : new[s].killing <=> (vs[s].killing \/ s \in victims)
    BY DEF Bank, VoiceRec
  <2>2. QED
    BY <1>5, <2>1 DEF Lasting, Sounding
<1>7. Cardinality(all \ victims) <= n
  <2>1. /\ IsFiniteSet(all) /\ Cardinality(all) \in Nat
        /\ Cardinality(victims) \in Nat /\ all \cap victims = victims
    BY <1>2, SlotSets
  <2>2. Cardinality(all \ victims) = Cardinality(all) - Cardinality(victims)
    BY <2>1, FS_Difference
  <2>3. QED
    BY <1>3, <2>1, <2>2
<1>8. QED
  BY <1>1, <1>4, <1>5, <1>6, <1>7

\* A strike at the limit finds a voice to take, below it a free slot.
LEMMA OldestExists ==
  ASSUME NEW vs \in Bank, NEW A \in SUBSET Slots, A # {}
  PROVE  \E s \in A : \A t \in A : vs[s].age > vs[t].age \/ (vs[s].age = vs[t].age /\ s <= t)
<1> DEFINE youth == {Voices - vs[s].age : s \in A}
<1>1. /\ \A s \in A : s \in Nat /\ vs[s].age \in Nat /\ Voices - vs[s].age \in Nat
      /\ Voices \in Nat
  BY EngineAssumption DEF Bank, VoiceRec, Slots
<1>2. PICK y \in youth : \A q \in youth : ~(<<q, y>> \in OpToRel(<, Nat))
  <2>1. youth # {} /\ youth \subseteq Nat
    BY <1>1
  <2>2. QED
    BY <2>1, WFMin, NatLessThanWellFounded, Zenon
<1> DEFINE oldest == {s \in A : Voices - vs[s].age = y}
<1>3. PICK s \in oldest : \A t \in oldest : ~(<<t, s>> \in OpToRel(<, Nat))
  <2>1. oldest # {} /\ oldest \subseteq Nat
    BY <1>1, <1>2
  <2>2. QED
    BY <2>1, WFMin, NatLessThanWellFounded, Zenon
<1>4. \A t \in A : vs[s].age >= vs[t].age
  <2>1. SUFFICES ASSUME NEW t \in A, vs[t].age > vs[s].age PROVE FALSE
    BY <1>1
  <2> DEFINE q == Voices - vs[t].age
  <2>2. q \in youth /\ q \in Nat /\ y = Voices - vs[s].age /\ s \in A
    BY <1>1, <1>3
  <2>3. q < y /\ y \in Nat
    BY <1>1, <2>1, <2>2
  <2> HIDE DEF q, youth
  <2>4. <<q, y>> \in OpToRel(<, Nat)
    BY <2>2, <2>3 DEF OpToRel
  <2>5. QED
    BY <1>2, <2>2, <2>4
<1>5. \A t \in oldest : s <= t
  <2>1. \A t \in oldest : t < s => <<t, s>> \in OpToRel(<, Nat)
    BY <1>1 DEF OpToRel
  <2>2. \A t \in oldest : ~(t < s)
    BY <1>3, <2>1, Zenon
  <2>3. QED
    BY <1>1, <2>2
<1>6. \A t \in A : vs[s].age > vs[t].age \/ (vs[s].age = vs[t].age /\ s <= t)
  <2>1. TAKE t \in A
  <2>2. s \in A
    BY <1>3
  <2>3. vs[s].age = vs[t].age => s <= t
    BY <1>3, <1>5
  <2>4. vs[s].age >= vs[t].age /\ vs[s].age \in Nat /\ vs[t].age \in Nat
    BY <1>1, <1>4, <2>2
  <2>5. QED
    BY <2>3, <2>4
<1>7. QED
  BY <1>3, <1>6

LEMMA AllocatedIs ==
  ASSUME NEW vs \in Bank, limit \in 1 .. Voices
  PROVE  /\ Allocated(vs) \in Slots
         /\ Cardinality(Sounding(vs)) >= limit => Allocated(vs) \in Sounding(vs)
         /\ Cardinality(Sounding(vs)) < limit => Allocated(vs) \notin Sounding(vs)
<1> DEFINE free == Slots \ Sounding(vs)
           releasing == {s \in Sounding(vs) : vs[s].released}
           from == IF releasing # {} THEN releasing ELSE Sounding(vs)
<1>1. Sounding(vs) \in SUBSET Slots /\ Cardinality(Sounding(vs)) \in 0 .. Voices
  <2>1. Sounding(vs) \in SUBSET Slots
    BY DEF Sounding
  <2>2. QED
    BY <2>1, SlotSets
<1>2. CASE Cardinality(Sounding(vs)) < limit
  <2>1. free # {}
    <3>1. Cardinality(Slots) = Voices
      BY AllSlots
    <3>2. Slots # Sounding(vs)
      BY <1>1, <1>2, <3>1, EngineAssumption
    <3>3. QED
      BY <1>1, <3>2
  <2>2. \E s \in free : \A t \in free : s <= t
    <3> HIDE DEF free
    <3>1. free \subseteq Nat
      BY EngineAssumption DEF Slots, free
    <3>2. PICK s \in free : \A t \in free : ~(<<t, s>> \in OpToRel(<, Nat))
      BY <2>1, <3>1, WFMin, NatLessThanWellFounded, Zenon
    <3>3. \A t \in free : t < s => <<t, s>> \in OpToRel(<, Nat)
      BY <3>1 DEF OpToRel
    <3>4. \A t \in free : ~(t < s)
      BY <3>2, <3>3, Zenon
    <3>5. \A t \in free : s <= t
      BY <3>1, <3>4
    <3>6. QED
      BY <3>5
  <2>3. Allocated(vs) = CHOOSE s \in free : \A t \in free : s <= t
    BY <1>2 DEF Allocated
  <2>4. Allocated(vs) \in free
    BY <2>2, <2>3, Zenon
  <2>5. QED
    BY <1>1, <1>2, <2>4
<1>3. CASE Cardinality(Sounding(vs)) >= limit
  <2>1. Sounding(vs) # {}
    BY <1>1, <1>3, FS_EmptySet
  <2>2. from # {} /\ from \in SUBSET Slots /\ from \subseteq Sounding(vs)
    BY <1>1, <2>1
  <2>3. Allocated(vs) = CHOOSE s \in from :
          \A t \in from : vs[s].age > vs[t].age \/ (vs[s].age = vs[t].age /\ s <= t)
    BY <1>1, <1>3 DEF Allocated
  <2> HIDE DEF from
  <2>4. \E s \in from :
          \A t \in from : vs[s].age > vs[t].age \/ (vs[s].age = vs[t].age /\ s <= t)
    BY <2>2, OldestExists
  <2>5. Allocated(vs) \in from
    BY <2>3, <2>4, Zenon
  <2>6. QED
    BY <1>1, <1>3, <2>2, <2>5
<1>4. QED
  BY <1>1, <1>2, <1>3

\* Releasing voices keeps them sounding.
LEMMA ReleasedKeeps ==
  ASSUME NEW vs \in Bank, NEW notes \in SUBSET Notes
  PROVE  /\ Released(vs, notes) \in Bank
         /\ Sounding(Released(vs, notes)) = Sounding(vs)
         /\ Lasting(Released(vs, notes)) = Lasting(vs)
         /\ \A s \in Slots :
              /\ Released(vs, notes)[s].note = vs[s].note
              /\ Released(vs, notes)[s].released = (vs[s].released \/ vs[s].note \in notes)
<1> DEFINE new == [s \in Slots |->
             IF vs[s].note \in notes THEN [vs[s] EXCEPT !.released = TRUE] ELSE vs[s]]
<1>1. Released(vs, notes) = new
  BY DEF Released
<1>2. new \in Bank
  BY DEF Bank, VoiceRec
<1>3. \A s \in Slots :
        /\ new[s].note = vs[s].note /\ new[s].killing = vs[s].killing
        /\ new[s].released = (vs[s].released \/ vs[s].note \in notes)
  BY DEF Bank, VoiceRec
<1>4. QED
  BY <1>1, <1>2, <1>3 DEF Sounding, Lasting

\* A strike keeps within the limit; apart from the new voice it leaves the
\* notes as they are, and releases those of its own note.
LEMMA StruckBounds ==
  ASSUME NEW vs \in Bank, NEW n \in Notes, limit \in 1 .. Voices,
         Cardinality(Lasting(vs)) <= limit
  PROVE  /\ Struck(vs, n) \in Bank
         /\ Cardinality(Lasting(Struck(vs, n))) <= limit
         /\ \A s \in Slots :
              \/ Struck(vs, n)[s].note = n
              \/ /\ Struck(vs, n)[s].note = vs[s].note
                 /\ Struck(vs, n)[s].released = vs[s].released
<1> DEFINE rel == Released(vs, {n})
           a == Allocated(rel)
           new == [rel EXCEPT ![a] = Fresh(n)]
<1>1. /\ rel \in Bank /\ Sounding(rel) = Sounding(vs) /\ Lasting(rel) = Lasting(vs)
      /\ \A s \in Slots : /\ rel[s].note = vs[s].note
                          /\ rel[s].released = (vs[s].released \/ vs[s].note \in {n})
  BY ReleasedKeeps
<1>2. Struck(vs, n) = IF rel[a].killing THEN Culled(new, limit) ELSE new
  BY DEF Struck
<1> HIDE DEF rel
<1>3. /\ a \in Slots
      /\ Cardinality(Sounding(rel)) >= limit => a \in Sounding(rel)
      /\ Cardinality(Sounding(rel)) < limit => a \notin Sounding(rel)
  BY <1>1, AllocatedIs
<1> HIDE DEF a
<1>4. Fresh(n) \in VoiceRec /\ Fresh(n).note = n
  BY EngineAssumption DEF Fresh, VoiceRec
<1>5. /\ new \in Bank /\ new[a] = Fresh(n) /\ \A s \in Slots : s # a => new[s] = rel[s]
  BY <1>1, <1>3, <1>4 DEF Bank
<1> HIDE DEF new
<1>6. \A s \in Slots :
        \/ new[s].note = n
        \/ new[s].note = vs[s].note /\ new[s].released = vs[s].released
  BY <1>1, <1>4, <1>5 DEF Bank, VoiceRec
<1>7. CASE rel[a].killing
  BY <1>2, <1>5, <1>6, <1>7, CullBounds
<1>8. CASE ~rel[a].killing
  <2>1. Lasting(new) \subseteq Lasting(rel) \cup {a}
    BY <1>3, <1>5 DEF Lasting, Sounding
  <2>2. /\ IsFiniteSet(Lasting(rel)) /\ IsFiniteSet(Sounding(rel))
        /\ Cardinality(Lasting(rel)) \in Nat /\ Cardinality(Sounding(rel)) \in Nat
        /\ Cardinality(Lasting(rel)) <= Cardinality(Sounding(rel))
    <3>1. Sounding(rel) \in SUBSET Slots /\ Lasting(rel) \in SUBSET Sounding(rel)
      BY DEF Lasting, Sounding
    <3>2. QED
      BY <3>1, SlotSets, FS_Subset
  <2>3. Cardinality(Lasting(rel) \cup {a}) <= limit
    <3>1. CASE a \in Sounding(rel)
      <4>1. Lasting(rel) \cup {a} = Lasting(rel)
        BY <1>8, <3>1 DEF Lasting
      <4>2. QED
        BY <1>1, <4>1
    <3>2. CASE a \notin Sounding(rel)
      <4>1. Cardinality(Sounding(rel)) < limit
        BY <1>3, <2>2, <3>2
      <4>2. Cardinality(Lasting(rel) \cup {a}) =
              IF a \in Lasting(rel) THEN Cardinality(Lasting(rel)) ELSE Cardinality(Lasting(rel)) + 1
        BY <2>2, FS_AddElement
      <4>3. QED
        BY <2>2, <4>1, <4>2
    <3>3. QED
      BY <3>1, <3>2
  <2>4. /\ Cardinality(Lasting(new)) <= Cardinality(Lasting(rel) \cup {a})
        /\ Cardinality(Lasting(new)) \in Nat /\ Cardinality(Lasting(rel) \cup {a}) \in Nat
    BY <2>1, <2>2, FS_AddElement, FS_Subset, FS_CardinalityType
  <2>5. QED
    BY <1>2, <1>5, <1>6, <1>8, <2>3, <2>4
<1>9. QED
  BY <1>7, <1>8

\* loadPack() leaves nothing sounding.
LEMMA UnloadedIs ==
  ASSUME NEW vs \in Bank
  PROVE  /\ Unloaded(vs) \in Bank /\ Lasting(Unloaded(vs)) = {}
         /\ \A s \in Slots : Unloaded(vs)[s].note = None
<1>1. Unloaded(vs) \in Bank
  <2>1. 0 \in 0 .. Voices
    BY EngineAssumption
  <2>2. \A s \in Slots : [vs[s] EXCEPT !.note = None, !.released = FALSE, !.age = 0] \in VoiceRec
    BY <2>1 DEF Bank, VoiceRec
  <2>3. QED
    BY <2>2 DEF Bank, Unloaded
<1>2. \A s \in Slots : Unloaded(vs)[s].note = None
  BY DEF Bank, VoiceRec, Unloaded
<1>3. QED
  BY <1>1, <1>2 DEF Lasting, Sounding

\* The clock moves on without the notes.
LEMMA AgedKeeps ==
  ASSUME NEW vs \in Bank
  PROVE  /\ Aged(vs) \in Bank /\ Lasting(Aged(vs)) = Lasting(vs)
         /\ \A s \in Slots : /\ Aged(vs)[s].note = vs[s].note
                             /\ Aged(vs)[s].released = vs[s].released
<1> DEFINE younger(s) == {u \in Sounding(vs) : vs[u].age < vs[s].age}
           age(s) == 1 + Cardinality({vs[t].age : t \in younger(s)})
           new == [s \in Slots |-> IF vs[s].note = None THEN vs[s] ELSE [vs[s] EXCEPT !.age = age(s)]]
<1>1. Aged(vs) = new
  BY DEF Aged
<1>2. ASSUME NEW s \in Slots PROVE age(s) \in 0 .. Voices
  <2> DEFINE ages == {vs[t].age : t \in younger(s)}
             f == [t \in younger(s) |-> vs[t].age]
  <2>1. younger(s) \in SUBSET (Slots \ {s})
    BY EngineAssumption DEF Sounding, Bank, VoiceRec
  <2>2. IsFiniteSet(Slots \ {s}) /\ Cardinality(Slots \ {s}) = Voices - 1
    <3>1. IsFiniteSet(Slots) /\ Cardinality(Slots) = Voices
      BY AllSlots
    <3>2. QED
      BY <3>1, FS_RemoveElement
  <2>3. /\ IsFiniteSet(younger(s)) /\ Cardinality(younger(s)) \in Nat
        /\ Cardinality(younger(s)) <= Voices - 1
    <3> HIDE DEF younger
    <3>1. IsFiniteSet(younger(s)) /\ Cardinality(younger(s)) <= Voices - 1
      BY <2>1, <2>2, FS_Subset
    <3>2. QED
      BY <3>1, FS_CardinalityType
  <2>4. f \in Surjection(younger(s), ages)
    <3> HIDE DEF younger
    <3>1. QED
      BY DEF Surjection
  <2> HIDE DEF ages, f, younger
  <2>5. IsFiniteSet(ages) /\ Cardinality(ages) <= Cardinality(younger(s))
    BY <2>3, <2>4, FS_Surjection
  <2>6. Cardinality(ages) \in Nat
    BY <2>5, FS_CardinalityType
  <2>7. 1 + Cardinality(ages) \in 0 .. Voices
    BY <2>3, <2>5, <2>6, EngineAssumption
  <2>8. QED
    BY <2>7 DEF ages
<1> HIDE DEF age
<1>3. new \in Bank
  BY <1>2 DEF Bank, VoiceRec
<1>4. \A s \in Slots : /\ new[s].note = vs[s].note /\ new[s].released = vs[s].released
                       /\ new[s].killing = vs[s].killing
  BY DEF Bank, VoiceRec
<1>5. QED
  BY <1>1, <1>3, <1>4 DEF Lasting, Sounding

\* Rendering only ends voices.
LEMMA RenderedEnds ==
  ASSUME voice \in Bank, NEW slots, NEW ended
  PROVE  /\ Rendered(slots, ended) \in Bank
         /\ Lasting(Rendered(slots, ended)) \subseteq Lasting(voice)
         /\ \A s \in Slots :
              \/ Rendered(slots, ended)[s].note = None
              \/ /\ Rendered(slots, ended)[s].note = voice[s].note
                 /\ Rendered(slots, ended)[s].released = voice[s].released
<1>1. Fresh(None) \in VoiceRec /\ Fresh(None).note = None
  BY EngineAssumption DEF Fresh, VoiceRec
<1>2. \A s \in Slots :
        Rendered(slots, ended)[s] = Fresh(None) \/ Rendered(slots, ended)[s] = voice[s]
  BY DEF Rendered
<1>3. Rendered(slots, ended) = [s \in Slots |-> Rendered(slots, ended)[s]]
  BY DEF Rendered
<1>4. Rendered(slots, ended) \in Bank
  BY <1>1, <1>2, <1>3 DEF Bank
<1>5. QED
  BY <1>1, <1>2, <1>4 DEF Lasting, Sounding

\* Fewer voices are within the same limit.
LEMMA FewerLasting ==
  ASSUME NEW vs, NEW new, Lasting(new) \subseteq Lasting(vs), NEW n \in Nat,
         Cardinality(Lasting(vs)) <= n
  PROVE  Cardinality(Lasting(new)) <= n
<1>1. Lasting(vs) \in SUBSET Slots /\ Lasting(new) \in SUBSET Slots
  BY DEF Lasting, Sounding
<1>2. /\ IsFiniteSet(Lasting(vs)) /\ Cardinality(Lasting(vs)) \in Nat
      /\ Cardinality(Lasting(new)) \in Nat
  BY <1>1, SlotSets
<1>3. Cardinality(Lasting(new)) <= Cardinality(Lasting(vs))
  BY <1>2, FS_Subset
<1>4. QED
  BY <1>2, <1>3

-----------------------------------------------------------------------------
(* The governor.                                                           *)

\* The governor's variables have their types and agree with the voices.
Governed ==
  /\ instrument \in Instruments /\ mode \in Fixed \cup {AutoMode}
  /\ auto \in 1 .. Voices /\ effective \in 1 .. Voices /\ limit \in 1 .. Voices
  /\ voice \in Bank /\ WithinLimit

\* applyVoiceMode() leaves the limit in force, whatever it finds.
LEMMA ApplyModeGoverns ==
  ASSUME Governed, NEW m \in Fixed \cup {AutoMode}, NEW a \in 1 .. Voices, NEW i \in Instruments,
         NEW vs \in Bank, Cardinality(Lasting(vs)) <= limit, NEW again \in BOOLEAN,
         ApplyMode(m, a, i, vs, again), instrument' = i
  PROVE  /\ Governed'
         /\ \A s \in Slots : /\ voice'[s].note = vs[s].note
                             /\ voice'[s].released = vs[s].released
<1> DEFINE kept == IF m = AutoMode THEN Clamped(a, i) ELSE a
           n == IF m = AutoMode THEN kept ELSE m
           pushed == n # effective \/ again
<1>1. /\ Base[i] \in Floor .. Voices /\ Floor \in 1 .. Voices /\ Voices \in Nat
      /\ AutoMode \notin Fixed /\ Fixed \subseteq 1 .. Voices
  BY EngineAssumption
<1>2. /\ kept \in 1 .. Voices /\ n \in 1 .. Voices
      /\ m = AutoMode => n = kept /\ kept \in Floor .. Base[i]
  BY <1>1 DEF Clamped
<1>3. /\ mode' = m /\ auto' = kept /\ effective' = n
      /\ limit' = (IF pushed THEN n ELSE limit)
      /\ voice' = (IF pushed THEN Culled(vs, n) ELSE vs)
  BY DEF ApplyMode
<1> HIDE DEF kept, n
<1>4. limit' = n /\ limit' \in 1 .. Voices
  BY <1>2, <1>3 DEF Governed, WithinLimit
<1>5. /\ voice' \in Bank /\ Cardinality(Lasting(voice')) <= n
      /\ \A s \in Slots : voice'[s].note = vs[s].note /\ voice'[s].released = vs[s].released
  <2>1. n \in Nat
    BY <1>2
  <2>2. CASE pushed
    BY <1>3, <2>1, <2>2, CullBounds
  <2>3. CASE ~pushed
    BY <1>3, <1>4, <2>3
  <2>4. QED
    BY <2>2, <2>3
<1>6. Governed'
  <2>1. WithinLimit'
    BY <1>2, <1>3, <1>4, <1>5 DEF WithinLimit
  <2>2. QED
    BY <1>2, <1>3, <1>4, <1>5, <2>1 DEF Governed
<1>7. QED
  BY <1>5, <1>6

\* Commands, between two blocks.
LEMMA ApplyGoverns ==
  ASSUME Governed, NEW p \in Packets, Apply(p), deferred \subseteq Notes
  PROVE  Governed'
<1>1. /\ limit \in 1 .. Voices /\ limit \in Nat /\ voice \in Bank
      /\ Cardinality(Lasting(voice)) <= limit
  BY EngineAssumption DEF Governed, WithinLimit
<1>2. ASSUME voice' \in Bank, Cardinality(Lasting(voice')) <= limit,
             UNCHANGED <<instrument, mode, auto, effective, limit>>
      PROVE  Governed'
  BY <1>2 DEF Governed, WithinLimit
<1>3. CASE p.type = "on" /\ NoteOn(p.note)
  <2>1. p.note \in Notes
    BY <1>3 DEF Packets
  <2>2. QED
    BY <1>1, <1>2, <1>3, <2>1, StruckBounds DEF NoteOn
<1>4. CASE p.type = "off" /\ NoteOff(p.note)
  <2>1. {p.note} \in SUBSET Notes
    BY <1>4 DEF Packets
  <2>2. voice' = voice \/ voice' = Released(voice, {p.note})
    BY <1>4 DEF NoteOff
  <2>3. voice' \in Bank /\ Lasting(voice') = Lasting(voice)
    BY <1>1, <2>1, <2>2, ReleasedKeeps
  <2>4. QED
    BY <1>1, <1>2, <1>4, <2>3 DEF NoteOff
<1>5. CASE p.type = "pedal" /\ Sustain(p.down)
  <2>1. voice' = voice \/ voice' = Released(voice, deferred)
    BY <1>5 DEF Sustain
  <2>2. voice' \in Bank /\ Lasting(voice') = Lasting(voice)
    BY <1>1, <2>1, ReleasedKeeps
  <2>3. QED
    BY <1>1, <1>2, <1>5, <2>2 DEF Sustain
<1>6. CASE p.type = "allOff" /\ AllNotesOff
  <2>1. voice' \in Bank /\ Lasting(voice') = Lasting(voice)
    BY <1>1, <1>6, ReleasedKeeps DEF AllNotesOff
  <2>2. QED
    BY <1>1, <1>2, <1>6, <2>1 DEF AllNotesOff
<1>7. CASE p.type = "instrument" /\ SetInstrument(p.id)
  <2>1. p.id \in Instruments
    BY <1>7 DEF Packets
  <2>2. CASE p.id = instrument
    BY <1>1, <1>2, <1>7, <2>2 DEF SetInstrument
  <2>3. CASE p.id # instrument
    <3>1. /\ instrument' = p.id
          /\ ApplyMode(mode, IF mode = AutoMode THEN Base[p.id] ELSE auto, p.id, Unloaded(voice), FALSE)
      BY <1>7, <2>3 DEF SetInstrument
    <3>2. Unloaded(voice) \in Bank /\ Cardinality(Lasting(Unloaded(voice))) <= limit
      BY <1>1, UnloadedIs, FS_EmptySet
    <3>3. (IF mode = AutoMode THEN Base[p.id] ELSE auto) \in 1 .. Voices /\ mode \in Fixed \cup {AutoMode}
      BY <2>1, EngineAssumption DEF Governed
    <3>4. QED
      BY <2>1, <3>1, <3>2, <3>3, ApplyModeGoverns
  <2>4. QED
    BY <2>2, <2>3
<1>8. CASE p.type = "mode" /\ SetVoiceMode(p.mode)
  <2>1. p.mode \in Fixed \cup {AutoMode}
    BY <1>8 DEF Packets
  <2>2. CASE p.mode = mode
    BY <1>1, <1>2, <1>8, <2>2 DEF SetVoiceMode
  <2>3. CASE p.mode # mode
    <3>1. /\ instrument' = instrument /\ instrument \in Instruments
          /\ ApplyMode(p.mode, IF p.mode = AutoMode THEN Base[instrument] ELSE auto, instrument, voice, FALSE)
      BY <1>8, <2>3 DEF SetVoiceMode, Governed
    <3>2. (IF p.mode = AutoMode THEN Base[instrument] ELSE auto) \in 1 .. Voices
      BY <3>1, EngineAssumption DEF Governed
    <3>3. QED
      BY <1>1, <2>1, <3>1, <3>2, ApplyModeGoverns
  <2>4. QED
    BY <2>2, <2>3
<1>9. QED
  BY <1>3, <1>4, <1>5, <1>6, <1>7, <1>8 DEF Apply

\* The governor's own steps.
LEMMA FinishGoverns ==
  ASSUME Governed, Finish
  PROVE  /\ Governed'
         /\ \A s \in Slots : /\ voice'[s].note = voice[s].note
                             /\ voice'[s].released = voice[s].released
<1>1. /\ Aged(voice) \in Bank /\ Cardinality(Lasting(Aged(voice))) <= limit
      /\ \A s \in Slots : /\ Aged(voice)[s].note = voice[s].note
                          /\ Aged(voice)[s].released = voice[s].released
  BY AgedKeeps DEF Governed, WithinLimit
<1>2. Govern(Aged(voice)) /\ instrument' = instrument
  BY DEF Finish
<1>3. /\ instrument \in Instruments /\ mode \in Fixed \cup {AutoMode} /\ auto \in 1 .. Voices
      /\ Lowered \in 1 .. Voices
      /\ mode = AutoMode /\ auto < Base[instrument] => auto + 1 \in 1 .. Voices
  BY EngineAssumption DEF Governed, Lowered
<1>4. CASE ApplyMode(mode, Lowered, instrument, Aged(voice), TRUE)
  BY <1>1, <1>2, <1>3, <1>4, ApplyModeGoverns
<1>5. CASE voice' = Aged(voice) /\ UNCHANGED <<mode, auto, effective, limit>>
  BY <1>1, <1>2, <1>5 DEF Governed, WithinLimit
<1>6. CASE /\ mode = AutoMode /\ auto < Base[instrument]
           /\ ApplyMode(mode, auto + 1, instrument, Aged(voice), FALSE)
  BY <1>1, <1>2, <1>3, <1>6, ApplyModeGoverns
<1>7. QED
  BY <1>2, <1>4, <1>5, <1>6 DEF Govern

\* An underrun's cut.
LEMMA UnderrunGoverns ==
  ASSUME Governed, Underrun
  PROVE  /\ Governed'
         /\ \A s \in Slots : /\ voice'[s].note = voice[s].note
                             /\ voice'[s].released = voice[s].released
<1>1. /\ ApplyMode(mode, Floor, instrument, voice, TRUE) /\ instrument' = instrument
      /\ instrument \in Instruments /\ mode \in Fixed \cup {AutoMode} /\ Floor \in 1 .. Voices
      /\ voice \in Bank /\ Cardinality(Lasting(voice)) <= limit
  BY EngineAssumption DEF Underrun, Governed, WithinLimit
<1>2. QED
  BY <1>1, ApplyModeGoverns

-----------------------------------------------------------------------------
(* The commands on their way.                                              *)

Keys == Notes \cup {Pedal}

\* What the players do is in the ring with its type.
Delivered ==
  /\ rx \in Settings /\ stranded \in SUBSET Keys /\ held \in SUBSET (Keys \X Channels)
  /\ ring \in Seq(Packets) /\ Len(ring) < RingSize
  /\ pedal \in BOOLEAN /\ deferred \in SUBSET Notes

\* A command that lets note n go, one that moves the pedal, and one that
\* puts it down.
LetsGo(p, n) == p.type = "allOff" \/ (p.type = "off" /\ p.note = n)
Moves(p) == p.type \in {"pedal", "allOff"}
PutsDown(p) == p.type = "pedal" /\ p.down

\* Note n is let go among the commands of the ring from the i-th on.
OffFrom(r, i, n) == \E j \in i .. Len(r) : LetsGo(r[j], n)

\* The pedal will be down only if it was not let go; a note that is about to
\* be struck, or that sounds, was not let go or will be.
Accounted ==
  /\ (\A i \in 1 .. Len(ring) : ~Moves(ring[i])) => (pedal => Pedal \in Open)
  /\ \A i \in 1 .. Len(ring) :
       Moves(ring[i]) /\ (\A j \in i + 1 .. Len(ring) : ~Moves(ring[j]))
       => (PutsDown(ring[i]) => Pedal \in Open)
  /\ \A i \in 1 .. Len(ring) :
       ring[i].type = "on" => \/ ring[i].note \in Open
                              \/ OffFrom(ring, i + 1, ring[i].note)
  /\ \A s \in Sounding(voice) :
       \/ voice[s].released
       \/ voice[s].note \in Open
       \/ pedal /\ voice[s].note \in deferred
       \/ OffFrom(ring, 1, voice[s].note)

\* A command that is sent finds a free slot.
LEMMA PushDelivers ==
  ASSUME Delivered, NEW p \in Packets, Push(p)
  PROVE  /\ ring' = Append(ring, p) /\ ring' \in Seq(Packets) /\ Len(ring') < RingSize
<1>1. ring' = Append(ring, p) /\ Len(ring) < RingSize - 1
  BY DEF Push
<1>2. /\ Append(ring, p) \in Seq(Packets) /\ Len(Append(ring, p)) = Len(ring) + 1
      /\ Len(ring) \in Nat /\ RingSize \in Nat
  BY EngineAssumption DEF Delivered
<1>3. QED
  BY <1>1, <1>2

\* What an event is to the engine: nothing, or one command, after which the
\* key of that command is open or is not.
Told(p) ==
  /\ ring' = Append(ring, p)
  /\ p.type = "on" => p.note \in Open'
  /\ PutsDown(p) => Pedal \in Open'
  /\ ~Moves(p) /\ Pedal \in Open => Pedal \in Open'
  /\ \A n \in Notes : n \in Open /\ n \notin Open' => LetsGo(p, n)

\* A key that goes down is open.
LEMMA PressTells ==
  ASSUME Delivered, NEW key \in Keys, NEW ch \in Channels, NEW p \in Packets, Press(key, ch, p)
  PROVE  Delivered' /\ ring' = Append(ring, p) /\ Open' = Open \cup {key}
<1>1. /\ held' = held \cup {<<key, ch>>} /\ stranded' = stranded \ {key} /\ rx' = rx
      /\ Push(p) /\ UNCHANGED <<pedal, deferred>>
  BY DEF Press, Event, bridgeVars
<1>2. ring' = Append(ring, p) /\ ring' \in Seq(Packets) /\ Len(ring') < RingSize
  BY <1>1, PushDelivers
<1>3. Open' = Open \cup {key}
  <2>1. {k[1] : k \in held'} = {k[1] : k \in held} \cup {key}
    <3>1. <<key, ch>>[1] = key
      OBVIOUS
    <3>2. QED
      BY <1>1, <3>1
  <2>2. QED
    BY <1>1, <2>1 DEF Open
<1>4. QED
  BY <1>1, <1>2, <1>3 DEF Delivered

\* One that is let go is not, if the engine is told so.
LEMMA ReleaseTells ==
  ASSUME Delivered, NEW key \in Keys, NEW ch \in Channels, NEW p \in Packets, Release(key, ch, p)
  PROVE  /\ Delivered'
         /\ \/ ring' = Append(ring, p) /\ Open' = Open \ {key}
            \/ ring' = ring /\ Open' = Open
<1>1. rx' = rx /\ UNCHANGED <<pedal, deferred>>
  BY DEF Release, Event, bridgeVars
<1>2. CASE /\ Push(p)
           /\ held' = {k \in held : k[1] # key} /\ stranded' = stranded \ {key}
  <2>1. ring' = Append(ring, p) /\ ring' \in Seq(Packets) /\ Len(ring') < RingSize
    BY <1>2, PushDelivers
  <2>2. Open' = Open \ {key}
    BY <1>2 DEF Open
  <2>3. QED
    BY <1>1, <1>2, <2>1, <2>2 DEF Delivered
<1>3. CASE /\ <<key, ch>> \in held /\ held' = held \ {<<key, ch>>}
           /\ stranded' = stranded \cup {key} /\ ring' = ring
  <2>1. Open' = Open
    <3>1. \A k \in held : k # <<key, ch>> => k \in held'
      BY <1>3
    <3>2. <<key, ch>>[1] = key
      OBVIOUS
    <3>3. QED
      BY <1>3, <3>1, <3>2 DEF Open
  <2>2. QED
    BY <1>1, <1>3, <2>1 DEF Delivered
<1>4. QED
  BY <1>2, <1>3 DEF Release

\* The events of the players and the panel.
LEMMA PlayTells ==
  ASSUME Delivered, Play
  PROVE  /\ Delivered' /\ UNCHANGED <<pedal, deferred, voice>>
         /\ (ring' = ring /\ Open' = Open) \/ \E p \in Packets : Told(p)
<1>1. UNCHANGED <<pedal, deferred, voice>>
  BY DEF Play, KeyDown, KeyUp, Foot, AllOff, Panel, PanelChannel, Press, Release, Event, bridgeVars
<1>2. CASE \E ch \in Channels, n \in Notes : KeyDown(n, ch)
  <2>1. PICK ch \in Channels, n \in Notes : KeyDown(n, ch)
    BY <1>2
  <2> DEFINE p == [type |-> "on", note |-> n]
  <2>2. p \in Packets /\ p.type = "on" /\ p.note = n /\ n \in Keys
    BY DEF Packets, Keys
  <2>3. Press(n, ch, p)
    BY <2>1 DEF KeyDown
  <2> HIDE DEF p
  <2>4. Delivered' /\ ring' = Append(ring, p) /\ Open' = Open \cup {n}
    BY <2>2, <2>3, PressTells
  <2>5. QED
    BY <1>1, <2>2, <2>4 DEF Told, PutsDown
<1>3. CASE \E ch \in Channels, n \in Notes : KeyUp(n, ch)
  <2>1. PICK ch \in Channels, n \in Notes : KeyUp(n, ch)
    BY <1>3
  <2> DEFINE p == [type |-> "off", note |-> n]
  <2>2. p \in Packets /\ p.type = "off" /\ p.note = n /\ n \in Keys /\ n # Pedal
    BY EngineAssumption DEF Packets, Keys
  <2>3. Release(n, ch, p)
    BY <2>1 DEF KeyUp
  <2> HIDE DEF p
  <2>4. Delivered' /\ \/ ring' = Append(ring, p) /\ Open' = Open \ {n}
                      \/ ring' = ring /\ Open' = Open
    BY <2>2, <2>3, ReleaseTells
  <2>5. QED
    BY <1>1, <2>2, <2>4 DEF Told, PutsDown, LetsGo
<1>4. CASE \E ch \in Channels, d \in BOOLEAN : Foot(d, ch)
  <2>1. PICK ch \in Channels, d \in BOOLEAN : Foot(d, ch)
    BY <1>4
  <2> DEFINE p == [type |-> "pedal", down |-> d]
  <2>2. p \in Packets /\ p.type = "pedal" /\ p.down = d /\ Pedal \in Keys /\ Pedal \notin Notes
    BY EngineAssumption DEF Packets, Keys
  <2>3. (d /\ Press(Pedal, ch, p)) \/ (~d /\ Release(Pedal, ch, p))
    BY <2>1 DEF Foot
  <2> HIDE DEF p
  <2>4. Delivered' /\ \/ ring' = Append(ring, p) /\ d /\ Open' = Open \cup {Pedal}
                      \/ ring' = Append(ring, p) /\ ~d /\ Open' = Open \ {Pedal}
                      \/ ring' = ring /\ Open' = Open
    BY <2>2, <2>3, PressTells, ReleaseTells
  <2>5. QED
    BY <1>1, <2>2, <2>4 DEF Told, PutsDown, Moves
<1>5. CASE \E ch \in Channels : AllOff(ch)
  <2> DEFINE p == [type |-> "allOff"]
  <2>1. p \in Packets /\ p.type = "allOff"
    BY DEF Packets
  <2>2. Push(p) /\ held' = {} /\ stranded' = {} /\ rx' = rx
    BY <1>5 DEF AllOff
  <2> HIDE DEF p
  <2>3. ring' = Append(ring, p) /\ ring' \in Seq(Packets) /\ Len(ring') < RingSize
    BY <2>1, <2>2, PushDelivers
  <2>4. Delivered'
    BY <1>1, <2>2, <2>3 DEF Delivered
  <2>5. QED
    BY <1>1, <2>1, <2>3, <2>4 DEF Told, PutsDown, Moves, LetsGo
<1>6. CASE Panel
  <2>1. PICK p \in Packets : Push(p) /\ p.type \in {"instrument", "mode"}
    <3>1. CASE \E i \in Instruments : Push([type |-> "instrument", id |-> i])
      BY <3>1 DEF Packets
    <3>2. CASE \E m \in Fixed \cup {AutoMode} : Push([type |-> "mode", mode |-> m])
      BY <3>2 DEF Packets
    <3>3. QED
      BY <1>6, <3>1, <3>2 DEF Panel
  <2>2. ring' = Append(ring, p) /\ ring' \in Seq(Packets) /\ Len(ring') < RingSize
    BY <2>1, PushDelivers
  <2>3. UNCHANGED <<rx, held, stranded>>
    BY <1>6 DEF Panel
  <2>4. Delivered' /\ Open' = Open
    BY <1>1, <2>2, <2>3 DEF Delivered, Open
  <2>5. QED
    BY <1>1, <2>1, <2>2, <2>4 DEF Told, PutsDown, Moves
<1>7. CASE PanelChannel
  BY <1>1, <1>7 DEF PanelChannel, Delivered, Open
<1>8. QED
  BY <1>2, <1>3, <1>4, <1>5, <1>6, <1>7 DEF Play

\* Each event keeps the account.
LEMMA PlayAccounts ==
  ASSUME Governed, Delivered, Play, Accounted
  PROVE  Delivered' /\ Accounted'
<1>1. /\ Delivered' /\ UNCHANGED <<pedal, deferred, voice>>
      /\ (ring' = ring /\ Open' = Open) \/ \E p \in Packets : Told(p)
  BY PlayTells
<1>2. CASE ring' = ring /\ Open' = Open
  BY <1>1, <1>2 DEF Accounted, Sounding
<1>3. CASE \E p \in Packets : Told(p)
  <2>1. PICK p \in Packets : Told(p)
    BY <1>3
  <2>2. /\ Len(ring) \in Nat /\ Len(ring') = Len(ring) + 1
        /\ \A i \in 1 .. Len(ring) : ring'[i] = ring[i]
        /\ ring'[Len(ring) + 1] = p
    BY <2>1 DEF Delivered, Told
  <2>3. \A i \in Nat, n \in Notes :
          n \in Open /\ n \notin Open' /\ i <= Len(ring) => OffFrom(ring', i + 1, n)
    BY <2>1, <2>2 DEF OffFrom, Told
  <2>4. \A n : \A i \in Nat : OffFrom(ring, i, n) /\ i > 0 => OffFrom(ring', i, n)
    BY <2>2 DEF OffFrom
  <2>5. (\A i \in 1 .. Len(ring') : ~Moves(ring'[i])) => (pedal' => Pedal \in Open')
    <3>1. SUFFICES ASSUME \A i \in 1 .. Len(ring') : ~Moves(ring'[i]), pedal
                   PROVE  Pedal \in Open'
      BY <1>1
    <3>2. ~Moves(p) /\ \A i \in 1 .. Len(ring) : ~Moves(ring[i])
      BY <2>2, <3>1
    <3>3. QED
      BY <2>1, <3>1, <3>2 DEF Accounted, Told
  <2>6. ASSUME NEW i \in 1 .. Len(ring'), Moves(ring'[i]),
               \A j \in i + 1 .. Len(ring') : ~Moves(ring'[j]), PutsDown(ring'[i])
        PROVE  Pedal \in Open'
    <3>1. CASE i = Len(ring) + 1
      BY <2>1, <2>2, <2>6, <3>1 DEF Told
    <3>2. CASE i # Len(ring) + 1
      <4>1. /\ i \in 1 .. Len(ring) /\ Moves(ring[i]) /\ PutsDown(ring[i])
            /\ ~Moves(p) /\ \A j \in i + 1 .. Len(ring) : ~Moves(ring[j])
        BY <2>2, <2>6, <3>2
      <4>2. QED
        BY <2>1, <4>1 DEF Accounted, Told
    <3>3. QED
      BY <3>1, <3>2
  <2>7. ASSUME NEW i \in 1 .. Len(ring'), ring'[i].type = "on"
        PROVE  ring'[i].note \in Open' \/ OffFrom(ring', i + 1, ring'[i].note)
    <3>1. CASE i = Len(ring) + 1
      BY <2>1, <2>2, <2>7, <3>1 DEF Told
    <3>2. CASE i # Len(ring) + 1
      <4>1. /\ i \in 1 .. Len(ring) /\ i \in Nat /\ i <= Len(ring) /\ ring'[i] = ring[i]
            /\ ring[i] \in Packets
        BY <2>2, <3>2 DEF Delivered
      <4>2. ring[i].note \in Open \/ OffFrom(ring, i + 1, ring[i].note)
        BY <2>7, <4>1 DEF Accounted
      <4>3. ring[i].note \in Notes
        BY <2>7, <4>1 DEF Packets
      <4>4. QED
        BY <2>3, <2>4, <4>1, <4>2, <4>3
    <3>3. QED
      BY <3>1, <3>2
  <2>8. ASSUME NEW s \in Sounding(voice)
        PROVE  \/ voice[s].released
               \/ voice[s].note \in Open'
               \/ pedal /\ voice[s].note \in deferred
               \/ OffFrom(ring', 1, voice[s].note)
    <3>1. \/ voice[s].released
          \/ voice[s].note \in Open
          \/ pedal /\ voice[s].note \in deferred
          \/ OffFrom(ring, 1, voice[s].note)
      BY DEF Accounted
    <3>2. voice[s].note \in Notes
      BY DEF Governed, Bank, VoiceRec, Sounding
    <3>3. voice[s].note \in Open /\ voice[s].note \notin Open' => OffFrom(ring', 0 + 1, voice[s].note)
      BY <2>2, <2>3, <3>2
    <3>4. QED
      BY <2>4, <3>1, <3>3
  <2>9. QED
    BY <1>1, <2>5, <2>6, <2>7, <2>8 DEF Accounted, Sounding
<1>4. QED
  BY <1>1, <1>2, <1>3

\* Only events open and close keys.
LEMMA OpenStays == UNCHANGED <<held, stranded>> => Open' = Open
  BY DEF Open

\* What ends voices, or leaves them on their notes, keeps the account.
LEMMA AccountStays ==
  ASSUME Accounted, UNCHANGED <<held, stranded, ring, pedal, deferred>>,
         \A s \in Slots : \/ voice'[s].note = None
                          \/ /\ voice'[s].note = voice[s].note
                             /\ voice'[s].released = voice[s].released
  PROVE  Accounted'
<1>1. \A s \in Sounding(voice)' : /\ s \in Sounding(voice) /\ voice'[s].note = voice[s].note
                                  /\ voice'[s].released = voice[s].released
  BY DEF Sounding
<1>2. \A s \in Sounding(voice)' :
       \/ voice'[s].released
       \/ voice'[s].note \in Open
       \/ pedal /\ voice'[s].note \in deferred
       \/ OffFrom(ring, 1, voice'[s].note)
  BY <1>1 DEF Accounted
<1>3. QED
  BY <1>2, OpenStays DEF Accounted

\* A note-off that is in the ring, and is not the next command, stays there.
LEMMA OffStays ==
  ASSUME Delivered, ring # <<>>, NEW i \in Nat \ {0}, NEW n, OffFrom(ring, i, n),
         i > 1 \/ ~LetsGo(Head(ring), n)
  PROVE  OffFrom(Tail(ring), IF i > 1 THEN i - 1 ELSE 1, n)
<1>1. /\ Len(ring) \in Nat \ {0} /\ Len(Tail(ring)) = Len(ring) - 1 /\ Head(ring) = ring[1]
      /\ \A j \in 1 .. Len(ring) - 1 : Tail(ring)[j] = ring[j + 1]
  BY DEF Delivered
<1>2. PICK j \in i .. Len(ring) : LetsGo(ring[j], n)
  BY DEF OffFrom
<1>3. j > 1
  BY <1>1, <1>2
<1>4. j - 1 \in (IF i > 1 THEN i - 1 ELSE 1) .. Len(Tail(ring)) /\ Tail(ring)[j - 1] = ring[j]
  BY <1>1, <1>2, <1>3
<1>5. QED
  BY <1>2, <1>4 DEF OffFrom

\* Taking a command keeps the account of the commands behind it.
LEMMA TailAccounts ==
  ASSUME Delivered, Accounted, ring # <<>>, ring' = Tail(ring), UNCHANGED <<held, stranded>>
  PROVE  /\ \A i \in 1 .. Len(ring') :
              /\ Moves(ring'[i])
              /\ \A j \in i + 1 .. Len(ring') : ~Moves(ring'[j])
              => (PutsDown(ring'[i]) => Pedal \in Open)
         /\ \A i \in 1 .. Len(ring') :
              ring'[i].type = "on" => \/ ring'[i].note \in Open
                                      \/ OffFrom(ring', i + 1, ring'[i].note)
         /\ (\A i \in 1 .. Len(ring') : ~Moves(ring'[i])) =>
              IF Moves(Head(ring)) THEN PutsDown(Head(ring)) => Pedal \in Open ELSE pedal => Pedal \in Open
<1>1. /\ Len(ring) \in Nat \ {0} /\ Len(ring') = Len(ring) - 1 /\ Head(ring) = ring[1]
      /\ \A j \in 1 .. Len(ring) - 1 : ring'[j] = ring[j + 1]
  BY DEF Delivered
<1>2. ASSUME NEW i \in 1 .. Len(ring'), Moves(ring'[i]),
             \A j \in i + 1 .. Len(ring') : ~Moves(ring'[j]), PutsDown(ring'[i])
      PROVE  Pedal \in Open
  <2>1. i + 1 \in 1 .. Len(ring) /\ ring[i + 1] = ring'[i]
    BY <1>1
  <2>2. \A j \in (i + 1) + 1 .. Len(ring) : ~Moves(ring[j])
    <3>1. TAKE j \in (i + 1) + 1 .. Len(ring)
    <3>2. j - 1 \in i + 1 .. Len(ring') /\ ring'[j - 1] = ring[j]
      BY <1>1
    <3>3. QED
      BY <1>2, <3>2
  <2>3. QED
    BY <1>2, <2>1, <2>2 DEF Accounted
<1>3. ASSUME NEW i \in 1 .. Len(ring'), ring'[i].type = "on"
      PROVE  ring'[i].note \in Open \/ OffFrom(ring', i + 1, ring'[i].note)
  <2>1. /\ i + 1 \in 1 .. Len(ring) /\ ring[i + 1] = ring'[i] /\ i + 2 \in Nat \ {0} /\ i + 2 > 1
        /\ (i + 1) + 1 = i + 2 /\ (i + 2) - 1 = i + 1
    BY <1>1
  <2>2. ring[i + 1].note \in Open \/ OffFrom(ring, i + 2, ring[i + 1].note)
    BY <1>3, <2>1 DEF Accounted
  <2>3. OffFrom(ring, i + 2, ring[i + 1].note) => OffFrom(ring', i + 1, ring[i + 1].note)
    BY <2>1, OffStays
  <2>4. QED
    BY <2>1, <2>2, <2>3
<1>4. ASSUME \A i \in 1 .. Len(ring') : ~Moves(ring'[i])
      PROVE  IF Moves(Head(ring)) THEN PutsDown(Head(ring)) => Pedal \in Open ELSE pedal => Pedal \in Open
  <2>1. \A i \in 1 + 1 .. Len(ring) : ~Moves(ring[i])
    <3>1. TAKE i \in 1 + 1 .. Len(ring)
    <3>2. i - 1 \in 1 .. Len(ring') /\ ring'[i - 1] = ring[i]
      BY <1>1
    <3>3. QED
      BY <1>4, <3>2
  <2>2. CASE Moves(Head(ring))
    BY <1>1, <2>1, <2>2 DEF Accounted
  <2>3. CASE ~Moves(Head(ring))
    <3>1. \A i \in 1 .. Len(ring) : ~Moves(ring[i])
      BY <1>1, <2>1, <2>3
    <3>2. QED
      BY <2>3, <3>1 DEF Accounted
  <2>4. QED
    BY <2>2, <2>3
<1>5. QED
  BY <1>2, <1>3, <1>4

\* A voice that goes on unreleased is accounted for by the pedal, or was
\* before by something that is still there.
LEMMA PopAccounts ==
  ASSUME Governed, Delivered, Accounted, Pop
  PROVE  Delivered' /\ Accounted'
<1> DEFINE p == Head(ring)
<1>1. /\ ring # <<>> /\ ring' = Tail(ring) /\ UNCHANGED <<rx, held, stranded>> /\ Apply(p)
  BY DEF Pop
<1>2. p \in Packets /\ p = ring[1] /\ 1 \in 1 .. Len(ring) /\ ring' \in Seq(Packets)
      /\ Len(ring') < RingSize
  BY <1>1, EngineAssumption DEF Delivered
<1>3. /\ \A i \in 1 .. Len(ring') :
           /\ Moves(ring'[i])
           /\ \A j \in i + 1 .. Len(ring') : ~Moves(ring'[j])
           => (PutsDown(ring'[i]) => Pedal \in Open')
      /\ \A i \in 1 .. Len(ring') :
           ring'[i].type = "on" => \/ ring'[i].note \in Open'
                                   \/ OffFrom(ring', i + 1, ring'[i].note)
      /\ (\A i \in 1 .. Len(ring') : ~Moves(ring'[i])) =>
           IF Moves(p) THEN PutsDown(p) => Pedal \in Open' ELSE pedal => Pedal \in Open'
  BY <1>1, OpenStays, TailAccounts
<1>4. \A n : OffFrom(ring, 1, n) /\ ~LetsGo(p, n) => OffFrom(ring', 1, n)
  BY <1>1, OffStays
<1> HIDE DEF p
<1>5. /\ voice \in Bank /\ limit \in 1 .. Voices /\ Cardinality(Lasting(voice)) <= limit
      /\ deferred \in SUBSET Notes /\ pedal \in BOOLEAN
  BY DEF Governed, WithinLimit, Delivered
<1> DEFINE Answered(s) == \/ voice'[s].note = None
                          \/ voice'[s].released
                          \/ voice'[s].note \in Open
                          \/ pedal' /\ voice'[s].note \in deferred'
                          \/ OffFrom(ring', 1, voice'[s].note)
<1>6. \A s \in Slots : \/ voice[s].note = None
                       \/ voice[s].released
                       \/ voice[s].note \in Open
                       \/ pedal /\ voice[s].note \in deferred
                       \/ OffFrom(ring, 1, voice[s].note)
  BY DEF Accounted, Sounding
<1>7. SUFFICES /\ \A s \in Slots : Answered(s)
               /\ IF Moves(p) THEN pedal' => PutsDown(p) ELSE pedal' => pedal
               /\ pedal' \in BOOLEAN /\ deferred' \in SUBSET Notes
  <2>1. (\A i \in 1 .. Len(ring') : ~Moves(ring'[i])) => (pedal' => Pedal \in Open')
    BY <1>3, <1>7
  <2>2. Delivered'
    BY <1>1, <1>2, <1>7 DEF Delivered
  <2>3. \A s \in Sounding(voice)' : \/ voice'[s].released
                                    \/ voice'[s].note \in Open'
                                    \/ pedal' /\ voice'[s].note \in deferred'
                                    \/ OffFrom(ring', 1, voice'[s].note)
    BY <1>1, <1>7, OpenStays DEF Sounding
  <2>4. QED
    BY <1>3, <2>1, <2>2, <2>3 DEF Accounted
<1>8. /\ p.type \notin {"pedal", "allOff"} => ~Moves(p)
      /\ p.type \notin {"off", "allOff"} => \A n : ~LetsGo(p, n)
      /\ p.type = "off" => \A n : LetsGo(p, n) => p.note = n
      /\ p.type = "pedal" => Moves(p) /\ (PutsDown(p) <=> p.down)
      /\ p.type = "allOff" => Moves(p) /\ ~PutsDown(p)
  BY DEF Moves, LetsGo, PutsDown
<1> DEFINE Same == \A s \in Slots : /\ voice'[s].note = voice[s].note
                                    /\ voice'[s].released = voice[s].released
<1>9. ASSUME Same, UNCHANGED <<pedal, deferred>>, p.type \notin {"off", "allOff"}
      PROVE \A s \in Slots : Answered(s)
  BY <1>4, <1>6, <1>8, <1>9
<1>10. CASE p.type = "on" /\ NoteOn(p.note)
  <2>1. p.note \in Notes
    BY <1>2, <1>10 DEF Packets
  <2>2. \A s \in Slots : \/ voice'[s].note = p.note
                         \/ voice'[s].note = voice[s].note /\ voice'[s].released = voice[s].released
    BY <1>5, <1>10, <2>1, StruckBounds DEF NoteOn
  <2>3. p.note \in Open \/ OffFrom(ring', 1, p.note)
    <3>1. p.note \in Open \/ OffFrom(ring, 1 + 1, p.note)
      BY <1>2, <1>10 DEF Accounted
    <3>2. OffFrom(ring, 2, p.note) => OffFrom(ring', 1, p.note)
      BY <1>1, OffStays
    <3>3. QED
      BY <3>1, <3>2
  <2>4. pedal' = pedal /\ deferred' = deferred \ {p.note}
    BY <1>10 DEF NoteOn
  <2>5. QED
    BY <1>4, <1>5, <1>6, <1>8, <1>10, <2>2, <2>3, <2>4
<1>11. CASE p.type = "off" /\ NoteOff(p.note)
  <2>1. p.note \in Notes
    BY <1>2, <1>11 DEF Packets
  <2>2. CASE pedal
    BY <1>4, <1>5, <1>6, <1>8, <1>11, <2>1, <2>2 DEF NoteOff
  <2>3. CASE ~pedal
    <3>1. voice' = Released(voice, {p.note}) /\ UNCHANGED <<pedal, deferred>>
      BY <1>11, <2>3 DEF NoteOff
    <3>2. \A s \in Slots : /\ voice'[s].note = voice[s].note
                           /\ voice'[s].released = (voice[s].released \/ voice[s].note \in {p.note})
      BY <1>5, <2>1, <3>1, ReleasedKeeps
    <3>3. QED
      BY <1>4, <1>5, <1>6, <1>8, <1>11, <2>3, <3>1, <3>2
  <2>4. QED
    BY <2>2, <2>3
<1>12. CASE p.type = "pedal" /\ Sustain(p.down)
  <2>1. p.down \in BOOLEAN /\ pedal' = p.down
    BY <1>2, <1>12 DEF Packets, Sustain
  <2>2. CASE p.down
    BY <1>4, <1>5, <1>6, <1>8, <1>12, <2>1, <2>2 DEF Sustain
  <2>3. CASE ~p.down
    <3>1. voice' = Released(voice, deferred) /\ deferred' = {}
      BY <1>12, <2>3 DEF Sustain
    <3>2. \A s \in Slots : /\ voice'[s].note = voice[s].note
                           /\ voice'[s].released = (voice[s].released \/ voice[s].note \in deferred)
      BY <1>5, <3>1, ReleasedKeeps
    <3>3. QED
      BY <1>4, <1>5, <1>6, <1>8, <1>12, <2>1, <2>3, <3>1, <3>2
  <2>4. QED
    BY <2>2, <2>3
<1>13. CASE p.type = "allOff" /\ AllNotesOff
  <2>1. voice' = Released(voice, Notes) /\ pedal' = FALSE /\ deferred' = {}
    BY <1>13 DEF AllNotesOff
  <2>2. \A s \in Slots : /\ voice'[s].note = voice[s].note
                         /\ voice'[s].released = (voice[s].released \/ voice[s].note \in Notes)
                         /\ voice[s].note \in Notes \cup {None}
    BY <1>5, <2>1, ReleasedKeeps DEF Bank, VoiceRec
  <2>3. QED
    BY <1>8, <1>13, <2>1, <2>2
<1>14. CASE p.type = "instrument" /\ SetInstrument(p.id)
  <2>1. UNCHANGED <<pedal, deferred>> /\ p.id \in Instruments
    BY <1>2, <1>14 DEF SetInstrument, Packets
  <2>2. CASE p.id = instrument
    BY <1>5, <1>8, <1>9, <1>14, <2>1, <2>2 DEF SetInstrument
  <2>3. CASE p.id # instrument
    <3>1. voice' = Unloaded(voice) \/ voice' = Culled(Unloaded(voice), effective')
      BY <1>14, <2>3 DEF SetInstrument, ApplyMode
    <3>2. effective' \in Nat
      BY ApplyGoverns, <1>1, <1>2, <1>5, EngineAssumption DEF Governed
    <3>3. \A s \in Slots : voice'[s].note = None
      BY <1>5, <3>1, <3>2, UnloadedIs, CullBounds
    <3>4. QED
      BY <1>5, <1>8, <1>14, <2>1, <3>3
  <2>4. QED
    BY <2>2, <2>3
<1>15. CASE p.type = "mode" /\ SetVoiceMode(p.mode)
  <2>1. UNCHANGED <<pedal, deferred>> /\ p.mode \in Fixed \cup {AutoMode}
    BY <1>2, <1>15 DEF SetVoiceMode, Packets
  <2>2. CASE p.mode = mode
    BY <1>5, <1>8, <1>9, <1>15, <2>1, <2>2 DEF SetVoiceMode
  <2>3. CASE p.mode # mode
    <3>1. voice' = voice \/ voice' = Culled(voice, effective')
      BY <1>15, <2>3 DEF SetVoiceMode, ApplyMode
    <3>2. effective' \in Nat
      BY ApplyGoverns, <1>1, <1>2, <1>5, EngineAssumption DEF Governed
    <3>3. Same
      BY <1>5, <3>1, <3>2, CullBounds
    <3>4. QED
      BY <1>5, <1>8, <1>9, <1>15, <2>1, <3>3
  <2>4. QED
    BY <2>2, <2>3
<1>16. QED
  BY <1>1, <1>10, <1>11, <1>12, <1>13, <1>14, <1>15 DEF Apply

-----------------------------------------------------------------------------
(* All of it together.                                                     *)

IInv ==
  /\ at \in {"loop", "drain", "even", "wait"} /\ rendered \in {"not", "once"}
  /\ Rendezvous /\ Governed /\ Delivered /\ Accounted

\* After init() nothing sounds and nothing is on its way.
LEMMA InitHolds == Init => IInv
<1> SUFFICES ASSUME Init PROVE IInv
  OBVIOUS
<1>1. Rendezvous
  BY InitRendezvous
<1>2. Fresh(None) \in VoiceRec /\ Fresh(None).note = None
  BY EngineAssumption DEF Fresh, VoiceRec
<1>3. voice \in Bank /\ Sounding(voice) = {} /\ Lasting(voice) = {}
  BY <1>2 DEF Init, Bank, Sounding, Lasting
<1>4. Base[instrument] \in Floor .. Voices /\ Floor \in 1 .. Voices
  BY EngineAssumption DEF Init
<1>5. Cardinality(Lasting(voice)) <= limit /\ limit \in 1 .. Voices
  <2>1. limit = Base[instrument] /\ limit \in 1 .. Voices
    BY <1>4, EngineAssumption DEF Init
  <2>2. Cardinality(Lasting(voice)) = 0
    BY <1>3, FS_EmptySet
  <2>3. QED
    BY <2>1, <2>2
<1>6. Governed
  BY <1>3, <1>4, <1>5 DEF Init, Governed, WithinLimit
<1>7. Delivered
  <2>1. ring = <<>> /\ ring \in Seq(Packets) /\ Len(ring) = 0 /\ 0 < RingSize
    BY EngineAssumption DEF Init
  <2>2. QED
    BY <2>1 DEF Init, Delivered
<1>8. Accounted
  BY <1>3 DEF Init, Accounted
<1>9. QED
  BY <1>1, <1>6, <1>7, <1>8 DEF Init, IInv

\* What neither the ring nor the pedal sees keeps the account of the notes.
LEMMA QuietStep ==
  ASSUME IInv, UNCHANGED <<rx, held, stranded, ring, pedal, deferred>>,
         \A s \in Slots : \/ voice'[s].note = None
                          \/ /\ voice'[s].note = voice[s].note
                             /\ voice'[s].released = voice[s].released
  PROVE  Delivered' /\ Accounted'
<1>1. Delivered'
  BY DEF IInv, Delivered
<1>2. QED
  BY <1>1, AccountStays DEF IInv

\* Rendering changes the voices alone.
LEMMA RenderGoverns ==
  ASSUME Governed, NEW slots, NEW ended, voice' = Rendered(slots, ended),
         UNCHANGED <<instrument, mode, auto, effective, limit>>
  PROVE  /\ Governed'
         /\ \A s \in Slots : \/ voice'[s].note = None
                             \/ /\ voice'[s].note = voice[s].note
                                /\ voice'[s].released = voice[s].released
<1>1. voice \in Bank /\ limit \in Nat /\ Cardinality(Lasting(voice)) <= limit
  BY EngineAssumption DEF Governed, WithinLimit
<1>2. /\ voice' \in Bank /\ Lasting(voice') \subseteq Lasting(voice)
      /\ \A s \in Slots : \/ voice'[s].note = None
                          \/ /\ voice'[s].note = voice[s].note
                             /\ voice'[s].released = voice[s].released
  BY <1>1, RenderedEnds
<1>3. Cardinality(Lasting(voice')) <= limit
  BY <1>1, <1>2, FewerLasting
<1>4. Governed'
  BY <1>2, <1>3 DEF Governed, WithinLimit
<1>5. QED
  BY <1>2, <1>4

\* Every step keeps the invariant.
LEMMA NextHolds == IInv /\ [Next]_vars => IInv'
<1> SUFFICES ASSUME IInv, [Next]_vars PROVE IInv'
  OBVIOUS
<1>1. Rendezvous'
  BY NextRendezvous DEF IInv
<1>2. UNCHANGED <<instrument, mode, auto, effective, limit, voice>> => Governed'
  BY DEF IInv, Governed, WithinLimit
<1>3. UNCHANGED <<rx, held, stranded, ring, pedal, deferred, voice>> =>
        Delivered' /\ Accounted'
  BY QuietStep
<1>4. CASE UNCHANGED vars
  BY <1>1, <1>2, <1>3, <1>4 DEF vars, inputVars, bridgeVars, doorVars, IInv
<1>5. CASE Play
  <2>1. UNCHANGED <<bridgeVars, voice, limit, at, doorVars>>
    BY <1>5 DEF Play, KeyDown, KeyUp, Foot, AllOff, Panel, PanelChannel, Press, Release, Event
  <2>2. Delivered' /\ Accounted'
    BY <1>5, PlayAccounts DEF IInv
  <2>3. QED
    BY <1>1, <1>2, <2>1, <2>2 DEF IInv, bridgeVars, doorVars
<1>6. CASE Underrun
  <2>1. UNCHANGED <<inputVars, pedal, deferred, at, doorVars>>
    BY <1>6 DEF Underrun
  <2>2. Governed' /\ \A s \in Slots : /\ voice'[s].note = voice[s].note
                                      /\ voice'[s].released = voice[s].released
    BY <1>6, UnderrunGoverns DEF IInv
  <2>3. Delivered' /\ Accounted'
    BY <2>1, <2>2, QuietStep DEF inputVars
  <2>4. QED
    BY <1>1, <2>1, <2>2, <2>3 DEF IInv, doorVars
<1>7. CASE Pop
  <2>1. Governed'
    <3>1. Head(ring) \in Packets /\ Apply(Head(ring)) /\ deferred \subseteq Notes
      BY <1>7 DEF Pop, IInv, Delivered
    <3>2. QED
      BY <3>1, ApplyGoverns DEF IInv
  <2>2. Delivered' /\ Accounted'
    BY <1>7, PopAccounts DEF IInv
  <2>3. QED
    BY <1>1, <1>7, <2>1, <2>2 DEF Pop, IInv, doorVars
<1>8. CASE Doorbell
  BY <1>1, <1>2, <1>3, <1>8 DEF Doorbell, inputVars, bridgeVars, IInv
<1>9. CASE \E ended \in SUBSET Even : RenderEven(ended)
  <2>1. PICK ended \in SUBSET Even : RenderEven(ended)
    BY <1>9
  <2>2. /\ voice' = Rendered(Even, ended) /\ UNCHANGED <<inputVars, bridgeVars, limit, doorVars>>
        /\ at' = "wait"
    BY <2>1 DEF RenderEven
  <2>3. Governed' /\ Delivered' /\ Accounted'
    <3>1. /\ UNCHANGED <<instrument, mode, auto, effective, limit>>
          /\ UNCHANGED <<rx, held, stranded, ring, pedal, deferred>>
      BY <2>2 DEF inputVars, bridgeVars
    <3>2. QED
      BY <2>2, <3>1, RenderGoverns, QuietStep DEF IInv
  <2>4. QED
    BY <1>1, <2>2, <2>3 DEF IInv, doorVars
<1>10. CASE Finish
  <2>1. UNCHANGED <<inputVars, pedal, deferred, doorVars>> /\ at' = "loop"
    BY <1>10 DEF Finish
  <2>2. Governed' /\ \A s \in Slots : /\ voice'[s].note = voice[s].note
                                      /\ voice'[s].released = voice[s].released
    BY <1>10, FinishGoverns DEF IInv
  <2>3. Delivered' /\ Accounted'
    BY <2>1, <2>2, QuietStep DEF inputVars
  <2>4. QED
    BY <1>1, <2>1, <2>2, <2>3 DEF IInv, doorVars
<1>11. CASE Answer
  BY <1>1, <1>2, <1>3, <1>11 DEF Answer, inputVars, bridgeVars, IInv
<1>12. CASE \E ended \in SUBSET Odd : RenderOdd(ended)
  <2>1. PICK ended \in SUBSET Odd : RenderOdd(ended)
    BY <1>12
  <2>2. /\ voice' = Rendered(Odd, ended) /\ UNCHANGED <<inputVars, bridgeVars, limit, at, asked>>
        /\ worker # None /\ worker[2] = "render"
        /\ rendered' = IF rendered = "not" /\ worker[1] = asked THEN "once" ELSE "wrong"
    BY <2>1 DEF RenderOdd
  <2>3. rendered' = "once"
    BY <2>2 DEF IInv, Rendezvous
  <2>4. Governed' /\ Delivered' /\ Accounted'
    <3>1. /\ UNCHANGED <<instrument, mode, auto, effective, limit>>
          /\ UNCHANGED <<rx, held, stranded, ring, pedal, deferred>>
      BY <2>2 DEF inputVars, bridgeVars
    <3>2. QED
      BY <2>2, <3>1, RenderGoverns, QuietStep DEF IInv
  <2>5. QED
    BY <1>1, <2>2, <2>3, <2>4 DEF IInv
<1>13. CASE Publish
  BY <1>1, <1>2, <1>3, <1>13 DEF Publish, inputVars, bridgeVars, IInv
<1>14. QED
  BY <1>4, <1>5, <1>6, <1>7, <1>8, <1>9, <1>10, <1>11, <1>12, <1>13
  DEF Next, Core0, Core1

\* The invariant behind all results of this module.
THEOREM Inductive == Spec => []IInv
<1>1. QED
  BY InitHolds, NextHolds, PTL DEF Spec

\* Every variable has its type, and a slot of the ring stays empty.
THEOREM TypeCorrect == Spec => []TypeOK
<1>1. IInv => TypeOK
  BY DEF IInv, TypeOK, Rendezvous, Governed, Delivered, Keys, Bank, VoiceRec
<1>2. QED
  BY <1>1, Inductive, PTL

\* The limit holds through strikes, stolen slots, fades, program changes,
\* overloads and underruns, and bridge and engine agree on it.
THEOREM WithinLimitHolds == Spec => []WithinLimit
<1>1. IInv => WithinLimit
  BY DEF IInv, Governed
<1>2. QED
  BY <1>1, Inductive, PTL

\* No note is left hanging by the ring, the pedal or a stolen slot.
THEOREM NoHangingNoteHolds == Spec => []NoHangingNote
<1>1. IInv => NoHangingNote
  <2> SUFFICES ASSUME IInv, ring = <<>>
               PROVE  /\ pedal => Pedal \in Open
                      /\ \A s \in Sounding(voice) :
                           \/ voice[s].released
                           \/ voice[s].note \in Open
                           \/ pedal /\ voice[s].note \in deferred
    BY DEF NoHangingNote
  <2>1. Accounted /\ 1 .. Len(ring) = {}
    BY DEF IInv
  <2>2. \A n : ~OffFrom(ring, 1, n)
    BY <2>1 DEF OffFrom
  <2>3. QED
    BY <2>1, <2>2 DEF Accounted
<1>2. QED
  BY <1>1, Inductive, PTL

\* Core 1 is at the voices only while core 0 is in renderBlock().
THEOREM CoresApartHolds == Spec => []CoresApart
<1>1. IInv => CoresApart
  BY DEF IInv, Rendezvous, CoresApart
<1>2. QED
  BY <1>1, Inductive, PTL

\* Whatever the two cores' relative speed, the buffer core 0 adds is the one
\* that core 1 has filled for this block, once.
THEOREM BlockIsWholeHolds == Spec => BlockIsWhole
<1>1. IInv /\ [Next]_vars => [at = "wait" /\ at' # at => rendered = "once"]_vars
  <2> SUFFICES ASSUME IInv, Next, at = "wait", at' # at PROVE rendered = "once"
    OBVIOUS
  <2>1. Finish
    BY DEF Next, Play, KeyDown, KeyUp, Foot, AllOff, Panel, PanelChannel, Press, Release, Event,
      Underrun, Core0,
      Pop, Doorbell, RenderEven, Core1, Answer, RenderOdd, Publish
  <2>2. QED
    BY <2>1 DEF Finish, IInv, Rendezvous
<1>2. QED
  BY <1>1, Inductive, PTL DEF Spec, BlockIsWhole
=============================================================================
