---------------------------- MODULE DrainProofs ----------------------------
(***************************************************************************)
(* Theorems about Drain, for any folder, batch, republish age and cycle.   *)
(***************************************************************************)
EXTENDS Drain, FiniteSetTheorems, TLAPS

\* What goes ahead of m has all had its turn and is not due again, so a cycle that
\* passes m over takes of it only what changed.
Waited(m) ==
    /\ m \notin ahead[m]
    /\ ahead[m] \subseteq arrived
    /\ turns[m] = 0 => ahead[m] = {}
    /\ Cardinality(ahead[m]) + again[m] >= turns[m] * BatchMax
    /\ turns[m] < Laps =>
          \A x \in ahead[m] \cap folder :
              \/ x \in batch
              \/ age[x] # None /\ age[x] <= (turns[m] - 1) * CycleMax + spent

FairTurns == \A m \in Mail : Waited(m)

Sound == TypeOK /\ FairTurns

-----------------------------------------------------------------------------
(* Numbers, sets and the stream.                                           *)

\* Products with a constant factor.
LEMMA OneMore ==
    ASSUME NEW w \in Nat, NEW b \in Nat
    PROVE  (w + 1) * b = w * b + b /\ (w - 1) * b + b = w * b
OBVIOUS

LEMMA FewerLaps ==
    ASSUME NEW w \in Nat, NEW l \in Nat, NEW c \in Nat, w <= l
    PROVE  w * c <= l * c
<1>1. PICK d \in Nat : l = w + d
  <2>1. l = w + (l - w) /\ l - w \in Nat
    OBVIOUS
  <2> QED BY <2>1
<1>2. l * c = w * c + d * c /\ d * c \in Nat /\ w * c \in Nat
  BY <1>1
<1> QED BY <1>2

\* The mail is finite, and so is every part of it.
LEMMA PartsFinite ==
    ASSUME NEW S, S \subseteq Mail
    PROVE  IsFiniteSet(S) /\ Cardinality(S) \in Nat
BY DrainAssumption, FS_Subset, FS_CardinalityType

\* The stream stays a stream, and is trimmed (XADD MAXLEN).
LEMMA StreamFits ==
    ASSUME NEW s \in Seq(Mail), NEW m \in Mail, NEW t \in Trimmed(Append(s, m))
    PROVE  t \in Seq(Mail) /\ Len(t) <= StreamMax + Slack
<1> DEFINE u == Append(s, m)
<1>1. u \in Seq(Mail) /\ Len(u) \in Nat
  OBVIOUS
<1> HIDE DEF u
<1>2. PICK n \in 0..Len(u) : t = SubSeq(u, n + 1, Len(u)) /\ Len(u) - n <= StreamMax + Slack
  BY DEF Trimmed, u
<1>3. t \in Seq(Mail) /\ Len(t) = Len(u) - n
  BY <1>1, <1>2
<1> QED BY <1>2, <1>3

-----------------------------------------------------------------------------

\* A connector starts with nobody waiting.
LEMMA InitSound == Init => Sound
<1> SUFFICES ASSUME Init PROVE Sound
  OBVIOUS
<1> USE DrainAssumption
<1>1. TypeOK
  <2>1. age \in [Mail -> (0..AgeMax) \cup {None}] /\ spent \in 0..CycleMax /\ faults \in 0..MaxFaults
    BY DEF Init
  <2>2. stream \in Seq(Mail) /\ Len(stream) <= StreamMax + Slack
    BY DEF Init
  <2>3. /\ turns \in [Mail -> 0..Laps] /\ ahead \in [Mail -> SUBSET Mail]
        /\ again \in [Mail -> Nat] /\ changed \subseteq Mail
    BY DEF Init
  <2>4. awake \in BOOLEAN /\ batch = {} /\ folder \subseteq arrived /\ arrived \subseteq Mail
    BY DEF Init
  <2> QED BY <2>1, <2>2, <2>3, <2>4 DEF TypeOK
<1>2. ASSUME NEW m \in Mail PROVE Waited(m)
  <2>1. ahead[m] = {} /\ turns[m] = 0 /\ again[m] = 0
    BY DEF Init
  <2> QED BY <2>1, FS_EmptySet DEF Waited
<1> QED BY <1>1, <1>2 DEF Sound, FairTurns

\* After a failed cycle or a restart everybody begins to wait anew.
LEMMA NobodyWaits ==
    ASSUME NoTurns
    PROVE  FairTurns'
<1>1. ASSUME NEW m \in Mail PROVE Waited(m)'
  <2>1. ahead'[m] = {} /\ turns'[m] = 0 /\ again'[m] = 0
    BY DEF NoTurns
  <2> QED BY <2>1, FS_EmptySet, DrainAssumption DEF Waited
<1> QED BY <1>1 DEF FairTurns

\* A rescan that passes mail over takes of what went ahead of it before only what
\* is remembered and has changed.
LEMMA RescanSound ==
    ASSUME Sound, Rescan
    PROVE  Sound'
<1> USE DrainAssumption
<1> DEFINE kept == Kept
           unseen == {m \in folder : ~ IsPublished(m)}
<1>1. PICK chosen \in SUBSET unseen :
         /\ OldestOf(chosen, unseen)
         /\ batch' = chosen
         /\ age' = [m \in Mail |-> IF m \in kept THEN age[m] ELSE None]
         /\ changed' = (changed \cap kept) \ chosen
         /\ PassOver(unseen \ chosen, chosen, chosen \cap kept)
  BY DEF Rescan
<1>2. ~ awake /\ awake' = TRUE /\ spent' = 0 /\ UNCHANGED <<folder, arrived, stream, faults>>
  BY DEF Rescan, mailVars
<1>3. kept \subseteq folder /\ unseen \subseteq folder /\ chosen \subseteq folder
  BY <1>1 DEF Kept
<1>4. folder \subseteq arrived /\ arrived \subseteq Mail /\ batch = {}
  BY <1>2 DEF Sound, TypeOK
<1> HIDE DEF kept, unseen
<1>5. /\ turns \in [Mail -> 0..Laps] /\ ahead \in [Mail -> SUBSET Mail]
      /\ again \in [Mail -> Nat]
      /\ age \in [Mail -> (0..AgeMax) \cup {None}]
      /\ spent \in 0..CycleMax
  BY DEF Sound, TypeOK
<1>6. /\ IsFiniteSet(chosen) /\ Cardinality(chosen) \in Nat
      /\ IsFiniteSet(chosen \cap kept) /\ Cardinality(chosen \cap kept) \in Nat
  <2>1. chosen \subseteq Mail /\ chosen \cap kept \subseteq Mail
    BY <1>3, <1>4
  <2> QED BY <2>1, PartsFinite
<1> DEFINE waiting == unseen \ chosen
           counted == {m \in waiting : turns[m] < Laps}
<1>7. /\ turns' = [m \in Mail |-> IF m \in counted THEN turns[m] + 1
                                  ELSE IF m \in waiting THEN turns[m] ELSE 0]
      /\ ahead' = [m \in Mail |-> IF m \in counted THEN ahead[m] \cup chosen
                                  ELSE IF m \in waiting THEN ahead[m] ELSE {}]
      /\ again' = [m \in Mail |-> IF m \in counted THEN again[m] + Cardinality(chosen \cap kept)
                                  ELSE IF m \in waiting THEN again[m] ELSE 0]
  BY <1>1 DEF PassOver
<1>8. TypeOK'
  <2>1. age' \in [Mail -> (0..AgeMax) \cup {None}]
    BY <1>1, <1>5
  <2>2. turns' \in [Mail -> 0..Laps]
    BY <1>5, <1>7
  <2>3. ahead' \in [Mail -> SUBSET Mail]
    BY <1>3, <1>4, <1>5, <1>7
  <2>4. again' \in [Mail -> Nat]
    BY <1>5, <1>6, <1>7
  <2>5. awake' \in BOOLEAN /\ (~ awake' => batch' = {})
    BY <1>2
  <2>6. changed' \subseteq Mail
    BY <1>1, <1>3, <1>4
  <2> QED BY <1>1, <1>2, <1>3, <1>4, <2>1, <2>2, <2>3, <2>4, <2>5, <2>6 DEF Sound, TypeOK
<1>9. ASSUME NEW m \in Mail PROVE Waited(m)'
  <2>1. CASE m \notin waiting
    <3>1. turns'[m] = 0 /\ ahead'[m] = {} /\ again'[m] = 0
      BY <1>7, <2>1
    <3> QED BY <3>1, FS_EmptySet DEF Waited
  <2>2. CASE m \in waiting /\ m \notin counted
    <3>1. Waited(m)
      BY DEF Sound, FairTurns
    <3>2. turns'[m] = turns[m] /\ ahead'[m] = ahead[m] /\ again'[m] = again[m]
      BY <1>7, <2>2
    <3>3. ~ (turns[m] < Laps)
      BY <2>2
    <3> QED BY <1>2, <3>1, <3>2, <3>3 DEF Waited
  <2>3. CASE m \in counted
    <3>1. Waited(m)
      BY DEF Sound, FairTurns
    <3>2. /\ ahead'[m] = ahead[m] \cup chosen /\ turns'[m] = turns[m] + 1
          /\ again'[m] = again[m] + Cardinality(chosen \cap kept)
      BY <1>7, <2>3
    <3>3. turns[m] \in Nat /\ turns[m] < Laps /\ again[m] \in Nat /\ m \in unseen /\ m \notin chosen
      BY <1>5, <2>3
    <3>4. m \notin ahead'[m] /\ ahead'[m] \subseteq arrived' /\ turns'[m] # 0
      <4>1. m \notin ahead[m] /\ ahead[m] \subseteq arrived
        BY <3>1 DEF Waited
      <4>2. chosen \subseteq arrived
        BY <1>3, <1>4
      <4>3. arrived' = arrived
        BY <1>2
      <4>4. ahead'[m] \subseteq arrived' /\ m \notin ahead'[m]
        BY <3>2, <3>3, <4>1, <4>2, <4>3
      <4>5. turns'[m] # 0
        BY <3>2, <3>3
      <4> QED BY <4>4, <4>5
    <3>5. Cardinality(chosen) = BatchMax
      BY <1>1, <3>3 DEF OldestOf
    <3>6. IsFiniteSet(ahead[m]) /\ ahead[m] \subseteq Mail /\ Cardinality(ahead[m]) \in Nat
      BY <1>5, PartsFinite
    <3>7. \A x \in ahead[m] \cap folder :
             age[x] \in Nat /\ age[x] <= turns[m] * CycleMax /\ x \in kept
      <4> SUFFICES ASSUME NEW x \in ahead[m] \cap folder
                   PROVE  age[x] \in Nat /\ age[x] <= turns[m] * CycleMax /\ x \in kept
        OBVIOUS
      <4>1. age[x] # None /\ age[x] <= (turns[m] - 1) * CycleMax + spent
        BY <1>4, <3>1, <3>3 DEF Waited
      <4>2. age[x] \in Nat
        BY <1>4, <1>5, <4>1 DEF AgeMax
      <4>3. (turns[m] - 1) * CycleMax + CycleMax = turns[m] * CycleMax
        BY <3>3, OneMore
      <4>4. age[x] <= turns[m] * CycleMax
        BY <1>5, <3>3, <4>1, <4>2, <4>3
      <4>5. CASE RepublishAfter = None
        BY <4>1, <4>2, <4>4, <4>5 DEF kept, Kept, Expired
      <4>6. CASE RepublishAfter # None
        <5>1. turns[m] * CycleMax <= (Laps - 1) * CycleMax
          BY <3>3, FewerLaps
        <5>2. (Laps - 1) * CycleMax < RepublishAfter /\ RepublishAfter \in Nat
          BY <4>6, LapsAssumption
        <5>3. turns[m] * CycleMax \in Nat /\ (Laps - 1) * CycleMax \in Int
          BY <3>3
        <5>4. age[x] < RepublishAfter
          BY <4>2, <4>4, <5>1, <5>2, <5>3
        <5>5. ~ Expired(x)
          BY <4>2, <5>2, <5>4 DEF Expired
        <5> QED BY <4>1, <4>2, <4>4, <5>5 DEF kept, Kept
      <4> QED BY <4>5, <4>6
    <3>8. Cardinality(ahead'[m]) + again'[m] >= turns'[m] * BatchMax
      <4>1. ahead[m] \cap chosen \subseteq chosen \cap kept
        BY <1>3, <3>7
      <4>2. Cardinality(ahead[m] \cap chosen) <= Cardinality(chosen \cap kept)
        BY <1>6, <4>1, FS_Subset
      <4>3. Cardinality(ahead[m] \cup chosen)
              = Cardinality(ahead[m]) + Cardinality(chosen) - Cardinality(ahead[m] \cap chosen)
        BY <1>6, <3>6, FS_Union
      <4>4. Cardinality(ahead[m] \cap chosen) \in Nat /\ Cardinality(ahead[m] \cup chosen) \in Nat
        <5>1. IsFiniteSet(ahead[m] \cap chosen) /\ IsFiniteSet(ahead[m] \cup chosen)
          BY <1>6, <3>6, FS_Intersection, FS_Union
        <5> QED BY <5>1, FS_CardinalityType
      <4>5. (turns[m] + 1) * BatchMax = turns[m] * BatchMax + BatchMax
        BY <3>3, OneMore
      <4>6. Cardinality(ahead[m]) + again[m] >= turns[m] * BatchMax /\ turns[m] * BatchMax \in Nat
        BY <3>1, <3>3 DEF Waited
      <4> QED BY <1>6, <3>2, <3>3, <3>5, <3>6, <4>2, <4>3, <4>4, <4>5, <4>6
    <3>9. \A x \in ahead'[m] \cap folder' :
             \/ x \in batch'
             \/ age'[x] # None /\ age'[x] <= (turns'[m] - 1) * CycleMax + spent'
      <4> SUFFICES ASSUME NEW x \in ahead'[m] \cap folder', x \notin batch'
                   PROVE  age'[x] # None /\ age'[x] <= (turns'[m] - 1) * CycleMax + spent'
        OBVIOUS
      <4>1. x \in ahead[m] \cap folder /\ x \in Mail
        BY <1>1, <1>2, <1>4, <3>2
      <4>2. x \in kept /\ age[x] \in Nat /\ age[x] <= turns[m] * CycleMax
        BY <3>7, <4>1
      <4>3. age'[x] = age[x]
        BY <1>1, <4>1, <4>2
      <4>4. (turns'[m] - 1) * CycleMax + spent' = turns[m] * CycleMax
        BY <1>2, <3>2, <3>3
      <4> QED BY <4>2, <4>3, <4>4
    <3> QED BY <3>4, <3>8, <3>9 DEF Waited
  <2> QED BY <2>1, <2>2, <2>3
<1> QED BY <1>8, <1>9 DEF Sound, FairTurns

\* What is published is remembered from now on.
LEMMA PublishSound ==
    ASSUME Sound, Publish
    PROVE  Sound'
<1> USE DrainAssumption
<1>1. PICK m \in batch :
         /\ stream' \in Trimmed(Append(stream, m))
         /\ age' = [age EXCEPT ![m] = 0]
         /\ batch' = batch \ {m}
  BY DEF Publish
<1>2. UNCHANGED <<folder, arrived, changed, awake, spent, faults, turns, ahead, again>>
  BY DEF Publish, mailVars, observers
<1>3. /\ m \in Mail /\ stream \in Seq(Mail)
      /\ age \in [Mail -> (0..AgeMax) \cup {None}]
      /\ spent \in 0..CycleMax /\ turns \in [Mail -> 0..Laps]
      /\ folder \subseteq arrived /\ arrived \subseteq Mail
  BY <1>1 DEF Sound, TypeOK
<1>4. TypeOK'
  <2>1. age' \in [Mail -> (0..AgeMax) \cup {None}]
    BY <1>1, <1>3 DEF AgeMax
  <2>2. stream' \in Seq(Mail) /\ Len(stream') <= StreamMax + Slack
    BY <1>1, <1>3, StreamFits
  <2>3. awake' \in BOOLEAN /\ (~ awake' => batch' = {}) /\ batch' \subseteq Mail
    BY <1>1, <1>2 DEF Sound, TypeOK
  <2> QED BY <1>2, <2>1, <2>2, <2>3 DEF Sound, TypeOK
<1>5. ASSUME NEW n \in Mail PROVE Waited(n)'
  <2>1. Waited(n)
    BY DEF Sound, FairTurns
  <2>2. turns[n] < Laps =>
          \A x \in ahead[n] \cap folder :
              \/ x \in batch'
              \/ age'[x] # None /\ age'[x] <= (turns[n] - 1) * CycleMax + spent
    <3> SUFFICES ASSUME turns[n] < Laps, NEW x \in ahead[n] \cap folder, x \notin batch'
                 PROVE  age'[x] # None /\ age'[x] <= (turns[n] - 1) * CycleMax + spent
      OBVIOUS
    <3>1. CASE x = m
      <4>1. turns[n] \in Nat \ {0}
        <5>1. turns[n] # 0
          BY <2>1 DEF Waited
        <5>2. turns[n] \in 0..Laps
          BY <1>3
        <5> QED BY <5>1, <5>2
      <4>2. (turns[n] - 1) * CycleMax \in Nat
        <5>1. turns[n] - 1 \in Nat
          BY <4>1
        <5> QED BY <5>1
      <4>3. age'[x] = 0
        BY <1>1, <1>3, <3>1
      <4> QED BY <1>3, <4>2, <4>3
    <3>2. CASE x # m
      <4>1. x \in Mail /\ x \notin batch /\ age'[x] = age[x]
        BY <1>1, <1>3, <3>2
      <4> QED BY <2>1, <4>1 DEF Waited
    <3> QED BY <3>1, <3>2
  <2> QED BY <1>2, <2>1, <2>2 DEF Waited
<1> QED BY <1>4, <1>5 DEF Sound, FairTurns

\* A batch that is drained has all been published.
LEMMA CycleDoneSound ==
    ASSUME Sound, CycleDone
    PROVE  Sound'
<1>1. batch = {} /\ awake' = FALSE
      /\ UNCHANGED <<folder, arrived, age, changed, batch, spent, stream, faults, turns, ahead, again>>
  BY DEF CycleDone, mailVars, observers
<1>2. TypeOK'
  <2>1. awake' \in BOOLEAN /\ (~ awake' => batch' = {})
    BY <1>1
  <2> QED BY <1>1, <2>1 DEF Sound, TypeOK
<1>3. FairTurns'
  BY <1>1 DEF Sound, FairTurns, Waited
<1> QED BY <1>2, <1>3 DEF Sound

\* A cycle that fails, and a process that is started again.
LEMMA FaultSound ==
    ASSUME Sound, CycleFails \/ Restart
    PROVE  Sound'
<1> USE DrainAssumption
<1>1. NoTurns /\ awake' = FALSE /\ batch' = {} /\ UNCHANGED <<folder, arrived, stream>>
  BY DEF CycleFails, Restart, mailVars
<1>2. faults' \in 0..MaxFaults /\ spent' \in 0..CycleMax
  BY DEF CycleFails, Restart, Sound, TypeOK
<1>3. age' \in [Mail -> (0..AgeMax) \cup {None}] /\ changed' \subseteq Mail
  BY DEF CycleFails, Restart, Sound, TypeOK
<1>4. TypeOK'
  <2>1. turns' \in [Mail -> 0..Laps] /\ ahead' \in [Mail -> SUBSET Mail] /\ again' \in [Mail -> Nat]
    BY <1>1 DEF NoTurns
  <2>2. awake' \in BOOLEAN /\ (~ awake' => batch' = {}) /\ batch' \subseteq Mail
    BY <1>1
  <2> QED BY <1>1, <1>2, <1>3, <2>1, <2>2 DEF Sound, TypeOK
<1> QED BY <1>1, <1>4, NobodyWaits DEF Sound

\* No age grows faster than the cycle.
LEMMA TickSound ==
    ASSUME Sound, Tick
    PROVE  Sound'
<1> USE DrainAssumption
<1>1. /\ spent < CycleMax /\ spent' = spent + 1
      /\ age' = [m \in Mail |-> IF age[m] = None \/ age[m] = AgeMax THEN age[m] ELSE age[m] + 1]
      /\ UNCHANGED <<folder, arrived, changed, awake, batch, stream, faults, turns, ahead, again>>
  BY DEF Tick, mailVars, observers
<1>2. /\ age \in [Mail -> (0..AgeMax) \cup {None}] /\ AgeMax \in Nat
      /\ spent \in 0..CycleMax /\ turns \in [Mail -> 0..Laps]
      /\ folder \subseteq arrived /\ arrived \subseteq Mail
  BY DEF Sound, TypeOK, AgeMax
<1>3. \A m \in Mail :
        IF age[m] = None THEN age'[m] = None
        ELSE age[m] \in 0..AgeMax /\ age'[m] \in 0..AgeMax /\ age'[m] <= age[m] + 1
  BY <1>1, <1>2
<1>4. TypeOK'
  <2>1. age' \in [Mail -> (0..AgeMax) \cup {None}]
    BY <1>1, <1>2
  <2>2. spent' \in 0..CycleMax
    BY <1>1, <1>2
  <2>3. awake' \in BOOLEAN /\ (~ awake' => batch' = {})
    BY <1>1 DEF Sound, TypeOK
  <2> QED BY <1>1, <2>1, <2>2, <2>3 DEF Sound, TypeOK
<1>5. ASSUME NEW n \in Mail PROVE Waited(n)'
  <2>1. Waited(n)
    BY DEF Sound, FairTurns
  <2>2. turns[n] < Laps =>
          \A x \in ahead[n] \cap folder :
              \/ x \in batch
              \/ age'[x] # None /\ age'[x] <= (turns[n] - 1) * CycleMax + spent'
    <3> SUFFICES ASSUME turns[n] < Laps, NEW x \in ahead[n] \cap folder, x \notin batch
                 PROVE  age'[x] # None /\ age'[x] <= (turns[n] - 1) * CycleMax + spent'
      OBVIOUS
    <3>1. age[x] # None /\ age[x] <= (turns[n] - 1) * CycleMax + spent
      BY <2>1 DEF Waited
    <3>2. (turns[n] - 1) * CycleMax \in Int
      BY <1>2
    <3>3. age[x] \in 0..AgeMax /\ age'[x] \in 0..AgeMax /\ age'[x] <= age[x] + 1
      BY <1>2, <1>3, <3>1
    <3> QED BY <1>1, <1>2, <3>1, <3>2, <3>3
  <2> QED BY <1>1, <2>1, <2>2 DEF Waited
<1> QED BY <1>4, <1>5 DEF Sound, FairTurns

\* Mail that arrives has not been ahead of anybody.
LEMMA ArriveSound ==
    ASSUME Sound, NEW m \in Mail, Arrive(m)
    PROVE  Sound'
<1>1. /\ m \notin arrived /\ folder' = folder \cup {m} /\ arrived' = arrived \cup {m}
      /\ UNCHANGED <<age, changed, awake, batch, spent, stream, faults, turns, ahead, again>>
  BY DEF Arrive, observers
<1>2. TypeOK'
  <2>1. folder' \subseteq arrived' /\ arrived' \subseteq Mail
    BY <1>1 DEF Sound, TypeOK
  <2>2. awake' \in BOOLEAN /\ (~ awake' => batch' = {})
    BY <1>1 DEF Sound, TypeOK
  <2> QED BY <1>1, <2>1, <2>2 DEF Sound, TypeOK
<1>3. FairTurns'
  BY <1>1 DEF Sound, FairTurns, Waited
<1> QED BY <1>2, <1>3 DEF Sound

\* A change of a mail is not seen before the next rescan.
LEMMA ChangeSound ==
    ASSUME Sound, NEW m \in Mail, Change(m)
    PROVE  Sound'
<1>1. /\ changed' = changed \cup {m}
      /\ UNCHANGED <<folder, arrived, age, awake, batch, spent, stream, faults, turns, ahead, again>>
  BY DEF Change, mailVars, observers
<1>2. TypeOK'
  <2>1. awake' \in BOOLEAN /\ (~ awake' => batch' = {}) /\ changed' \subseteq Mail
    BY <1>1 DEF Sound, TypeOK
  <2> QED BY <1>1, <2>1 DEF Sound, TypeOK
<1>3. FairTurns'
  BY <1>1 DEF Sound, FairTurns, Waited
<1> QED BY <1>2, <1>3 DEF Sound

\* Mail that is filed elsewhere no longer counts.
LEMMA ConsumeSound ==
    ASSUME Sound, Consume
    PROVE  Sound'
<1>1. /\ stream # <<>> /\ stream' = Tail(stream) /\ folder' \subseteq folder
      /\ UNCHANGED <<arrived, age, changed, awake, batch, spent, faults, turns, ahead, again>>
  BY DEF Consume, observers
<1>2. TypeOK'
  <2>1. stream \in Seq(Mail) /\ Len(stream) <= StreamMax + Slack /\ StreamMax + Slack \in Nat
    BY DrainAssumption DEF Sound, TypeOK
  <2>2. stream' \in Seq(Mail) /\ Len(stream') <= StreamMax + Slack
    BY <1>1, <2>1
  <2>3. awake' \in BOOLEAN /\ (~ awake' => batch' = {})
    BY <1>1 DEF Sound, TypeOK
  <2> QED BY <1>1, <2>2, <2>3 DEF Sound, TypeOK
<1>3. FairTurns'
  BY <1>1 DEF Sound, FairTurns, Waited
<1> QED BY <1>2, <1>3 DEF Sound

\* Every step keeps the invariant.
LEMMA StepSound == Sound /\ [Next]_vars => Sound'
<1> SUFFICES ASSUME Sound, [Next]_vars PROVE Sound'
  OBVIOUS
<1>1. CASE Work
  BY <1>1, RescanSound, PublishSound, CycleDoneSound DEF Work
<1>2. CASE CycleFails \/ Restart
  BY <1>2, FaultSound
<1>3. CASE Tick
  BY <1>3, TickSound
<1>4. CASE Consume
  BY <1>4, ConsumeSound
<1>5. ASSUME NEW m \in Mail, Arrive(m) PROVE Sound'
  BY <1>5, ArriveSound
<1>6. ASSUME NEW m \in Mail, Change(m) PROVE Sound'
  BY <1>6, ChangeSound
<1>7. CASE UNCHANGED vars
  <2>1. UNCHANGED <<folder, arrived, age, changed, awake, batch, spent, stream, faults, turns, ahead, again>>
    BY <1>7 DEF vars, mailVars, observers
  <2>2. TypeOK'
    <3>1. awake' \in BOOLEAN /\ (~ awake' => batch' = {})
      BY <2>1 DEF Sound, TypeOK
    <3> QED BY <2>1, <3>1 DEF Sound, TypeOK
  <2>3. FairTurns'
    BY <2>1 DEF Sound, FairTurns, Waited
  <2> QED BY <2>2, <2>3 DEF Sound
<1> QED BY <1>1, <1>2, <1>3, <1>4, <1>5, <1>6, <1>7 DEF Next

-----------------------------------------------------------------------------

\* The inductive invariant holds in every reachable state.
THEOREM AlwaysSound == Spec => []Sound
BY InitSound, StepSound, PTL DEF Spec

\* Every variable keeps its type, and the stream is trimmed (bus.py).
THEOREM TypeCorrect == Spec => []TypeOK
<1>1. Sound => TypeOK
  BY DEF Sound
<1> QED BY <1>1, AlwaysSound, PTL

\* A backlog drains across cycles (Poller.poll_mailbox): the cycles that pass a mail
\* over, up to as many as begin before the first of them expires, have no more
\* places than there is other mail, and changes of it that were taken up.  Counted:
\* what went ahead is BatchMax for each cycle, none of it the mail that waits, and
\* none of it twice but what changed.
THEOREM NobodyStarves == Spec => []NoneStarves
<1>1. Sound => NoneStarves
  <2> SUFFICES ASSUME Sound, NEW m \in Mail
               PROVE  turns[m] * BatchMax < Cardinality(Mail) + again[m]
    BY DEF NoneStarves
  <2>1. /\ ahead[m] \subseteq Mail \ {m}
        /\ Cardinality(ahead[m]) + again[m] >= turns[m] * BatchMax
        /\ turns[m] \in Nat /\ again[m] \in Nat
    BY DrainAssumption DEF Sound, TypeOK, FairTurns, Waited
  <2>2. /\ Cardinality(ahead[m]) <= Cardinality(Mail \ {m})
        /\ Cardinality(Mail \ {m}) = Cardinality(Mail) - 1
        /\ Cardinality(Mail) \in Nat /\ Cardinality(ahead[m]) \in Nat
    BY <2>1, DrainAssumption, PartsFinite, FS_Subset, FS_RemoveElement
  <2>3. turns[m] * BatchMax \in Nat
    BY <2>1, DrainAssumption
  <2> QED BY <2>1, <2>2, <2>3
<1> QED BY <1>1, AlwaysSound, PTL

=============================================================================
