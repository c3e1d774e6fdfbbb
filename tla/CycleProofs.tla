---------------------------- MODULE CycleProofs ----------------------------
(***************************************************************************)
(* Theorems about one cycle of Connector: what the batch takes, in which   *)
(* order, and that the cycle comes to its end.                             *)
(***************************************************************************)
EXTENDS ConnectorProofs

-----------------------------------------------------------------------------
(* The order of the batch.                                                 *)

\* What is listed is mail, with an instant of receipt.
LEMMA ListedMail ==
    ASSUME TypeInv, NEW i \in DOMAIN listed
    PROVE  i \in Nat /\ listed[i].id \in Mail /\ ReceivedAt[listed[i].id] \in Int
<1>1. i \in Nat /\ listed[i] \in Stub
  BY DEF TypeInv, TypeOK, PollerTypeOK
<1> QED BY <1>1, ReceivedAtAssumption DEF Stub, Time

\* Older is a strict total order of the positions.
LEMMA OlderOrder ==
    ASSUME TypeInv, NEW i \in DOMAIN listed, NEW j \in DOMAIN listed, NEW k \in DOMAIN listed
    PROVE  /\ ~ (Older(i, j) /\ Older(j, i))
           /\ i # j => Older(i, j) \/ Older(j, i)
           /\ Older(i, j) /\ Older(j, k) => Older(i, k)
           /\ Older(i, j) => ReceivedAt[listed[i].id] <= ReceivedAt[listed[j].id]
BY ListedMail DEF Older

\* How many of S come before j.
Before(S, j) == Cardinality({i \in S : Older(i, j)})

\* A set of positions is as many as its numbers, and Before numbers it in order.
LEMMA BeforeNumbers ==
    ASSUME TypeInv, NEW S \in SUBSET DOMAIN listed
    PROVE  /\ IsFiniteSet(S) /\ Cardinality(S) \in Nat
           /\ \A j \in S : Before(S, j) \in Nat /\ Before(S, j) < Cardinality(S)
           /\ \A i, j \in S : Before(S, i) = Before(S, j) => i = j
           /\ \A i, j \in S : Before(S, i) < Before(S, j) => Older(i, j)
<1>1. IsFiniteSet(S) /\ Cardinality(S) \in Nat
  <2>1. IsFiniteSet(1..Len(listed)) /\ DOMAIN listed = 1..Len(listed)
    BY FS_Interval DEF TypeInv, TypeOK, PollerTypeOK
  <2> QED BY <2>1, FS_Subset, FS_CardinalityType
<1>2. ASSUME NEW j \in S
      PROVE  /\ IsFiniteSet({i \in S : Older(i, j)})
             /\ Before(S, j) \in Nat /\ Before(S, j) < Cardinality(S)
  <2>1. j \notin {i \in S : Older(i, j)}
    BY OlderOrder
  <2>2. PICK T \in SUBSET S : T = {i \in S : Older(i, j)}
    OBVIOUS
  <2>3. IsFiniteSet(T) /\ Cardinality(T) \in Nat /\ Cardinality(T) <= Cardinality(S)
        /\ (Cardinality(S) = Cardinality(T) => S = T)
    BY <1>1, FS_Subset, FS_CardinalityType
  <2> QED BY <1>1, <2>1, <2>2, <2>3 DEF Before
<1>3. ASSUME NEW i \in S, NEW j \in S, Older(i, j)
      PROVE  Before(S, i) < Before(S, j)
  <2>1. PICK T \in SUBSET S : T = {k \in S : Older(k, i)}
    OBVIOUS
  <2>2. PICK U \in SUBSET S : U = {k \in S : Older(k, j)}
    OBVIOUS
  <2>3. T \subseteq U /\ i \in U /\ i \notin T
    BY <1>3, <2>1, <2>2, OlderOrder
  <2>4. IsFiniteSet(U)
    BY <1>1, FS_Subset
  <2>5. Cardinality(T) <= Cardinality(U) /\ (Cardinality(U) = Cardinality(T) => U = T)
    BY <2>3, <2>4, FS_Subset
  <2>6. Cardinality(T) = Before(S, i) /\ Cardinality(U) = Before(S, j)
    BY <2>1, <2>2 DEF Before
  <2>7. Cardinality(T) \in Nat /\ Cardinality(U) \in Nat
    BY <1>2, <2>6
  <2>8. Cardinality(T) < Cardinality(U)
    BY <2>3, <2>5, <2>7
  <2> QED BY <2>6, <2>8
<1>4. \A i, j \in S : i = j \/ Older(i, j) \/ Older(j, i)
  BY OlderOrder
<1>5. \A i, j \in S : Before(S, i) \in Nat /\ Before(S, j) \in Nat
  BY <1>2
<1>6. \A i, j \in S : Before(S, i) = Before(S, j) => i = j
  BY <1>3, <1>4, <1>5
<1>7. \A i, j \in S : Before(S, i) < Before(S, j) => Older(i, j)
  BY <1>3, <1>4, <1>5
<1> QED BY <1>1, <1>2, <1>6, <1>7

\* The batch is cut at batch_max_messages.
LEMMA OldestBounded ==
    ASSUME TypeInv, NEW S \in SUBSET DOMAIN listed, BatchMax # None
    PROVE  IsFiniteSet(Oldest(S)) /\ Cardinality(Oldest(S)) <= BatchMax
<1>1. BatchMax \in Nat \ {0}
  BY PollerAssumption DEF Maybe
<1>2. PICK T \in SUBSET S : T = Oldest(S)
  BY DEF Oldest
<1>3. \A j \in T : Before(S, j) \in 0..(BatchMax - 1)
  <2>1. \A j \in T : j \in S /\ Before(S, j) < BatchMax
    BY <1>2 DEF Oldest, Before
  <2> QED BY <1>1, <2>1, BeforeNumbers
<1>4. PICK number : number = [j \in T |-> Before(S, j)]
  OBVIOUS
<1>5. number \in Injection(T, 0..(BatchMax - 1))
  <2>1. number \in [T -> 0..(BatchMax - 1)]
    BY <1>3, <1>4
  <2>2. \A i, j \in T : number[i] = number[j] => i = j
    BY <1>4, BeforeNumbers
  <2> QED BY <2>1, <2>2 DEF Injection, IsInjective
<1>6. IsFiniteSet(0..(BatchMax - 1)) /\ Cardinality(0..(BatchMax - 1)) = BatchMax
  BY <1>1, FS_Interval
<1>7. IsFiniteSet(T) /\ Cardinality(T) <= BatchMax
  BY <1>5, <1>6, FS_Injection
<1> QED BY <1>2, <1>7

\* What the cut leaves is not older than anything it takes.
LEMMA OldestAreOldest ==
    ASSUME TypeInv, NEW S \in SUBSET DOMAIN listed, NEW i \in Oldest(S), NEW j \in S \ Oldest(S)
    PROVE  Older(i, j)
<1>1. BatchMax # None /\ BatchMax \in Nat
  BY PollerAssumption DEF Oldest, Maybe
<1>2. i \in S /\ Before(S, i) < BatchMax /\ ~ Before(S, j) < BatchMax
  BY <1>1 DEF Oldest, Before
<1>3. Before(S, i) \in Nat /\ Before(S, j) \in Nat
  BY <1>2, BeforeNumbers
<1> QED BY <1>1, <1>2, <1>3, BeforeNumbers

\* Of any positions one is next: as many as there are numbers, one has number 0.
LEMMA FirstExists ==
    ASSUME TypeInv, NEW S \in SUBSET DOMAIN listed, S # {}
    PROVE  \E j \in S : \A i \in S \ {j} : Older(j, i)
<1>1. PICK n \in Nat \ {0} : n = Cardinality(S)
  <2>1. IsFiniteSet(S) /\ Cardinality(S) \in Nat
    BY BeforeNumbers
  <2>2. Cardinality(S) # 0
    BY <2>1, FS_EmptySet
  <2> QED BY <2>1, <2>2
<1>2. PICK number : number = [j \in S |-> Before(S, j)]
  OBVIOUS
<1>3. number \in Injection(S, 0..(n - 1))
  <2>1. \A j \in S : Before(S, j) \in 0..(n - 1)
    BY <1>1, BeforeNumbers
  <2>2. number \in [S -> 0..(n - 1)]
    BY <1>2, <2>1
  <2>3. \A i, j \in S : number[i] = number[j] => i = j
    BY <1>2, BeforeNumbers
  <2> QED BY <2>2, <2>3 DEF Injection, IsInjective
<1>4. IsFiniteSet(0..(n - 1)) /\ Cardinality(0..(n - 1)) = n
  <2>1. PICK last \in Nat : last = n - 1
    OBVIOUS
  <2>2. IsFiniteSet(0..last) /\ Cardinality(0..last) = last + 1
    BY FS_Interval
  <2> QED BY <2>1, <2>2
<1>5. number \in Surjection(S, 0..(n - 1))
  <2>1. Cardinality(S) = Cardinality(0..(n - 1))
    BY <1>1, <1>4
  <2> QED BY <1>3, <1>4, <2>1, FS_Injection
<1>6. PICK j \in S : number[j] = 0
  BY <1>1, <1>5 DEF Surjection
<1>7. \A i \in S \ {j} : Before(S, j) < Before(S, i)
  <2>1. Before(S, j) = 0
    BY <1>2, <1>6
  <2>2. \A i \in S : Before(S, i) \in Nat /\ (Before(S, i) = Before(S, j) => i = j)
    BY BeforeNumbers
  <2> QED BY <2>1, <2>2
<1>8. \A i \in S \ {j} : Older(j, i)
  BY <1>7, BeforeNumbers
<1> QED BY <1>6, <1>8

\* The next stub of a batch exists, and is the only one.
LEMMA NextExists ==
    ASSUME TypeInv, batch # {}
    PROVE  \E i \in batch : IsNext(i)
BY FirstExists DEF IsNext, TypeInv, TypeOK, PollerTypeOK

LEMMA NextUnique ==
    ASSUME TypeInv, NEW i \in batch, NEW j \in batch, IsNext(i), IsNext(j)
    PROVE  i = j
BY OlderOrder DEF IsNext, TypeInv, TypeOK, PollerTypeOK


\* A batch that is not finished has a next stub, and only one: whatever the order
\* of the listing and the ties in it, the fetch is never left without a choice.
THEOREM NextAlwaysThere ==
    Spec => [](pc \in {"fetching", "mime"} =>
                  batch = {} \/ \E i \in batch : /\ IsNext(i)
                                                /\ \A j \in batch : IsNext(j) => j = i)
<1>1. TypeInv => (batch = {} \/ \E i \in batch : /\ IsNext(i)
                                                /\ \A j \in batch : IsNext(j) => j = i)
  BY NextExists, NextUnique
<1>2. TypeInv /\ [Next]_vars => TypeInv'
  BY StepTyped
<1> QED BY <1>1, <1>2, InitTyped, PTL DEF Spec

-----------------------------------------------------------------------------
(* The message whose MIME is asked for is the next of the batch.           *)

\* A fetch that goes on to the MIME goes on with the stub it chose.
LEMMA FetchInHand ==
    ASSUME TypeInv, NEW i \in batch, FetchMessage(i), IncludeMime
    PROVE  NextInHand'
<1>1. PICK message : message = [id |-> listed[i].id, modified |-> Stamp(listed[i].id),
                                body |-> modifiedAt[listed[i].id], mime |-> None]
  OBVIOUS
<1>2. current' = message /\ UNCHANGED <<batch, listed>> /\ IsNext(i)
  BY <1>1 DEF FetchMessage
<1>3. IsNext(i)' /\ message.id = listed[i].id
  BY <1>1, <1>2 DEF IsNext, Older
<1> QED BY <1>2, <1>3 DEF NextInHand

\* Every other step leaves it alone, or leaves nothing to wait for.
LEMMA StepInHand == TypeInv /\ NextInHand /\ [Next]_vars => NextInHand'
<1> SUFFICES ASSUME TypeInv, NextInHand, [Next]_vars PROVE NextInHand'
  OBVIOUS
<1>1. CASE current' = None
  BY <1>1 DEF NextInHand
<1>2. CASE UNCHANGED <<current, batch, listed>>
  <2>1. \A i \in batch : IsNext(i) => IsNext(i)'
    BY <1>2 DEF IsNext, Older
  <2> QED BY <1>2, <2>1 DEF NextInHand
<1>3. CASE StartCycle \/ List
  <2>1. pc \in {"idle", "listing", "listed"} /\ current' = current
    BY <1>3 DEF StartCycle, BeginListing, List, ListPage, Rescan
  <2> QED BY <1>1, <2>1 DEF TypeInv, Control
<1>4. CASE Fetch
  <2>1. PICK i \in batch : FetchMessage(i) \/ FetchMime(i) \/ SkipGone(i)
    BY <1>4 DEF Fetch
  <2>2. CASE FetchMessage(i)
    <3>1. CASE IncludeMime BY <2>2, <3>1, FetchInHand
    <3>2. CASE ~ IncludeMime
      <4>1. pc = "fetching" /\ current' = current
        BY <2>2, <3>2 DEF FetchMessage
      <4> QED BY <1>1, <4>1 DEF TypeInv, Control
    <3> QED BY <3>1, <3>2
  <2>3. CASE FetchMime(i) \/ SkipGone(i)
    BY <1>1, <2>3 DEF FetchMime, SkipGone
  <2> QED BY <2>1, <2>2, <2>3
<1>5. CASE PollFails \/ Crash
  BY <1>1, <1>5 DEF PollFails, PollRaises, Crash
<1>6. CASE PollDone
  <2>1. pc = "fetching" /\ current' = current
    BY <1>6 DEF PollDone, PollReturns
  <2> QED BY <1>1, <2>1 DEF TypeInv, Control
<1>7. CASE FetchAttachments \/ AttachmentsFail \/ Publish \/ PublishFails \/ CycleDone
  BY <1>2, <1>7 DEF FetchAttachments, AttachmentsFail, Publish, PublishFails, CycleDone, StopBatch, EndCycle
<1>8. CASE Environment \/ UNCHANGED vars
  BY <1>2, <1>8 DEF Environment, vars, pollerVars, pollVars
<1> QED BY <1>3, <1>4, <1>5, <1>6, <1>7, <1>8 DEF Next, ConnectorStep

-----------------------------------------------------------------------------
(* A cycle takes no more than batch_max_messages.                          *)

\* The batch and the messages of it are finite, and a fetch moves one across.
LEMMA BatchCounted ==
    ASSUME TypeInv
    PROVE  /\ IsFiniteSet(batch) /\ Cardinality(batch) \in Nat /\ Len(messages) \in Nat
           /\ \A i \in batch : Cardinality(batch \ {i}) = Cardinality(batch) - 1
<1>1. IsFiniteSet(batch) /\ Cardinality(batch) \in Nat
  BY BeforeNumbers DEF TypeInv, TypeOK, PollerTypeOK
<1>2. \A i \in batch : Cardinality(batch \ {i}) = Cardinality(batch) - 1
  BY <1>1, FS_RemoveElement
<1> QED BY <1>1, <1>2 DEF TypeInv, TypeOK, PollerTypeOK

\* The rescan cuts the batch, a fetch takes from it what it adds to messages.
LEMMA StepWithinMax ==
    TypeInv /\ TypeInv' /\ WithinListing /\ BatchWithinMax /\ [Next]_vars => BatchWithinMax'
<1> SUFFICES ASSUME TypeInv, TypeInv', WithinListing, BatchWithinMax, [Next]_vars, BatchMax # None
             PROVE  Cardinality(batch') + Len(messages') <= BatchMax
  BY DEF BatchWithinMax
<1> DEFINE Goal == Cardinality(batch') + Len(messages') <= BatchMax
<1>1. BatchMax \in Nat /\ Cardinality(batch) + Len(messages) <= BatchMax
  BY PollerAssumption DEF BatchWithinMax, Maybe
<1>2. CASE UNCHANGED <<batch, messages>>
  BY <1>1, <1>2
<1>3. CASE batch' = batch /\ messages' = <<>>
  BY <1>1, <1>3, BatchCounted
<1>4. CASE StartCycle \/ (List /\ ListPage) \/ PollDone \/ FetchAttachments \/ Publish
           \/ Environment \/ UNCHANGED vars
  BY <1>2, <1>4
     DEF StartCycle, BeginListing, List, ListPage, PollDone, PollReturns, FetchAttachments, Publish,
         Environment, vars, pollerVars, pollVars
<1>5. CASE AttachmentsFail \/ PublishFails \/ CycleDone
  BY <1>3, <1>5 DEF AttachmentsFail, PublishFails, CycleDone, StopBatch, EndCycle
<1>6. CASE PollFails \/ Crash
  <2>1. batch' = {} /\ messages' = <<>>
    BY <1>6 DEF PollFails, PollRaises, Crash
  <2>2. Cardinality(batch') = 0 /\ Len(messages') = 0
    BY <2>1, FS_EmptySet
  <2> QED BY <1>1, <2>2
<1>7. CASE List /\ Rescan
  <2>1. messages' = <<>>
    BY <1>7 DEF Rescan, WithinListing
  <2>2. PICK S \in SUBSET DOMAIN listed : batch' = Oldest(S)
    BY <1>7 DEF Rescan
  <2>3. Cardinality(batch') <= BatchMax /\ Cardinality(batch') \in Nat
    <3>1. IsFiniteSet(Oldest(S)) /\ Cardinality(Oldest(S)) <= BatchMax
      BY OldestBounded
    <3> QED BY <2>2, <3>1, FS_CardinalityType
  <2>4. Len(messages') = 0
    BY <2>1
  <2> QED BY <1>1, <2>3, <2>4
<1>8. CASE Fetch
  <2>1. PICK i \in batch : FetchMessage(i) \/ FetchMime(i) \/ SkipGone(i)
    BY <1>8 DEF Fetch
  <2>2. CASE batch' = batch \ {i} /\ Len(messages') \in {Len(messages), Len(messages) + 1}
    BY <1>1, <2>2, BatchCounted
  <2>3. CASE FetchMessage(i)
    BY <1>2, <2>2, <2>3 DEF FetchMessage, TypeInv, TypeOK, PollerTypeOK
  <2>4. CASE FetchMime(i)
    BY <2>2, <2>4 DEF FetchMime, TypeInv, TypeOK, PollerTypeOK
  <2>5. CASE SkipGone(i)
    BY <2>2, <2>5 DEF SkipGone
  <2> QED BY <2>1, <2>3, <2>4, <2>5
<1> QED BY <1>4, <1>5, <1>6, <1>7, <1>8 DEF Next, ConnectorStep, List


\* "At most this many messages fetched + published per poll cycle" (config.py:68),
\* for every folder and whatever leaves it while the batch is fetched.
THEOREM AlwaysWithinMax == Spec => []BatchWithinMax
<1>1. Init => BatchWithinMax
  <2> SUFFICES ASSUME Init, BatchMax # None
               PROVE  Cardinality(batch) + Len(messages) <= BatchMax
    BY DEF BatchWithinMax
  <2>1. batch = {} /\ messages = <<>>
    BY DEF Init, PollerInit
  <2>2. Cardinality(batch) = 0 /\ Len(messages) = 0
    BY <2>1, FS_EmptySet
  <2> QED BY <2>2, PollerAssumption DEF Maybe
<1>2. TypeInv /\ TypeInv' /\ WithinListing /\ BatchWithinMax /\ [Next]_vars => BatchWithinMax'
  BY StepWithinMax
<1>3. Spec => []TypeInv
  BY InitTyped, StepTyped, PTL DEF Spec
<1> QED BY <1>1, <1>2, <1>3, RecordBounded, PTL DEF Spec

-----------------------------------------------------------------------------
(* The oldest first.                                                       *)

\* What is fetched is in the order of receipt, also with what is yet to be.
Sorted ==
    /\ \A k, l \in DOMAIN messages :
          k < l => ReceivedAt[messages[k].id] <= ReceivedAt[messages[l].id]
    /\ \A k \in DOMAIN messages, i \in batch :
          ReceivedAt[messages[k].id] <= ReceivedAt[listed[i].id]

\* Why a position of listed is not, or no longer, in the batch.
LeftOut(j) ==
    \/ IsPublished(listed[j])
    \/ where[listed[j].id] = "gone"
    \/ \E k \in DOMAIN messages : messages[k].id = listed[j].id
    \/ /\ \A i \in batch : Older(i, j)
       /\ \A k \in DOMAIN messages : ReceivedAt[messages[k].id] <= ReceivedAt[listed[j].id]

LEMMA OldestFirstParts ==
    OldestFirst <=> /\ Sorted
                    /\ pc \in {"fetching", "mime"} => \A j \in DOMAIN listed \ batch : LeftOut(j)
BY DEF OldestFirst, Sorted, LeftOut

\* A fetched message, of the next stub of the batch, takes its place behind the
\* others.
LEMMA FetchedInOrder ==
    ASSUME TypeInv, Sorted, NEW i \in batch, IsNext(i), NEW x, x.id = listed[i].id,
           messages' = Append(messages, x), batch' = batch \ {i}, listed' = listed,
           UNCHANGED <<publishedAt, publishedVersion, where>>
    PROVE  /\ Sorted'
           /\ \A j \in DOMAIN listed \ batch : LeftOut(j) => LeftOut(j)'
           /\ LeftOut(i)'
<1> DEFINE n == Len(messages) + 1
<1>1. /\ n \in DOMAIN messages' /\ messages'[n] = x
      /\ \A k \in DOMAIN messages : k \in DOMAIN messages' /\ messages'[k] = messages[k] /\ k < n
      /\ \A k \in DOMAIN messages' : k \in DOMAIN messages \/ k = n
  BY DEF TypeInv, TypeOK, PollerTypeOK
<1> HIDE DEF n
<1>2. \A j \in batch : j # i => ReceivedAt[x.id] <= ReceivedAt[listed[j].id]
  BY OlderOrder DEF IsNext, TypeInv, TypeOK, PollerTypeOK
<1>3. \A k \in DOMAIN messages : ReceivedAt[messages[k].id] <= ReceivedAt[x.id]
  BY DEF Sorted
<1>4. Sorted'
  <2>1. ASSUME NEW k \in DOMAIN messages', NEW l \in DOMAIN messages', k < l
        PROVE  ReceivedAt[messages'[k].id] <= ReceivedAt[messages'[l].id]
    <3>1. k \in DOMAIN messages
      BY <1>1, <2>1 DEF TypeInv, TypeOK, PollerTypeOK, n
    <3>2. CASE l = n
      BY <1>1, <1>3, <3>1, <3>2
    <3>3. CASE l \in DOMAIN messages
      BY <1>1, <2>1, <3>1, <3>3 DEF Sorted
    <3> QED BY <1>1, <3>2, <3>3
  <2>2. ASSUME NEW k \in DOMAIN messages', NEW j \in batch'
        PROVE  ReceivedAt[messages'[k].id] <= ReceivedAt[listed'[j].id]
    <3>1. CASE k = n
      BY <1>1, <1>2, <3>1
    <3>2. CASE k \in DOMAIN messages
      BY <1>1, <3>2 DEF Sorted
    <3> QED BY <1>1, <3>1, <3>2
  <2> QED BY <2>1, <2>2 DEF Sorted
<1>5. LeftOut(i)'
  BY <1>1 DEF LeftOut
<1>6. ASSUME NEW j \in DOMAIN listed \ batch, LeftOut(j)
      PROVE  LeftOut(j)'
  <2>1. CASE IsPublished(listed[j])
    <3>1. IsPublished(listed[j])'
      BY <2>1 DEF IsPublished, Remembered
    <3> QED BY <3>1 DEF LeftOut
  <2>2. CASE where[listed[j].id] = "gone"
    BY <2>2 DEF LeftOut
  <2>3. CASE \E k \in DOMAIN messages : messages[k].id = listed[j].id
    BY <1>1, <2>3 DEF LeftOut
  <2>4. CASE /\ \A b \in batch : Older(b, j)
             /\ \A k \in DOMAIN messages : ReceivedAt[messages[k].id] <= ReceivedAt[listed[j].id]
    <3>1. \A b \in batch' : Older(b, j)'
      BY <2>4 DEF Older
    <3>2. ReceivedAt[x.id] <= ReceivedAt[listed[j].id]
      BY <2>4, OlderOrder DEF TypeInv, TypeOK, PollerTypeOK
    <3>3. \A k \in DOMAIN messages' : ReceivedAt[messages'[k].id] <= ReceivedAt[listed'[j].id]
      BY <1>1, <2>4, <3>2
    <3> QED BY <3>1, <3>3 DEF LeftOut
  <2> QED BY <1>6, <2>1, <2>2, <2>3, <2>4 DEF LeftOut
<1> QED BY <1>4, <1>5, <1>6


\* The cut of the rescan leaves out only what the record holds and what is not
\* older than the batch.
LEMMA RescanInOrder ==
    ASSUME TypeInv, WithinListing, Rescan, UNCHANGED where
    PROVE  OldestFirst'
<1>1. messages' = <<>> /\ listed' = listed
  BY DEF Rescan, WithinListing
<1>2. Sorted'
  BY <1>1 DEF Sorted
<1>3. PICK S \in SUBSET DOMAIN listed :
        /\ S = {i \in DOMAIN listed : ~ (listed[i].id \in Kept /\ IsPublished(listed[i]))}
        /\ batch' = Oldest(S)
  BY DEF Rescan
<1>4. ASSUME NEW j \in DOMAIN listed' \ batch'
      PROVE  LeftOut(j)'
  <2>1. j \in DOMAIN listed /\ listed'[j] = listed[j] /\ listed[j].id \in Mail
    BY <1>1, ListedMail
  <2>2. CASE j \in S
    <3>1. \A i \in batch' : Older(i, j)
      BY <1>3, <1>4, <2>2, OldestAreOldest
    <3>2. \A i \in batch' : Older(i, j)'
      BY <1>1, <3>1 DEF Older
    <3> QED BY <1>1, <3>2 DEF LeftOut
  <2>3. CASE j \notin S
    <3>1. listed[j].id \in Kept /\ IsPublished(listed[j])
      BY <1>3, <2>1, <2>3
    <3>2. /\ publishedAt'[listed[j].id] = publishedAt[listed[j].id]
          /\ publishedVersion'[listed[j].id] = publishedVersion[listed[j].id]
      BY <2>1, <3>1 DEF Rescan
    <3>3. IsPublished(listed[j])'
      BY <2>1, <3>1, <3>2 DEF IsPublished, Remembered
    <3> QED BY <3>3 DEF LeftOut
  <2> QED BY <2>2, <2>3
<1> QED BY <1>2, <1>4 DEF OldestFirst, Sorted, LeftOut

\* So does every request of the fetch.
LEMMA FetchInOrder ==
    ASSUME TypeInv, NextInHand, OldestFirst, Fetch
    PROVE  OldestFirst'
<1>1. PICK i \in batch : FetchMessage(i) \/ FetchMime(i) \/ SkipGone(i)
  BY DEF Fetch
<1>2. /\ pc \in {"fetching", "mime"} /\ pc' \in {"fetching", "mime"} /\ IsNext(i)
      /\ UNCHANGED <<publishedAt, publishedVersion, where, listed>>
  BY <1>1 DEF Fetch, FetchMessage, FetchMime, SkipGone, memory, mailboxVars
<1>3. Sorted /\ \A j \in DOMAIN listed \ batch : LeftOut(j)
  BY <1>2, OldestFirstParts
<1>4. ASSUME NEW x, x.id = listed[i].id, messages' = Append(messages, x), batch' = batch \ {i}
      PROVE  OldestFirst'
  <2>1. /\ Sorted' /\ LeftOut(i)'
        /\ \A j \in DOMAIN listed \ batch : LeftOut(j) => LeftOut(j)'
    BY <1>2, <1>3, <1>4, FetchedInOrder
  <2>2. \A j \in DOMAIN listed' \ batch' : LeftOut(j)'
    BY <1>2, <1>3, <1>4, <2>1
  <2> QED BY <2>1, <2>2 DEF OldestFirst, Sorted, LeftOut
<1>5. CASE FetchMessage(i)
  <2>1. PICK x : x = [id |-> listed[i].id, modified |-> Stamp(listed[i].id),
                      body |-> modifiedAt[listed[i].id], mime |-> None]
    OBVIOUS
  <2>2. CASE IncludeMime
    <3>1. UNCHANGED <<messages, batch>>
      BY <1>5, <2>2 DEF FetchMessage
    <3>2. \A j : LeftOut(j) => LeftOut(j)'
      BY <1>2, <3>1 DEF LeftOut, IsPublished, Remembered, Older
    <3>3. Sorted'
      BY <1>2, <1>3, <3>1 DEF Sorted
    <3> QED BY <1>2, <1>3, <3>1, <3>2, <3>3 DEF OldestFirst, Sorted, LeftOut
  <2>3. CASE ~ IncludeMime
    <3>1. messages' = Append(messages, x) /\ batch' = batch \ {i}
      BY <1>5, <2>1, <2>3 DEF FetchMessage
    <3>2. x.id = listed[i].id
      BY <2>1
    <3> QED BY <1>4, <3>1, <3>2
  <2> QED BY <2>2, <2>3
<1>6. CASE FetchMime(i)
  <2>1. PICK x : x = [current EXCEPT !.mime = modifiedAt[current.id]]
    OBVIOUS
  <2>2. messages' = Append(messages, x) /\ batch' = batch \ {i} /\ pc = "mime"
    BY <1>6, <2>1 DEF FetchMime
  <2>3. current # None /\ current \in Message
    BY <2>2 DEF TypeInv, TypeOK, Control, PollerTypeOK, Maybe
  <2>4. current.id = listed[i].id
    BY <1>2, <2>3, NextUnique DEF NextInHand
  <2>5. x.id = listed[i].id
    BY <2>1, <2>3, <2>4 DEF Message
  <2> QED BY <1>4, <2>2, <2>5
<1>7. CASE SkipGone(i)
  <2>1. where[listed[i].id] = "gone" /\ batch' = batch \ {i} /\ messages' = messages
    BY <1>7 DEF SkipGone
  <2>2. \A j : LeftOut(j) => LeftOut(j)'
    BY <1>2, <2>1 DEF LeftOut, IsPublished, Remembered, Older
  <2>3. LeftOut(i)'
    BY <1>2, <2>1 DEF LeftOut
  <2>4. Sorted'
    BY <1>2, <1>3, <2>1 DEF Sorted
  <2>5. \A j \in DOMAIN listed' \ batch' : LeftOut(j)'
    BY <1>2, <1>3, <2>1, <2>2, <2>3
  <2> QED BY <2>4, <2>5 DEF OldestFirst, Sorted, LeftOut
<1> QED BY <1>1, <1>5, <1>6, <1>7

\* What is gone stays gone, so nothing left out of a batch is owed to it later.
LEMMA OutsideInOrder ==
    ASSUME TypeInv, OldestFirst, Environment \/ UNCHANGED vars
    PROVE  OldestFirst'
<1>1. UNCHANGED <<pc, listed, batch, messages, publishedAt, publishedVersion>>
  BY DEF Environment, vars, pollerVars, memory, pollVars
<1>2. \A m \in Mail : where[m] = "gone" => where'[m] = "gone"
  <2>1. CASE UNCHANGED where
    BY <2>1
  <2>2. CASE MailboxNext
    BY <2>2 DEF MailboxNext, Tick, Arrive, Modify, MoveOut, Delete, TypeInv, TypeOK, MailboxTypeOK
  <2> QED BY <2>1, <2>2 DEF Environment, vars, mailboxVars
<1>3. \A j \in DOMAIN listed : LeftOut(j) => LeftOut(j)'
  <2>1. \A j \in DOMAIN listed : listed[j].id \in Mail
    BY ListedMail
  <2> QED BY <1>1, <1>2, <2>1 DEF LeftOut, IsPublished, Remembered, Older
<1>4. Sorted => Sorted'
  BY <1>1 DEF Sorted
<1>5. /\ Sorted
      /\ pc \in {"fetching", "mime"} => \A j \in DOMAIN listed \ batch : LeftOut(j)
  BY OldestFirstParts
<1>6. pc' \in {"fetching", "mime"} => \A j \in DOMAIN listed' \ batch' : LeftOut(j)'
  BY <1>1, <1>3, <1>5
<1> QED BY <1>4, <1>5, <1>6 DEF OldestFirst, Sorted, LeftOut

\* OldestFirst is inductive, given the types, the listing and what is in hand.
LEMMA StepInOrder ==
    TypeInv /\ TypeInv' /\ WithinListing /\ NextInHand /\ OldestFirst /\ [Next]_vars => OldestFirst'
<1> SUFFICES ASSUME TypeInv, TypeInv', WithinListing, NextInHand, OldestFirst, [Next]_vars
             PROVE  OldestFirst'
  OBVIOUS
<1>1. CASE messages' = <<>> /\ pc' \notin {"fetching", "mime"}
  BY <1>1 DEF OldestFirst
<1>2. CASE UNCHANGED <<listed, batch, messages>> /\ pc' \notin {"fetching", "mime"}
  BY <1>2 DEF OldestFirst
<1>3. CASE StartCycle \/ (List /\ ListPage)
  BY <1>1, <1>3 DEF StartCycle, BeginListing, List, ListPage, WithinListing
<1>4. CASE List /\ Rescan
  BY <1>4, RescanInOrder DEF List, mailboxVars
<1>5. CASE Fetch
  BY <1>5, FetchInOrder
<1>6. CASE PollFails \/ Crash \/ AttachmentsFail \/ PublishFails \/ CycleDone
  BY <1>1, <1>6
     DEF PollFails, PollRaises, Crash, AttachmentsFail, PublishFails, CycleDone, StopBatch, EndCycle
<1>7. CASE PollDone
  <2>1. batch' = {} /\ messages' = messages /\ pc' = "draining"
    BY <1>7 DEF PollDone, PollReturns
  <2> QED BY <2>1 DEF OldestFirst
<1>8. CASE FetchAttachments \/ Publish
  BY <1>2, <1>8 DEF FetchAttachments, Publish
<1>9. CASE Environment \/ UNCHANGED vars
  BY <1>9, OutsideInOrder
<1> QED BY <1>3, <1>4, <1>5, <1>6, <1>7, <1>8, <1>9 DEF Next, ConnectorStep, List

\* "... oldest first" (config.py:68): the messages of a cycle are in the order of
\* their receipt, and nothing left out of it was received before them, unless it
\* is published or gone; whatever happens to the mailbox since it was listed.
THEOREM AlwaysOldestFirst == Spec => []OldestFirst
<1>1. Init => NextInHand /\ OldestFirst
  BY DEF Init, PollerInit, NextInHand, OldestFirst
<1>2. TypeInv /\ TypeInv' /\ WithinListing /\ (NextInHand /\ OldestFirst) /\ [Next]_vars
        => (NextInHand /\ OldestFirst)'
  BY StepInHand, StepInOrder
<1>3. Spec => []TypeInv
  BY InitTyped, StepTyped, PTL DEF Spec
<1> QED BY <1>1, <1>2, <1>3, RecordBounded, PTL DEF Spec

-----------------------------------------------------------------------------
(* The cycle advances.                                                     *)

\* A page that is not the last is full, and the folder holds more than was listed.
LEMMA PageAdvances ==
    ASSUME TypeInv, ListPage, pc' = "listing"
    PROVE  Len(listed) < Len(listed') /\ Len(listed') < Cardinality(Mail)
<1> DEFINE S == Matching(window.until, window.modifiedUntil)
<1>1. PICK order \in Listings(S) :
        LET page == Page(order, Len(listed)) IN
        /\ listed' = listed \o [i \in 1..Len(page) |->
                                  [id |-> page[i], modified |-> Stamp(page[i])]]
        /\ pc' = IF Len(listed) + PageSize < Len(order) THEN "listing" ELSE "listed"
  BY DEF ListPage
<1>2. S \in SUBSET Mail
  BY DEF Matching
<1> HIDE DEF S
<1>3. Cardinality(S) \in Nat /\ Cardinality(Mail) \in Nat /\ Cardinality(S) <= Cardinality(Mail)
  BY <1>2, MailSubset
<1>4. order \in Seq(Mail) /\ Len(order) = Cardinality(S)
  <2>1. order \in [1..Cardinality(S) -> Mail]
    BY <1>2 DEF Listings
  <2> QED BY <1>3, <2>1
<1>5. Len(listed) \in Nat /\ listed \in Seq(Stub) /\ PageSize \in Nat \ {0}
  BY PageSizeAssumption DEF TypeInv, TypeOK, PollerTypeOK
<1>6. Len(listed) + PageSize < Len(order)
  BY <1>1
<1>7. PICK page : page = Page(order, Len(listed))
  OBVIOUS
<1>8. page \in Seq(Mail) /\ Len(page) = PageSize
  BY <1>4, <1>5, <1>6, <1>7 DEF Page
<1>9. PICK stubs : stubs = [i \in 1..Len(page) |-> [id |-> page[i], modified |-> Stamp(page[i])]]
  OBVIOUS
<1>10. stubs \in Seq(Stub) /\ Len(stubs) = PageSize
  <2>1. \A i \in 1..Len(page) : [id |-> page[i], modified |-> Stamp(page[i])] \in Stub
    BY <1>8, StampType DEF Stub, TypeInv, TypeOK
  <2> QED BY <1>5, <1>8, <1>9, <2>1
<1>11. listed' = listed \o stubs
  BY <1>1, <1>7, <1>9
<1>12. Len(listed') = Len(listed) + PageSize
  <2>1. \A T : \A s, u \in Seq(T) : Len(s \o u) = Len(s) + Len(u)
    OBVIOUS
  <2>2. Len(listed \o stubs) = Len(listed) + Len(stubs)
    BY <1>5, <1>10, <2>1
  <2> QED BY <1>10, <1>11, <2>2
<1> QED BY <1>3, <1>4, <1>5, <1>6, <1>12


\* Listing, choosing and fetching leave less of the cycle.
LEMMA PollAdvances ==
    ASSUME TypeInv, List \/ Fetch \/ PollDone \/ PollFails
    PROVE  LessOfCycle
<1>1. CASE List /\ ListPage
  <2>1. pc = "listing" /\ pc' \in {"listing", "listed"}
    BY <1>1 DEF ListPage
  <2>2. CASE pc' = "listing"
    <3>1. Len(listed) < Len(listed') /\ Len(listed') < Cardinality(Mail)
      BY <1>1, <2>2, PageAdvances
    <3>2. Phase' = Phase
      BY <2>1, <2>2 DEF Phase
    <3> QED BY <2>1, <3>1, <3>2 DEF LessOfCycle
  <2>3. CASE pc' = "listed"
    <3>1. Phase = 4 /\ Phase' = 3
      BY <2>1, <2>3 DEF Phase
    <3> QED BY <3>1 DEF LessOfCycle
  <2> QED BY <2>1, <2>2, <2>3
<1>2. CASE List /\ Rescan
  <2>1. pc = "listed" /\ pc' = "fetching"
    BY <1>2 DEF Rescan
  <2>2. Phase = 3 /\ Phase' = 2
    BY <2>1 DEF Phase
  <2> QED BY <2>2 DEF LessOfCycle
<1>3. CASE Fetch
  <2>1. PICK i \in batch : FetchMessage(i) \/ FetchMime(i) \/ SkipGone(i)
    BY <1>3 DEF Fetch
  <2>2. pc \in {"fetching", "mime"} /\ pc' \in {"fetching", "mime"} /\ UNCHANGED listed
    BY <2>1 DEF FetchMessage, FetchMime, SkipGone
  <2>3. Phase' = Phase
    BY <2>2 DEF Phase
  <2>4. \/ batch' = batch \ {i}
        \/ UNCHANGED <<listed, batch>> /\ pc = "fetching" /\ pc' = "mime"
    BY <2>1 DEF FetchMessage, FetchMime, SkipGone
  <2>5. batch' = batch \ {i} => batch' \subseteq batch /\ batch' # batch
    OBVIOUS
  <2> QED BY <2>2, <2>3, <2>4, <2>5 DEF LessOfCycle
<1>4. CASE PollDone
  <2>1. pc = "fetching" /\ pc' = "draining"
    BY <1>4 DEF PollDone, PollReturns
  <2>2. Phase = 2 /\ Phase' = 1
    BY <2>1 DEF Phase
  <2> QED BY <2>2 DEF LessOfCycle
<1>5. CASE PollFails
  <2>1. pc \in {"listing", "fetching", "mime"} /\ pc' = "idle"
    BY <1>5 DEF PollFails, PollRaises
  <2>2. Phase \in {2, 4} /\ Phase' = 0
    BY <2>1 DEF Phase
  <2> QED BY <2>2 DEF LessOfCycle
<1> QED BY <1>1, <1>2, <1>3, <1>4, <1>5 DEF List

\* So does every step of the drain, failed or not.
LEMMA DrainAdvances ==
    ASSUME TypeInv,
           FetchAttachments \/ AttachmentsFail \/ Publish \/ PublishFails \/ CycleDone
    PROVE  LessOfCycle
<1>1. CASE FetchAttachments
  <2>1. pc = "draining" /\ pc' = "publish" /\ UNCHANGED <<messages, index>>
    BY <1>1 DEF FetchAttachments, Draining
  <2>2. Phase' = Phase
    BY <2>1 DEF Phase
  <2> QED BY <2>1, <2>2 DEF LessOfCycle
<1>2. CASE Publish
  <2>1. pc = "publish" /\ pc' = "draining" /\ messages' = messages /\ index' = index + 1
    BY <1>2 DEF Publish
  <2>2. index \in Nat /\ index < Len(messages) /\ Len(messages) \in Nat
    BY <2>1 DEF TypeInv, TypeOK, Control, PollerTypeOK
  <2>3. Phase' = Phase
    BY <2>1 DEF Phase
  <2> QED BY <2>1, <2>2, <2>3 DEF LessOfCycle
<1>3. CASE AttachmentsFail \/ PublishFails \/ CycleDone
  <2>1. pc \in {"draining", "publish"} /\ pc' = "idle"
    BY <1>3 DEF AttachmentsFail, PublishFails, CycleDone, Draining, StopBatch, EndCycle
  <2>2. Phase = 1 /\ Phase' = 0
    BY <2>1 DEF Phase
  <2> QED BY <2>2 DEF LessOfCycle
<1> QED BY <1>1, <1>2, <1>3

\* And the end of the process leaves nothing of it.
LEMMA CrashAdvances ==
    ASSUME TypeInv, Crash, pc # "idle"
    PROVE  LessOfCycle
<1>1. pc \in {"listing", "listed", "fetching", "mime", "draining", "publish"} /\ pc' = "idle"
  BY DEF Crash, TypeInv, TypeOK, PollerTypeOK
<1>2. Phase \in {1, 2, 3, 4} /\ Phase' = 0
  BY <1>1 DEF Phase
<1> QED BY <1>2 DEF LessOfCycle

\* Every step of a cycle leaves less of it, and nothing in the mailbox gives any
\* of it back: the safety half of "the loop goes on", for a folder of any size.
THEOREM CycleAlwaysAdvances == Spec => CycleAdvances
<1>1. ASSUME TypeInv, [Next]_vars, pc # "idle"
      PROVE  LessOfCycle \/ UNCHANGED <<pc, listed, batch, current, messages, index>>
  <2>1. CASE StartCycle
    BY <1>1, <2>1 DEF StartCycle, BeginListing
  <2>2. CASE List \/ Fetch \/ PollDone \/ PollFails
    BY <1>1, <2>2, PollAdvances
  <2>3. CASE FetchAttachments \/ AttachmentsFail \/ Publish \/ PublishFails \/ CycleDone
    BY <1>1, <2>3, DrainAdvances
  <2>4. CASE Crash
    BY <1>1, <2>4, CrashAdvances
  <2>5. CASE Environment \/ UNCHANGED vars
    BY <2>5 DEF Environment, vars, pollerVars, pollVars, serviceVars
  <2> QED BY <1>1, <2>1, <2>2, <2>3, <2>4, <2>5 DEF Next, ConnectorStep
<1>2. TypeInv /\ [Next]_vars =>
        [ pc # "idle" => LessOfCycle \/ UNCHANGED <<pc, listed, batch, current, messages, index>> ]_vars
  BY <1>1
<1>3. TypeInv /\ [Next]_vars => TypeInv'
  BY StepTyped
<1> QED BY <1>2, <1>3, InitTyped, PTL DEF Spec, CycleAdvances

=============================================================================
