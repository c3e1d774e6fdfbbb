----------------------------- MODULE OnceProofs -----------------------------
(***************************************************************************)
(* An acknowledged version is published once: PublishedOnce of the run     *)
(* connector_bridge, for every instance in which it can hold.  A hold on   *)
(* changed mail hides mail from a listing that was in the one before, and  *)
(* so does a listing of several pages when mail leaves the folder between  *)
(* two of them; either way the record forgets the mail and it is published *)
(* again.  Without a hold, and while a listing fits in a page, it is not.  *)
(***************************************************************************)
EXTENDS BridgeProofs, CycleProofs

\* What a listing asks for comes in one page.
FitsAPage ==
    pc = "listing" => Cardinality(Matching(window.until, window.modifiedUntil)) <= PageSize

Background == TypeInv /\ Sane /\ Admitted /\ WithinListing

-----------------------------------------------------------------------------
(* Lemmas about listings.                                                  *)

\* A listing in Graph's order leaves nothing out and repeats nothing.
LEMMA ListingComplete ==
    ASSUME NEW S \in SUBSET Mail, NEW order \in Listings(S)
    PROVE  /\ Cardinality(S) \in Nat
           /\ order \in [1..Cardinality(S) -> S]
           /\ \A i, j \in 1..Cardinality(S) : order[i] = order[j] => i = j
           /\ \A m \in S : \E i \in 1..Cardinality(S) : order[i] = m
<1>1. IsFiniteSet(S) /\ Cardinality(S) \in Nat
  BY MailAssumption, FS_Subset, FS_CardinalityType
<1>2. PICK n \in Nat : n = Cardinality(S)
  BY <1>1
<1>3. order \in [1..n -> S]
  BY <1>2 DEF Listings
<1>4. \A i, j \in 1..n : order[i] = order[j] => i = j
  <2>1. \A i, j \in 1..n : i < j => order[i] # order[j]
    BY <1>2 DEF Listings
  <2> QED BY <1>2, <2>1
<1>5. order \in Injection(1..n, S)
  BY <1>3, <1>4 DEF Injection, IsInjective
<1>6. Cardinality(1..n) = n
  BY <1>2, FS_Interval
<1>7. order \in Surjection(1..n, S)
  BY <1>1, <1>2, <1>5, <1>6, FS_Injection
<1> QED BY <1>1, <1>2, <1>3, <1>4, <1>7 DEF Surjection

\* The only page of a listing that fits in one: all of it, in order.
LEMMA WholePage ==
    ASSUME NEW S \in SUBSET Mail, NEW order \in Listings(S), Cardinality(S) <= PageSize
    PROVE  Page(order, 0) = order /\ Len(order) = Cardinality(S)
<1>1. Cardinality(S) \in Nat /\ order \in [1..Cardinality(S) -> S]
  BY ListingComplete
<1>2. order \in Seq(S) /\ Len(order) = Cardinality(S)
  BY <1>1
<1>3. ~ (0 + PageSize < Len(order))
  BY <1>1, <1>2, PageSizeAssumption
<1>4. Page(order, 0) = SubSeq(order, 1, Len(order))
  BY <1>2, <1>3 DEF Page
<1> QED BY <1>2, <1>4

\* A listing that fits in a page returns each match once, as it is now.
LEMMA OnePage ==
    ASSUME TypeInv, listed = <<>>, FitsAPage, ListPage
    PROVE  /\ pc' = "listed"
           /\ \A i, j \in DOMAIN listed' : listed'[i].id = listed'[j].id => i = j
           /\ \A m \in Matching(window.until, window.modifiedUntil) :
                  \E i \in DOMAIN listed' : listed'[i] = [id |-> m, modified |-> Stamp(m)]
<1> DEFINE S == Matching(window.until, window.modifiedUntil)
<1>1. S \in SUBSET Mail /\ Cardinality(S) <= PageSize
  BY DEF ListPage, FitsAPage, Matching
<1> HIDE DEF S
<1>2. PICK order \in Listings(S) :
        /\ listed' = listed \o [i \in 1..Len(Page(order, Len(listed))) |->
                                 [id |-> Page(order, Len(listed))[i],
                                  modified |-> Stamp(Page(order, Len(listed))[i])]]
        /\ pc' = IF Len(listed) + PageSize < Len(order) THEN "listing" ELSE "listed"
  BY DEF ListPage, S
<1>3. PICK n \in Nat : n = Cardinality(S)
  BY <1>1, ListingComplete
<1>4. /\ order \in [1..n -> S]
      /\ \A i, j \in 1..n : order[i] = order[j] => i = j
      /\ \A m \in S : \E i \in 1..n : order[i] = m
  BY <1>1, <1>3, ListingComplete
<1>5. Len(listed) = 0 /\ Page(order, 0) = order /\ Len(order) = n
  BY <1>1, <1>3, WholePage
<1>6. listed' = listed \o [i \in 1..n |-> [id |-> order[i], modified |-> Stamp(order[i])]]
  BY <1>2, <1>5
<1>7. PICK stubs : stubs = [i \in 1..n |-> [id |-> order[i], modified |-> Stamp(order[i])]]
  OBVIOUS
<1>8. listed' = stubs
  <2>1. stubs \in Seq({[id |-> order[i], modified |-> Stamp(order[i])] : i \in 1..n})
    BY <1>7
  <2>2. listed' = <<>> \o stubs
    BY <1>6, <1>7
  <2> QED BY <2>1, <2>2
<1>9. DOMAIN stubs = 1..n /\ \A i \in 1..n : stubs[i] = [id |-> order[i], modified |-> Stamp(order[i])]
  BY <1>7
<1>10. pc' = "listed"
  BY <1>1, <1>2, <1>3, <1>5, PageSizeAssumption
<1>11. \A i, j \in DOMAIN listed' : listed'[i].id = listed'[j].id => i = j
  BY <1>4, <1>8, <1>9
<1>12. \A m \in S : \E i \in DOMAIN listed' : listed'[i] = [id |-> m, modified |-> Stamp(m)]
  BY <1>4, <1>8, <1>9
<1> QED BY <1>10, <1>11, <1>12 DEF S

-----------------------------------------------------------------------------
(* One message, once per cycle.                                            *)

\* Nothing is in flight at the start.
LEMMA InitOnce == Init => InFlightOnce
BY DEF Init, PollerInit, InFlightOnce

\* The message fetched is of the stub next in the batch, which leaves the batch.
LEMMA FetchOnce ==
    ASSUME TypeInv, InFlightOnce, NEW i \in batch, IsNext(i),
           NEW x \in Message, x.id = listed[i].id,
           messages' = Append(messages, x), batch' = batch \ {i}, listed' = listed,
           current' = None, pc' = "fetching"
    PROVE  InFlightOnce'
<1>1. /\ messages \in Seq(Message) /\ Len(messages) \in Nat
      /\ DOMAIN messages' = 1..(Len(messages) + 1) /\ DOMAIN messages = 1..Len(messages)
      /\ \A k \in DOMAIN messages : messages'[k] = messages[k]
      /\ messages'[Len(messages) + 1] = x
  BY DEF TypeInv, TypeOK, PollerTypeOK
<1>2. \A k \in DOMAIN messages : messages[k].id # x.id
  BY DEF InFlightOnce
<1>3. \A k \in DOMAIN messages' : k \in DOMAIN messages \/ k = Len(messages) + 1
  BY <1>1
<1>4. \A k, l \in DOMAIN messages' : messages'[k].id = messages'[l].id => k = l
  BY <1>1, <1>2, <1>3 DEF InFlightOnce
<1>5. \A j \in batch', k \in DOMAIN messages' : messages'[k].id # listed'[j].id
  <2> SUFFICES ASSUME NEW j \in batch', NEW k \in DOMAIN messages'
               PROVE  messages'[k].id # listed[j].id
    OBVIOUS
  <2>1. j \in batch /\ j # i /\ j \in DOMAIN listed /\ i \in DOMAIN listed
    BY DEF TypeInv, TypeOK, PollerTypeOK
  <2>2. listed[j].id # x.id
    BY <2>1 DEF InFlightOnce
  <2> QED BY <1>1, <1>3, <2>1, <2>2 DEF InFlightOnce
<1>6. \A j, k \in DOMAIN listed' : listed'[j].id = listed'[k].id => j = k
  BY DEF InFlightOnce
<1> QED BY <1>4, <1>5, <1>6 DEF InFlightOnce

\* A poll lists each message once, and fetches each stub at most once.
LEMMA PollOnce ==
    ASSUME TypeInv, TypeInv', Background, InFlightOnce, FitsAPage,
           StartCycle \/ List \/ Fetch \/ PollFails \/ PollDone
    PROVE  InFlightOnce'
<1>1. CASE StartCycle
  <2>1. pc = "idle" /\ listed = <<>> /\ pc' = "listing" /\ UNCHANGED <<listed, batch, current, messages>>
    BY <1>1 DEF StartCycle, BeginListing, InFlightOnce
  <2> QED BY <2>1 DEF InFlightOnce, IsNext, Older
<1>2. CASE List /\ ListPage
  <2>1. pc = "listing" /\ listed = <<>> /\ UNCHANGED <<batch, current, messages>>
    BY <1>2 DEF ListPage, InFlightOnce
  <2>2. batch = {} /\ current = None /\ messages = <<>>
    BY <2>1 DEF TypeInv, TypeOK, PollerTypeOK, Control, Background, WithinListing
  <2>3. pc' = "listed" /\ \A i, j \in DOMAIN listed' : listed'[i].id = listed'[j].id => i = j
    BY <1>2, <2>1, OnePage
  <2> QED BY <2>1, <2>2, <2>3 DEF InFlightOnce
<1>3. CASE List /\ Rescan
  <2>1. pc = "listed" /\ pc' = "fetching" /\ UNCHANGED <<listed, current, messages>>
    BY <1>3 DEF Rescan
  <2>2. current = None /\ messages = <<>>
    BY <2>1 DEF TypeInv, Control, Background, WithinListing
  <2> QED BY <2>1, <2>2 DEF InFlightOnce
<1>4. CASE Fetch
  <2>1. PICK i \in batch : FetchMessage(i) \/ FetchMime(i) \/ SkipGone(i)
    BY <1>4 DEF Fetch
  <2>2. IsNext(i)
    BY <2>1 DEF FetchMessage, FetchMime, SkipGone
  <2>3. PICK x : x = [id |-> listed[i].id, modified |-> Stamp(listed[i].id),
                      body |-> modifiedAt[listed[i].id], mime |-> None]
    OBVIOUS
  <2>4. x \in Message
    <3>1. listed[i].id \in Mail
      <4>1. listed[i] \in Stub
        BY DEF TypeInv, TypeOK, PollerTypeOK
      <4> QED BY <4>1 DEF Stub
    <3>2. Stamp(listed[i].id) \in Maybe(Time) /\ modifiedAt[listed[i].id] \in Time
      BY <3>1, StampType DEF TypeInv, TypeOK, MailboxTypeOK
    <3> QED BY <2>3, <3>1, <3>2 DEF Message, Maybe
  <2>5. CASE FetchMessage(i) /\ IncludeMime
    <3>1. /\ current' = x /\ pc = "fetching" /\ pc' = "mime"
          /\ UNCHANGED <<messages, batch, listed>>
      BY <2>3, <2>5 DEF FetchMessage
    <3>2. \A j \in batch : IsNext(j) => j = i
      BY <2>2, NextUnique
    <3>3. \A j \in batch' : IsNext(j)' => listed'[j].id = current'.id
      BY <2>3, <3>1, <3>2 DEF IsNext, Older
    <3> QED BY <3>1, <3>3 DEF InFlightOnce
  <2>6. CASE FetchMessage(i) /\ ~ IncludeMime
    <3>1. /\ messages' = Append(messages, x) /\ batch' = batch \ {i} /\ listed' = listed
          /\ pc' = "fetching" /\ current' = None
      BY <2>3, <2>6 DEF FetchMessage, TypeInv, Control
    <3> QED BY <2>2, <2>3, <2>4, <3>1, FetchOnce
  <2>7. CASE FetchMime(i)
    <3>1. current \in Message /\ current.id = listed[i].id
      BY <2>2, <2>7 DEF FetchMime, TypeInv, TypeOK, Control, PollerTypeOK, Maybe, InFlightOnce
    <3>2. PICK y : y = [current EXCEPT !.mime = modifiedAt[current.id]]
      OBVIOUS
    <3>3. y \in Message /\ y.id = listed[i].id
      <4>1. modifiedAt[current.id] \in Time
        BY <3>1 DEF Message, TypeInv, TypeOK, MailboxTypeOK
      <4> QED BY <3>1, <3>2, <4>1 DEF Message, Maybe
    <3>4. /\ messages' = Append(messages, y) /\ batch' = batch \ {i} /\ listed' = listed
          /\ pc' = "fetching" /\ current' = None
      BY <2>7, <3>2 DEF FetchMime
    <3> QED BY <2>2, <3>3, <3>4, FetchOnce
  <2>8. CASE SkipGone(i)
    <3>1. batch' \subseteq batch /\ current' = None /\ pc' = "fetching" /\ UNCHANGED <<listed, messages>>
      BY <2>8 DEF SkipGone
    <3> QED BY <3>1 DEF InFlightOnce
  <2> QED BY <2>1, <2>5, <2>6, <2>7, <2>8
<1>5. CASE PollFails
  <2>1. listed' = <<>> /\ messages' = <<>> /\ current' = None /\ batch' = {} /\ pc' = "idle"
    BY <1>5 DEF PollFails, PollRaises
  <2> QED BY <2>1 DEF InFlightOnce
<1>6. CASE PollDone
  <2>1. listed' = <<>> /\ messages' = messages /\ current = None /\ current' = None /\ batch' = {} /\ pc' = "draining"
    BY <1>6 DEF PollDone, PollReturns, TypeInv, Control
  <2> QED BY <2>1 DEF InFlightOnce
<1> QED BY <1>1, <1>2, <1>3, <1>4, <1>5, <1>6 DEF List

\* The drain and everybody else put nothing in flight.
LEMMA RestOnce ==
    ASSUME TypeInv, InFlightOnce,
           \/ FetchAttachments \/ AttachmentsFail \/ Publish \/ PublishFails \/ CycleDone
           \/ Crash \/ Environment \/ UNCHANGED vars
    PROVE  InFlightOnce'
<1>1. CASE FetchAttachments \/ AttachmentsFail \/ Publish \/ PublishFails \/ CycleDone
  <2>1. /\ pc \in Drain /\ pc' \in Drain \cup {"idle"} /\ listed = <<>>
        /\ UNCHANGED <<listed, batch, current>> /\ (messages' = messages \/ messages' = <<>>)
    BY <1>1 DEF FetchAttachments, AttachmentsFail, Publish, PublishFails, CycleDone, StopBatch,
       EndCycle, Draining, Drain, InFlightOnce
  <2>2. current = None
    BY <2>1 DEF TypeInv, Control, Drain
  <2> QED BY <2>1, <2>2 DEF InFlightOnce, Drain
<1>2. CASE Crash
  BY <1>2 DEF Crash, InFlightOnce
<1>3. CASE Environment \/ UNCHANGED vars
  <2>1. UNCHANGED <<pc, listed, batch, current, messages>>
    BY <1>3 DEF Environment, vars, pollerVars, pollVars
  <2> QED BY <2>1 DEF InFlightOnce, IsNext, Older
<1> QED BY <1>1, <1>2, <1>3

-----------------------------------------------------------------------------
(* An acknowledged version is remembered, or due.                          *)

\* Nothing is acknowledged at the start.
LEMMA InitSettled == Init => AckedSettled
BY InitOnce DEF Init, AckedSettled

\* A step that leaves the record and the mailbox alone, and puts nothing new in
\* flight, unsettles no acknowledgement.
LEMMA StaysSettled ==
    ASSUME NEW m \in Mail, Settled(m),
           UNCHANGED <<now, where, modifiedAt, publishedAt, publishedVersion, acked>>,
           pc' \notin {"listing", "listed"}, InFlight(m)' => InFlight(m)
    PROVE  Settled(m)'
<1>1. Due(m)' <=> Due(m)
  BY DEF Due
<1>2. IsPublished([id |-> m, modified |-> Stamp(m)])' <=> IsPublished([id |-> m, modified |-> Stamp(m)])
  BY DEF IsPublished, Remembered, Stamp
<1>3. Promise!Admissible(m)' <=> Promise!Admissible(m)
  BY DEF Promise!Admissible
<1> QED BY <1>1, <1>2, <1>3 DEF Settled

\* Admissible mail of the folder is what a new listing asks for.
LEMMA StartSettled ==
    ASSUME TypeInv, ModifiedHold = None, StartCycle, NEW m \in Mail, Settled(m)
    PROVE  Settled(m)'
<1>1. /\ window'.until = HeldBack(NewerHold) /\ window'.modifiedUntil = None /\ pc' = "listing"
      /\ UNCHANGED <<now, where, modifiedAt, acked, publishedAt, publishedVersion, listed, batch,
                     messages, index>>
  BY DEF StartCycle, BeginListing, HeldBack, memory, mailboxVars
<1>2. m \in Matching(window.until, window.modifiedUntil)'
  BY <1>1, NoneAssumption DEF Settled, Promise!Admissible, Matching, HeldBack
<1>3. /\ Due(m)' <=> Due(m)
      /\ InFlight(m)' <=> InFlight(m)
      /\ Promise!Admissible(m)' <=> Promise!Admissible(m)
  BY <1>1 DEF Due, InFlight, Promise!Admissible
<1>4. IsPublished([id |-> m, modified |-> Stamp(m)])' <=> IsPublished([id |-> m, modified |-> Stamp(m)])
  BY <1>1 DEF IsPublished, Remembered, Stamp
<1> QED BY <1>1, <1>2, <1>3, <1>4 DEF Settled

\* A listing returns every acknowledged version, with its present stamp.
LEMMA ListSettled ==
    ASSUME TypeInv, InFlightOnce, FitsAPage, UNCHANGED <<mailboxVars, serviceVars, acked>>,
           ListPage, NEW m \in Mail, Settled(m)
    PROVE  Settled(m)'
<1>1. /\ pc = "listing" /\ listed = <<>> /\ batch' = batch /\ messages' = messages /\ index' = index
      /\ UNCHANGED <<now, where, modifiedAt, acked, publishedAt, publishedVersion>>
  BY DEF ListPage, InFlightOnce, memory, mailboxVars, serviceVars
<1>2. batch = {}
  BY <1>1 DEF TypeInv, TypeOK, PollerTypeOK
<1>3. /\ pc' = "listed"
      /\ \E i \in DOMAIN listed' : listed'[i] = [id |-> m, modified |-> Stamp(m)]
  BY <1>1, OnePage DEF Settled
<1>4. \E i \in DOMAIN listed' : listed'[i] = [id |-> m, modified |-> Stamp(m)']
  BY <1>1, <1>3 DEF Stamp
<1>5. /\ Due(m)' <=> Due(m)
      /\ InFlight(m)' <=> InFlight(m)
      /\ Promise!Admissible(m)' <=> Promise!Admissible(m)
  BY <1>1, <1>2 DEF Due, InFlight, Promise!Admissible
<1>6. IsPublished([id |-> m, modified |-> Stamp(m)])' <=> IsPublished([id |-> m, modified |-> Stamp(m)])
  BY <1>1 DEF IsPublished, Remembered, Stamp
<1> QED BY <1>1, <1>3, <1>4, <1>5, <1>6 DEF Settled

\* A rescan keeps the record of an acknowledged version until it is due, and
\* does not choose it before.
LEMMA RescanSettled ==
    ASSUME TypeInv, InFlightOnce, WithinListing, UNCHANGED <<mailboxVars, serviceVars, acked>>,
           Rescan, NEW m \in Mail, acked[m] # None, Settled(m)
    PROVE  Settled(m)'
<1>1. /\ pc = "listed" /\ pc' = "fetching" /\ messages' = <<>> /\ listed' = listed
      /\ UNCHANGED <<now, where, modifiedAt, acked>>
  BY DEF Rescan, WithinListing, mailboxVars
<1>2. /\ Due(m)' <=> Due(m)
      /\ Promise!Admissible(m)' <=> Promise!Admissible(m)
  BY <1>1 DEF Due, Promise!Admissible
<1>3. CASE Due(m)
  BY <1>1, <1>2, <1>3 DEF Settled
<1>4. CASE ~ Due(m)
  <2>1. publishedAt[m] = acked[m] /\ IsPublished([id |-> m, modified |-> Stamp(m)])
    BY <1>4 DEF Settled
  <2>2. PICK i \in DOMAIN listed : listed[i] = [id |-> m, modified |-> Stamp(m)]
    BY <1>1 DEF Settled
  <2>3. ~ Expired(m)
    <3>1. acked[m] \in Int /\ now \in Int /\ RepublishAfter \in Maybe(Int)
      BY PollerAssumption DEF TypeInv, TypeOK, MailboxTypeOK, Time, Maybe
    <3> QED BY <1>4, <2>1, <3>1 DEF Expired, Due, Maybe
  <2>4. m \in Kept
    BY <2>1, <2>2, <2>3 DEF Kept, Remembered
  <2>5. publishedAt'[m] = publishedAt[m] /\ publishedVersion'[m] = publishedVersion[m]
    BY <2>4 DEF Rescan
  <2>6. IsPublished([id |-> m, modified |-> Stamp(m)])'
    <3>1. Stamp(m)' = Stamp(m)
      BY <1>1 DEF Stamp
    <3>2. publishedAt' \in [Mail -> Maybe(Time)] \/ publishedAt'[m] # None
      BY <2>1, <2>5
    <3> QED BY <2>1, <2>5, <3>1, <3>2 DEF IsPublished, Remembered
  <2>7. \A j \in DOMAIN listed : listed[j].id = m => listed[j].id \in Kept /\ IsPublished(listed[j])
    <3> SUFFICES ASSUME NEW j \in DOMAIN listed, listed[j].id = m
                 PROVE  listed[j].id \in Kept /\ IsPublished(listed[j])
      OBVIOUS
    <3>1. j = i
      BY <2>2 DEF InFlightOnce
    <3> QED BY <2>1, <2>2, <2>4, <3>1
  <2>8. \A j \in batch' : listed[j].id # m
    <3>1. batch' = Oldest({j \in DOMAIN listed : ~ (listed[j].id \in Kept /\ IsPublished(listed[j]))})
      BY DEF Rescan
    <3>2. batch' \subseteq {j \in DOMAIN listed : ~ (listed[j].id \in Kept /\ IsPublished(listed[j]))}
      BY <3>1 DEF Oldest
    <3> QED BY <2>7, <3>2
  <2>9. ~ InFlight(m)'
    BY <1>1, <2>8 DEF InFlight
  <2> QED BY <1>1, <1>2, <2>1, <2>5, <2>6, <2>9 DEF Settled
<1> QED BY <1>3, <1>4

\* A fetch moves a message from the batch to the messages, or out of the cycle.
LEMMA FetchSettled ==
    ASSUME TypeInv, InFlightOnce, Fetch, NEW m \in Mail, Settled(m)
    PROVE  Settled(m)'
<1>1. PICK i \in batch : FetchMessage(i) \/ FetchMime(i) \/ SkipGone(i)
  BY DEF Fetch
<1>2. /\ UNCHANGED <<now, where, modifiedAt, publishedAt, publishedVersion, acked, listed, index>>
      /\ pc' \notin {"listing", "listed"} /\ batch' \subseteq batch
  BY <1>1 DEF Fetch, FetchMessage, FetchMime, SkipGone, memory, mailboxVars, serviceVars
<1>3. ASSUME NEW x, messages' = Append(messages, x), x.id = listed[i].id
      PROVE  InFlight(m)' => InFlight(m)
  <2>1. \A k \in DOMAIN messages' : \/ k \in DOMAIN messages /\ messages'[k] = messages[k]
                                    \/ messages'[k] = x
    BY <1>3 DEF TypeInv, TypeOK, PollerTypeOK
  <2> QED BY <1>2, <1>3, <2>1 DEF InFlight
<1>4. CASE messages' = messages
  BY <1>2, <1>4, StaysSettled DEF InFlight
<1>5. CASE FetchMessage(i) /\ messages' # messages
  <2>1. PICK x : x = [id |-> listed[i].id, modified |-> Stamp(listed[i].id),
                      body |-> modifiedAt[listed[i].id], mime |-> None]
    OBVIOUS
  <2>2. messages' = Append(messages, x) /\ x.id = listed[i].id
    BY <1>5, <2>1 DEF FetchMessage
  <2> QED BY <1>2, <1>3, <2>2, StaysSettled
<1>6. CASE FetchMime(i)
  <2>1. current \in Message /\ current.id = listed[i].id
    BY <1>6 DEF FetchMime, TypeInv, TypeOK, Control, PollerTypeOK, Maybe, InFlightOnce
  <2>2. PICK x : x = [current EXCEPT !.mime = modifiedAt[current.id]]
    OBVIOUS
  <2>3. messages' = Append(messages, x) /\ x.id = listed[i].id
    BY <1>6, <2>1, <2>2 DEF FetchMime, Message
  <2> QED BY <1>2, <1>3, <2>3, StaysSettled
<1> QED BY <1>1, <1>4, <1>5, <1>6 DEF SkipGone

\* A poll unsettles no acknowledgement, whether it returns or fails.
LEMMA PollSettled ==
    ASSUME TypeInv, ModifiedHold = None, Background, InFlightOnce, FitsAPage,
           StartCycle \/ List \/ Fetch \/ PollFails \/ PollDone,
           NEW m \in Mail, acked[m] # None, Settled(m)
    PROVE  Settled(m)'
<1>1. CASE PollFails
  <2>1. /\ UNCHANGED <<now, where, modifiedAt, publishedAt, publishedVersion, acked>>
        /\ pc' = "idle" /\ batch' = {} /\ messages' = <<>>
    BY <1>1 DEF PollFails, PollRaises, memory, mailboxVars
  <2> QED BY <2>1, StaysSettled DEF InFlight
<1>2. CASE PollDone
  <2>1. /\ UNCHANGED <<now, where, modifiedAt, publishedAt, publishedVersion, acked, messages>>
        /\ pc' = "draining" /\ batch' = {} /\ index' = 0 /\ index = 0
    BY <1>2 DEF PollDone, PollReturns, memory, mailboxVars, TypeInv, Control, Drain
  <2> QED BY <2>1, StaysSettled DEF InFlight
<1> QED BY <1>1, <1>2, StartSettled, ListSettled, RescanSettled, FetchSettled DEF List, Background

\* A publish of what the folder holds settles it: the record has its present
\* stamp, and nothing else of it is in flight.
LEMMA PublishSettles ==
    ASSUME TypeInv, TypeInv', Sane, Admitted, InFlightOnce, Publish, IsCurrent(InHand),
           NEW m \in Mail, m = InHand.id
    PROVE  Settled(m)'
<1>1. /\ index + 1 \in DOMAIN messages /\ InHand = messages[index + 1]
      /\ InHand \in Message /\ InHand.id \in Mail
  BY InHandTyped DEF InHand, Publish
<1>2. /\ UNCHANGED <<now, where, modifiedAt, messages, listed, batch>>
      /\ pc' = "draining" /\ index' = index + 1 /\ acked' = [acked EXCEPT ![m] = now]
      /\ publishedAt' = [publishedAt EXCEPT ![m] = now]
      /\ publishedVersion' = [publishedVersion EXCEPT ![m] = InHand.modified]
  BY DEF Publish, MarkPublished, mailboxVars
<1>3. where[m] = "folder" /\ InHand.body = modifiedAt[m] /\ Promise!Admissible(m)
  BY <1>1 DEF IsCurrent, Admitted
<1>4. InHand.modified = Stamp(m)
  BY <1>1, <1>3 DEF Sane, FetchedSound, Sound, StampOf, Stamp
<1>5. /\ publishedAt'[m] = now /\ acked'[m] = now /\ publishedVersion'[m] = Stamp(m)
      /\ now \in Int /\ now # None
  BY <1>2, <1>4, NoneAssumption DEF TypeInv, TypeOK, MailboxTypeOK, PollerTypeOK, Time
<1>6. IsPublished([id |-> m, modified |-> Stamp(m)])'
  <2>1. Stamp(m)' = Stamp(m)
    BY <1>2 DEF Stamp
  <2>2. Stamp(m) = None \/ Stamp(m) <= Stamp(m)
    BY StampType DEF TypeInv, TypeOK, Maybe, Time
  <2> QED BY <1>5, <2>1, <2>2 DEF IsPublished, Remembered
<1>7. ~ InFlight(m)'
  <2>1. \A i \in batch : listed[i].id # m
    BY <1>1 DEF InFlightOnce
  <2>2. \A i \in DOMAIN messages : i > index + 1 => messages[i].id # m
    <3>1. index \in Nat
      BY DEF TypeInv, TypeOK
    <3>2. \A i \in DOMAIN messages : i > index + 1 => i # index + 1
      BY <3>1 DEF TypeInv, TypeOK, PollerTypeOK
    <3> QED BY <1>1, <3>2 DEF InFlightOnce
  <2> QED BY <1>2, <2>1, <2>2 DEF InFlight
<1>8. Promise!Admissible(m)'
  BY <1>2, <1>3 DEF Promise!Admissible
<1>9. acked'[m] <= now'
  BY <1>2, <1>5
<1> QED BY <1>2, <1>3, <1>5, <1>6, <1>7, <1>8, <1>9 DEF Settled

\* The drain settles what it publishes, and what it leaves was settled before.
LEMMA DrainSettled ==
    ASSUME TypeInv, TypeInv', Background, InFlightOnce,
           FetchAttachments \/ AttachmentsFail \/ Publish \/ PublishFails \/ CycleDone,
           NEW m \in Mail, acked[m] # None => Settled(m), acked'[m] # None
    PROVE  Settled(m)'
<1>1. CASE Publish
  <2>1. /\ index + 1 \in DOMAIN messages /\ InHand = messages[index + 1] /\ InHand.id \in Mail
        /\ index \in Nat
    BY <1>1, InHandTyped DEF InHand, Publish, TypeInv, TypeOK
  <2>2. /\ UNCHANGED <<now, where, modifiedAt, messages, listed, batch>>
        /\ pc' = "draining" /\ index' = index + 1
        /\ acked' = IF IsCurrent(InHand) THEN [acked EXCEPT ![InHand.id] = now] ELSE acked
        /\ publishedAt' = [publishedAt EXCEPT ![InHand.id] = now]
        /\ publishedVersion' = [publishedVersion EXCEPT ![InHand.id] = InHand.modified]
    BY <1>1 DEF Publish, MarkPublished, mailboxVars
  <2>3. InFlight(m)' => InFlight(m)
    BY <2>1, <2>2 DEF InFlight, TypeInv, TypeOK, PollerTypeOK
  <2>4. CASE m # InHand.id
    <3>1. acked'[m] = acked[m] /\ publishedAt'[m] = publishedAt[m] /\ publishedVersion'[m] = publishedVersion[m]
      BY <2>2, <2>4 DEF TypeInv, TypeOK, PollerTypeOK
    <3>2. Settled(m)
      BY <3>1
    <3>3. Due(m)' <=> Due(m)
      BY <2>2, <3>1 DEF Due
    <3>4. IsPublished([id |-> m, modified |-> Stamp(m)])' <=> IsPublished([id |-> m, modified |-> Stamp(m)])
      <4>1. Stamp(m)' = Stamp(m)
        BY <2>2 DEF Stamp
      <4> QED BY <3>1, <4>1 DEF IsPublished, Remembered
    <3>5. Promise!Admissible(m)' <=> Promise!Admissible(m)
      BY <2>2 DEF Promise!Admissible
    <3> QED BY <2>2, <2>3, <3>1, <3>2, <3>3, <3>4, <3>5 DEF Settled
  <2>5. CASE m = InHand.id /\ IsCurrent(InHand)
    BY <1>1, <2>5, PublishSettles DEF Background
  <2>6. CASE m = InHand.id /\ ~ IsCurrent(InHand)
    <3>1. acked' = acked
      BY <2>2, <2>6
    <3>2. Settled(m)
      BY <3>1
    <3>3. InFlight(m)
      <4>1. index + 1 > index
        BY <2>1
      <4> QED BY <2>1, <2>6, <4>1 DEF InFlight
    <3>4. Due(m)
      BY <3>2, <3>3 DEF Settled
    <3>5. Due(m)' /\ (Promise!Admissible(m)' <=> Promise!Admissible(m))
      BY <2>2, <3>1, <3>4 DEF Due, Promise!Admissible
    <3> QED BY <2>2, <3>1, <3>2, <3>5 DEF Settled
  <2> QED BY <2>4, <2>5, <2>6
<1>2. CASE FetchAttachments
  <2>1. /\ UNCHANGED <<now, where, modifiedAt, publishedAt, publishedVersion, acked, batch, listed, messages, index>>
        /\ pc' = "publish"
    BY <1>2 DEF FetchAttachments, memory, mailboxVars
  <2> QED BY <2>1, StaysSettled DEF InFlight
<1>3. CASE AttachmentsFail \/ PublishFails \/ CycleDone
  <2>1. /\ UNCHANGED <<now, where, modifiedAt, publishedAt, publishedVersion, acked, batch, listed>>
        /\ pc' = "idle" /\ messages' = <<>>
    BY <1>3 DEF AttachmentsFail, PublishFails, CycleDone, StopBatch, EndCycle, memory, mailboxVars
  <2> QED BY <2>1, StaysSettled DEF InFlight
<1> QED BY <1>1, <1>2, <1>3

\* A change of the mail ends its acknowledgement, and so does a crash; the clock
\* only brings the republish nearer.
LEMMA OutsideSettled ==
    ASSUME TypeInv, TypeInv', AckedSettled, Crash \/ Environment \/ UNCHANGED vars,
           NEW m \in Mail, acked'[m] # None
    PROVE  Settled(m)'
<1>1. CASE Crash
  BY <1>1 DEF Crash
<1>2. CASE Environment
  <2>1. /\ MailboxNext /\ where'[m] = "folder" /\ modifiedAt'[m] = modifiedAt[m] /\ acked'[m] = acked[m]
        /\ UNCHANGED <<publishedAt, publishedVersion, pc, window, listed, batch, messages, index>>
    BY <1>2 DEF Environment, pollerVars, memory, pollVars, serviceVars
  <2>2. Settled(m)
    BY <2>1 DEF AckedSettled
  <2>3. now \in Int /\ now' \in Int /\ now <= now' /\ acked[m] \in Int
    <3>1. CASE Tick
      BY <2>1, <3>1 DEF Tick, TypeInv, TypeOK, MailboxTypeOK, Time, Maybe
    <3>2. CASE UNCHANGED now
      BY <2>1, <3>2 DEF TypeInv, TypeOK, MailboxTypeOK, Time, Maybe
    <3> QED BY <2>1, <3>1, <3>2 DEF MailboxNext, Arrive, Modify, MoveOut, Delete
  <2>4. Due(m) => Due(m)'
    BY <2>1, <2>3, PollerAssumption DEF Due, Maybe
  <2>5. Promise!Admissible(m)'
    BY <2>1, <2>2, AdmissionLasts DEF Settled
  <2>6. Stamp(m)' = Stamp(m)
    BY <2>1 DEF Stamp
  <2>7. IsPublished([id |-> m, modified |-> Stamp(m)])' <=> IsPublished([id |-> m, modified |-> Stamp(m)])
    BY <2>1, <2>6 DEF IsPublished, Remembered
  <2>8. InFlight(m)' <=> InFlight(m)
    BY <2>1 DEF InFlight
  <2>9. /\ pc' = "listing" => m \in Matching(window.until, window.modifiedUntil)'
        /\ pc' = "listed" => \E i \in DOMAIN listed' : listed'[i] = [id |-> m, modified |-> Stamp(m)']
    BY <2>1, <2>2, <2>6 DEF Settled, Matching
  <2> QED BY <2>1, <2>2, <2>3, <2>4, <2>5, <2>7, <2>8, <2>9 DEF Settled
<1>3. CASE UNCHANGED vars
  <2>1. Settled(m)' <=> Settled(m)
    BY <1>3 DEF vars, mailboxVars, pollerVars, memory, pollVars, serviceVars, Settled, Due, InFlight,
       IsPublished, Remembered, Stamp, Matching, Promise!Admissible
  <2> QED BY <1>3, <2>1 DEF AckedSettled, vars
<1> QED BY <1>1, <1>2, <1>3

\* Every step keeps what is acknowledged remembered until it is due.
LEMMA StepSettled ==
    ModifiedHold = None /\ FitsAPage /\ Background /\ TypeInv' /\ AckedSettled /\ [Next]_vars
    => AckedSettled'
<1> SUFFICES ASSUME ModifiedHold = None, FitsAPage, Background, TypeInv', AckedSettled, [Next]_vars
             PROVE  AckedSettled'
  OBVIOUS
<1>1. TypeInv /\ InFlightOnce
  BY DEF Background, AckedSettled
<1>2. InFlightOnce'
  BY <1>1, PollOnce, RestOnce DEF Next, ConnectorStep
<1>3. ASSUME NEW m \in Mail, acked'[m] # None
      PROVE  Settled(m)'
  <2>1. CASE StartCycle \/ List \/ Fetch \/ PollFails \/ PollDone
    <3>1. acked' = acked
      BY <2>1 DEF StartCycle, List, Fetch, PollFails, PollDone
    <3>2. acked[m] # None /\ Settled(m)
      BY <1>3, <3>1 DEF AckedSettled
    <3> QED BY <1>1, <2>1, <3>2, PollSettled
  <2>2. CASE FetchAttachments \/ AttachmentsFail \/ Publish \/ PublishFails \/ CycleDone
    BY <1>1, <1>3, <2>2, DrainSettled DEF AckedSettled
  <2>3. CASE Crash \/ Environment \/ UNCHANGED vars
    BY <1>1, <1>3, <2>3, OutsideSettled
  <2> QED BY <2>1, <2>2, <2>3 DEF Next, ConnectorStep
<1> QED BY <1>2, <1>3 DEF AckedSettled

\* What is published although its version was acknowledged was in flight, so it
\* was due.
LEMMA PublishedWhenDue ==
    AckedSettled /\ TypeInv /\ [Next]_vars =>
        [Publish /\ acked[InHand.id] # None =>
            /\ RepublishAfter # None
            /\ now - acked[InHand.id] >= RepublishAfter]_vars
<1> SUFFICES ASSUME AckedSettled, TypeInv, Publish, acked[InHand.id] # None
             PROVE  Due(InHand.id)
  BY DEF Due
<1>1. /\ index + 1 \in DOMAIN messages /\ InHand = messages[index + 1] /\ InHand.id \in Mail
      /\ index \in Nat
  BY InHandTyped DEF InHand, Publish, TypeInv, TypeOK
<1>2. InFlight(InHand.id)
  <2>1. index + 1 > index
    BY <1>1
  <2> QED BY <1>1, <2>1 DEF InFlight
<1> QED BY <1>1, <1>2 DEF AckedSettled, Settled

\* A version acknowledged in this process lifetime is remembered as it is until
\* it is due, and not in flight before: no interleaving of the cycle with the
\* mailbox and no failure drops it from the record, while every listing asks
\* for no more than a page and no hold hides mail that was listed before.
THEOREM AlwaysSettled ==
    ASSUME ModifiedHold = None
    PROVE  Spec /\ []FitsAPage => []AckedSettled
<1>1. Init => Background /\ AckedSettled
  BY InitTyped, InitSane, InitAdmitted, InitWithin, InitSettled DEF Background
<1>2. Background /\ [Next]_vars => Background'
  BY StepTyped, StepSane, PollAdmitted, DrainAdmitted, OutsideAdmitted, StepWithin
     DEF Background, Next, ConnectorStep
<1>3. FitsAPage /\ Background /\ AckedSettled /\ [Next]_vars => AckedSettled'
  <2>1. Background' => TypeInv'
    BY DEF Background
  <2> QED BY <1>2, <2>1, StepSettled
<1> QED BY <1>1, <1>2, <1>3, PTL DEF Spec

\* A version that was acknowledged is not published again while it stays in the
\* folder, but for republish_after_minutes (config.py:99).
THEOREM NeverPublishedTwice ==
    ASSUME ModifiedHold = None
    PROVE  Spec /\ []FitsAPage => PublishedOnce
<1>1. Spec => []TypeInv
  BY InitTyped, StepTyped, PTL DEF Spec
<1>2. Spec /\ []FitsAPage => []AckedSettled
  BY AlwaysSettled
<1> QED BY <1>1, <1>2, PublishedWhenDue, PTL DEF Spec, PublishedOnce

\* Nor is it asked for again: what the batch holds is in flight, so it was due.
THEOREM NeverFetchedTwice ==
    ASSUME ModifiedHold = None
    PROVE  Spec /\ []FitsAPage => FetchedOnce
<1>1. AckedSettled /\ TypeInv =>
        \A i \in batch : FetchMessage(i) /\ acked[listed[i].id] # None => Due(listed[i].id)
  <2> SUFFICES ASSUME AckedSettled, TypeInv, NEW i \in batch, acked[listed[i].id] # None
               PROVE  Due(listed[i].id)
    OBVIOUS
  <2>1. InFlight(listed[i].id)
    BY DEF InFlight
  <2>2. listed[i].id \in Mail
    <3>1. i \in DOMAIN listed /\ listed[i] \in Stub
      BY DEF TypeInv, TypeOK, PollerTypeOK
    <3> QED BY <3>1 DEF Stub
  <2> QED BY <2>1, <2>2 DEF AckedSettled, Settled
<1>2. AckedSettled /\ TypeInv =>
        [ \A i \in batch : FetchMessage(i) /\ acked[listed[i].id] # None => Due(listed[i].id) ]_vars
  BY <1>1
<1>3. Spec => []TypeInv
  BY InitTyped, StepTyped, PTL DEF Spec
<1> QED BY <1>2, <1>3, AlwaysSettled, PTL DEF Spec, FetchedOnce

=============================================================================
