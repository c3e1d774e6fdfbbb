-------------------------- MODULE ConnectorProofs --------------------------
(***************************************************************************)
(* Theorems about Connector, for every set of messages, every setting and  *)
(* every bound.                                                            *)
(***************************************************************************)
EXTENDS ConnectorInvariant, FiniteSetTheorems, TLAPS

-----------------------------------------------------------------------------
(* Type correctness.                                                       *)

\* The mailbox moves on without the connector; clock and stamps stay in range.
LEMMA MailboxTyped ==
    ASSUME MailboxTypeOK, MailboxNext
    PROVE  /\ MailboxTypeOK'
           /\ \A m \in Mail : modifiedAt[m] <= modifiedAt'[m]
<1> USE MaxTimeAssumption DEF MailboxTypeOK, Time
<1>1. CASE Tick BY <1>1 DEF Tick
<1>2. ASSUME NEW m \in Mail, Arrive(m) \/ Modify(m) \/ MoveOut(m)
      PROVE  MailboxTypeOK' /\ \A k \in Mail : modifiedAt[k] <= modifiedAt'[k]
  BY <1>2 DEF Arrive, Modify, MoveOut, Touch, Places
<1>3. ASSUME NEW m \in Mail, Delete(m)
      PROVE  MailboxTypeOK' /\ \A k \in Mail : modifiedAt[k] <= modifiedAt'[k]
  BY <1>3 DEF Delete, Places
<1> QED BY <1>1, <1>2, <1>3 DEF MailboxNext

\* A response's stamp is a stamp.
LEMMA StampType ==
    ASSUME MailboxTypeOK, NEW m \in Mail
    PROVE  Stamp(m) \in Maybe(Time)
BY ShownAssumption DEF MailboxTypeOK, Stamp, Maybe

\* A page holds mail of the listing.
LEMMA PageType ==
    ASSUME NEW S \in SUBSET Mail, NEW order \in Listings(S), NEW skip \in Nat
    PROVE  Page(order, skip) \in Seq(Mail)
<1>1. IsFiniteSet(S) BY MailAssumption, FS_Subset
<1>2. Cardinality(S) \in Nat BY <1>1, FS_CardinalityType
<1>3. order \in [1..Cardinality(S) -> Mail] BY DEF Listings
<1>4. order \in Seq(Mail) /\ Len(order) = Cardinality(S) BY <1>2, <1>3
<1> QED BY <1>4, PageSizeAssumption DEF Page

TypeInv == TypeOK /\ Control

\* The process starts idle and well typed.
LEMMA InitTyped == Init => TypeInv
BY MaxTimeAssumption, ConnectorAssumption
   DEF Init, MailboxInit, PollerInit, TypeInv, TypeOK, MailboxTypeOK, PollerTypeOK, Control,
       Drain, Time, Maybe, Places, Window, NoWindow, Summary, NewSummary, Sources

\* Every step of poll_mailbox keeps the types, and the index at its start.
LEMMA PollTyped ==
    ASSUME TypeInv, StartCycle \/ List \/ Fetch \/ PollFails \/ PollDone
    PROVE  TypeInv'
<1> USE DEF TypeInv, TypeOK, Control, Drain
<1>1. CASE StartCycle
  <2>1. \A hold \in Maybe(Nat \ {0}) : HeldBack(hold) \in Maybe(Int)
    BY DEF HeldBack, Maybe, MailboxTypeOK, Time
  <2>2. window' \in Window
    BY <1>1, <2>1, PollerAssumption DEF StartCycle, BeginListing, Window
  <2> QED
    BY <1>1, <2>2
       DEF StartCycle, BeginListing, memory, mailboxVars, MailboxTypeOK, PollerTypeOK,
           Summary, NewSummary, Sources
<1>2. CASE List
  <2>1. CASE ListPage
    <3> DEFINE S == Matching(window.until, window.modifiedUntil)
    <3>1. PICK order \in Listings(S) :
            LET page == Page(order, Len(listed)) IN
            /\ listed' = listed \o [i \in 1..Len(page) |->
                                      [id |-> page[i], modified |-> Stamp(page[i])]]
            /\ pc' \in {"listing", "listed"}
      BY <2>1 DEF ListPage
    <3> DEFINE page == Page(order, Len(listed))
               stubs == [i \in 1..Len(page) |-> [id |-> page[i], modified |-> Stamp(page[i])]]
    <3>2. page \in Seq(Mail)
      BY PageType DEF PollerTypeOK, Matching
    <3>3. stubs \in Seq(Stub)
      <4>1. \A i \in 1..Len(page) : page[i] \in Mail
        BY <3>2
      <4>2. \A i \in 1..Len(page) : [id |-> page[i], modified |-> Stamp(page[i])] \in Stub
        BY <4>1, StampType DEF Stub
      <4>3. Len(page) \in Nat
        BY <3>2
      <4> QED BY <4>2, <4>3
    <3>4. listed' \in Seq(Stub) /\ DOMAIN listed \subseteq DOMAIN listed'
      BY <3>1, <3>3 DEF PollerTypeOK
    <3> QED
      BY <1>2, <2>1, <3>1, <3>4
         DEF ListPage, List, memory, mailboxVars, serviceVars, MailboxTypeOK, PollerTypeOK
  <2>2. CASE Rescan
    <3>1. batch' \subseteq DOMAIN listed
      BY <2>2 DEF Rescan, Oldest
    <3>2. pc' = "fetching" /\ current' = None /\ index' = 0
      BY <1>2, <2>2 DEF Rescan, List, serviceVars
    <3>3. publishedAt' \in [Mail -> Maybe(Time)] /\ publishedVersion' \in [Mail -> Maybe(Time)]
      BY <2>2 DEF Rescan, PollerTypeOK, Maybe
    <3>4. lastListed' \in Nat /\ UNCHANGED <<window, listed, current, messages>>
      BY <2>2 DEF Rescan, PollerTypeOK
    <3> QED
      BY <1>2, <3>1, <3>2, <3>3, <3>4
         DEF List, mailboxVars, serviceVars, MailboxTypeOK, PollerTypeOK
  <2> QED BY <1>2, <2>1, <2>2 DEF List
<1>3. CASE Fetch
  <2>1. PICK i \in batch : FetchMessage(i) \/ FetchMime(i) \/ SkipGone(i)
    BY <1>3 DEF Fetch
  <2>2. listed[i].id \in Mail
    <3>1. i \in DOMAIN listed
      BY DEF PollerTypeOK
    <3>2. listed[i] \in Stub
      BY <3>1 DEF PollerTypeOK
    <3> QED BY <3>2 DEF Stub
  <2>3. CASE FetchMessage(i)
    <3> DEFINE m == listed[i].id
               message == [id |-> m, modified |-> Stamp(m), body |-> modifiedAt[m], mime |-> None]
    <3>1. message \in Message
      BY <2>2, StampType DEF Message, MailboxTypeOK, Maybe
    <3>2. CASE IncludeMime
      <4>1. current' = message /\ pc' = "mime" /\ UNCHANGED <<messages, batch>>
        BY <2>3, <3>2 DEF FetchMessage
      <4>2. current' # None
        BY <3>1, <4>1, MessageAssumption
      <4> HIDE DEF message
      <4> QED
        BY <1>3, <2>3, <3>1, <4>1, <4>2
           DEF FetchMessage, Fetch, memory, mailboxVars, serviceVars, MailboxTypeOK, PollerTypeOK, Maybe
    <3>3. CASE ~ IncludeMime
      <4>1. /\ messages' = Append(messages, message)
            /\ batch' = batch \ {i}
            /\ UNCHANGED <<current, pc>>
        BY <2>3, <3>3 DEF FetchMessage
      <4> HIDE DEF message
      <4>2. messages' \in Seq(Message) /\ Len(messages') = Len(messages) + 1
        BY <3>1, <4>1 DEF PollerTypeOK
      <4> QED
        BY <1>3, <2>3, <4>1, <4>2
           DEF FetchMessage, Fetch, memory, mailboxVars, serviceVars, MailboxTypeOK, PollerTypeOK
    <3> QED BY <3>2, <3>3
  <2>4. CASE FetchMime(i)
    <3>1. current \in Message
      BY <2>4 DEF FetchMime, PollerTypeOK, Maybe
    <3>2. [current EXCEPT !.mime = modifiedAt[current.id]] \in Message
      BY <3>1 DEF Message, MailboxTypeOK, Maybe
    <3> QED
      BY <1>3, <2>4, <3>2
         DEF FetchMime, Fetch, memory, mailboxVars, serviceVars, MailboxTypeOK, PollerTypeOK, Maybe
  <2>5. CASE SkipGone(i)
    BY <1>3, <2>5
       DEF SkipGone, Fetch, memory, mailboxVars, serviceVars, MailboxTypeOK, PollerTypeOK, Maybe
  <2> QED BY <2>1, <2>3, <2>4, <2>5
<1>4. CASE PollFails
  <2>1. summary' = [summary EXCEPT !.source = "graph"]
    BY <1>4 DEF PollFails
  <2>2. summary' \in Summary
    BY <2>1 DEF Summary, Sources
  <2>3. faults' \in 0..MaxFaults
    BY <1>4, ConnectorAssumption DEF PollFails, Fault
  <2> QED BY <1>4, <2>2, <2>3
     DEF PollFails, PollRaises, memory, mailboxVars, MailboxTypeOK, PollerTypeOK, Maybe, Window, NoWindow
<1>5. CASE PollDone
  <2>1. summary' = [summary EXCEPT !.listed = lastListed, !.fetched = Len(messages)]
    BY <1>5 DEF PollDone
  <2>2. Len(messages) \in Nat /\ lastListed \in Nat
    BY DEF PollerTypeOK
  <2>3. summary' \in Summary
    BY <2>1, <2>2 DEF Summary, Sources
  <2> QED
    BY <1>5, <2>2, <2>3
       DEF PollDone, PollReturns, memory, mailboxVars, MailboxTypeOK, PollerTypeOK, Maybe, Window, NoWindow
<1> QED BY <1>1, <1>2, <1>3, <1>4, <1>5

\* The message being published.
LEMMA InHandTyped ==
    ASSUME TypeInv, Draining \/ pc = "publish"
    PROVE  /\ index + 1 \in DOMAIN messages
           /\ InHand \in Message
           /\ InHand.id \in Mail
<1>1. messages \in Seq(Message) /\ index + 1 \in 1..Len(messages)
  BY DEF TypeInv, TypeOK, Control, PollerTypeOK, Draining
<1>2. messages[index + 1] \in Message
  BY <1>1
<1> QED BY <1>1, <1>2 DEF InHand, Message

\* A cycle that ends leaves nothing of itself behind.
LEMMA EndCycleTyped ==
    ASSUME TypeInv, pc \in Drain, EndCycle, UNCHANGED <<mailboxVars, lastListed>>,
           publishedAt' \in [Mail -> Maybe(Time)],
           publishedVersion' \in [Mail -> Maybe(Time)]
    PROVE  MailboxTypeOK' /\ PollerTypeOK' /\ Control' /\ index' \in Nat /\ attachments' \in Maybe(Time)
BY DEF TypeInv, TypeOK, Control, Drain, EndCycle, mailboxVars, MailboxTypeOK, PollerTypeOK, Maybe

\* A failure in the drain ends the cycle well typed, whatever it is blamed on.
LEMMA StopBatchTyped ==
    ASSUME TypeInv, pc \in Drain, NEW source \in Sources, StopBatch(source), UNCHANGED mailboxVars
    PROVE  /\ MailboxTypeOK' /\ PollerTypeOK' /\ Control'
           /\ index' \in Nat /\ attachments' \in Maybe(Time) /\ summary' \in Summary
<1>1. summary' = [summary EXCEPT !.source = source, !.dropped = summary.fetched - index]
  BY DEF StopBatch
<1>2. summary.fetched - index \in Int
  BY DEF TypeInv, TypeOK, Summary
<1>3. summary' \in Summary
  BY <1>1, <1>2 DEF TypeInv, TypeOK, Summary
<1> QED BY <1>3, EndCycleTyped DEF StopBatch, memory, TypeInv, TypeOK, PollerTypeOK

\* What publish() puts on the bus is an event.
LEMMA AcceptTyped ==
    ASSUME TypeInv, pc = "publish", Accept
    PROVE  bus' \in [Mail -> Maybe(Event)]
<1> DEFINE event == [modified |-> InHand.modified, body |-> InHand.body,
                     mime |-> InHand.mime, attachments |-> attachments]
<1>1. event \in Event
  BY InHandTyped DEF Event, Message, TypeInv, TypeOK
<1>2. bus' = [bus EXCEPT ![InHand.id] = event]
  BY DEF Accept
<1> HIDE DEF event
<1> QED BY <1>1, <1>2 DEF TypeInv, TypeOK, Maybe

\* Every step of the drain keeps the types, and the index within the batch.
LEMMA DrainTyped ==
    ASSUME TypeInv, FetchAttachments \/ AttachmentsFail \/ Publish \/ PublishFails \/ CycleDone
    PROVE  TypeInv'
<1>1. CASE FetchAttachments
  <2>1. attachments' \in Maybe(Time)
    BY <1>1, InHandTyped DEF FetchAttachments, TypeInv, TypeOK, MailboxTypeOK, Maybe
  <2> QED
    BY <1>1, <2>1
       DEF FetchAttachments, Draining, memory, mailboxVars, TypeInv, TypeOK, Control, Drain,
           MailboxTypeOK, PollerTypeOK
<1>2. CASE AttachmentsFail
  <2>1. PICK source \in Sources : StopBatch(source)
    BY <1>2 DEF AttachmentsFail, Sources
  <2>2. faults' \in 0..MaxFaults
    BY <1>2, ConnectorAssumption DEF AttachmentsFail, Fault, TypeInv, TypeOK
  <2> QED
    BY <1>2, <2>1, <2>2, StopBatchTyped DEF AttachmentsFail, Draining, Drain, mailboxVars, TypeInv, TypeOK
<1>3. CASE Publish
  <2>1. pc = "publish" /\ Accept /\ MarkPublished(InHand)
    BY <1>3 DEF Publish
  <2>2. /\ publishedAt' \in [Mail -> Maybe(Time)]
        /\ publishedVersion' \in [Mail -> Maybe(Time)]
    BY <2>1, InHandTyped
       DEF MarkPublished, Message, TypeInv, TypeOK, MailboxTypeOK, PollerTypeOK, Maybe
  <2>3. summary' \in Summary
    <3>1. summary' = [summary EXCEPT !.published = @ + 1]
      BY <1>3 DEF Publish
    <3> QED BY <3>1 DEF TypeInv, TypeOK, Summary
  <2>4. acked' \in [Mail -> Maybe(Time)]
    BY <1>3, InHandTyped DEF Publish, TypeInv, TypeOK, MailboxTypeOK, Maybe
  <2>5. bus' \in [Mail -> Maybe(Event)]
    BY <2>1, AcceptTyped
  <2>6. index' \in Nat /\ index' <= Len(messages)
    BY <1>3, <2>1 DEF Publish, TypeInv, TypeOK, Control, PollerTypeOK
  <2> QED
    BY <1>3, <2>2, <2>3, <2>4, <2>5, <2>6
       DEF Publish, mailboxVars, TypeInv, TypeOK, Control, Drain, MailboxTypeOK, PollerTypeOK, Maybe
<1>4. CASE PublishFails
  <2>1. StopBatch("bus") /\ pc = "publish"
    BY <1>4 DEF PublishFails
  <2>2. faults' \in 0..MaxFaults
    BY <1>4, ConnectorAssumption DEF PublishFails, Fault, TypeInv, TypeOK
  <2>3. bus' \in [Mail -> Maybe(Event)]
    BY <1>4, AcceptTyped DEF PublishFails, TypeInv, TypeOK
  <2> QED
    BY <1>4, <2>1, <2>2, <2>3, StopBatchTyped DEF PublishFails, Drain, mailboxVars, TypeInv, TypeOK, Sources
<1>5. CASE CycleDone
  BY <1>5, EndCycleTyped DEF CycleDone, Drain, memory, mailboxVars, TypeInv, TypeOK, PollerTypeOK
<1> QED BY <1>1, <1>2, <1>3, <1>4, <1>5

\* So do a crash and whatever happens in the mailbox.
LEMMA OutsideTyped ==
    ASSUME TypeInv, Crash \/ Environment \/ UNCHANGED vars
    PROVE  TypeInv'
<1>1. CASE Crash
  BY <1>1, ConnectorAssumption
     DEF Crash, Fault, mailboxVars, TypeInv, TypeOK, Control, Drain, MailboxTypeOK, PollerTypeOK,
         Maybe, Window, NoWindow, Summary, NewSummary, Sources
<1>2. CASE Environment
  <2>1. MailboxTypeOK'
    BY <1>2, MailboxTyped DEF Environment, TypeInv, TypeOK
  <2>2. acked' \in [Mail -> Maybe(Time)]
    BY <1>2 DEF Environment, TypeInv, TypeOK, Maybe
  <2> QED
    BY <1>2, <2>1, <2>2
       DEF Environment, pollerVars, memory, pollVars, serviceVars, TypeInv, TypeOK, Control, Drain, PollerTypeOK
<1>3. CASE UNCHANGED vars
  BY <1>3
     DEF vars, pollerVars, memory, pollVars, serviceVars, mailboxVars, TypeInv, TypeOK, Control, Drain,
         MailboxTypeOK, PollerTypeOK
<1> QED BY <1>1, <1>2, <1>3

\* TypeInv is inductive.
LEMMA StepTyped == TypeInv /\ [Next]_vars => TypeInv'
BY PollTyped, DrainTyped, OutsideTyped DEF Next, ConnectorStep

\* Every variable keeps its type, and a phase of the cycle holds what it needs:
\* a message while its MIME is fetched, one not yet published while publishing.
THEOREM TypeCorrect == Spec => [](TypeOK /\ Control)
<1>1. Spec => []TypeInv
  BY InitTyped, StepTyped, PTL DEF Spec
<1> QED BY <1>1, PTL DEF TypeInv

-----------------------------------------------------------------------------
(* What is suppressed is current.                                          *)

Sane == FetchedSound /\ BusSound /\ InOrder /\ RecordSound

\* Nothing is in flight, published or remembered at the start.
LEMMA InitSane == Init => Sane
BY DEF Init, PollerInit, Sane, FetchedSound, BusSound, InOrder, RecordSound, Remembered

\* Where a cycle ends nothing is in flight; forgetting mail does no harm.
LEMMA NothingInFlight ==
    ASSUME TypeInv, Sane, UNCHANGED <<mailboxVars, bus>>,
           messages' = <<>>, current' = None, pc' # "publish",
           \A m \in Mail : \/ publishedAt'[m] = None
                           \/ /\ publishedAt'[m] = publishedAt[m]
                              /\ publishedVersion'[m] = publishedVersion[m]
    PROVE  Sane'
<1>1. FetchedSound' /\ InOrder'
  BY DEF FetchedSound, InOrder
<1>2. BusSound'
  BY DEF Sane, BusSound, ReadSince, mailboxVars
<1>3. RecordSound'
  BY DEF Sane, RecordSound, Remembered, mailboxVars
<1> QED BY <1>1, <1>2, <1>3 DEF Sane

\* Changes of the mailbox leave everything read before them sound.
LEMMA MailboxMovesOn ==
    ASSUME TypeInv, Sane, Environment
    PROVE  Sane'
<1>1. \A m \in Mail : modifiedAt[m] <= modifiedAt'[m]
  BY MailboxTyped DEF Environment, TypeInv, TypeOK
<1>2. \A m \in Mail : modifiedAt[m] \in Int /\ modifiedAt'[m] \in Int
  BY MailboxTyped DEF Environment, TypeInv, TypeOK, MailboxTypeOK, Time
<1>3. UNCHANGED <<publishedAt, publishedVersion, pc, current, messages, index, attachments, bus>>
  BY DEF Environment, pollerVars, memory, pollVars, serviceVars
<1>4. \A m \in Mail, v, part \in Maybe(Time) :
         v # None /\ ReadSince(v, part, m) => ReadSince(v, part, m)'
  BY <1>1, <1>2 DEF ReadSince, Maybe, Time
<1>5. \A message \in Message : Sound(message) => Sound(message)'
  <2> SUFFICES ASSUME NEW message \in Message, Sound(message) PROVE Sound(message)'
    OBVIOUS
  <2>1. message.id \in Mail /\ message.body \in Time /\ message.mime \in Maybe(Time)
    BY DEF Message
  <2>2. message.body \in Maybe(Time) /\ message.body # None
    BY <2>1, NoneAssumption DEF Maybe, Time
  <2> QED BY <1>1, <1>2, <1>4, <2>1, <2>2 DEF Sound, Time, StampOf
<1>6. FetchedSound'
  <2>1. \A i \in DOMAIN messages : messages[i] \in Message
    BY DEF TypeInv, TypeOK, PollerTypeOK
  <2>2. current # None => current \in Message
    BY DEF TypeInv, TypeOK, PollerTypeOK, Maybe
  <2>3. pc = "publish" => ReadSince(InHand.body, attachments, InHand.id)'
    <3> SUFFICES ASSUME pc = "publish" PROVE ReadSince(InHand.body, attachments, InHand.id)'
      OBVIOUS
    <3>1. InHand.id \in Mail /\ InHand.body \in Time
      BY InHandTyped DEF Message
    <3>2. InHand.body \in Maybe(Time) /\ InHand.body # None
      BY <3>1, NoneAssumption DEF Maybe, Time
    <3>3. InHand' = InHand
      BY <1>3 DEF InHand
    <3>4. attachments \in Maybe(Time)
      BY DEF TypeInv, TypeOK
    <3> QED BY <1>3, <1>4, <3>1, <3>2, <3>3, <3>4 DEF Sane, FetchedSound, ReadSince
  <2> QED BY <1>3, <1>5, <2>1, <2>2, <2>3 DEF Sane, FetchedSound, Sound, ReadSince, StampOf
<1>7. BusSound'
  <2> SUFFICES ASSUME NEW m \in Mail, bus[m] # None
               PROVE  /\ bus[m].body <= modifiedAt'[m]
                      /\ ReadSince(bus[m].body, bus[m].mime, m)'
                      /\ ReadSince(bus[m].body, bus[m].attachments, m)'
    BY <1>3 DEF BusSound, ReadSince
  <2>1. bus[m] \in Event
    BY DEF TypeInv, TypeOK, Maybe
  <2>2. /\ bus[m].body \in Time
        /\ bus[m].mime \in Maybe(Time) /\ bus[m].attachments \in Maybe(Time)
    BY <2>1 DEF Event
  <2> QED BY <1>1, <1>2, <1>3, <2>2 DEF Sane, BusSound, ReadSince, Time, Maybe
<1>8. InOrder'
  BY <1>3 DEF Sane, InOrder
<1>9. RecordSound'
  BY <1>3 DEF Sane, RecordSound, Remembered
<1> QED BY <1>6, <1>7, <1>8, <1>9 DEF Sane

\* A message read now is not older than anything in flight or on the bus.
LEMMA ReadNow ==
    ASSUME TypeInv, Sane, NEW m \in Mail
    PROVE  /\ \A i \in DOMAIN messages : messages[i].id = m => messages[i].body <= modifiedAt[m]
           /\ bus[m] # None => bus[m].body <= modifiedAt[m]
BY DEF Sane, FetchedSound, Sound, BusSound

\* A sound message is added to those fetched, none of them newer.
LEMMA AppendSane ==
    ASSUME TypeInv, Sane, NEW message \in Message, Sound(message),
           pc \in {"fetching", "mime"}, pc' # "publish",
           messages' = Append(messages, message), current' = None,
           UNCHANGED <<mailboxVars, bus, publishedAt, publishedVersion, index, attachments>>,
           \A i \in DOMAIN messages :
               messages[i].id = message.id => messages[i].body <= message.body,
           bus[message.id] # None => bus[message.id].body <= message.body
    PROVE  Sane'
<1>1. /\ DOMAIN messages' = 1..(Len(messages) + 1) /\ DOMAIN messages = 1..Len(messages)
      /\ \A k \in 1..Len(messages) : messages'[k] = messages[k]
      /\ messages'[Len(messages) + 1] = message /\ Len(messages) \in Nat
  BY DEF TypeInv, TypeOK, PollerTypeOK
<1>2. \A x : Sound(x)' <=> Sound(x)
  BY DEF Sound, ReadSince, StampOf, mailboxVars
<1>3. FetchedSound'
  BY <1>1, <1>2 DEF Sane, FetchedSound
<1>4. InOrder'
  BY <1>1 DEF Sane, InOrder
<1>5. BusSound' /\ RecordSound'
  BY DEF Sane, BusSound, RecordSound, Remembered, ReadSince, mailboxVars
<1> QED BY <1>3, <1>4, <1>5 DEF Sane

\* get_email reads the mailbox as it is, so not behind anything read before.
LEMMA FetchMessageSane ==
    ASSUME TypeInv, Sane, NEW i \in batch, FetchMessage(i), UNCHANGED <<mailboxVars, serviceVars, bus>>
    PROVE  Sane'
<1>1. PICK m : m = listed[i].id
  OBVIOUS
<1>2. m \in Mail
  <2>1. i \in DOMAIN listed /\ listed \in Seq(Stub)
    BY DEF TypeInv, TypeOK, PollerTypeOK
  <2>2. listed[i] \in Stub
    BY <2>1
  <2> QED BY <1>1, <2>2 DEF Stub
<1>3. PICK message : message = [id |-> m, modified |-> Stamp(m), body |-> modifiedAt[m], mime |-> None]
  OBVIOUS
<1>4. message \in Message
  BY <1>2, <1>3, StampType DEF TypeInv, TypeOK, MailboxTypeOK, Message, Maybe
<1>5. message.id = m /\ message.body = modifiedAt[m]
  BY <1>3
<1>6. Sound(message)
  <2>1. modifiedAt[m] <= modifiedAt[m]
    BY <1>2 DEF TypeInv, TypeOK, MailboxTypeOK, Time
  <2> QED BY <1>3, <2>1 DEF Sound, ReadSince, Stamp, StampOf
<1>7. /\ \A k \in DOMAIN messages : messages[k].id = m => messages[k].body <= message.body
      /\ bus[m] # None => bus[m].body <= message.body
  BY <1>2, <1>5, ReadNow
<1>8. pc = "fetching" /\ current = None
  BY DEF FetchMessage, TypeInv, Control
<1>9. CASE IncludeMime
  <2>1. current' = message /\ pc' = "mime" /\ messages' = messages
    BY <1>1, <1>3, <1>9 DEF FetchMessage
  <2>2. UNCHANGED <<publishedAt, publishedVersion, index, attachments>>
    BY DEF FetchMessage, memory, serviceVars
  <2>3. \A x : Sound(x)' <=> Sound(x)
    BY DEF Sound, ReadSince, StampOf, mailboxVars
  <2>4. FetchedSound'
    BY <1>6, <2>1, <2>3 DEF Sane, FetchedSound
  <2>5. InOrder'
    BY <1>5, <1>7, <2>1, <2>2 DEF Sane, InOrder
  <2>6. BusSound' /\ RecordSound'
    BY <2>2 DEF Sane, BusSound, RecordSound, Remembered, ReadSince, mailboxVars
  <2> QED BY <2>4, <2>5, <2>6 DEF Sane
<1>10. CASE ~ IncludeMime
  <2>1. messages' = Append(messages, message) /\ current' = None /\ pc' = "fetching"
    BY <1>1, <1>3, <1>8, <1>10 DEF FetchMessage
  <2> QED BY <1>4, <1>5, <1>6, <1>7, <1>8, <2>1, AppendSane DEF FetchMessage, memory, serviceVars
<1> QED BY <1>9, <1>10

\* The MIME is read after the body, perhaps of a newer version.
LEMMA FetchMimeSane ==
    ASSUME TypeInv, Sane, NEW i \in batch, FetchMime(i), UNCHANGED <<mailboxVars, serviceVars, bus>>
    PROVE  Sane'
<1>1. pc = "mime" /\ current # None /\ current \in Message
  BY DEF FetchMime, TypeInv, TypeOK, Control, PollerTypeOK, Maybe
<1>2. current.id \in Mail /\ current.body \in Time /\ modifiedAt[current.id] \in Time
  BY <1>1 DEF Message, TypeInv, TypeOK, MailboxTypeOK
<1>3. PICK message : message = [current EXCEPT !.mime = modifiedAt[current.id]]
  OBVIOUS
<1>4. message \in Message
  BY <1>1, <1>2, <1>3 DEF Message, Maybe
<1>5. /\ message.id = current.id /\ message.body = current.body
      /\ message.modified = current.modified /\ message.mime = modifiedAt[current.id]
  BY <1>1, <1>3 DEF Message
<1>6. Sound(current)
  BY <1>1 DEF Sane, FetchedSound
<1>7. Sound(message)
  BY <1>2, <1>5, <1>6 DEF Sound, ReadSince, Time, StampOf
<1>8. /\ \A k \in DOMAIN messages : messages[k].id = message.id => messages[k].body <= message.body
      /\ bus[message.id] # None => bus[message.id].body <= message.body
  BY <1>1, <1>5 DEF Sane, InOrder
<1>9. messages' = Append(messages, message) /\ current' = None /\ pc' = "fetching"
  BY <1>3 DEF FetchMime
<1> QED BY <1>1, <1>4, <1>7, <1>8, <1>9, AppendSane DEF FetchMime, memory, serviceVars

\* Every step of poll_mailbox keeps what is known consistent.
LEMMA PollSane ==
    ASSUME TypeInv, Sane, StartCycle \/ List \/ Fetch \/ PollFails \/ PollDone
    PROVE  Sane'
<1>1. CASE StartCycle \/ PollDone
  <2>1. /\ UNCHANGED <<now, where, modifiedAt, bus, publishedAt, publishedVersion, current, messages, attachments>>
        /\ pc' # "publish" /\ index' = index
    BY <1>1 DEF StartCycle, BeginListing, PollDone, PollReturns, memory, mailboxVars, TypeInv, Control, Drain
  <2> QED
    BY <2>1 DEF Sane, FetchedSound, Sound, ReadSince, StampOf, BusSound, InOrder, RecordSound, Remembered
<1>2. CASE List
  <2>1. /\ UNCHANGED <<now, where, modifiedAt, bus, current, messages, index, attachments>>
        /\ pc' # "publish"
        /\ \A m \in Mail : \/ publishedAt'[m] = None
                           \/ /\ publishedAt'[m] = publishedAt[m]
                              /\ publishedVersion'[m] = publishedVersion[m]
    BY <1>2 DEF List, ListPage, Rescan, memory, mailboxVars, serviceVars
  <2>2. RecordSound'
    BY <2>1 DEF Sane, RecordSound, Remembered
  <2> QED
    BY <2>1, <2>2 DEF Sane, FetchedSound, Sound, ReadSince, StampOf, BusSound, InOrder
<1>3. CASE Fetch
  <2>1. PICK i \in batch : FetchMessage(i) \/ FetchMime(i) \/ SkipGone(i)
    BY <1>3 DEF Fetch
  <2>2. CASE SkipGone(i)
    <3>1. /\ UNCHANGED <<now, where, modifiedAt, bus, publishedAt, publishedVersion, messages, index, attachments>>
          /\ pc' # "publish" /\ current' = None
      BY <1>3, <2>2 DEF Fetch, SkipGone, memory, mailboxVars, serviceVars
    <3> QED
      BY <3>1 DEF Sane, FetchedSound, Sound, ReadSince, StampOf, BusSound, InOrder, RecordSound, Remembered
  <2> QED BY <1>3, <2>1, <2>2, FetchMessageSane, FetchMimeSane DEF Fetch
<1>4. CASE PollFails
  BY <1>4, NothingInFlight DEF PollFails, PollRaises, memory
<1> QED BY <1>1, <1>2, <1>3, <1>4

\* publish() replaces the last event of a mail by one that is not older.
LEMMA AcceptSane ==
    ASSUME TypeInv, Sane, pc = "publish", Accept, UNCHANGED mailboxVars
    PROVE  /\ BusSound'
           /\ bus'[InHand.id] # None /\ bus'[InHand.id].body = InHand.body
           /\ \A m \in Mail : bus[m] # None => bus'[m] # None /\ bus[m].body <= bus'[m].body
           /\ \A m \in Mail : m # InHand.id => bus'[m] = bus[m]
<1>1. /\ index + 1 \in DOMAIN messages /\ InHand = messages[index + 1]
      /\ InHand \in Message /\ InHand.id \in Mail
  BY InHandTyped DEF InHand
<1>2. PICK event : event = [modified |-> InHand.modified, body |-> InHand.body,
                            mime |-> InHand.mime, attachments |-> attachments]
  OBVIOUS
<1>3. bus' = [bus EXCEPT ![InHand.id] = event] /\ bus \in [Mail -> Maybe(Event)]
  BY <1>2 DEF Accept, TypeInv, TypeOK
<1>4. /\ event.body = InHand.body /\ event.mime = InHand.mime /\ event.attachments = attachments
      /\ event # None
  <2>1. event \in Event
    BY <1>1, <1>2 DEF Event, Message, TypeInv, TypeOK
  <2> QED BY <1>2, <2>1, EventAssumption
<1>5. Sound(InHand) /\ ReadSince(InHand.body, attachments, InHand.id)
  BY <1>1 DEF Sane, FetchedSound
<1>6. bus[InHand.id] # None => bus[InHand.id].body <= InHand.body
  <2>1. index \in Nat /\ index + 1 > index
    BY DEF TypeInv, TypeOK
  <2> QED BY <1>1, <2>1 DEF Sane, InOrder
<1>7. \A m \in Mail : bus'[m] = IF m = InHand.id THEN event ELSE bus[m]
  BY <1>1, <1>3
<1>8. BusSound'
  BY <1>4, <1>5, <1>7 DEF Sane, BusSound, Sound, ReadSince, mailboxVars
<1>9. \A m \in Mail : bus[m] # None => bus[m].body <= bus[m].body
  BY DEF TypeInv, TypeOK, Event, Maybe, Time
<1> QED BY <1>1, <1>4, <1>6, <1>7, <1>8, <1>9

\* The record stays sound while events only get newer.
LEMMA RecordKept ==
    ASSUME TypeInv, TypeInv', Sane, NEW m \in Remembered,
           publishedVersion'[m] = publishedVersion[m],
           bus'[m] # None, bus[m].body <= bus'[m].body
    PROVE  m \notin Unstamped => /\ publishedVersion'[m] # None
                                 /\ publishedVersion'[m] <= Shown[bus'[m].body]
<1> SUFFICES ASSUME m \notin Unstamped
             PROVE  publishedVersion'[m] # None /\ publishedVersion'[m] <= Shown[bus'[m].body]
  OBVIOUS
<1>1. m \in Mail /\ bus[m] # None
  BY DEF Remembered, Sane, RecordSound
<1>2. publishedVersion[m] # None /\ publishedVersion[m] <= Shown[bus[m].body]
  BY DEF Sane, RecordSound
<1>3. bus[m].body \in Time /\ bus'[m].body \in Time
  BY <1>1 DEF TypeInv, TypeOK, Maybe, Event
<1>4. Shown[bus[m].body] <= Shown[bus'[m].body]
  BY <1>3, ShownAssumption
<1>5. Shown[bus[m].body] \in Int /\ Shown[bus'[m].body] \in Int /\ publishedVersion[m] \in Int
  BY <1>1, <1>2, <1>3, ShownAssumption DEF TypeInv, TypeOK, PollerTypeOK, Maybe, Time
<1> QED BY <1>2, <1>4, <1>5

\* A publish moves one message from in flight to the bus and to the record.
LEMMA PublishSane ==
    ASSUME TypeInv, TypeInv', Sane, Publish
    PROVE  Sane'
<1>1. /\ pc = "publish" /\ Accept /\ MarkPublished(InHand) /\ pc' = "draining" /\ index' = index + 1
      /\ UNCHANGED <<now, where, modifiedAt, messages, current>>
  BY DEF Publish, mailboxVars
<1>2. /\ index + 1 \in DOMAIN messages /\ InHand = messages[index + 1]
      /\ InHand \in Message /\ InHand.id \in Mail
  BY <1>1, InHandTyped DEF InHand
<1>3. /\ BusSound'
      /\ bus'[InHand.id] # None /\ bus'[InHand.id].body = InHand.body
      /\ \A m \in Mail : bus[m] # None => bus'[m] # None /\ bus[m].body <= bus'[m].body
      /\ \A m \in Mail : m # InHand.id => bus'[m] = bus[m]
  BY <1>1, AcceptSane DEF mailboxVars
<1>4. FetchedSound'
  BY <1>1 DEF Sane, FetchedSound, Sound, ReadSince, StampOf
<1>5. InOrder'
  <2>1. current = None
    BY <1>1 DEF TypeInv, Control
  <2>2. ASSUME NEW i \in DOMAIN messages, i > index', bus'[messages[i].id] # None
        PROVE  bus'[messages[i].id].body <= messages[i].body
    <3>1. i > index + 1 /\ i > index
      BY <1>1, <2>2 DEF TypeInv, TypeOK, PollerTypeOK
    <3>2. messages[i].id \in Mail
      <4>1. messages[i] \in Message
        BY DEF TypeInv, TypeOK, PollerTypeOK
      <4> QED BY <4>1 DEF Message
    <3>3. CASE messages[i].id = InHand.id
      <4>1. index + 1 < i
        BY <1>2, <3>1 DEF TypeInv, TypeOK, PollerTypeOK
      <4>2. InHand.body <= messages[i].body
        BY <1>2, <3>3, <4>1 DEF Sane, InOrder
      <4> QED BY <1>3, <3>3, <4>2
    <3>4. CASE messages[i].id # InHand.id
      BY <1>3, <2>2, <3>1, <3>2, <3>4 DEF Sane, InOrder
    <3> QED BY <3>3, <3>4
  <2> QED BY <1>1, <2>1, <2>2 DEF Sane, InOrder
<1>6. RecordSound'
  <2> SUFFICES ASSUME NEW m \in Remembered'
               PROVE  /\ bus'[m] # None
                      /\ m \notin Unstamped => /\ publishedVersion'[m] # None
                                               /\ publishedVersion'[m] <= Shown[bus'[m].body]
    BY DEF RecordSound
  <2>1. m \in Mail
    BY DEF Remembered
  <2>2. CASE m = InHand.id
    <3>1. publishedVersion'[m] = InHand.modified
      BY <1>1, <1>2, <2>2 DEF MarkPublished, TypeInv, TypeOK, PollerTypeOK
    <3>2. InHand.modified = StampOf(m, InHand.body) /\ InHand.body \in Time
      BY <1>2, <2>2 DEF Sane, FetchedSound, Sound, Message
    <3>3. Shown[InHand.body] \in Int
      BY <3>2, ShownAssumption DEF Time
    <3> QED BY <1>3, <2>2, <3>1, <3>2, <3>3, NoneAssumption DEF StampOf
  <2>3. CASE m # InHand.id
    <3>1. m \in Remembered /\ publishedVersion'[m] = publishedVersion[m]
      BY <1>1, <1>2, <2>1, <2>3 DEF MarkPublished, Remembered, TypeInv, TypeOK, PollerTypeOK
    <3>2. bus[m] # None
      BY <3>1 DEF Sane, RecordSound
    <3> QED BY <1>3, <2>1, <3>1, <3>2, RecordKept
  <2> QED BY <2>2, <2>3
<1> QED BY <1>3, <1>4, <1>5, <1>6 DEF Sane

\* A batch that stops takes what was in flight with it; if the event got out
\* all the same, the bus is newer and the record is not.
LEMMA PublishFailsSane ==
    ASSUME TypeInv, TypeInv', Sane, PublishFails
    PROVE  Sane'
<1>1. /\ pc = "publish" /\ pc' = "idle" /\ messages' = <<>> /\ current' = None
      /\ UNCHANGED <<now, where, modifiedAt, publishedAt, publishedVersion>>
  BY DEF PublishFails, StopBatch, EndCycle, memory, mailboxVars, TypeInv, Control
<1>2. FetchedSound' /\ InOrder'
  BY <1>1 DEF FetchedSound, InOrder
<1>3. CASE Accept
  <2>1. /\ BusSound'
        /\ \A m \in Mail : bus[m] # None => bus'[m] # None /\ bus[m].body <= bus'[m].body
    BY <1>1, <1>3, AcceptSane DEF mailboxVars
  <2>2. ASSUME NEW m \in Remembered'
        PROVE  /\ bus'[m] # None
               /\ m \notin Unstamped => /\ publishedVersion'[m] # None
                                        /\ publishedVersion'[m] <= Shown[bus'[m].body]
    <3>1. m \in Mail /\ m \in Remembered /\ publishedVersion'[m] = publishedVersion[m]
      BY <1>1 DEF Remembered
    <3>2. bus[m] # None
      BY <3>1 DEF Sane, RecordSound
    <3> QED BY <2>1, <3>1, <3>2, RecordKept
  <2> QED BY <1>2, <2>1, <2>2 DEF Sane, RecordSound
<1>4. CASE UNCHANGED bus
  BY <1>1, <1>2, <1>4 DEF Sane, BusSound, RecordSound, Remembered, ReadSince
<1> QED BY <1>3, <1>4 DEF PublishFails

\* Every step of the drain keeps what is known consistent.
LEMMA DrainSane ==
    ASSUME TypeInv, TypeInv', Sane,
           FetchAttachments \/ AttachmentsFail \/ Publish \/ PublishFails \/ CycleDone
    PROVE  Sane'
<1>1. CASE FetchAttachments
  <2>1. /\ pc = "draining" /\ Draining
        /\ UNCHANGED <<now, where, modifiedAt, bus, publishedAt, publishedVersion, current, messages, index>>
        /\ attachments' \in {None, modifiedAt[InHand.id]}
    BY <1>1 DEF FetchAttachments, Draining, memory, mailboxVars
  <2>2. /\ InHand \in Message /\ InHand.id \in Mail
        /\ InHand.body <= modifiedAt[InHand.id]
        /\ modifiedAt[InHand.id] <= modifiedAt[InHand.id]
    BY <2>1, InHandTyped DEF InHand, Sane, FetchedSound, Sound, TypeInv, TypeOK, MailboxTypeOK, Time
  <2>3. InHand' = InHand
    BY <2>1 DEF InHand
  <2>4. ReadSince(InHand.body, attachments, InHand.id)'
    BY <2>1, <2>2, <2>3 DEF ReadSince
  <2>5. FetchedSound'
    BY <2>1, <2>4 DEF Sane, FetchedSound, Sound, ReadSince, StampOf
  <2>6. BusSound' /\ InOrder' /\ RecordSound'
    BY <2>1 DEF Sane, BusSound, ReadSince, InOrder, RecordSound, Remembered
  <2> QED BY <2>5, <2>6 DEF Sane
<1>2. CASE AttachmentsFail
  <2>1. PICK source \in Sources : StopBatch(source)
    BY <1>2 DEF AttachmentsFail, Sources
  <2>2. /\ messages' = <<>> /\ current' = None /\ pc' = "idle"
        /\ UNCHANGED <<publishedAt, publishedVersion>>
    BY <1>2, <2>1 DEF AttachmentsFail, Draining, StopBatch, EndCycle, memory, TypeInv, Control
  <2> QED BY <1>2, <2>2, NothingInFlight DEF AttachmentsFail
<1>3. CASE CycleDone
  <2>1. /\ messages' = <<>> /\ current' = None /\ pc' = "idle"
        /\ UNCHANGED <<publishedAt, publishedVersion>>
    BY <1>3 DEF CycleDone, EndCycle, memory, TypeInv, Control
  <2> QED BY <1>3, <2>1, NothingInFlight DEF CycleDone
<1> QED BY <1>1, <1>2, <1>3, PublishSane, PublishFailsSane

\* A crash only forgets, and the mailbox only moves ahead.
LEMMA OutsideSane ==
    ASSUME TypeInv, Sane, Crash \/ Environment \/ UNCHANGED vars
    PROVE  Sane'
<1>1. CASE Crash
  <2>1. \A m \in Mail : publishedAt'[m] = None
    BY <1>1 DEF Crash
  <2> QED BY <1>1, <2>1, NothingInFlight DEF Crash
<1>2. CASE Environment
  BY <1>2, MailboxMovesOn
<1>3. CASE UNCHANGED vars
  BY <1>3
     DEF vars, pollerVars, memory, pollVars, serviceVars, mailboxVars,
         Sane, FetchedSound, Sound, ReadSince, StampOf, InHand, BusSound, InOrder, RecordSound, Remembered
<1> QED BY <1>1, <1>2, <1>3

\* Sane is inductive, given the types.
LEMMA StepSane == TypeInv /\ TypeInv' /\ Sane /\ [Next]_vars => Sane'
BY PollSane, DrainSane, OutsideSane DEF Next, ConnectorStep

\* What is in flight, on the bus and remembered never runs ahead of the mailbox
\* nor falls behind what was published before it, through any interleaving of
\* the cycle with the mailbox, any fault and any crash.
THEOREM AlwaysConsistent == Spec => []Consistent
<1>1. Init => TypeInv /\ Sane
  BY InitTyped, InitSane
<1>2. (TypeInv /\ Sane) /\ [Next]_vars => (TypeInv /\ Sane)'
  BY StepTyped, StepSane
<1>3. TypeInv /\ Sane => Consistent
  BY DEF TypeInv, Sane, Consistent
<1> QED BY <1>1, <1>2, <1>3, PTL DEF Spec

\* Mail the next rescan would skip as published has content of its present stamp,
\* in every part, as its last event.
LEMMA ConsistentSuppresses ==
    ASSUME Consistent
    PROVE  SuppressedIsCurrent
<1> SUFFICES ASSUME NEW m \in Mail \ Unstamped,
                    IsPublished([id |-> m, modified |-> Stamp(m)])
             PROVE  /\ bus[m] # None
                    /\ \A part \in {bus[m].body, bus[m].mime, bus[m].attachments} \ {None} :
                           Shown[part] = Stamp(m)
  BY DEF SuppressedIsCurrent
<1>1. m \in Remembered /\ bus[m] # None
  BY DEF IsPublished, Consistent, RecordSound
<1>2. publishedVersion[m] # None /\ publishedVersion[m] <= Shown[bus[m].body]
  BY <1>1 DEF Consistent, RecordSound
<1>3. bus[m] \in Event /\ modifiedAt[m] \in Time /\ publishedVersion[m] \in Time
  BY <1>1, <1>2 DEF Consistent, TypeOK, MailboxTypeOK, PollerTypeOK, Maybe
<1>4. /\ bus[m].body \in Time /\ bus[m].mime \in Maybe(Time) /\ bus[m].attachments \in Maybe(Time)
  BY <1>3 DEF Event
<1>5. Stamp(m) = Shown[modifiedAt[m]] /\ Stamp(m) \in Time /\ Shown[bus[m].body] \in Time
  BY <1>3, <1>4, ShownAssumption DEF Stamp
<1>6. Stamp(m) # None
  BY <1>5, NoneAssumption DEF Time
<1>7. Stamp(m) <= publishedVersion[m]
  BY <1>2, <1>6 DEF IsPublished
<1>8. Stamp(m) <= Shown[bus[m].body]
  BY <1>2, <1>3, <1>5, <1>7 DEF Time
<1>9. /\ bus[m].body <= modifiedAt[m]
      /\ ReadSince(bus[m].body, bus[m].mime, m)
      /\ ReadSince(bus[m].body, bus[m].attachments, m)
  BY <1>1 DEF Consistent, BusSound
<1>10. ASSUME NEW part \in Time, bus[m].body <= part, part <= modifiedAt[m]
       PROVE  Shown[part] = Stamp(m)
  <2>1. Shown[bus[m].body] <= Shown[part] /\ Shown[part] <= Stamp(m) /\ Shown[part] \in Time
    BY <1>3, <1>4, <1>5, <1>10, ShownAssumption
  <2> QED BY <1>5, <1>8, <2>1 DEF Time
<1> QED BY <1>1, <1>3, <1>4, <1>9, <1>10 DEF ReadSince, Maybe, Time

\* The rescan never skips mail whose content of its present stamp, headers, body,
\* MIME and attachments, is not yet on the bus (Poller._is_published), whatever
\* changed between the requests and however coarse the stamps are.
THEOREM SuppressedAlwaysCurrent == Spec => []SuppressedIsCurrent
<1>1. Consistent => SuppressedIsCurrent
  BY ConsistentSuppresses
<1> QED BY <1>1, AlwaysConsistent, PTL

-----------------------------------------------------------------------------
(* The record stays within the folder.                                     *)

\* A listing of n entries names at most n messages.
LEMMA IdsListedBound ==
    ASSUME TypeInv
    PROVE  IsFiniteSet(IdsListed) /\ Cardinality(IdsListed) <= Len(listed)
<1>1. Len(listed) \in Nat /\ DOMAIN listed = 1..Len(listed)
  BY DEF TypeInv, TypeOK, PollerTypeOK
<1> DEFINE f == [i \in DOMAIN listed |-> listed[i].id]
<1>2. f \in Surjection(1..Len(listed), IdsListed)
  BY <1>1 DEF Surjection, IdsListed
<1>3. IsFiniteSet(1..Len(listed)) /\ Cardinality(1..Len(listed)) = Len(listed)
  <2>1. /\ IsFiniteSet(1..Len(listed))
        /\ Cardinality(1..Len(listed)) = IF 1 > Len(listed) THEN 0 ELSE Len(listed) - 1 + 1
    BY <1>1, FS_Interval
  <2> QED BY <1>1, <2>1
<1> QED BY <1>2, <1>3, FS_Surjection

\* Sets of mail are finite, and smaller ones have no more elements.
LEMMA MailSubset ==
    ASSUME NEW S \in SUBSET Mail, NEW T \in SUBSET S
    PROVE  /\ IsFiniteSet(S) /\ Cardinality(S) \in Nat /\ Cardinality(T) \in Nat
           /\ Cardinality(T) <= Cardinality(S)
<1>1. IsFiniteSet(S)
  BY MailAssumption, FS_Subset
<1> QED BY <1>1, FS_Subset, FS_CardinalityType

\* Whatever is listed, fetched or remembered is mail.
LEMMA IdsInMail ==
    ASSUME TypeInv
    PROVE  IdsListed \subseteq Mail /\ IdsFetched \subseteq Mail /\ Remembered \subseteq Mail
<1>1. \A i \in DOMAIN listed : listed[i] \in Stub
  BY DEF TypeInv, TypeOK, PollerTypeOK
<1>2. \A i \in DOMAIN messages : messages[i] \in Message
  BY DEF TypeInv, TypeOK, PollerTypeOK
<1> QED BY <1>1, <1>2 DEF IdsListed, IdsFetched, Remembered, Stub, Message


\* Nothing is remembered at the start.
LEMMA InitWithin == Init => WithinListing
<1> SUFFICES ASSUME Init PROVE WithinListing
  OBVIOUS
<1>1. Remembered = {} /\ lastListed = 0 /\ pc = "idle" /\ messages = <<>>
  BY DEF Init, PollerInit, Remembered
<1> QED BY <1>1, FS_EmptySet DEF WithinListing, Drain, MemoryBounded

\* Nothing is added to the record while messages are listed and fetched, and
\* what is fetched was listed.
LEMMA PollWithin ==
    ASSUME TypeInv, TypeInv', WithinListing, StartCycle \/ List \/ Fetch \/ PollFails \/ PollDone
    PROVE  WithinListing'
<1> USE DEF Drain
<1>1. CASE StartCycle \/ PollFails \/ (List /\ ListPage)
  <2>1. /\ pc' \in {"idle", "listing", "listed"} /\ messages' = <<>>
        /\ Remembered' = Remembered /\ lastListed' = lastListed
    BY <1>1 DEF StartCycle, BeginListing, PollFails, PollRaises, List, ListPage, memory,
                WithinListing, Remembered
  <2> QED BY <2>1 DEF WithinListing, MemoryBounded
<1>2. CASE List /\ Rescan
  <2>1. /\ lastListed' = Len(listed) /\ listed' = listed /\ messages' = messages /\ current' = None
        /\ pc = "listed" /\ pc' = "fetching" /\ Remembered' \subseteq IdsListed
    BY <1>2 DEF Rescan, Remembered, Kept, IdsListed, TypeInv, Control
  <2>2. IdsFetched' = {} /\ IdsListed' = IdsListed
    BY <2>1 DEF WithinListing, IdsFetched, IdsListed
  <2>3. Cardinality(Remembered') <= Len(listed)
    <3>1. Cardinality(Remembered') <= Cardinality(IdsListed)
      BY <2>1, IdsInMail, MailSubset
    <3>2. Cardinality(Remembered') \in Nat /\ Cardinality(IdsListed) \in Nat /\ Len(listed) \in Nat
      BY <2>1, IdsInMail, MailSubset DEF TypeInv, TypeOK, PollerTypeOK
    <3> QED BY <3>1, <3>2, IdsListedBound
  <2> QED BY <2>1, <2>2, <2>3 DEF WithinListing, MemoryBounded
<1>3. CASE Fetch
  <2>1. PICK i \in batch : FetchMessage(i) \/ FetchMime(i) \/ SkipGone(i)
    BY <1>3 DEF Fetch
  <2>2. /\ pc \in {"fetching", "mime"} /\ pc' \in {"fetching", "mime"}
        /\ Remembered' = Remembered /\ lastListed' = lastListed /\ listed' = listed
    BY <2>1 DEF FetchMessage, FetchMime, SkipGone, memory, Remembered, TypeInv, TypeOK, PollerTypeOK
  <2>3. IdsListed' = IdsListed /\ listed[i].id \in IdsListed
    BY <2>2 DEF IdsListed, TypeInv, TypeOK, PollerTypeOK
  <2>4. current # None => current.id \in IdsListed
    BY <2>2 DEF WithinListing
  <2>5. current' # None => current'.id \in IdsListed
    BY <2>1, <2>3, <2>4 DEF FetchMessage, FetchMime, SkipGone
  <2>6. IdsFetched' \subseteq IdsListed
    <3>1. IdsFetched \subseteq IdsListed
      BY <2>2 DEF WithinListing
    <3>2. CASE messages' = messages
      BY <3>1, <3>2 DEF IdsFetched
    <3>3. ASSUME NEW x \in Message, messages' = Append(messages, x), x.id \in IdsListed
          PROVE  IdsFetched' \subseteq IdsListed
      <4>1. \A k \in DOMAIN messages' :
              \/ k \in DOMAIN messages /\ messages'[k] = messages[k]
              \/ messages'[k] = x
        BY <3>3 DEF TypeInv, TypeOK, PollerTypeOK
      <4> QED BY <3>1, <3>3, <4>1 DEF IdsFetched
    <3>4. CASE FetchMessage(i) /\ messages' # messages
      <4>1. PICK x : x = [id |-> listed[i].id, modified |-> Stamp(listed[i].id),
                          body |-> modifiedAt[listed[i].id], mime |-> None]
        OBVIOUS
      <4>2. messages' = Append(messages, x)
        BY <3>4, <4>1 DEF FetchMessage
      <4>3. x.id = listed[i].id
        BY <4>1
      <4>4. x \in Message
        <5>1. listed[i].id \in Mail
          BY <2>3, IdsInMail
        <5> QED BY <4>1, <5>1, StampType DEF TypeInv, TypeOK, MailboxTypeOK, Message, Maybe
      <4> QED BY <2>3, <3>3, <4>2, <4>3, <4>4
    <3>5. CASE FetchMime(i)
      <4>1. current \in Message /\ current.id \in IdsListed
        BY <2>4, <3>5 DEF FetchMime, TypeInv, TypeOK, Control, PollerTypeOK, Maybe
      <4>2. PICK x : x = [current EXCEPT !.mime = modifiedAt[current.id]]
        OBVIOUS
      <4>3. x \in Message /\ x.id = current.id
        BY <4>1, <4>2 DEF Message, Maybe, TypeInv, TypeOK, MailboxTypeOK
      <4>4. messages' = Append(messages, x)
        BY <3>5, <4>2 DEF FetchMime
      <4> QED BY <3>3, <4>1, <4>3, <4>4
    <3>6. CASE SkipGone(i)
      BY <3>2, <3>6 DEF SkipGone
    <3> QED BY <2>1, <3>2, <3>4, <3>5, <3>6
  <2> QED BY <2>2, <2>3, <2>5, <2>6 DEF WithinListing, MemoryBounded
<1>4. CASE PollDone
  <2>1. /\ pc = "fetching" /\ pc' = "draining" /\ messages' = messages
        /\ Remembered' = Remembered /\ lastListed' = lastListed
    BY <1>4 DEF PollDone, PollReturns, memory, Remembered
  <2>2. lastListed = Len(listed) /\ Remembered \cup IdsFetched \subseteq IdsListed
    BY <2>1 DEF WithinListing
  <2>3. /\ Cardinality(Remembered \cup IdsFetched) <= Cardinality(IdsListed)
        /\ Cardinality(Remembered \cup IdsFetched) \in Nat /\ Cardinality(IdsListed) \in Nat
    BY <2>2, IdsInMail, MailSubset
  <2>4. Cardinality(Remembered \cup IdsFetched) <= lastListed /\ lastListed \in Nat
    BY <2>2, <2>3, IdsListedBound DEF TypeInv, TypeOK, PollerTypeOK
  <2>5. IdsFetched' = IdsFetched
    BY <2>1 DEF IdsFetched
  <2> QED BY <2>1, <2>4, <2>5 DEF WithinListing, MemoryBounded
<1> QED BY <1>1, <1>2, <1>3, <1>4 DEF List

\* A cycle ends with a record of no more than what it could have published.
LEMMA DrainWithin ==
    ASSUME TypeInv, TypeInv', WithinListing,
           FetchAttachments \/ AttachmentsFail \/ Publish \/ PublishFails \/ CycleDone
    PROVE  WithinListing'
<1> USE DEF Drain
<1>1. /\ pc \in Drain /\ lastListed' = lastListed
      /\ Cardinality(Remembered \cup IdsFetched) <= lastListed
  BY DEF FetchAttachments, AttachmentsFail, Publish, PublishFails, CycleDone, Draining, StopBatch,
         EndCycle, memory, WithinListing
<1>2. CASE FetchAttachments
  <2>1. pc' = "publish" /\ Remembered' = Remembered /\ IdsFetched' = IdsFetched
    BY <1>2 DEF FetchAttachments, memory, Remembered, IdsFetched
  <2> QED BY <1>1, <2>1 DEF WithinListing, MemoryBounded
<1>3. CASE AttachmentsFail \/ PublishFails \/ CycleDone
  <2>1. pc' = "idle" /\ messages' = <<>> /\ Remembered' = Remembered
    BY <1>3 DEF AttachmentsFail, PublishFails, CycleDone, StopBatch, EndCycle, memory, Remembered
  <2>2. Cardinality(Remembered) <= lastListed
    BY DEF WithinListing, MemoryBounded
  <2> QED BY <1>1, <2>1, <2>2 DEF WithinListing, MemoryBounded
<1>4. CASE Publish
  <2>1. pc' = "draining" /\ messages' = messages /\ MarkPublished(InHand)
    BY <1>4 DEF Publish
  <2>2. InHand.id \in IdsFetched /\ IdsFetched' = IdsFetched
    BY <1>4, <2>1, InHandTyped DEF Publish, InHand, IdsFetched
  <2>3. Remembered' \cup IdsFetched' \subseteq Remembered \cup IdsFetched
    BY <2>1, <2>2 DEF MarkPublished, Remembered, TypeInv, TypeOK, PollerTypeOK
  <2>4. /\ Cardinality(Remembered' \cup IdsFetched') <= Cardinality(Remembered \cup IdsFetched)
        /\ Cardinality(Remembered') <= Cardinality(Remembered \cup IdsFetched)
    BY <2>3, IdsInMail, MailSubset
  <2>5. /\ Cardinality(Remembered' \cup IdsFetched') \in Nat /\ Cardinality(Remembered') \in Nat
        /\ Cardinality(Remembered \cup IdsFetched) \in Nat /\ lastListed \in Nat
    BY <2>3, IdsInMail, MailSubset DEF TypeInv, TypeOK, PollerTypeOK
  <2> QED BY <1>1, <2>1, <2>4, <2>5 DEF WithinListing, MemoryBounded
<1> QED BY <1>2, <1>3, <1>4

\* A crash forgets everything; the mailbox touches nothing remembered.
LEMMA OutsideWithin ==
    ASSUME WithinListing, Crash \/ Environment \/ UNCHANGED vars
    PROVE  WithinListing'
<1>1. CASE Crash
  <2>1. Remembered' = {} /\ lastListed' = 0 /\ pc' = "idle" /\ messages' = <<>>
    BY <1>1 DEF Crash, Remembered
  <2> QED BY <2>1, FS_EmptySet DEF WithinListing, Drain, MemoryBounded
<1>2. CASE Environment \/ UNCHANGED vars
  <2>1. UNCHANGED <<pc, lastListed, listed, messages, current, publishedAt>>
    BY <1>2 DEF Environment, vars, pollerVars, memory, pollVars
  <2>2. Remembered' = Remembered /\ IdsFetched' = IdsFetched /\ IdsListed' = IdsListed
    BY <2>1 DEF Remembered, IdsFetched, IdsListed
  <2> QED BY <2>1, <2>2 DEF WithinListing, MemoryBounded
<1> QED BY <1>1, <1>2

\* WithinListing is inductive, given the types.
LEMMA StepWithin == TypeInv /\ TypeInv' /\ WithinListing /\ [Next]_vars => WithinListing'
BY PollWithin, DrainWithin, OutsideWithin DEF Next, ConnectorStep

\* The record of published mail never outgrows the last complete listing: what
\* is in flight counts as remembered from the listing on, so that marking it
\* in the drain, a failure in between or another poll that fails adds nothing.
THEOREM RecordBounded == Spec => []WithinListing
<1>1. Init => TypeInv /\ WithinListing
  BY InitTyped, InitWithin
<1>2. (TypeInv /\ WithinListing) /\ [Next]_vars => (TypeInv /\ WithinListing)'
  BY StepTyped, StepWithin
<1> QED BY <1>1, <1>2, PTL DEF Spec

\* "A bounded in-memory set ... can never grow past the folder size"
\* (poller.py:89), for every folder, batch size and sequence of failures.
THEOREM MemoryAlwaysBounded == Spec => []MemoryBounded
BY RecordBounded, PTL DEF WithinListing

-----------------------------------------------------------------------------
(* The summary of a cycle accounts for what was fetched.                   *)

\* A connector that has just started has nothing to account for.
LEMMA InitAccounted == Init => Accounted
BY DEF Init, PollerInit, NewSummary, Accounted, SummaryHonest, Drain

\* A poll counts nothing until it returns; one that fails blames Graph.
LEMMA PollAccounted ==
    ASSUME TypeInv, TypeInv', Accounted, StartCycle \/ List \/ Fetch \/ PollFails \/ PollDone
    PROVE  Accounted'
<1> USE DEF Drain
<1>1. bus' = bus
  BY DEF StartCycle, List, Fetch, PollFails, PollDone
<1>2. CASE StartCycle
  <2>1. pc' = "listing" /\ summary' = NewSummary
    BY <1>2 DEF StartCycle, BeginListing
  <2> QED BY <2>1 DEF Accounted, SummaryHonest, NewSummary
<1>3. CASE List \/ Fetch
  <2>1. /\ summary' = summary
        /\ pc \in {"listing", "listed", "fetching", "mime"}
        /\ pc' \in {"listing", "listed", "fetching", "mime"}
    BY <1>3 DEF List, Fetch, ListPage, Rescan, FetchMessage, FetchMime, SkipGone, serviceVars
  <2> QED BY <1>1, <2>1 DEF Accounted, SummaryHonest
<1>4. CASE PollFails
  <2>1. /\ summary' = [summary EXCEPT !.source = "graph"] /\ summary \in Summary
        /\ pc \in {"listing", "fetching", "mime"} /\ pc' = "idle"
    BY <1>4 DEF PollFails, PollRaises, TypeInv, TypeOK
  <2>2. /\ summary'.fetched = summary.fetched /\ summary'.published = summary.published
        /\ summary'.dropped = summary.dropped /\ summary'.source = "graph"
    BY <2>1 DEF Summary
  <2> QED BY <2>1, <2>2 DEF Accounted, SummaryHonest
<1>5. CASE PollDone
  <2>1. /\ summary' = [summary EXCEPT !.listed = lastListed, !.fetched = Len(messages)]
        /\ summary \in Summary /\ messages' = messages
        /\ pc = "fetching" /\ pc' = "draining" /\ index' = 0
    BY <1>5 DEF PollDone, PollReturns, TypeInv, TypeOK
  <2>2. /\ summary'.fetched = Len(messages) /\ summary'.published = summary.published
        /\ summary'.dropped = summary.dropped /\ summary'.source = summary.source
    BY <2>1 DEF Summary
  <2> QED BY <2>1, <2>2 DEF Accounted, SummaryHonest
<1> QED BY <1>2, <1>3, <1>4, <1>5

\* A batch that stops drops the message in hand and those behind it.
LEMMA StopAccounted ==
    ASSUME TypeInv, Accounted, NEW source \in {"graph", "bus"},
           pc \in Drain, index < Len(messages), StopBatch(source)
    PROVE  /\ pc' = "idle"
           /\ summary'.published = summary.published
           /\ summary'.fetched = summary'.published + summary'.dropped
           /\ summary'.dropped > 0 /\ summary'.source # "none"
<1>1. /\ summary' = [summary EXCEPT !.source = source, !.dropped = summary.fetched - index]
      /\ pc' = "idle" /\ summary \in Summary
  BY DEF StopBatch, EndCycle, TypeInv, TypeOK
<1>2. /\ summary'.fetched = summary.fetched /\ summary'.published = summary.published
      /\ summary'.dropped = summary.fetched - index /\ summary'.source = source
  BY <1>1 DEF Summary
<1>3. summary.fetched = Len(messages) /\ summary.published = index /\ index \in Nat
  BY DEF Accounted, TypeInv, TypeOK
<1>4. Len(messages) \in Nat
  BY DEF TypeInv, TypeOK, PollerTypeOK
<1> QED BY <1>1, <1>2, <1>3, <1>4

\* Whatever publish() puts on the bus, what was there stays something.
LEMMA AcceptShows ==
    ASSUME TypeInv, pc = "publish", Accept
    PROVE  /\ InHand.id \in Mail /\ bus'[InHand.id] # None
           /\ \A m \in Mail : bus[m] # None => bus'[m] # None
<1> DEFINE event == [modified |-> InHand.modified, body |-> InHand.body,
                     mime |-> InHand.mime, attachments |-> attachments]
<1>1. event \in Event /\ InHand.id \in Mail
  BY InHandTyped DEF Event, Message, TypeInv, TypeOK
<1>2. bus' = [bus EXCEPT ![InHand.id] = event] /\ bus \in [Mail -> Maybe(Event)]
  BY DEF Accept, TypeInv, TypeOK
<1> HIDE DEF event
<1> QED BY <1>1, <1>2, EventAssumption

\* The drain counts each message once: published, or dropped with the rest.
LEMMA DrainAccounted ==
    ASSUME TypeInv, TypeInv', Accounted,
           FetchAttachments \/ AttachmentsFail \/ Publish \/ PublishFails \/ CycleDone
    PROVE  Accounted'
<1> USE DEF Drain
<1>1. CASE FetchAttachments
  <2>1. pc \in Drain /\ pc' \in Drain /\ UNCHANGED <<summary, messages, index, bus>>
    BY <1>1 DEF FetchAttachments, Draining
  <2> QED BY <2>1 DEF Accounted, SummaryHonest
<1>2. CASE AttachmentsFail \/ PublishFails
  <2>1. /\ pc \in Drain /\ index < Len(messages)
        /\ \E source \in {"graph", "bus"} : StopBatch(source)
    BY <1>2 DEF AttachmentsFail, PublishFails, Draining, TypeInv, Control
  <2>2. /\ pc' = "idle" /\ summary'.published = summary.published
        /\ summary'.fetched = summary'.published + summary'.dropped
        /\ summary'.dropped > 0 /\ summary'.source # "none"
    BY <2>1, StopAccounted
  <2>3. \A m \in Mail : bus[m] # None => bus'[m] # None
    BY <1>2, AcceptShows DEF AttachmentsFail, PublishFails
  <2> QED BY <2>2, <2>3 DEF Accounted, SummaryHonest
<1>3. CASE Publish
  <2>1. /\ summary' = [summary EXCEPT !.published = @ + 1] /\ summary \in Summary
        /\ pc = "publish" /\ pc' = "draining" /\ index' = index + 1 /\ messages' = messages
    BY <1>3 DEF Publish, TypeInv, TypeOK
  <2>2. /\ summary'.fetched = summary.fetched /\ summary'.published = summary.published + 1
        /\ summary'.dropped = summary.dropped /\ summary'.source = summary.source
    BY <2>1 DEF Summary
  <2>3. \E m \in Mail : bus'[m] # None
    BY <1>3, AcceptShows DEF Publish
  <2> QED BY <2>1, <2>2, <2>3 DEF Accounted, SummaryHonest
<1>4. CASE CycleDone
  <2>1. /\ pc = "draining" /\ pc' = "idle" /\ index = Len(messages)
        /\ UNCHANGED <<summary, bus>>
    BY <1>4 DEF CycleDone, EndCycle
  <2>2. index \in Nat
    BY DEF TypeInv, TypeOK
  <2> QED BY <2>1, <2>2 DEF Accounted, SummaryHonest
<1> QED BY <1>1, <1>2, <1>3, <1>4

\* A crash starts a new account; the mailbox has none.
LEMMA OutsideAccounted ==
    ASSUME Accounted, Crash \/ Environment \/ UNCHANGED vars
    PROVE  Accounted'
<1>1. CASE Crash
  <2>1. pc' = "idle" /\ summary' = NewSummary
    BY <1>1 DEF Crash
  <2> QED BY <2>1 DEF Accounted, SummaryHonest, NewSummary, Drain
<1>2. CASE Environment \/ UNCHANGED vars
  <2>1. UNCHANGED <<pc, messages, index, summary, bus>>
    BY <1>2 DEF Environment, vars, pollerVars, pollVars, serviceVars
  <2> QED BY <2>1 DEF Accounted, SummaryHonest
<1> QED BY <1>1, <1>2

\* What /health serves of a finished cycle adds up, wherever the cycle stopped
\* (run_workflow): every message fetched is published or dropped, and a
\* dependency is blamed for those that are dropped.
THEOREM SummaryAlwaysHonest == Spec => []SummaryHonest
<1>1. Init => TypeInv /\ Accounted
  BY InitTyped, InitAccounted
<1>2. (TypeInv /\ Accounted) /\ [Next]_vars => (TypeInv /\ Accounted)'
  BY StepTyped, PollAccounted, DrainAccounted, OutsideAccounted DEF Next, ConnectorStep
<1>3. Accounted => SummaryHonest
  BY DEF Accounted
<1> QED BY <1>1, <1>2, <1>3, PTL DEF Spec

=============================================================================
