---------------------------- MODULE BridgeProofs ----------------------------
(***************************************************************************)
(* The connector implements Bridge: the refinement behind the run          *)
(* connector_bridge, for every instance.  The liveness half of Bridge is   *)
(* left to TLC.                                                            *)
(***************************************************************************)
EXTENDS ConnectorProofs

\* Admission wears off neither by the mailbox's changes nor by the clock's.
LEMMA AdmissionLasts ==
    ASSUME TypeInv, MailboxNext, NEW m \in Mail, Promise!Admissible(m)
    PROVE  Promise!Admissible(m)'
<1>1. now \in Int /\ now' \in Int /\ now <= now'
  <2>1. CASE Tick
    BY <2>1, MaxTimeAssumption DEF Tick, TypeInv, TypeOK, MailboxTypeOK, Time
  <2>2. CASE UNCHANGED now
    BY <2>2, MaxTimeAssumption DEF TypeInv, TypeOK, MailboxTypeOK, Time
  <2> QED BY <2>1, <2>2 DEF MailboxNext, Arrive, Modify, MoveOut, Delete
<1>2. where'[m] # "outside"
  <2>1. where \in [Mail -> Places] /\ where[m] # "outside"
    BY DEF TypeInv, TypeOK, MailboxTypeOK, Promise!Admissible
  <2>2. CASE UNCHANGED where
    BY <2>1, <2>2
  <2>3. ASSUME NEW k \in Mail, NEW place \in {"folder", "elsewhere", "gone"},
               where' = [where EXCEPT ![k] = place]
        PROVE  where'[m] # "outside"
    BY <2>1, <2>3
  <2> QED BY <2>2, <2>3 DEF MailboxNext, Tick, Arrive, Modify, MoveOut, Delete
<1>3. ReceivedAt[m] \in Int /\ NewerHold \in Maybe(Int)
  BY ReceivedAtAssumption, PollerAssumption DEF Time, Maybe
<1> QED BY <1>1, <1>2, <1>3 DEF Promise!Admissible, Maybe

\* Nothing is in flight at the start.
LEMMA InitAdmitted == Init => Admitted
BY DEF Init, PollerInit, Admitted

\* A listing returns only what may be published.
LEMMA ListingAdmitted ==
    ASSUME TypeInv, Admitted, pc = "listing",
           NEW m \in Matching(window.until, window.modifiedUntil)
    PROVE  Promise!Admissible(m)
<1>1. /\ m \in Mail /\ where[m] = "folder"
      /\ IgnoreReceivedBefore = None \/ ReceivedAt[m] >= IgnoreReceivedBefore
      /\ window.until = None \/ ReceivedAt[m] <= window.until
  BY DEF Matching
<1>2. /\ ReceivedAt[m] \in Int /\ NewerHold \in Maybe(Int) /\ now \in Int
      /\ window.until \in Maybe(Int)
  BY <1>1, ReceivedAtAssumption, PollerAssumption
     DEF Time, Maybe, TypeInv, TypeOK, MailboxTypeOK, PollerTypeOK, Window
<1>3. NewerHold = None \/ ReceivedAt[m] <= now - NewerHold
  BY <1>1, <1>2 DEF Admitted, Maybe
<1> QED BY <1>1, <1>3 DEF Promise!Admissible

\* poll_mailbox fetches only what it listed, and lists only what is admissible.
LEMMA PollAdmitted ==
    ASSUME TypeInv, TypeInv', Admitted, StartCycle \/ List \/ Fetch \/ PollFails \/ PollDone
    PROVE  Admitted'
<1>1. UNCHANGED <<now, where, modifiedAt>>
  BY DEF StartCycle, List, Fetch, PollFails, PollDone, mailboxVars
<1>2. \A m : Promise!Admissible(m)' <=> Promise!Admissible(m)
  BY <1>1 DEF Promise!Admissible
<1>3. CASE StartCycle
  <2>1. window'.until = HeldBack(NewerHold) /\ UNCHANGED <<listed, current, messages>>
    BY <1>3 DEF StartCycle, BeginListing
  <2>2. NewerHold # None => /\ now - NewerHold \in Int /\ now - NewerHold <= now - NewerHold
    BY PollerAssumption DEF Maybe, TypeInv, TypeOK, MailboxTypeOK, Time
  <2> QED BY <1>1, <1>2, <2>1, <2>2, NoneAssumption DEF HeldBack, Admitted
<1>4. CASE List /\ ListPage
  <2>1. PICK order \in Listings(Matching(window.until, window.modifiedUntil)) :
          listed' = listed \o [i \in 1..Len(Page(order, Len(listed))) |->
                                 [id |-> Page(order, Len(listed))[i],
                                  modified |-> Stamp(Page(order, Len(listed))[i])]]
    BY <1>4 DEF ListPage
  <2>2. pc = "listing" /\ UNCHANGED <<window, current, messages>>
    BY <1>4 DEF ListPage
  <2>3. PICK page : page = Page(order, Len(listed))
    OBVIOUS
  <2>4. page \in Seq(Matching(window.until, window.modifiedUntil))
    <3>1. IsFiniteSet(Matching(window.until, window.modifiedUntil))
      BY MailAssumption, FS_Subset DEF Matching
    <3>2. Cardinality(Matching(window.until, window.modifiedUntil)) \in Nat
      BY <3>1, FS_CardinalityType
    <3>3. order \in Seq(Matching(window.until, window.modifiedUntil))
      BY <3>2 DEF Listings
    <3>4. Len(listed) \in Nat
      BY DEF TypeInv, TypeOK, PollerTypeOK
    <3> QED BY <2>3, <3>3, <3>4, PageSizeAssumption DEF Page
  <2>5. \A i \in 1..Len(page) : Promise!Admissible(page[i])
    BY <2>2, <2>4, ListingAdmitted
  <2>6. PICK stubs : stubs = [i \in 1..Len(page) |-> [id |-> page[i], modified |-> Stamp(page[i])]]
    OBVIOUS
  <2>7. listed' = listed \o stubs
    BY <2>1, <2>3, <2>6
  <2>8. \A i \in DOMAIN stubs : Promise!Admissible(stubs[i].id)
    BY <2>5, <2>6
  <2>9. \A i \in DOMAIN listed' : \/ i \in DOMAIN listed /\ listed'[i] = listed[i]
                                  \/ \E k \in DOMAIN stubs : listed'[i] = stubs[k]
    <3>1. listed \in Seq(Stub) /\ Len(page) \in Nat
      BY <2>4 DEF TypeInv, TypeOK, PollerTypeOK
    <3>2. DOMAIN stubs = 1..Len(page) /\ Len(stubs) = Len(page)
      BY <2>6, <3>1
    <3> QED BY <2>7, <3>1, <3>2
  <2>10. \A i \in DOMAIN listed' : Promise!Admissible(listed'[i].id)
    BY <2>8, <2>9 DEF Admitted
  <2> QED BY <1>1, <1>2, <2>2, <2>10 DEF Admitted
<1>5. CASE List /\ Rescan
  <2>1. UNCHANGED <<listed, current, messages>> /\ pc' = "fetching"
    BY <1>5 DEF Rescan
  <2> QED BY <1>2, <2>1 DEF Admitted
<1>6. CASE Fetch
  <2>1. PICK i \in batch : FetchMessage(i) \/ FetchMime(i) \/ SkipGone(i)
    BY <1>6 DEF Fetch
  <2>2. i \in DOMAIN listed /\ Promise!Admissible(listed[i].id)
    BY DEF Admitted, TypeInv, TypeOK, PollerTypeOK
  <2>3. pc' # "listing" /\ listed' = listed
    BY <2>1 DEF FetchMessage, FetchMime, SkipGone, TypeInv, TypeOK, PollerTypeOK
  <2>4. current' # None => Promise!Admissible(current'.id)
    BY <2>1, <2>2 DEF FetchMessage, FetchMime, SkipGone, Admitted
  <2>5. \A k \in DOMAIN messages' : Promise!Admissible(messages'[k].id)
    <3>1. ASSUME NEW x, messages' = Append(messages, x), Promise!Admissible(x.id)
          PROVE  \A k \in DOMAIN messages' : Promise!Admissible(messages'[k].id)
      BY <3>1 DEF Admitted, TypeInv, TypeOK, PollerTypeOK
    <3>2. CASE messages' = messages
      BY <3>2 DEF Admitted
    <3>3. CASE FetchMessage(i) /\ messages' # messages
      <4>1. PICK x : x = [id |-> listed[i].id, modified |-> Stamp(listed[i].id),
                          body |-> modifiedAt[listed[i].id], mime |-> None]
        OBVIOUS
      <4>2. messages' = Append(messages, x) /\ x.id = listed[i].id
        BY <3>3, <4>1 DEF FetchMessage
      <4> QED BY <2>2, <3>1, <4>2
    <3>4. CASE FetchMime(i)
      <4>1. current \in Message /\ Promise!Admissible(current.id)
        BY <3>4 DEF FetchMime, Admitted, TypeInv, TypeOK, Control, PollerTypeOK, Maybe
      <4>2. PICK x : x = [current EXCEPT !.mime = modifiedAt[current.id]]
        OBVIOUS
      <4>3. x.id = current.id
        BY <4>1, <4>2 DEF Message
      <4>4. messages' = Append(messages, x)
        BY <3>4, <4>2 DEF FetchMime
      <4> QED BY <3>1, <4>1, <4>3, <4>4
    <3> QED BY <2>1, <3>2, <3>3, <3>4 DEF SkipGone
  <2> QED BY <1>2, <2>2, <2>3, <2>4, <2>5 DEF Admitted
<1>7. CASE PollFails
  <2>1. listed' = <<>> /\ messages' = <<>> /\ current' = None /\ pc' = "idle"
    BY <1>7 DEF PollFails, PollRaises
  <2> QED BY <2>1 DEF Admitted
<1>8. CASE PollDone
  <2>1. listed' = <<>> /\ messages' = messages /\ current' = current /\ pc' = "draining"
    BY <1>8 DEF PollDone, PollReturns
  <2> QED BY <1>2, <2>1 DEF Admitted
<1> QED BY <1>3, <1>4, <1>5, <1>6, <1>7, <1>8 DEF List

\* The drain adds nothing to what is in flight.
LEMMA DrainAdmitted ==
    ASSUME TypeInv, Admitted,
           FetchAttachments \/ AttachmentsFail \/ Publish \/ PublishFails \/ CycleDone
    PROVE  Admitted'
<1>1. UNCHANGED <<now, where, modifiedAt, listed, current>> /\ pc' # "listing"
  BY DEF FetchAttachments, AttachmentsFail, Publish, PublishFails, CycleDone, StopBatch, EndCycle, mailboxVars
<1>2. messages' = messages \/ messages' = <<>>
  BY DEF FetchAttachments, AttachmentsFail, Publish, PublishFails, CycleDone, StopBatch, EndCycle
<1>3. \A m : Promise!Admissible(m)' <=> Promise!Admissible(m)
  BY <1>1 DEF Promise!Admissible
<1> QED BY <1>1, <1>2, <1>3 DEF Admitted

\* What is in flight stays admissible while the mailbox changes.
LEMMA OutsideAdmitted ==
    ASSUME TypeInv, TypeInv', Admitted, Crash \/ Environment \/ UNCHANGED vars
    PROVE  Admitted'
<1>1. CASE Crash
  BY <1>1 DEF Crash, Admitted
<1>2. CASE Environment
  <2>1. UNCHANGED <<pc, window, listed, messages, current>> /\ MailboxNext
    BY <1>2 DEF Environment, pollerVars, pollVars
  <2>2. \A i \in DOMAIN listed : listed[i].id \in Mail
    <3>1. \A i \in DOMAIN listed : listed[i] \in Stub
      BY DEF TypeInv, TypeOK, PollerTypeOK
    <3> QED BY <3>1 DEF Stub
  <2>3. \A i \in DOMAIN messages : messages[i].id \in Mail
    <3>1. \A i \in DOMAIN messages : messages[i] \in Message
      BY DEF TypeInv, TypeOK, PollerTypeOK
    <3> QED BY <3>1 DEF Message
  <2>4. current # None => current.id \in Mail
    BY DEF TypeInv, TypeOK, PollerTypeOK, Maybe, Message
  <2>5. \A m \in Mail : Promise!Admissible(m) => Promise!Admissible(m)'
    BY <2>1, AdmissionLasts
  <2>6. now \in Int /\ now' \in Int /\ now <= now'
    <3>1. CASE Tick
      BY <3>1 DEF Tick, TypeInv, TypeOK, MailboxTypeOK, Time
    <3>2. CASE UNCHANGED now
      BY <3>2 DEF TypeInv, TypeOK, MailboxTypeOK, Time
    <3> QED BY <2>1, <3>1, <3>2 DEF MailboxNext, Arrive, Modify, MoveOut, Delete
  <2>7. NewerHold \in Maybe(Int) /\ window.until \in Maybe(Int)
    BY PollerAssumption DEF Maybe, TypeInv, TypeOK, PollerTypeOK, Window
  <2>8. pc = "listing" =>
          \/ NewerHold = None /\ window.until = None
          \/ NewerHold # None /\ window.until # None /\ window.until <= now' - NewerHold
    BY <2>6, <2>7 DEF Admitted, Maybe
  <2> QED BY <2>1, <2>2, <2>3, <2>4, <2>5, <2>8 DEF Admitted
<1>3. CASE UNCHANGED vars
  BY <1>3 DEF vars, mailboxVars, pollerVars, memory, pollVars, Admitted, Promise!Admissible
<1> QED BY <1>1, <1>2, <1>3

-----------------------------------------------------------------------------
(* The refinement.                                                         *)

delivered == [m \in Mail |-> IF bus[m] = None THEN None ELSE bus[m].body]

\* The promise's mailbox is the connector's.
LEMMA SameMailbox ==
    /\ UNCHANGED Promise!mailboxVars <=> UNCHANGED mailboxVars
    /\ Promise!MailboxInit <=> MailboxInit
    /\ Promise!MailboxNext <=> MailboxNext
    /\ Promise!Time = Time
<1>1. UNCHANGED Promise!mailboxVars <=> UNCHANGED mailboxVars
  BY DEF Promise!mailboxVars, mailboxVars
<1>2. Promise!MailboxInit <=> MailboxInit
  BY DEF Promise!MailboxInit, MailboxInit
<1>3. Promise!Time = Time
  BY DEF Promise!Time, Time
<1>4. Promise!Tick <=> Tick
  BY DEF Promise!Tick, Tick
<1>5. \A m : /\ Promise!Arrive(m) <=> Arrive(m)
             /\ Promise!Modify(m) <=> Modify(m)
             /\ Promise!MoveOut(m) <=> MoveOut(m)
             /\ Promise!Delete(m) <=> Delete(m)
  BY DEF Promise!Arrive, Arrive, Promise!Modify, Modify, Promise!MoveOut, MoveOut,
         Promise!Delete, Delete, Promise!Touch, Touch
<1>6. Promise!MailboxNext <=> MailboxNext
  BY <1>4, <1>5 DEF Promise!MailboxNext, MailboxNext
<1> QED BY <1>1, <1>2, <1>3, <1>6

\* Nothing is delivered at the start.
LEMMA InitRefines == Init => Promise!Init
BY SameMailbox DEF Init, Promise!Init

\* An event on the bus is a delivery, of a version not older than the last.
LEMMA AcceptRefines ==
    ASSUME TypeInv, Sane, Admitted, pc = "publish", Accept, UNCHANGED mailboxVars
    PROVE  \E m \in Mail, v \in Promise!Time : Promise!Deliver(m, v)
<1>1. /\ index + 1 \in DOMAIN messages /\ InHand = messages[index + 1]
      /\ InHand \in Message /\ InHand.id \in Mail /\ InHand.body \in Time
  BY InHandTyped DEF InHand, Message
<1>2. Promise!Admissible(InHand.id)
  BY <1>1 DEF Admitted
<1>3. InHand.body <= modifiedAt[InHand.id]
  BY <1>1 DEF Sane, FetchedSound, Sound
<1>4. /\ bus'[InHand.id] # None /\ bus'[InHand.id].body = InHand.body
      /\ bus[InHand.id] # None => bus[InHand.id].body <= bus'[InHand.id].body
      /\ \A m \in Mail : m # InHand.id => bus'[m] = bus[m]
  BY <1>1, AcceptSane
<1>5. delivered' = [delivered EXCEPT ![InHand.id] = InHand.body]
  BY <1>1, <1>4 DEF delivered
<1>6. delivered[InHand.id] = None \/ delivered[InHand.id] <= InHand.body
  BY <1>1, <1>4 DEF delivered
<1>7. PICK m \in Mail, v \in Time : m = InHand.id /\ v = InHand.body
  BY <1>1
<1>8. Promise!Deliver(m, v)
  BY <1>2, <1>3, <1>5, <1>6, <1>7, SameMailbox DEF Promise!Deliver, delivered
<1> QED BY <1>7, <1>8, SameMailbox

\* Every step is a delivery, a change of the mailbox, or invisible.
LEMMA StepRefines ==
    ASSUME TypeInv, Sane, Admitted, [Next]_vars
    PROVE  [Promise!Next]_(Promise!bridgeVars)
<1>1. CASE ConnectorStep \/ Crash
  <2>1. UNCHANGED mailboxVars
    BY <1>1 DEF ConnectorStep, StartCycle, List, Fetch, PollFails, PollDone, FetchAttachments,
                AttachmentsFail, Publish, PublishFails, CycleDone, Crash
  <2>2. CASE UNCHANGED bus
    BY <2>1, <2>2, SameMailbox DEF Promise!bridgeVars
  <2>3. CASE pc = "publish" /\ Accept
    BY <2>1, <2>3, AcceptRefines DEF Promise!Next
  <2> QED
    BY <1>1, <2>2, <2>3 DEF ConnectorStep, StartCycle, List, Fetch, PollFails, PollDone,
       FetchAttachments, AttachmentsFail, Publish, PublishFails, CycleDone, Crash
<1>2. CASE Environment
  BY <1>2, SameMailbox DEF Environment, Promise!Next
<1>3. CASE UNCHANGED vars
  BY <1>3, SameMailbox DEF vars, Promise!bridgeVars
<1> QED BY <1>1, <1>2, <1>3 DEF Next

\* Nothing is in flight that the bounds on receipt keep out, although they are
\* checked by the listing only (Poller._newest_allowed).
THEOREM AlwaysAdmitted == Spec => []Admitted
<1>1. Init => TypeInv /\ Sane /\ Admitted
  BY InitTyped, InitSane, InitAdmitted
<1>2. (TypeInv /\ Sane /\ Admitted) /\ [Next]_vars => (TypeInv /\ Sane /\ Admitted)'
  BY StepTyped, StepSane, PollAdmitted, DrainAdmitted, OutsideAdmitted DEF Next, ConnectorStep
<1> QED BY <1>1, <1>2, PTL DEF Spec

\* The consumer's version of a message never goes back, no version is made up,
\* and no mail outside the bounds of its receipt is published.
THEOREM BridgeImplemented == Spec => ImplementsBridge
<1>1. Init => (TypeInv /\ Sane /\ Admitted) /\ Promise!Init
  BY InitTyped, InitSane, InitAdmitted, InitRefines
<1>2. (TypeInv /\ Sane /\ Admitted) /\ [Next]_vars => (TypeInv /\ Sane /\ Admitted)'
  BY StepTyped, StepSane, PollAdmitted, DrainAdmitted, OutsideAdmitted DEF Next, ConnectorStep
<1>3. (TypeInv /\ Sane /\ Admitted) /\ [Next]_vars => [Promise!Next]_(Promise!bridgeVars)
  BY StepRefines
<1> QED BY <1>1, <1>2, <1>3, PTL DEF Spec, ImplementsBridge, Promise!Spec

=============================================================================
