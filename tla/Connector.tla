----------------------------- MODULE Connector -----------------------------
(***************************************************************************)
(* The service loop (src/outlook_connector/service.py) around the poller:  *)
(* run_workflow drains what a poll fetched, message by message, to the     *)
(* event bus, and the first failure ends the cycle.  Composes Poller, the  *)
(* mailbox, the bus as publish() shows it to its caller, and the crash and *)
(* restart of the process, which loses everything but the bus.             *)
(***************************************************************************)
EXTENDS Poller

CONSTANTS
    WithAttachments,  \* mail with has_attachments set
    Unpublishable,    \* mail whose event the broker always refuses (too large)
    BusFaults,        \* what a failing publish did: "lost" and/or "unacked"
    MaxFaults         \* bound on the transient faults and crashes of a behaviour

ASSUME ConnectorAssumption ==
    /\ WithAttachments \subseteq Mail
    /\ Unpublishable \subseteq Mail
    /\ BusFaults \subseteq {"lost", "unacked"}
    /\ MaxFaults \in Nat

VARIABLES
    index,        \* how many of messages have been published
    attachments,  \* the attachments of the message being published, or None
    summary,      \* the PollSummary of the cycle
    bus,          \* [Mail -> Maybe(Event)]: the last event of each mail
    acked,        \* observer: when the current version was last acknowledged,
                  \* in this process lifetime and this stay in the folder
    faults        \* transient faults so far

serviceVars == <<index, attachments, summary>>
vars == <<mailboxVars, pollerVars, serviceVars, bus, acked, faults>>

\* An event names the version of each part it was put together from.
Event == [modified : Maybe(Time), body : Time, mime : Maybe(Time), attachments : Maybe(Time)]

ASSUME EventAssumption == None \notin Event

Sources == {"none", "graph", "bus"}
Summary == [listed : Nat, fetched : Nat, published : Nat, dropped : Int, source : Sources]
NewSummary == [listed |-> 0, fetched |-> 0, published |-> 0, dropped |-> 0, source |-> "none"]

TypeOK ==
    /\ MailboxTypeOK
    /\ PollerTypeOK
    /\ index \in Nat
    /\ attachments \in Maybe(Time)
    /\ summary \in Summary
    /\ bus \in [Mail -> Maybe(Event)]
    /\ acked \in [Mail -> Maybe(Time)]
    /\ faults \in 0..MaxFaults

Init ==
    /\ MailboxInit
    /\ PollerInit
    /\ index = 0
    /\ attachments = None
    /\ summary = NewSummary
    /\ bus = [m \in Mail |-> None]
    /\ acked = [m \in Mail |-> None]
    /\ faults = 0

\* A transient fault is possible while the bound is not reached.
Fault == faults < MaxFaults /\ faults' = faults + 1

-----------------------------------------------------------------------------
(* The poll, inside asyncio.to_thread.                                     *)

StartCycle ==
    /\ BeginListing
    /\ summary' = NewSummary
    /\ UNCHANGED <<mailboxVars, index, attachments, bus, acked, faults>>

List ==
    /\ ListPage \/ Rescan
    /\ UNCHANGED <<mailboxVars, serviceVars, bus, acked, faults>>

Fetch ==
    /\ \E i \in batch : FetchMessage(i) \/ FetchMime(i) \/ SkipGone(i)
    /\ UNCHANGED <<mailboxVars, serviceVars, bus, acked, faults>>

\* GRAPH_ERRORS out of poll_mailbox: recorded, nothing counted, next cycle.
PollFails ==
    /\ PollRaises
    /\ \/ Fault
       \/ StuckOnFetch /\ UNCHANGED faults
    /\ summary' = [summary EXCEPT !.source = "graph"]
    /\ UNCHANGED <<mailboxVars, index, attachments, bus, acked>>

PollDone ==
    /\ PollReturns
    /\ index' = 0
    /\ summary' = [summary EXCEPT !.listed = lastListed, !.fetched = Len(messages)]
    /\ UNCHANGED <<mailboxVars, attachments, bus, acked, faults>>

-----------------------------------------------------------------------------
(* The drain: fetch attachments, publish, mark; stop at the first failure. *)

Draining == pc = "draining" /\ index < Len(messages)

\* Mutant: the messages are drained from the end.
InHandFromEnd == messages[Len(messages) - index]

InHand == messages[index + 1]

\* Mutant: what was fetched outlives the cycle.
EndCycleKeepsMessages ==
    /\ pc' = "idle"
    /\ index' = 0
    /\ attachments' = None
    /\ UNCHANGED <<messages, window, listed, batch, current>>

\* The local state of a cycle ends with it.
EndCycle ==
    /\ pc' = "idle"
    /\ messages' = <<>>
    /\ index' = 0
    /\ attachments' = None
    /\ UNCHANGED <<window, listed, batch, current>>

\* No request at all for mail without attachments.
FetchAttachments ==
    /\ Draining
    /\ IF InHand.id \in WithAttachments
         THEN /\ where[InHand.id] # "gone"
              /\ attachments' = modifiedAt[InHand.id]
         ELSE attachments' = None
    /\ pc' = "publish"
    /\ UNCHANGED <<mailboxVars, memory, window, listed, batch, current, messages,
                   index, summary, bus, acked, faults>>

\* Mutant: the message that failed is not counted as dropped.
StopBatchOneLess(source) ==
    /\ summary' = [summary EXCEPT !.source = source, !.dropped = summary.fetched - index - 1]
    /\ EndCycle
    /\ UNCHANGED memory

\* Mutant: the message is marked before its publish is known to have succeeded.
StopBatchMarked(source) ==
    /\ summary' = [summary EXCEPT !.source = source, !.dropped = summary.fetched - index]
    /\ EndCycle
    /\ MarkPublished(InHand)
    /\ UNCHANGED lastListed

\* The except clause of the drain.
StopBatch(source) ==
    /\ summary' = [summary EXCEPT !.source = source, !.dropped = summary.fetched - index]
    /\ EndCycle
    /\ UNCHANGED memory

\* The request raises a Graph error (a 404 when the mail is deleted by now), or
\* a response that cannot be decoded raises something else.
AttachmentsFail ==
    /\ Draining
    /\ InHand.id \in WithAttachments
    /\ \/ /\ where[InHand.id] = "gone"
          /\ StopBatch("graph")
          /\ UNCHANGED faults
       \/ /\ Fault
          /\ \E source \in {"graph", "bus"} : StopBatch(source)
    /\ UNCHANGED <<mailboxVars, bus, acked>>

\* publish() put the event on the bus, whatever it reported back.
Accept ==
    bus' = [bus EXCEPT ![InHand.id] =
               [modified |-> InHand.modified, body |-> InHand.body,
                mime |-> InHand.mime, attachments |-> attachments]]

IsCurrent(message) ==
    where[message.id] = "folder" /\ message.body = modifiedAt[message.id]

Publish ==
    /\ pc = "publish"
    /\ InHand.id \notin Unpublishable
    /\ Accept
    /\ MarkPublished(InHand)
    /\ summary' = [summary EXCEPT !.published = @ + 1]
    /\ index' = index + 1
    /\ attachments' = None
    /\ pc' = "draining"
    /\ acked' = IF IsCurrent(InHand) THEN [acked EXCEPT ![InHand.id] = now] ELSE acked
    /\ UNCHANGED <<mailboxVars, lastListed, window, listed, batch, current, messages, faults>>

\* publish() raises: nothing was sent, or it was and only the answer is missing.
PublishFails ==
    /\ pc = "publish"
    /\ \/ /\ Fault
          /\ InHand.id \notin Unpublishable
          /\ \E outcome \in BusFaults :
                IF outcome = "unacked" THEN Accept ELSE UNCHANGED bus
       \/ /\ InHand.id \in Unpublishable
          /\ UNCHANGED <<bus, faults>>
    /\ StopBatch("bus")
    /\ UNCHANGED <<mailboxVars, acked>>

\* Nothing left: the summary is recorded, the loop sleeps for the interval.
CycleDone ==
    /\ pc = "draining"
    /\ index = Len(messages)
    /\ EndCycle
    /\ UNCHANGED <<mailboxVars, memory, summary, bus, acked, faults>>

-----------------------------------------------------------------------------
\* The process ends at any point and is started again by its supervisor: killed,
\* or an exception of poll_mailbox outside GRAPH_ERRORS, which nothing catches.
Crash ==
    /\ Fault
    /\ pc' = "idle"
    /\ window' = NoWindow
    /\ listed' = <<>>
    /\ batch' = {}
    /\ current' = None
    /\ messages' = <<>>
    /\ publishedAt' = [m \in Mail |-> None]
    /\ publishedVersion' = [m \in Mail |-> None]
    /\ lastListed' = 0
    /\ index' = 0
    /\ attachments' = None
    /\ summary' = NewSummary
    /\ acked' = [m \in Mail |-> None]
    /\ UNCHANGED <<mailboxVars, bus>>

Environment ==
    /\ MailboxNext
    /\ acked' = [m \in Mail |->
                    IF where'[m] = "folder" /\ modifiedAt'[m] = modifiedAt[m]
                    THEN acked[m] ELSE None]
    /\ UNCHANGED <<pollerVars, serviceVars, bus, faults>>

ConnectorStep ==
    \/ StartCycle \/ List \/ Fetch \/ PollFails \/ PollDone
    \/ FetchAttachments \/ AttachmentsFail \/ Publish \/ PublishFails \/ CycleDone

Next == ConnectorStep \/ Crash \/ Environment

Spec == Init /\ [][Next]_vars

\* The loop never waits for anything but time and answers, so it always goes
\* on; nobody owes it a change of the mailbox or a tick of the clock.
FairSpec == Spec /\ WF_vars(ConnectorStep)

-----------------------------------------------------------------------------
(* Safety.                                                                 *)

\* Mail that the next rescan would skip is mail whose last event carries, in
\* every part, content with the stamp the mail has now, although headers and
\* body, MIME and attachments come from three requests and the mailbox changes
\* in between: a part newer than the stamp is caught up on by the next publish.
\* Stamps that tell any two changes apart make that the current content, coarser
\* ones lose no more than the changes within one unit of theirs.
\* (Poller: "so a consumer sees the current version of mail that stays in the
\* folder", poller.py:97.)
SuppressedIsCurrent ==
    \A m \in Mail \ Unstamped :
        /\ where[m] = "folder"
        /\ IsPublished([id |-> m, modified |-> Stamp(m)])
        => LET event == bus[m] IN
           /\ event # None
           /\ \A part \in {event.body, event.mime, event.attachments} \ {None} :
                  Shown[part] = Stamp(m)

\* The summary of a finished cycle accounts for every message the poll fetched,
\* wherever the cycle stopped, and blames a dependency exactly when something
\* is missing (the fields /health serves).
SummaryHonest ==
    pc = "idle" =>
        /\ summary.fetched = summary.published + summary.dropped
        /\ summary.dropped > 0 => summary.source # "none"
        /\ summary.source = "bus" => summary.dropped > 0
        /\ summary.published > 0 => \E m \in Mail : bus[m] # None

\* A version already acknowledged in this process lifetime is not published
\* again while it sits in the folder, except RepublishAfter later (config.py:99).
PublishedOnce ==
    [][ Publish /\ acked[InHand.id] # None =>
            /\ RepublishAfter # None
            /\ now - acked[InHand.id] >= RepublishAfter ]_vars

\* "At most this many messages fetched + published per poll cycle" (config.py:68).
BatchWithinMax == BatchMax # None => Cardinality(batch) + Len(messages) <= BatchMax

\* "... oldest first" (config.py:68), although what is fetched one by one was
\* sorted before the mailbox went on changing: messages are in the order of their
\* receipt, and what the batch leaves out of the unseen mail that is still there
\* is no older than anything it takes.
OldestFirst ==
    /\ \A k, l \in DOMAIN messages :
          k < l => ReceivedAt[messages[k].id] <= ReceivedAt[messages[l].id]
    /\ \A k \in DOMAIN messages, i \in batch :
          ReceivedAt[messages[k].id] <= ReceivedAt[listed[i].id]
    /\ pc \in {"fetching", "mime"} =>
        \A j \in DOMAIN listed \ batch :
            \/ IsPublished(listed[j])
            \/ where[listed[j].id] = "gone"
            \/ \E k \in DOMAIN messages : messages[k].id = listed[j].id
            \/ /\ \A i \in batch : Older(i, j)
               /\ \A k \in DOMAIN messages : ReceivedAt[messages[k].id] <= ReceivedAt[listed[j].id]

Phase ==
    CASE pc = "listing" -> 4
      [] pc = "listed" -> 3
      [] pc \in {"fetching", "mime"} -> 2
      [] pc \in {"draining", "publish"} -> 1
      [] pc = "idle" -> 0

\* Less is left of the cycle: it is in a later phase, or has another page of a
\* folder that holds no more than there is, a stub less to fetch, or is on to the
\* second request of one; to the next message, or to its publish.
LessOfCycle ==
    \/ Phase' < Phase
    \/ /\ Phase' = Phase
       /\ \/ /\ pc = "listing"
             /\ Len(listed) < Len(listed') /\ Len(listed') < Cardinality(Mail)
          \/ UNCHANGED listed /\ batch' \subseteq batch /\ batch' # batch
          \/ UNCHANGED <<listed, batch>> /\ pc = "fetching" /\ pc' = "mime"
          \/ UNCHANGED messages /\ index < index' /\ index' <= Len(messages)
          \/ UNCHANGED <<messages, index>> /\ pc = "draining" /\ pc' = "publish"

\* Why a cycle ends: every step of it, and every crash, leaves less of it, and
\* nothing that happens in the mailbox gives any of it back.
CycleAdvances ==
    [][ pc # "idle" => LessOfCycle \/ UNCHANGED <<pc, listed, batch, current, messages, index>> ]_vars

-----------------------------------------------------------------------------
(* The abstract specification, and liveness.                               *)

Promise == INSTANCE Bridge WITH
    delivered <- [m \in Mail |-> IF bus[m] = None THEN None ELSE bus[m].body]

\* The connector implements Bridge: events are admissible and never go back.
ImplementsBridge == Promise!Spec

\* The mailbox comes to rest; the clock may go on.
ChangesEnd == <>[][UNCHANGED <<where, modifiedAt>>]_vars

\* Every version that waits is delivered although polls, publishes and the
\* process itself fail in between: the folder is the work set, a failure
\* only postpones (poller.py:150-152, service.py:48-53).  In bounded batches this
\* supposes that older mail does not come back into them for ever, by changes or
\* by its republish age (what then happens is in Drain).
EventuallyDelivered ==
    (BatchMax = None \/ RepublishAfter = None) /\ ChangesEnd => Promise!Delivery

\* A folder at rest is listed and nothing else: in the end no cycle fetches,
\* unless republish_after_minutes asks for it.
QuietAtRest == RepublishAfter = None /\ ChangesEnd => <>[](messages = <<>>)

\* The last acknowledgement of m is RepublishAfter old, and listings return m.
Overdue(m) ==
    /\ m \in Matching(HeldBack(NewerHold), HeldBack(ModifiedHold))
    /\ acked[m] # None /\ now - acked[m] >= RepublishAfter

\* "Mail still in the folder N minutes after it was published is published
\* again" (config.py:99): no mail stays due, in batches without a bound (for
\* bounded ones see Drain).
OfferedAgain ==
    RepublishAfter # None /\ BatchMax = None => \A m \in Mail : []<>(~ Overdue(m))

-----------------------------------------------------------------------------
(* What comments and documents say, and the code does not do: see the      *)
(* findings in PROJECT.json.                                               *)

\* poller.py:195 and test_listed_message_gone_before_fetch_is_skipped: mail moved
\* out between the listing and the fetch is skipped.
MovedMailIsSkipped ==
    [][ \A i \in batch : FetchMessage(i) => where[listed[i].id] = "folder" ]_vars

\* DESIGN.md, Ingestion: "Emails are processed and saved individually. If one
\* fails, the batch continues."
OthersContinue ==
    \A m \in Mail \ (Unfetchable \cup Unpublishable) :
        m \in Matching(None, None) ~> (bus[m] # None \/ where[m] # "folder")

=============================================================================
