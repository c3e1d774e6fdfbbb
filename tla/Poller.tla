------------------------------- MODULE Poller -------------------------------
(***************************************************************************)
(* Poller (src/outlook_connector/poller.py): the folder rescan.  One cycle *)
(* lists the folder page by page, prunes the in-memory record of published *)
(* mail to what it listed, and fetches the oldest unseen batch in full.    *)
(* Every request sees the mailbox as it is when the request is served, and *)
(* the mailbox keeps changing between requests.                            *)
(*                                                                         *)
(* The actions here say nothing of the service's variables; Connector      *)
(* conjoins them with what run_workflow does.                              *)
(***************************************************************************)
EXTENDS Mailbox

CONSTANTS
    BatchMax,        \* batch_max_messages, or None
    NewerHold,       \* ignore_newer_than_minutes, or None
    ModifiedHold,    \* ignore_modified_newer_than_minutes, or None
    RepublishAfter,  \* republish_after_minutes, or None
    IncludeMime,     \* include_mime_content
    Unfetchable      \* mail whose GET always fails, with something else than 404

ASSUME PollerAssumption ==
    /\ {BatchMax, NewerHold, ModifiedHold, RepublishAfter} \subseteq Maybe(Nat \ {0})
    /\ IncludeMime \in BOOLEAN
    /\ Unfetchable \subseteq Mail

VARIABLES
    publishedAt,       \* [Mail -> Maybe(Time)]: when published; None = not remembered
    publishedVersion,  \* [Mail -> Maybe(Time)]: its lastModifiedDateTime then
    lastListed,        \* size of the most recent complete listing
    pc,                \* where the cycle is
    window,            \* the filter bounds of this listing
    listed,            \* the stubs listed so far
    batch,             \* positions in listed still to be fetched
    current,           \* the message get_email waits for the MIME of, or None
    messages           \* the messages fetched in full

memory == <<publishedAt, publishedVersion, lastListed>>
pollVars == <<pc, window, listed, batch, current, messages>>
pollerVars == <<memory, pollVars>>

Stub == [id : Mail, modified : Maybe(Time)]
Message == [id : Mail, modified : Maybe(Time), body : Time, mime : Maybe(Time)]
ASSUME MessageAssumption == None \notin Message

Window == [until : Maybe(Int), modifiedUntil : Maybe(Int)]
NoWindow == [until |-> None, modifiedUntil |-> None]

PollerTypeOK ==
    /\ publishedAt \in [Mail -> Maybe(Time)]
    /\ publishedVersion \in [Mail -> Maybe(Time)]
    /\ lastListed \in Nat
    /\ pc \in {"idle", "listing", "listed", "fetching", "mime", "draining", "publish"}
    /\ window \in Window
    /\ listed \in Seq(Stub)
    /\ batch \subseteq DOMAIN listed
    /\ current \in Maybe(Message)
    /\ messages \in Seq(Message)

PollerInit ==
    /\ publishedAt = [m \in Mail |-> None]
    /\ publishedVersion = [m \in Mail |-> None]
    /\ lastListed = 0
    /\ pc = "idle"
    /\ window = NoWindow
    /\ listed = <<>>
    /\ batch = {}
    /\ current = None
    /\ messages = <<>>

-----------------------------------------------------------------------------
(* The record of published mail.                                           *)

Remembered == {m \in Mail : publishedAt[m] # None}

\* Mutant: mail without a stamp always looks modified.
IsPublishedIfStamped(stub) ==
    /\ stub.id \in Remembered
    /\ publishedVersion[stub.id] # None
    /\ stub.modified # None
    /\ stub.modified <= publishedVersion[stub.id]

\* Mutant: a version is taken for newer than itself.
IsPublishedIfOlder(stub) ==
    /\ stub.id \in Remembered
    /\ \/ publishedVersion[stub.id] = None
       \/ stub.modified = None
       \/ stub.modified < publishedVersion[stub.id]

\* Published this process lifetime, and not modified since.
IsPublished(stub) ==
    /\ stub.id \in Remembered
    /\ \/ publishedVersion[stub.id] = None
       \/ stub.modified = None
       \/ stub.modified <= publishedVersion[stub.id]

\* Mutant: the version remembered is the mailbox's, not the fetched one.
MarkPublishedAsIs(message) ==
    /\ publishedAt' = [publishedAt EXCEPT ![message.id] = now]
    /\ publishedVersion' = [publishedVersion EXCEPT ![message.id] = Stamp(message.id)]

MarkPublished(message) ==
    /\ publishedAt' = [publishedAt EXCEPT ![message.id] = now]
    /\ publishedVersion' = [publishedVersion EXCEPT ![message.id] = message.modified]

\* Mutants: the boundary of the republish age, off by one either way.
ExpiredLate(m) == RepublishAfter # None /\ publishedAt[m] < now - RepublishAfter
ExpiredEarly(m) == RepublishAfter # None /\ publishedAt[m] <= now - RepublishAfter + 1

\* Ids whose publish is RepublishAfter old are due to be offered again.
Expired(m) == RepublishAfter # None /\ publishedAt[m] <= now - RepublishAfter

\* Mutant: the record is not pruned to the listing.
KeptForGood == {m \in Remembered : ~ Expired(m)}

\* What survives a listing: the ids it contains that have not expired.
Kept == {m \in Remembered : /\ \E i \in DOMAIN listed : listed[i].id = m
                            /\ ~ Expired(m)}

-----------------------------------------------------------------------------
(* The order of the batch.                                                 *)

\* The stable sort by received_at, as an order on positions of listed.  Every
\* message has a received_at here; the code puts those without one first.
Older(i, j) ==
    \/ ReceivedAt[listed[i].id] < ReceivedAt[listed[j].id]
    \/ ReceivedAt[listed[i].id] = ReceivedAt[listed[j].id] /\ i < j

\* Mutants: one too many, and the wrong end of the sorted stubs.
OldestOneMore(S) ==
    IF BatchMax = None THEN S
    ELSE {j \in S : Cardinality({i \in S : Older(i, j)}) <= BatchMax}
NewestOf(S) ==
    IF BatchMax = None THEN S
    ELSE {j \in S : Cardinality({i \in S : Older(j, i)}) < BatchMax}

\* The BatchMax oldest of a set of positions.
Oldest(S) ==
    IF BatchMax = None THEN S
    ELSE {j \in S : Cardinality({i \in S : Older(i, j)}) < BatchMax}

IsNext(j) == j \in batch /\ \A i \in batch \ {j} : Older(j, i)

-----------------------------------------------------------------------------
(* Steps of poll_mailbox.                                                  *)

\* Mutant: mail is let through one unit of time before its hold is over.
HeldBackOneLess(hold) == IF hold = None THEN None ELSE now - hold + 1

HeldBack(hold) == IF hold = None THEN None ELSE now - hold

BeginListing ==
    /\ pc = "idle"
    /\ window' = [until |-> HeldBack(NewerHold), modifiedUntil |-> HeldBack(ModifiedHold)]
    /\ pc' = "listing"
    /\ UNCHANGED <<memory, listed, batch, current, messages>>

\* One page of the listing; the next one is asked for while there is a nextLink.
ListPage ==
    /\ pc = "listing"
    /\ \E order \in Listings(Matching(window.until, window.modifiedUntil)) :
        LET page == Page(order, Len(listed)) IN
        /\ listed' = listed \o [i \in 1..Len(page) |->
                                  [id |-> page[i], modified |-> Stamp(page[i])]]
        /\ pc' = IF Len(listed) + PageSize < Len(order) THEN "listing" ELSE "listed"
    /\ UNCHANGED <<memory, window, batch, current, messages>>

\* The listing is complete: prune the record, choose the oldest unseen batch.
Rescan ==
    /\ pc = "listed"
    /\ publishedAt' = [m \in Mail |-> IF m \in Kept THEN publishedAt[m] ELSE None]
    /\ publishedVersion' = [m \in Mail |-> IF m \in Kept THEN publishedVersion[m] ELSE None]
    /\ lastListed' = Len(listed)
    /\ batch' = Oldest({i \in DOMAIN listed :
                            ~ (listed[i].id \in Kept /\ IsPublished(listed[i]))})
    /\ pc' = "fetching"
    /\ UNCHANGED <<window, listed, current, messages>>

\* GET of the next stub by its immutable id.
FetchMessage(i) ==
    /\ pc = "fetching"
    /\ IsNext(i)
    /\ LET m == listed[i].id
           message == [id |-> m, modified |-> Stamp(m), body |-> modifiedAt[m], mime |-> None]
       IN  /\ where[m] # "gone"
           /\ m \notin Unfetchable
           /\ IF IncludeMime
                THEN /\ current' = message
                     /\ pc' = "mime"
                     /\ UNCHANGED <<messages, batch>>
                ELSE /\ messages' = Append(messages, message)
                     /\ batch' = batch \ {i}
                     /\ UNCHANGED <<current, pc>>
    /\ UNCHANGED <<memory, window, listed>>

\* The second GET, of $value: the MIME of whatever version there is by now.
FetchMime(i) ==
    /\ pc = "mime"
    /\ IsNext(i)
    /\ where[current.id] # "gone"
    /\ messages' = Append(messages, [current EXCEPT !.mime = modifiedAt[current.id]])
    /\ batch' = batch \ {i}
    /\ current' = None
    /\ pc' = "fetching"
    /\ UNCHANGED <<memory, window, listed>>

\* Mutant: a stub that is gone is asked for again.
SkipGoneAgain(i) ==
    /\ pc \in {"fetching", "mime"}
    /\ IsNext(i)
    /\ where[listed[i].id] = "gone"
    /\ current' = None
    /\ pc' = "fetching"
    /\ UNCHANGED <<memory, window, listed, batch, messages>>

\* Either GET answers 404: the stub is skipped, the batch goes on.
SkipGone(i) ==
    /\ pc \in {"fetching", "mime"}
    /\ IsNext(i)
    /\ where[listed[i].id] = "gone"
    /\ batch' = batch \ {i}
    /\ current' = None
    /\ pc' = "fetching"
    /\ UNCHANGED <<memory, window, listed, messages>>

\* A request that always fails, whatever the network does.
StuckOnFetch == pc = "fetching" /\ \E i \in batch :
                    /\ IsNext(i)
                    /\ listed[i].id \in Unfetchable
                    /\ where[listed[i].id] # "gone"

\* Mutant: the batch of the failed poll survives it.
PollRaisesWithBatch ==
    /\ pc \in {"listing", "fetching", "mime"}
    /\ window' = NoWindow
    /\ listed' = <<>>
    /\ current' = None
    /\ messages' = <<>>
    /\ pc' = "idle"
    /\ UNCHANGED <<memory, batch>>

\* A request fails: the locals of poll_mailbox are lost, the record stays.
PollRaises ==
    /\ pc \in {"listing", "fetching", "mime"}
    /\ window' = NoWindow
    /\ listed' = <<>>
    /\ batch' = {}
    /\ current' = None
    /\ messages' = <<>>
    /\ pc' = "idle"
    /\ UNCHANGED memory

PollReturns ==
    /\ pc = "fetching"
    /\ batch = {}
    /\ window' = NoWindow
    /\ listed' = <<>>
    /\ pc' = "draining"
    /\ UNCHANGED <<memory, batch, current, messages>>

-----------------------------------------------------------------------------
(* "A bounded in-memory set ... can never grow past the folder size"       *)
(* (poller.py:89): the ids remembered never outnumber the last complete    *)
(* listing, whatever fails between a listing and the publishes it led to.  *)
MemoryBounded == Cardinality(Remembered) <= lastListed

=============================================================================
