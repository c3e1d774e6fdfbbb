------------------------- MODULE ConnectorInvariant -------------------------
(***************************************************************************)
(* The inductive invariants behind the properties of Connector.  They say  *)
(* how what is in flight relates to the mailbox, to the bus, to the record *)
(* and to the summary; MCConnector checks them and ConnectorProofs proves them. *)
(***************************************************************************)
EXTENDS Connector

\* The phases in which run_workflow holds what poll_mailbox returned.
Drain == {"draining", "publish"}

\* Where the cycle is, and what it holds there.
Control ==
    /\ pc = "mime" <=> current # None
    /\ pc \notin Drain => index = 0
    /\ index <= Len(messages)
    /\ pc = "publish" => index < Len(messages)

\* A part read after the version v of message m.
ReadSince(v, part, m) == part = None \/ (v <= part /\ part <= modifiedAt[m])

StampOf(m, v) == IF m \in Unstamped THEN None ELSE Shown[v]

\* A fetched message: a version the mailbox had, its stamp, a MIME not older.
Sound(message) ==
    /\ message.body <= modifiedAt[message.id]
    /\ message.modified = StampOf(message.id, message.body)
    /\ ReadSince(message.body, message.mime, message.id)

FetchedSound ==
    /\ \A i \in DOMAIN messages : Sound(messages[i])
    /\ current # None => Sound(current)
    /\ pc = "publish" => ReadSince(InHand.body, attachments, InHand.id)

BusSound ==
    \A m \in Mail : bus[m] # None =>
        /\ bus[m].body <= modifiedAt[m]
        /\ ReadSince(bus[m].body, bus[m].mime, m)
        /\ ReadSince(bus[m].body, bus[m].attachments, m)

\* Of the same mail, what is in flight is not older than what is on the bus,
\* nor than what is in flight before it.
InOrder ==
    /\ \A i \in DOMAIN messages :
        /\ i > index => LET event == bus[messages[i].id] IN
                        event # None => event.body <= messages[i].body
        /\ \A j \in DOMAIN messages :
            i < j /\ messages[i].id = messages[j].id => messages[i].body <= messages[j].body
        /\ current # None /\ messages[i].id = current.id => messages[i].body <= current.body
    /\ current # None =>
        LET event == bus[current.id] IN event # None => event.body <= current.body

\* The version remembered of a mail is no newer than its last event.
RecordSound ==
    \A m \in Remembered :
        /\ bus[m] # None
        /\ m \notin Unstamped =>
            /\ publishedVersion[m] # None
            /\ publishedVersion[m] <= Shown[bus[m].body]

\* What the connector knows is never ahead of the mailbox, nor the bus of it.
Consistent ==
    TypeOK /\ Control /\ FetchedSound /\ BusSound /\ InOrder /\ RecordSound

\* The mail a complete listing returned.
IdsListed == {listed[i].id : i \in DOMAIN listed}
IdsFetched == {messages[i].id : i \in DOMAIN messages}

\* What is remembered, or may be by the end of the cycle, was listed.
WithinListing ==
    /\ pc \in {"idle", "listing", "listed"} => messages = <<>>
    /\ pc \in {"fetching", "mime"} =>
        /\ lastListed = Len(listed)
        /\ Remembered \cup IdsFetched \subseteq IdsListed
        /\ current # None => current.id \in IdsListed
    /\ pc \in Drain => Cardinality(Remembered \cup IdsFetched) <= lastListed
    /\ MemoryBounded

\* What the summary holds before it is finished: nothing while the poll goes on,
\* then what was fetched, of which the first index messages are published.
Accounted ==
    /\ summary.published > 0 => \E m \in Mail : bus[m] # None
    /\ pc \in {"listing", "listed", "fetching", "mime"} =>
        /\ summary.fetched = 0 /\ summary.published = 0 /\ summary.dropped = 0
        /\ summary.source = "none"
    /\ pc \in Drain =>
        /\ summary.fetched = Len(messages) /\ summary.published = index
        /\ summary.dropped = 0
        /\ summary.source = "none"
    /\ SummaryHonest

\* Everything in flight may be published: it was in the folder and within the
\* bounds on its receipt when it was listed, and neither wears off.
Admitted ==
    /\ pc = "listing" =>
        \/ NewerHold = None /\ window.until = None
        \/ NewerHold # None /\ window.until # None /\ window.until <= now - NewerHold
    /\ \A i \in DOMAIN listed : Promise!Admissible(listed[i].id)
    /\ \A i \in DOMAIN messages : Promise!Admissible(messages[i].id)
    /\ current # None => Promise!Admissible(current.id)

\* A message is listed, chosen, fetched and handed over once per cycle.  That
\* takes a listing that no change of the folder can cut in two.
InFlightOnce ==
    /\ pc \notin {"listed", "fetching", "mime"} => listed = <<>>
    /\ \A i, j \in DOMAIN listed : listed[i].id = listed[j].id => i = j
    /\ \A i, j \in DOMAIN messages : messages[i].id = messages[j].id => i = j
    /\ \A i \in batch, k \in DOMAIN messages : messages[k].id # listed[i].id
    /\ current # None => \A i \in batch : IsNext(i) => listed[i].id = current.id

\* The MIME that is waited for is that of the next stub.
NextInHand == current # None => \E i \in batch : IsNext(i) /\ listed[i].id = current.id

\* The acknowledgement of m is old enough for m to be offered again.
Due(m) == RepublishAfter # None /\ now - acked[m] >= RepublishAfter

\* What is asked for in full is new, changed or due: of a folder in which nothing
\* is, a cycle asks for the listing and nothing else.
FetchedOnce ==
    [][ \A i \in batch : FetchMessage(i) /\ acked[listed[i].id] # None => Due(listed[i].id) ]_vars

\* m waits to be fetched, or to be published.
InFlight(m) ==
    \/ \E i \in batch : listed[i].id = m
    \/ \E i \in DOMAIN messages : i > index /\ messages[i].id = m

\* A version acknowledged and still in the folder is one every listing returns,
\* and until it is due it is remembered as it is, and not in flight.
Settled(m) ==
    /\ where[m] = "folder" /\ acked[m] <= now
    /\ Promise!Admissible(m)
    /\ pc = "listing" => m \in Matching(window.until, window.modifiedUntil)
    /\ pc = "listed" => \E i \in DOMAIN listed : listed[i] = [id |-> m, modified |-> Stamp(m)]
    /\ \/ Due(m)
       \/ /\ publishedAt[m] = acked[m]
          /\ IsPublished([id |-> m, modified |-> Stamp(m)])
          /\ ~ InFlight(m)

AckedSettled == InFlightOnce /\ \A m \in Mail : acked[m] # None => Settled(m)

=============================================================================
