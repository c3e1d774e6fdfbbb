# TLA+ models of the Outlook connector

The repository is a service that watches one folder of a Microsoft 365 mailbox
and publishes every message in it as an event (`src/src/outlook_connector`), on
top of a helper library for Microsoft Graph (`src/libs/outlook-helper`). This
directory holds TLA+ models of both, the TLC runs that check them on small
instances, and theorems about them that TLAPS checks for every instance.

Contents: [inventory](#1-inventory) - [modules](#2-modules-and-how-they-follow-the-code) -
[runs](#3-runs) - [bounds](#4-bounds) - [fairness](#5-fairness) -
[theorems](#6-theorems) - [findings](#7-findings) -
[not modelled](#8-not-modelled) - [plan](#9-plan).

Paths are shortened: `poller.py`, `service.py`, `health.py`, `config.py`, `bus.py`
are in `src/src/outlook_connector/`; `client.py`, `http.py`, `attachments.py`,
`folders.py` in `src/libs/outlook-helper/outlook_helper/`. A mapping of every
definition to its lines is in `PROJECT.json` under "map".

## 1. Inventory

| Component | State it keeps | Operations | What makes it correct |
|---|---|---|---|
| **Poller** (`poller.py`) | `_published`: id to (instant, version) of what was published in this process; `last_listed` | `poll_mailbox`: list the folder, prune and expire the record, pick the oldest unseen batch, fetch each in full; `mark_published` | nothing that is skipped is out of date; the record stays within the folder; a folder at rest costs a listing |
| **Service** (`service.py`) | the summary of the cycle | `run_workflow`: poll, then for each message fetch attachments, publish, mark; stop at the first failure. `run_service`: repeat for ever | every version that stays is delivered, whatever fails; the summary accounts for every message |
| **Bus events** (`bus.py`, `mapper.py`, `schemas.py`) | none; the stream of bounded length | map a message to a CloudEvent, publish | events are versions of the mailbox, never older than the one before; what the stream drops comes back |
| **Health** (`health.py`) | last beat, last cycle, one probe per dependency | `beat`, `record_cycle`, `snapshot`, `GET /health` | only a hanging loop reads as stale; every hanging loop does; probes tell the last outcome |
| **Graph session** (`http.py`) | none | `request` with retries on 429 and 503, `paginate`, `upload_chunk`, `download` | calls end; no error passes for success |
| **Mail reading** (`client.py`) | none | `search_email`, `get_email`, `get_attachments` | (part of the poller's properties) |
| **Outgoing mail** (`client.py`, `attachments.py`) | none; the draft in the mailbox | `send_email`, `create_draft`, `reply`, upload sessions | nothing incomplete is sent, nothing is lost, copies are bounded, what is reported is what happened |
| **Folders** (`folders.py`, and `client.py` where it takes a folder) | cache of display names to ids | `resolve`, `invalidate`; `list_messages`, `search_email`, `move_email`, `create_folder` | a name leads to a folder that had it since the cache was last empty; a new folder is found at once |
| **Single requests** (`client.py`) | none | `delete_email`, `update_draft`, `send_draft`, `discard_draft`, `download_attachment` | (part of the session's properties) |
| Authentication, configuration, storage, CLI, entry point | see [not modelled](#8-not-modelled) | | |

How they interact. `run_service` is one coroutine. `poll_mailbox` and
`get_attachments` run in a worker thread (`asyncio.to_thread`) while the loop
waits for them, so within the process there is one thing at a time, and the
interleavings that matter are with the outside: the mailbox changes between any
two requests (mail arrives, people and the downstream mover file, flag and
delete it), the broker may take an event and lose the acknowledgement, the
process may die between any two steps. The health server reads the monitor while
the loop runs, and the orchestrator acts on what it reads.

Hard behaviours, in order of weight: state read by the listing and used at the
fetch; one event put together from three requests; pages of a listing that
shifts; a record of published mail that is neither persistent nor allowed to
grow; a failure in the middle of a drain; expiry of the record racing the drain
of a backlog; a heartbeat that must cover every wait; a send that takes many
requests, each repeated after an answer that may have been wrong; a name looked
up once and used for the life of the process. The full list,
each with its line and the properties about it, is in `PROJECT.json` under
"hazards".

## 2. Modules and how they follow the code

```
Mailbox  <--  Poller  <--  Connector  <--  ConnectorInvariant  <--  ConnectorProofs  <--  BridgeProofs, CycleProofs
   ^                           |  implements         ^                                        ^             ^
   '------------ Bridge <------'                 MCConnector  (TLC)                           '- OnceProofs -'
Drain         <--  DrainProofs
Health        <--  HealthProofs
GraphSession  <--  Sending  <--  SendingProofs,  MCSending (TLC)
Folders       <--  FoldersProofs
```

**Mailbox** is the environment: the clock, where each message is (not yet in the
folder, in it, filed elsewhere, deleted) and when it last changed. It is not code
of the repository; it is what the requests in `client.py` rely on. Content is
abstracted to the instant of the last change, so two reads saw the same version
exactly when they saw the same `modifiedAt`. `Matching` is the `$filter` of
`search_email`, `Listings` its `$orderby` with ties in any order, `Page` one page
of `$top` with a `nextLink` that counts messages served. `Shown` is an instant as
Graph writes it; messages in `Unstamped` come without `lastModifiedDateTime`.

**Poller** is `Poller.poll_mailbox` request by request: `BeginListing` computes
the bounds, `ListPage` takes one page, `Rescan` prunes the record to the listing,
expires what is due and picks the batch, `FetchMessage`/`FetchMime` are the two
requests of `get_email`, `SkipGone` the 404 branch, `PollRaises` any other error
(the record stays, the batch is lost), `PollReturns` the return.
`publishedAt`/`publishedVersion` are the two halves of `_published`.

**Connector** adds `service.py`: it conjoins the poller's steps with what
`run_workflow` does to its summary, and has the drain (`FetchAttachments`,
`AttachmentsFail`, `Publish`, `PublishFails`, `CycleDone`), crash and restart
(`Crash`), and everybody else (`Environment`). `bus` holds the last event of each
message, as the version of each of its parts. `acked` is an observer: it plays no
part in any guard.

**Bridge** is the abstract specification: no cycles, no listings, no memory. A
consumer sees, per message, versions that never go back, of mail the configuration
admits (`Spec`), and ends up with every version that stays (`Delivery`).
`Connector` implements it under `delivered <- the body version of bus[m]`.

**ConnectorInvariant** holds the inductive invariants, in a module of its own so
that both TLC and TLAPS use the same text. **MCConnector** gives values to the
constants that are functions or sets of messages.

**Drain** is the same poller and service seen from further away, for what
depends on how long things take: whether a mail expires before the rest of the
folder has had its turn. Mail is a rank by age; one action (`Rescan`) lists,
prunes, expires, picks the batch and fetches it; time is kept as ages, which end at
the age that expires, so that no clock ends and runs may go on for ever. So may
changes: of the version remembered only this is kept, whether the mail has changed
since (`changed`), which makes it unseen again (`IsPublished`). It adds what the
connector's model leaves out: the stream that Redis trims to about `max_len`
although nobody has read its oldest events (`Trimmed`: to `max_len`, or to as many as
`Slack` more), and the consumer that files mail away. `turns`, `ahead` and `again`
are observers: how many cycles in a row passed a mail over, for what, and how many
places of theirs went to mail that is remembered and had changed. Listings are
complete here: no page shifts and nothing holds changed mail back.

**Health** reduces a cycle to its awaits: what each may cost, and which of their
answers beat. The first of them is the lookup of the folder's name, unless it is a
well-known one or in the cache (`LookUp`); it does not beat. The loop waits by the monotonic clock and the monitor goes by the
wall clock, which somebody may set back (`SetBack`): then the last beat is ahead of
it and the age is negative. Time is counted from the event that resets it
(`elapsed` in the current await, `silence` since the later of the last beat and the
last recorded cycle), so the clock is unbounded though the state is finite. `Kill`
is the orchestrator that restarts a connector whose probe fails; `Wedge` a request
or publish that is never answered.

**GraphSession** is the loop of `GraphSession.request` for one attempt: what is
retried, what raises, the `Retry-After` sleep. **Sending** uses it for the
outgoing calls: each call is a course of requests (`step`, `part`, `start`,
`left`), given up at the first that raises. A large attachment travels in the
ranges of `iter_upload_chunks`, from `start` to `LastByte`; Graph takes a range that
begins where the last one ended, and keeps the attachment when it has all of it. A request may be refused, carried out
and acknowledged, carried out with an error for an answer, or redirected; somebody
may discard the draft meanwhile. `doubt` is an observer that remembers which of
the last two happened in this call.

**Folders** is `FolderResolver` with the calls that use it. `Call` resolves what
needs no request (a well-known name, a cached one, the root), `Lookup` is the
`$filter` request, whose miss is taken for a raw id and not remembered, then the
request proper: `Reach`, `NotThere`, `Fails`, `Create`, and `CreateUnanswered`, a
POST that was carried out and then raised before the cache was emptied. Everybody
else makes, renames, moves and deletes folders between any two of these. Graph
lists the top-level folders only, and no two siblings have the same name. `borne`
and `made` are observers: who has borne each name since the cache was last empty,
and the last folder `create_folder` returned for it, while others leave it alone.

Names ending in what goes wrong and commented `Mutant:` (`StopBatchMarked`,
`UploadAllButLast`, ...) are faulty versions of the definition below them. No
specification uses them; putting one in the place of the real definition shows
that the property named in `PROJECT.json` under "mutants" notices.

## 3. Runs

`tlc -config <cfg> <module>`. States are distinct states.

| Run | Module, cfg | Checks | States |
|---|---|---|---|
| connector_safety | MCConnector, ConnectorSafety | `TypeOK`, `Consistent`, `WithinListing`, `SuppressedIsCurrent`, `MemoryBounded`, `SummaryHonest` | 1.9 M |
| connector_bridge | MCConnector, ConnectorBridge | `Admitted`, `AckedSettled`, `PublishedOnce`, `FetchedOnce`, `OfferedAgain`, `ImplementsBridge` | 412 k |
| connector_delivery | MCConnector, ConnectorDelivery | `BatchWithinMax`, `OldestFirst`, `CycleAdvances`, `EventuallyDelivered`, `QuietAtRest` | 78 k |
| drain | Drain, Drain | `TypeOK`, `NoneStarves`, `KeepsComing`, `EmptiedInTheEnd` | 459 k |
| health | Health, Health | `TypeOK`, `BeatsInTime`, `ProbesTellLastOutcome`, `HealthyNeverKilled`, `WedgeNoticed` | 36 k |
| sending | MCSending, Sending | `TypeOK`, `Assembled`, `SentIsComplete`, `NeverLost`, `DoneAsReported`, `CopiesBounded`, `StepsCount`, `CallEnds` | 68 k |
| folders | Folders, Folders | `TypeOK`, `CacheOnceRight`, `NewIsFound`, `ServedByName` | 476 k |

What the main ones show:

- `SuppressedIsCurrent`: mail the next rescan would skip is mail whose last event
  carries, in every part, content of the stamp it has now, although body, MIME and
  attachments come from three requests with changes in between. A part may be newer
  than the stamp that is remembered, never older; the next rescan catches up. The
  run has stamps that cannot tell its first two instants apart, as Graph's whole
  seconds cannot: what is lost is no more than the changes within one unit.
- `PublishedOnce` and `FetchedOnce`: a version acknowledged to this process is
  neither published nor asked for again while it sits in the folder, before
  `republish_after_minutes`, with and without change stamps. They hold for a folder that is listed in
  one page and without a hold on changed mail. Between two pages a message may
  shift, and be missed or listed twice; mail that changes again goes back under its
  hold and out of the listing. Either way the record forgets it, or it is in flight
  twice. With `PageSize = 1`, or with `ModifiedHold = 1`, TLC finds the second
  publish at once. `AckedSettled` is the inductive invariant behind both.
- `BatchWithinMax`, `OldestFirst`: "At most this many messages fetched + published
  per poll cycle, oldest first" (config.py:68), although the sort is of a listing
  that is out of date when the fetches come. Unseen mail that the cut leaves out is
  no older than anything the cycle takes, unless it is gone by the time of its
  fetch. (With batches of one the order within a batch says nothing; the theorem is
  for any.) `CycleAdvances`: every step of a cycle, a failure or a crash too, leaves less of
  it, and nothing in the mailbox gives any of it back; a listing has no more pages
  than there is mail, and there is a bound on that in the model.
- `EventuallyDelivered`: with batches and pages of one, faults and a crash, each
  version that waits is delivered unless it is replaced, moved or deleted first. Two
  things would break this in the code, and are premises of the property: people who
  change older mail for ever, and a republish age that brings the older mail back into
  a bounded batch before the newer has had its turn. The run sets no republish age;
  what there is to say with one is in Drain.
- `QuietAtRest`: without a republish age, once the mailbox is at rest no cycle
  fetches anything any more. (With one a folder at rest is fetched and published
  again every so many minutes, as config.py:99 has it.)
- `OfferedAgain`: with a republish age and no bound on the batch, no mail stays due.
- `ImplementsBridge`: no event goes back and none escapes the bounds on receipt.
- `NoneStarves`: the cycles in a row that pass a mail over, as long as none of them
  fails and the first of them has not expired, have no more places than there is other
  mail in the folder, and changes of it that were taken up again. So one flag set on
  older mail costs the newer a place in one batch, and a folder that drains within
  `republish_after_minutes` leaves nobody behind. Where it does not, the newest mail
  may never be published: see drain_starves below.
- `KeepsComing`: in a folder that drains within `republish_after_minutes`, what stays
  is published over and over, once people leave the older mail alone. `Fits` and
  `ChangesEnd` are premises of the property: TLC refutes it without either.
  `EmptiedInTheEnd` needs neither: a consumer that keeps reading empties the folder in
  the end, although the stream keeps dropping what was published and marked. Without
  `republish_after_minutes` neither holds.
- `HealthyNeverKilled`, `WedgeNoticed`: with durations that just fit the window,
  only a hanging loop is restarted, and every hanging loop is reported, in the very
  first cycle as well, and though the clock is set back, unless it is so again and
  again.
- `ProbesTellLastOutcome`: after a cycle `/health` tells how the last request and
  the last publish went. It may blame the bus for attachments that do not decode
  (service.py:109-110), never call a bus healthy whose last publish failed.
- `SentIsComplete`, `NeverLost`, `DoneAsReported`, `CopiesBounded`, `CallEnds`:
  whatever is answered to whichever attempt, no incomplete message is sent, a send
  that returns has sent, and every call ends. If every answer was right, what is
  reported is exactly what happened. If a 503 follows a `sendMail` that was carried
  out, copies multiply, up to one per attempt; what is put together as a draft goes
  out once at most, as a draft that was sent answers the retry with 404.
- `StepsCount`: every request and every wait of a call brings its end nearer: a retry
  that is left, a chunk, an attachment or a step of the call.
- `CacheOnceRight`, `ServedByName`: a remembered id may be out of date, but it bore
  the name since the cache was last empty, and no call is served by a folder that
  did not. `NewIsFound`: a top-level folder that `create_folder` returned is where
  its name leads, whatever it led to before, a lost answer to an earlier create
  included.

The runs that end in a violation are in section 7.

## 4. Bounds

- Two messages. Every property of the connector is about one message or about the
  order and the counts of what is listed, fetched and published together; two
  messages give ties and both orders, a message before and behind the one that
  fails, a page boundary between them, and one that is listed twice while the
  other is missed. The theorems are for any number.
- Change stamps: exact in the runs about counts and delivery, too coarse for two of
  the instants in connector_safety; missing for one message in connector_bridge.
- `MaxTime` 2 or 3 bounds the clock, and with it the changes of a message: enough
  for a change between each pair of the three requests of an event, and for a hold
  or a republish age to run out after a publish. Where the clock ends, changes and
  expiries end as well, which they need not in the code. So the liveness properties of
  Connector name what they take from that, as premises: `ChangesEnd` (the mailbox
  comes to rest), and no republish age where a batch is bounded or a folder is to
  become quiet. `OfferedAgain` takes nothing from it: what is due without a bound on
  the batch is in the next one. With bounded batches, expiry and changes that
  go on, the properties are those of Drain, which has no clock that ends.
- `MaxFaults` 1 or 2 bounds failed requests, failed publishes and crashes that are
  not forced by the constants. Permanent failures (`Unfetchable`, `Unpublishable`)
  do not count against it.
- `PageSize` 1 makes the listing shift between pages; 2 is a folder that fits in a
  page. Real pages are 100 messages.
- Health: `QuietMax` bounds answers in a row that do not beat, and `FolderMax`
  the messages of a listing. The durations of `Health.cfg` meet `BeatsFit` with
  equality on both of its lines, so any duration one unit longer would not fit.
  `ShiftMax` bounds how far the clock has been set back in all since the last beat
  that counts; ages over the window are not told apart.
- Drain: three mails in batches of two, and an age that leaves time for two cycles
  of the longest length, so that the folder fits, if not in one batch, and what was
  changed competes for the places; a stream that is trimmed to one event or two
  (`Slack` 1), so that a batch drops events unless they were read. Changes are not
  bounded. drain_starves has a folder that does not fit.
  `Laps` is how many cycles begin before what the first of them published expires;
  `MaxFaults` bounds failed cycles and restarts, of which one is enough to put the
  turns of the batches out of order.
- Folders: three ids, one display name and one well-known one. A name can pass from
  one folder to another and to a third, one of them made by the client. No bound on
  calls, renames and moves; an id is never used again.
- Sending: a small attachment, a file that cannot be read and two large ones, of
  three and of four bytes in chunks of two, so that one ends in a short chunk and
  the other in a full one; two retries (the code has three), so that a retry is
  itself retried.

## 5. Fairness

`Connector!FairSpec` has weak fairness of the connector's own steps, taken
together: the coroutine waits only for answers, timeouts and its interval. The
environment owes nothing: mail need not arrive, time need not pass, nothing need
crash. Faults are finite, which is the assumption under which "a failure only
postpones" means anything. `Health!FairSpec` has weak fairness of the clock alone:
`WedgeNoticed` needs no cooperation of a loop that hangs, and supposes that the
clock is not set back for ever, in its own premise. `Drain!FairSpec` has weak
fairness of the poller's steps and of time; that the consumer reads what is there
is no part of it but the premise of `EmptiedInTheEnd`. `Sending!FairSpec` has
weak fairness of the client's steps: httpx has a timeout on every attempt, and
sleeps end; not of any particular answer, so throttling may go on for ever.

## 6. Theorems

Proved by TLAPS for every value of the constants; the listing is in
`PROJECT.json` under "theorems". None takes more than the ASSUMEs of the modules,
except where said.

*ConnectorProofs.* `TypeCorrect` is type correctness together with `Control`, what
each phase holds. `AlwaysConsistent` is the main inductive invariant,
`Consistent`: fetched messages are versions the mailbox had, with their stamp
(`FetchedSound`); events likewise, their other parts no older than their body
(`BusSound`); what is in flight is never older than what is on the bus, nor than
what is in flight before it (`InOrder`); the version remembered is no newer than
the last event (`RecordSound`). `InOrder` is needed because a shifting listing may
put a message into one batch twice: without it the second copy might undo the
first. `SuppressedAlwaysCurrent` follows, for stamps of any coarseness: if the
rescan skips a message then `Shown[modifiedAt]` <= the version remembered <=
`Shown[part]` for each part of its last event, and each part <= `modifiedAt`, so
all of these are the same stamp.
`RecordBounded` and `MemoryAlwaysBounded` are about `WithinListing`: remembered and
in-flight ids together were all in the last complete listing.
`SummaryAlwaysHonest` rests on `Accounted`, what the summary holds in each phase:
that the drain counts what it published and nothing is dropped before it stops.

*BridgeProofs.* `BridgeImplemented`: `Spec` implies `ImplementsBridge`. Initial
states map to initial states; a publish the broker took maps to `Deliver`, a step
of the mailbox to one of the mailbox, all others stutter. It rests on `Consistent`
(versions never go back) and on `Admitted` (what is in flight was admissible when
it was listed, and admission does not wear off), which `AlwaysAdmitted` states.

*CycleProofs.* About one cycle. `BeforeNumbers` numbers a set of listed positions by
how many are older, which is what `Oldest` cuts by: the numbers differ, so a batch is no
more than `BatchMax` (`OldestBounded`), what is cut off is not older than what is taken
(`OldestAreOldest`), and every batch has one next stub (`NextAlwaysThere`). From these
`AlwaysWithinMax` and `AlwaysOldestFirst`. The latter takes `NextInHand`, that the
message whose MIME is waited for is the next of the batch, and that what is gone stays
gone. `CycleAlwaysAdvances` takes the types alone, and that a page that is not the last
is full.

*OnceProofs.* `AlwaysSettled`, and from it `NeverPublishedTwice` and
`NeverFetchedTwice`, under the two conditions above: `ModifiedHold = None`, and
`[]FitsAPage`, that what a listing asks for fits in a page whenever it is asked. The
invariant `AckedSettled` follows an acknowledged version through the cycle. While it
sits in the folder every listing returns it, with the stamp it has, as the bound on
receipt only moves on (`Admitted`); so the rescan keeps it in the record and out of the
batch until it is due. A message in flight is so once (`InFlightOnce`), so that its
publish takes it out of flight. A change, a move or a crash ends the claim, as `acked`
starts anew.

*DrainProofs.* `NobodyStarves`: the invariant `NoneStarves`, for every folder,
batch size, age and any number of changes. It is a counting argument. The inductive
invariant, `Sound`, says of a mail that was passed over in `turns[m]` cycles that
those that went ahead of it (`ahead[m]`) together with the places that went to
changed mail (`again[m]`) make up `turns[m]` full batches, that none of them is the
mail itself, and that none is due again yet, as it was published less than
`turns[m] * CycleMax` ago. So it is remembered still, and a cycle takes it a second
time only if it changed, which `again[m]` counts; as there are no more different mails
than the folder has besides `m`, the rest of the places is accounted for by changes.

*HealthProofs.* `HealthTyped`; `AlwaysInTime` for the invariant `BeatsInTime`: the
age of the last beat is at most what the awaits since may have cost. From it
`HealthyNotKilled`. Both assume `BeatsFit`, that the durations fit the window; the
code has no such check, and the finding `LongRescanNeverStale` is about a case in
which they do not. Neither is touched by a clock that is set back: it only
makes ages smaller. `ProbesAlwaysTell` is about `record_cycle`, with the invariant
`Told`: a cycle that has published something ended its last publish well, one that
has not yet leaves what an earlier cycle recorded of the bus true.

*SendingProofs.* `TypeCorrect`, with `Course`, the place of each step in its call.
`AlwaysAssembled` is the inductive invariant: the draft has the body and the
attachments the call is through with, and an upload session has every byte before
the chunk that comes next (`RangesMeet`: the ranges meet end to end, for all sizes
of attachments and chunks). From it `AlwaysComplete`, `NothingLost` and `ReportTrue`.
`CopiesAlwaysBounded` has an invariant of its own, `Copies`: a copy more than
attempts made cannot be there, and a draft that is still there has not been sent.
`EveryStepCounts` is the safety half of `CallEnds`: each step of the client, whatever
it is answered, goes down in a lexicographic order: the attachments to come (`Ahead`),
the requests of the one in hand (`Rank`), the bytes of the upload still to be sent, the
retries left, the sleep before the next. So no retry and no order of answers can keep a
call going. That the client does take its steps is fairness, and left to TLC.

*FoldersProofs.* `Sound` joins `CacheOnceRight` and `NewIsFound` with what ties
them together: a folder the client made is still the one at the top with that name,
so that a lookup can find no other, and a reference being looked up is one the
cache did not have. From it `RememberedWasRight`, `NewFolderResolves` and
`CallsServedByName`.

Only model-checked: everything that needs fairness (`EventuallyDelivered`,
`OfferedAgain`, `QuietAtRest`, `KeepsComing`, `EmptiedInTheEnd`, `WedgeNoticed`,
`CallEnds`), since the prover does not reason about fairness and ENABLED. What
`CallEnds` and the end of a cycle owe to the code rather than to fairness is proved:
`StepsCount` and `CycleAdvances`. Every invariant and every action property of the
passing runs is a theorem.

## 7. Findings

Each is a run that ends in a violation of one property that a comment or a document
states; `PROJECT.json` quotes both sides.

| Run | What TLC shows |
|---|---|
| connector_moved_mail | mail filed elsewhere between listing and fetch is not skipped: its immutable id still answers, and it is published |
| connector_bad_message | one message whose GET keeps failing stops older, healthy ones too |
| drain_starves | with a republish age shorter than a full drain, the newest mail is never published: what expires is older and goes ahead |
| health_gone | a run of 404s answers without a beat and reads as a wedged loop |
| folders_nested | the name of a child folder is missed by the lookup and sent as if it were an id |

Smaller ones, without a run:

- Mail changed after the listing is published within
  `ignore_modified_newer_than_minutes` (config.py:93 says held back), since only
  the listing filters.
- Changes within one second have one stamp; the later is not offered again until
  the message changes once more or is due for republishing.
- A listing in several pages may shift, and an unchanged message be published twice
  in one process lifetime; so may one that a hold on changed mail hides from a
  listing after it was published.
- Published mail that is flagged or read is due at once and, being older, goes before
  mail that was never published: with bounded batches, older mail that keeps changing
  keeps the newest waiting (`NoneStarves` counts the places it takes).
- Attachments that do not decode are recorded as a failure of the bus
  (service.py:109-110).
- `upload_chunk` is never retried, though docs/reference.md:591 says that the HTTP
  layer retries 429 and 503.
- `http.py:5` says that 5xx responses are retried, only 503 is.
- docs/reference.md:225 says that any non-2xx response raises, and a redirect does
  not (the action `Redirected`).
- A remembered folder id is never looked up again: when the folder is deleted and
  made anew by somebody else, a connector gets 404 in every cycle until it is
  restarted. `/health` says `degraded` and answers 200.
- A `create_folder` whose POST was carried out but not answered leaves the cache as
  it was (`CreateUnanswered`).

## 8. Not modelled

- Storage: `save_to_storage` does nothing, so there is no state, although DESIGN.md
  has mail saved before it is published.
- Authentication: thin wrappers of MSAL, whose cache, requests and sign-in are that
  library's. A network failure of a token request is not among `GRAPH_ERRORS` and
  ends the process: that is `Crash`. A refused one is a `GraphError`: `PollFails`.
- Configuration, entry point, logging: parsing and wiring, run once; settings are
  the constants.
- The command line tool: one call of the client, then the process ends; its state
  is that of the call.
- Mapping of fields, envelopes, HTML, size cap: data the properties do not tell
  apart.
- Single-request operations (`update_draft`, `discard_draft`, `delete_email`, ...):
  no state in the client, and their retries are those of GraphSession. Download of
  an attachment to disk: a stream copied to a file, whose failure is in the list of
  hazards.
- Mail without `receivedDateTime`, which the sort of poller.py:178 puts first: Graph
  gives every message one.
- In Drain: a hold on changed mail, and listings of several pages, which may make the
  record forget a mail; it then counts as one that was never published. What they do
  to a cycle is in Poller; how long they may keep other mail waiting is not modelled.
- Two connectors on one mailbox: each is a Connector of its own, with nothing shared
  but the mailbox, so each keeps what is proved here; a consumer sees both.
- A clock set forward: it ages the last beat by as much, and the probe may fail for
  a connector that works, which no code could tell from a wedge. A frozen event
  loop: then `/health` does not answer at all.

## 9. Plan

Done: all modules above with their theorems. What is left:

1. Connector and Health composed, so that the beats come from the very steps of the
   poller and a kill is a crash. The two share no state but `summary`, whose record
   Health has as `RecordCycle`; the composition would check that Health's awaits are
   those of Poller.
2. `PublishedOnce` in folders of several pages: of mail that does not shift, or with
   a bound on how often it is published again.
