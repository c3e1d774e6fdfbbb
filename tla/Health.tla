------------------------------- MODULE Health -------------------------------
(***************************************************************************)
(* HealthMonitor (src/outlook_connector/health.py), the beats the poller   *)
(* and the service give it, and the orchestrator that acts on its answer.  *)
(* A cycle is reduced to its awaits: what each may cost, and which of its  *)
(* answers beat.  Time is counted from the event that resets it, so that   *)
(* the clock itself is unbounded; the loop waits by the monotonic clock,   *)
(* the monitor goes by the wall clock, which somebody may set back.        *)
(***************************************************************************)
EXTENDS Integers

CONSTANTS
    Interval,    \* poll_interval_seconds
    Slack,       \* the 60 seconds of _stale_after
    BeatEvery,   \* the 10 seconds _beating_sleep sleeps between two beats
    RequestMax,  \* bound on one attempt of a Graph request that answers at all
    PublishMax,  \* bound on one publish
    MaxRetries,  \* max_retries of GraphSession
    FolderMax,   \* bound on the messages of a listing
    QuietMax,    \* bound on answers in a row that do not beat
    ShiftMax     \* bound on how far ahead of the wall clock a beat may come to be

ASSUME HealthAssumption ==
    /\ {Interval, Slack, BeatEvery, RequestMax, PublishMax} \subseteq Nat \ {0}
    /\ BeatEvery <= Slack
    /\ {MaxRetries, FolderMax, QuietMax, ShiftMax} \subseteq Nat

VARIABLES
    step,       \* what the poll loop waits for
    elapsed,    \* for how long
    attempt,    \* retries of the Graph request in progress
    waiting,    \* it sleeps until the next retry
    wedged,     \* it will never be answered
    quiet,      \* answers since the last beat
    listed, toFetch, fetched, published,   \* messages of the cycle
    silence,    \* age of the last beat or recorded cycle by the wall clock,
                \* from -ShiftMax up to StaleAfter + 1
    lastCycle,  \* outcome of the last recorded cycle
    graph, bus,          \* ProbeStatus.status of the two dependencies
    lastGraph, lastBus   \* observers: what the last request and publish came to

work == <<listed, toFetch, fetched, published>>
observed == <<lastGraph, lastBus>>
report == <<lastCycle, graph, bus>>
vars == <<step, elapsed, attempt, waiting, wedged, quiet, work, silence, report, observed>>

StaleAfter == IF 3 * Interval > Interval + Slack THEN 3 * Interval ELSE Interval + Slack

\* A cycle begins with the listing, or before it with the lookup of the folder's name:
\* found, it is cached; a raw id is looked up in every cycle.
Opening == {"lookup", "list"}
Requests == Opening \cup {"fetch", "mime", "attach"}
Probe == {"unknown", "ok", "error"}

TypeOK ==
    /\ step \in Requests \cup {"publish", "record", "sleep"}
    /\ {elapsed, attempt, quiet, listed, toFetch, fetched, published} \subseteq Nat
    /\ silence \in Int /\ -ShiftMax <= silence
    /\ waiting \in BOOLEAN
    /\ wedged \in BOOLEAN
    /\ lastCycle \in {"none", "ok", "graph", "bus"}
    /\ {graph, bus, lastGraph, lastBus} \subseteq Probe

Init ==
    /\ step \in Opening
    /\ waiting = FALSE /\ wedged = FALSE
    /\ elapsed = 0 /\ attempt = 0 /\ quiet = 0 /\ silence = 0
    /\ listed = 0 /\ toFetch = 0 /\ fetched = 0 /\ published = 0
    /\ lastCycle = "none"
    /\ graph = "unknown" /\ bus = "unknown"
    /\ lastGraph = "unknown" /\ lastBus = "unknown"

-----------------------------------------------------------------------------
(* HealthMonitor.                                                          *)

\* The later of the last beat and the last recorded cycle counts: after the
\* clock was set back a new beat may leave the other one ahead of it.
Beat ==
    /\ \/ silence' = 0
       \/ silence < 0 /\ UNCHANGED silence
    /\ quiet' = 0

\* An answer without a beat.
NoBeat == quiet < QuietMax /\ quiet' = quiet + 1 /\ UNCHANGED silence

\* Mutant: record_cycle credits the bus whenever it is not blamed.
RecordCycleAlwaysBus(outcome) ==
    /\ lastCycle' = outcome
    /\ graph' = IF outcome = "graph" THEN "error" ELSE "ok"
    /\ bus' = IF outcome = "bus" THEN "error" ELSE "ok"
    /\ Beat

\* The bus is credited only by a cycle that published something.
RecordCycle(outcome) ==
    /\ lastCycle' = outcome
    /\ graph' = IF outcome = "graph" THEN "error" ELSE "ok"
    /\ bus' = IF outcome = "bus" THEN "error" ELSE IF published > 0 THEN "ok" ELSE bus
    /\ Beat

\* Mutant: a process counts as starting until its first cycle is recorded.
StatusOnceStarted ==
    CASE lastCycle = "none" -> "starting"
      [] silence > StaleAfter /\ lastCycle # "none" -> "stale"
      [] silence <= StaleAfter /\ lastCycle = "ok" -> "ok"
      [] OTHER -> "degraded"

Status ==
    CASE silence > StaleAfter -> "stale"
      [] silence <= StaleAfter /\ lastCycle = "none" -> "starting"
      [] silence <= StaleAfter /\ lastCycle = "ok" -> "ok"
      [] OTHER -> "degraded"

-----------------------------------------------------------------------------
(* The awaits of a cycle.                                                  *)

Goto(next) == step' = next /\ elapsed' = 0 /\ attempt' = 0 /\ UNCHANGED <<waiting, wedged>>

\* The request in progress can be answered.
Answered(request) == step = request /\ ~ waiting /\ ~ wedged /\ lastGraph' = "ok"

\* The cycle ends with an outcome that is recorded at once.
Finish(outcome) ==
    /\ RecordCycle(outcome)
    /\ Goto("sleep")
    /\ listed' = 0 /\ toFetch' = 0 /\ fetched' = 0 /\ published' = 0

\* The drain goes on with the next message, if there is one.
Drain(n) ==
    IF n = fetched' THEN Goto("record") ELSE \E next \in {"attach", "publish"} : Goto(next)

\* Mutant: one fetch too many.
FetchNextAtZero(left) == IF left >= 0 THEN Goto("fetch") ELSE Drain(0)

FetchNext(left) == IF left > 0 THEN Goto("fetch") ELSE Drain(0)

\* The folder's name is looked up before the first page is asked for.
LookUp ==
    /\ Answered("lookup")
    /\ NoBeat
    /\ Goto("list")
    /\ UNCHANGED <<work, report, lastBus>>

\* A page of n stubs, one beat each; more says whether there is a nextLink, as
\* only a page with something on it has.
ListPage(n, more) ==
    /\ Answered("list")
    /\ listed + n <= FolderMax
    /\ more => n > 0
    /\ IF n > 0 THEN Beat ELSE NoBeat
    /\ listed' = listed + n
    /\ UNCHANGED <<fetched, published, report, lastBus>>
    /\ IF more
         THEN Goto("list") /\ UNCHANGED toFetch
         ELSE \E unseen \in 0..(listed + n) : toFetch' = unseen /\ FetchNext(unseen)

\* get_email is complete.
Fetched ==
    /\ toFetch' = toFetch - 1
    /\ fetched' = fetched + 1
    /\ FetchNext(toFetch - 1)
    /\ UNCHANGED <<listed, published, report, lastBus>>

Fetch ==
    /\ Answered("fetch")
    /\ Beat
    /\ Fetched

\* include_mime_content: the message alone does not beat.
FetchFirst ==
    /\ Answered("fetch")
    /\ NoBeat
    /\ Goto("mime")
    /\ UNCHANGED <<work, report, lastBus>>

FetchMime ==
    /\ Answered("mime")
    /\ Beat
    /\ Fetched

\* 404: `continue` comes before the heartbeat.
SkipGone ==
    /\ \/ Answered("fetch")
       \/ Answered("mime")
    /\ NoBeat
    /\ toFetch' = toFetch - 1
    /\ UNCHANGED fetched
    /\ FetchNext(toFetch - 1)
    /\ UNCHANGED <<listed, published, report, lastBus>>

\* A page of attachments; the last one, or one with a nextLink.
Attach ==
    /\ Answered("attach")
    /\ NoBeat
    /\ \E next \in {"attach", "publish"} : Goto(next)
    /\ UNCHANGED <<work, report, lastBus>>

\* Mutant: a publish does not beat.
PublishUnheard ==
    /\ step = "publish" /\ ~ wedged
    /\ lastBus' = "ok"
    /\ UNCHANGED <<silence, quiet>>
    /\ published' = published + 1
    /\ UNCHANGED fetched
    /\ Drain(published + 1)
    /\ UNCHANGED <<listed, toFetch, report, lastGraph>>

Publish ==
    /\ step = "publish" /\ ~ wedged
    /\ lastBus' = "ok"
    /\ Beat
    /\ published' = published + 1
    /\ UNCHANGED fetched
    /\ Drain(published + 1)
    /\ UNCHANGED <<listed, toFetch, report, lastGraph>>

\* The cycle got through.
Complete ==
    /\ step = "record"
    /\ Finish("ok")
    /\ UNCHANGED observed

\* A Graph error, from a poll or from an attachment request.
GraphFails ==
    /\ step \in Requests /\ ~ waiting /\ ~ wedged
    /\ Finish("graph")
    /\ lastGraph' = "error"
    /\ UNCHANGED lastBus

\* publish() raises, or the attachments do not decode (service.py:110).
BusFails ==
    /\ ~ wedged
    /\ \/ step = "publish" /\ lastBus' = "error" /\ UNCHANGED lastGraph
       \/ Answered("attach") /\ UNCHANGED lastBus
    /\ Finish("bus")

-----------------------------------------------------------------------------
(* The retry sleep of GraphSession, as _build_client has it beat.          *)

\* 429 or 503.
Throttled ==
    /\ step \in Requests /\ ~ waiting /\ ~ wedged
    /\ attempt < MaxRetries
    /\ attempt' = attempt + 1
    /\ waiting' = TRUE
    /\ elapsed' = 0
    /\ Beat
    /\ UNCHANGED <<step, wedged, work, report, observed>>

\* Mutant: a plain time.sleep.
WaitOnQuietly ==
    /\ waiting
    /\ elapsed' = 0
    /\ waiting' \in BOOLEAN
    /\ UNCHANGED <<step, attempt, wedged, quiet, silence, work, report, observed>>

\* Between two chunks of the sleep, and after the last.
WaitOn ==
    /\ waiting
    /\ elapsed' = 0
    /\ Beat
    /\ waiting' \in BOOLEAN
    /\ UNCHANGED <<step, attempt, wedged, work, report, observed>>

-----------------------------------------------------------------------------
(* Time, and what comes from outside.                                      *)

StartCycle ==
    /\ step = "sleep"
    /\ elapsed = Interval
    /\ \E first \in Opening : Goto(first)
    /\ UNCHANGED <<quiet, work, silence, report, observed>>

\* How long the loop may wait where it is.
Limit ==
    IF waiting THEN BeatEvery
    ELSE CASE step \in Requests -> RequestMax
           [] step = "publish" -> PublishMax
           [] step = "record" -> 0
           [] step = "sleep" -> Interval

Tick ==
    /\ wedged \/ elapsed < Limit
    /\ elapsed' = IF wedged THEN elapsed ELSE elapsed + 1
    /\ silence' = IF silence <= StaleAfter THEN silence + 1 ELSE silence
    /\ UNCHANGED <<step, attempt, waiting, wedged, quiet, work, report, observed>>

\* Somebody sets the wall clock back.  (An age over the window is not told
\* exactly, so that less of the shift may show in it.)
SetBack ==
    /\ \E shift \in 1..ShiftMax : silence' = silence - shift
    /\ -ShiftMax <= silence'
    /\ UNCHANGED <<step, elapsed, attempt, waiting, wedged, quiet, work, report, observed>>

\* A request or a publish that never returns.
Wedge ==
    /\ step \in Requests \cup {"publish"}
    /\ ~ waiting /\ ~ wedged
    /\ wedged' = TRUE
    /\ UNCHANGED <<step, elapsed, attempt, waiting, quiet, work, silence, report, observed>>

\* The orchestrator restarts a connector whose /health answers 503.
Kill ==
    /\ Status = "stale"
    /\ step' \in Opening
    /\ waiting' = FALSE /\ wedged' = FALSE
    /\ elapsed' = 0 /\ attempt' = 0 /\ quiet' = 0 /\ silence' = 0
    /\ listed' = 0 /\ toFetch' = 0 /\ fetched' = 0 /\ published' = 0
    /\ lastCycle' = "none"
    /\ graph' = "unknown" /\ bus' = "unknown"
    /\ lastGraph' = "unknown" /\ lastBus' = "unknown"

CycleStep ==
    \/ StartCycle \/ LookUp
    \/ \E n \in 0..FolderMax, more \in BOOLEAN : ListPage(n, more)
    \/ Fetch \/ FetchFirst \/ FetchMime \/ SkipGone
    \/ Attach \/ Publish \/ Complete \/ GraphFails \/ BusFails
    \/ Throttled \/ WaitOn

Next == CycleStep \/ Tick \/ SetBack \/ Wedge \/ Kill

Spec == Init /\ [][Next]_vars

\* Time passes.
FairSpec == Spec /\ WF_vars(Tick)

-----------------------------------------------------------------------------
(* Properties.                                                             *)

\* "A 503 there would let a liveness probe kill a healthy connector mid-drain"
\* (health.py:140): the orchestrator only ever kills a loop that hangs, provided
\* no run of answers without a beat outlasts the staleness window.
HealthyNeverKilled == [][Kill => wedged]_vars

\* A loop that hangs is reported (health.py:11), wherever in the cycle it does,
\* however far ahead of the wall clock its last beat is, unless the clock is set
\* back again and again.
WedgeNoticed == <>[][~ SetBack]_vars => (wedged ~> Status = "stale")

\* After a cycle /health tells how the last request and the last publish went,
\* although a cycle may have used neither, or one of them before the other
\* failed.  It may blame the bus too much (for attachments that do not decode,
\* service.py:110), never too little.
ProbesTellLastOutcome ==
    step = "sleep" =>
        /\ graph = lastGraph
        /\ bus = "ok" => lastBus = "ok"
        /\ lastBus = "error" => bus = "error"
        /\ lastBus = "ok" => bus # "unknown"

\* poller.py:105-108, "it beats per listed and per fetched message and through
\* retry sleeps, so a long rescan never reads as a wedged loop".
LongRescanNeverStale ==
    step \in Opening \cup {"fetch", "mime"} /\ ~ wedged => Status # "stale"

-----------------------------------------------------------------------------
(* The invariant behind HealthyNeverKilled.                                *)

\* Messages are counted off, never below nothing: what is fetched was unseen,
\* what is published was fetched.
Counted ==
    /\ step \in Opening \cup {"fetch", "mime", "sleep"} => published = 0
    /\ step \in Opening \cup {"sleep"} => fetched = 0
    /\ step \in {"fetch", "mime"} => toFetch > 0
    /\ step \in {"attach", "publish"} => published < fetched

\* The durations let every gap between two beats end inside the window.
BeatsFit ==
    /\ Interval + (QuietMax + 1) * RequestMax <= StaleAfter
    /\ QuietMax * RequestMax + PublishMax <= StaleAfter

\* How long a loop that does not hang may have been silent where it is: only
\* the lookup and the first listing request follow the interval without a beat.
Allowed ==
    CASE waiting \/ step = "sleep" -> elapsed
      [] ~ waiting /\ step = "record" -> StaleAfter
      [] ~ waiting /\ step \in Opening /\ listed = 0 ->
            Interval + quiet * RequestMax + elapsed
      [] OTHER -> quiet * RequestMax + elapsed

\* A loop that does not hang is never silent for longer.
BeatsInTime ==
    /\ quiet <= QuietMax
    /\ step \in {"sleep", "lookup"} => listed = 0
    /\ waiting => step \in Requests /\ ~ wedged
    /\ ~ wedged => elapsed <= Limit /\ silence <= Allowed

=============================================================================
