---------------------------- MODULE HealthProofs ----------------------------
(***************************************************************************)
(* Theorems about Health, for every interval, every bound on a request and *)
(* every folder.                                                           *)
(***************************************************************************)
EXTENDS Health, TLAPS

USE DEF Opening

\* The durations, counters and the window are natural numbers.
LEMMA Durations ==
    /\ {Interval, Slack, BeatEvery, RequestMax, PublishMax} \subseteq Nat
    /\ {QuietMax, FolderMax, ShiftMax} \subseteq Nat
    /\ StaleAfter \in Nat
    /\ BeatEvery <= StaleAfter
BY HealthAssumption DEF StaleAfter

-----------------------------------------------------------------------------
(* Type correctness.                                                       *)

TypeInv == TypeOK /\ Counted

\* The loop starts well typed.
LEMMA InitTyped == Init => TypeInv
<1> SUFFICES ASSUME Init PROVE TypeInv
  OBVIOUS
<1>1. waiting \in BOOLEAN /\ wedged \in BOOLEAN
  BY DEF Init
<1>2. /\ {elapsed, attempt, quiet, listed, toFetch, fetched, published} \subseteq Nat
      /\ silence \in Int /\ -ShiftMax <= silence
  BY Durations DEF Init
<1> QED BY <1>1, <1>2 DEF Init, TypeInv, TypeOK, Counted, Requests, Probe

\* What an answer does to the age of the last beat.
LEMMA BeatTyped ==
    ASSUME TypeInv, Beat \/ NoBeat
    PROVE  quiet' \in Nat /\ silence' \in Int /\ -ShiftMax <= silence'
BY Durations DEF Beat, NoBeat, TypeInv, TypeOK

\* A cycle that ends leaves no message behind, whatever its outcome.
LEMMA FinishTyped ==
    ASSUME TypeInv, NEW outcome \in {"ok", "graph", "bus"}, Finish(outcome),
           lastGraph' \in Probe, lastBus' \in Probe
    PROVE  TypeInv'
BY BeatTyped DEF Finish, RecordCycle, Goto, TypeInv, TypeOK, Counted, Requests, Probe

\* Where the loop goes after a fetch, or after the listing.
LEMMA FetchNextTyped ==
    ASSUME TypeInv, NEW left \in Nat, FetchNext(left), toFetch' = left,
           fetched' \in Nat, published' = 0
    PROVE  /\ step' \in {"fetch", "attach", "publish", "record"}
           /\ elapsed' \in Nat /\ attempt' \in Nat /\ UNCHANGED <<waiting, wedged>>
           /\ Counted'
BY DEF FetchNext, Drain, Goto, Counted

\* Every step of a cycle keeps the types and the counts.
LEMMA CycleTyped ==
    ASSUME TypeInv, CycleStep
    PROVE  TypeInv'
<1> USE DEF TypeInv, TypeOK, Requests
<1>1. CASE StartCycle
  BY <1>1 DEF StartCycle, Goto, work, report, observed, Counted
<1>2. ASSUME NEW n \in 0..FolderMax, NEW more \in BOOLEAN, ListPage(n, more)
      PROVE  TypeInv'
  <2>1. n \in Nat /\ listed' \in Nat
    BY <1>2, Durations DEF ListPage
  <2>2. CASE more
    BY <1>2, <2>1, <2>2, BeatTyped DEF ListPage, Answered, Goto, report, Counted, Probe
  <2>3. CASE ~ more
    <3>1. PICK unseen \in 0..(listed + n) : toFetch' = unseen /\ FetchNext(unseen)
      BY <1>2, <2>3 DEF ListPage
    <3>2. unseen \in Nat /\ fetched' \in Nat /\ published' = 0
      BY <1>2, <2>1 DEF ListPage, Answered, Counted
    <3>3. UNCHANGED <<report, lastBus>> /\ lastGraph' = "ok" /\ (Beat \/ NoBeat)
      BY <1>2 DEF ListPage, Answered
    <3> QED BY <2>1, <3>1, <3>2, <3>3, BeatTyped, FetchNextTyped DEF report, Probe
  <2> QED BY <2>2, <2>3
<1>3. CASE Fetch \/ FetchMime \/ SkipGone
  <2>1. /\ toFetch > 0 /\ published = 0 /\ lastGraph' = "ok" /\ (Beat \/ NoBeat)
        /\ UNCHANGED <<listed, published, report, lastBus>>
        /\ toFetch' = toFetch - 1 /\ FetchNext(toFetch - 1)
        /\ fetched' \in {fetched, fetched + 1}
    BY <1>3 DEF Fetch, FetchMime, SkipGone, Fetched, Answered, Counted
  <2>2. toFetch - 1 \in Nat /\ fetched' \in Nat /\ published' = 0
    BY <2>1
  <2> QED BY <2>1, <2>2, BeatTyped, FetchNextTyped DEF report, Probe
<1>4. CASE FetchFirst
  BY <1>4, BeatTyped DEF FetchFirst, Answered, Goto, work, report, Counted, Probe
<1>5. CASE Attach
  BY <1>5, BeatTyped DEF Attach, Answered, Goto, work, report, Counted, Probe
<1>6. CASE Publish
  <2>1. step' \in {"attach", "publish", "record"} /\ elapsed' = 0 /\ attempt' = 0
        /\ UNCHANGED <<waiting, wedged>> /\ Counted'
    BY <1>6 DEF Publish, Drain, Goto, Counted
  <2> QED BY <1>6, <2>1, BeatTyped DEF Publish, report, Probe
<1>7. CASE Complete
  BY <1>7, FinishTyped DEF Complete, observed
<1>8. CASE GraphFails
  BY <1>8, FinishTyped DEF GraphFails, Probe
<1>9. CASE BusFails
  BY <1>9, FinishTyped DEF BusFails, Answered, Probe
<1>10. CASE Throttled
  BY <1>10, BeatTyped DEF Throttled, work, report, observed, Counted
<1>11. CASE WaitOn
  BY <1>11, BeatTyped DEF WaitOn, work, report, observed, Counted
<1>12. CASE LookUp
  BY <1>12, BeatTyped DEF LookUp, Answered, Goto, work, report, Counted, Probe
<1> QED BY <1>1, <1>2, <1>3, <1>4, <1>5, <1>6, <1>7, <1>8, <1>9, <1>10, <1>11, <1>12 DEF CycleStep

\* TypeInv is inductive.
LEMMA StepTyped == TypeInv /\ [Next]_vars => TypeInv'
<1> SUFFICES ASSUME TypeInv, [Next]_vars PROVE TypeInv'
  OBVIOUS
<1> USE DEF TypeInv, TypeOK
<1>1. CASE Tick
  BY <1>1, Durations DEF Tick, work, report, observed, Counted
<1>2. CASE Wedge
  BY <1>2 DEF Wedge, work, report, observed, Counted
<1>3. CASE Kill
  <2>1. waiting' \in BOOLEAN /\ wedged' \in BOOLEAN
    BY <1>3 DEF Kill
  <2>2. /\ {elapsed, attempt, quiet, listed, toFetch, fetched, published}' \subseteq Nat
        /\ silence' \in Int /\ -ShiftMax <= silence'
    BY <1>3, Durations DEF Kill
  <2> QED BY <1>3, <2>1, <2>2 DEF Kill, Counted, Requests, Probe
<1>4. CASE SetBack
  BY <1>4, Durations DEF SetBack, work, report, observed, Counted
<1>5. CASE UNCHANGED vars
  BY <1>5 DEF vars, work, report, observed, Counted
<1> QED BY <1>1, <1>2, <1>3, <1>4, <1>5, CycleTyped DEF Next

\* Every variable keeps its type, and no message is counted twice or missing.
THEOREM HealthTyped == Spec => [](TypeOK /\ Counted)
<1>1. Spec => []TypeInv
  BY InitTyped, StepTyped, PTL DEF Spec
<1> QED BY <1>1, PTL DEF TypeInv

-----------------------------------------------------------------------------
(* The staleness window.                                                   *)

\* One more answer is one more request's worth of silence.
LEMMA OneMoreQuiet ==
    ASSUME NEW q \in Nat
    PROVE  /\ q * RequestMax \in Nat
           /\ (q + 1) * RequestMax = q * RequestMax + RequestMax
BY Durations

\* Fewer answers are less silence.
LEMMA QuietMonotone ==
    ASSUME NEW q \in Nat, q <= QuietMax
    PROVE  q * RequestMax <= QuietMax * RequestMax
BY Durations

\* A loop silent for as long as it is allowed to be is within the window.
LEMMA AllowedFits ==
    ASSUME TypeInv, BeatsFit, BeatsInTime, ~ wedged
    PROVE  silence <= StaleAfter
<1> USE DEF TypeInv, TypeOK
<1>1. /\ quiet * RequestMax \in Nat /\ quiet * RequestMax <= QuietMax * RequestMax
      /\ QuietMax * RequestMax \in Nat
      /\ (QuietMax + 1) * RequestMax = QuietMax * RequestMax + RequestMax
  BY OneMoreQuiet, QuietMonotone, Durations DEF BeatsInTime
<1>2. Interval <= StaleAfter
  BY HealthAssumption DEF StaleAfter
<1>3. silence <= Allowed /\ elapsed <= Limit
  BY DEF BeatsInTime
<1>4. CASE waiting
  BY <1>3, <1>4, Durations DEF Allowed, Limit
<1>5. CASE ~ waiting /\ step = "sleep"
  BY <1>2, <1>3, <1>5, Durations DEF Allowed, Limit, Requests
<1>6. CASE ~ waiting /\ step = "record"
  BY <1>3, <1>6 DEF Allowed
<1>7. CASE ~ waiting /\ step = "publish"
  BY <1>1, <1>3, <1>7, Durations DEF Allowed, Limit, BeatsFit, Requests
<1>8. CASE ~ waiting /\ step \in Requests
  <2>1. elapsed <= RequestMax
    BY <1>3, <1>8 DEF Limit, Requests
  <2>2. silence <= Interval + quiet * RequestMax + elapsed
    BY <1>1, <1>3, <1>8, Durations DEF Allowed, Requests
  <2> QED BY <1>1, <2>1, <2>2, Durations DEF BeatsFit
<1> QED BY <1>4, <1>5, <1>6, <1>7, <1>8

\* The loop starts in time.
LEMMA InitInTime == Init => BeatsInTime
<1> SUFFICES ASSUME Init PROVE BeatsInTime
  OBVIOUS
<1>1. quiet * RequestMax \in Nat
  BY OneMoreQuiet DEF Init
<1> QED BY <1>1, Durations DEF Init, BeatsInTime, Limit, Allowed, Requests

\* Wherever the loop goes right after a beat, it is in time.
LEMMA BeatInTime ==
    ASSUME TypeInv, TypeInv', BeatsInTime, Beat, elapsed' = 0,
           step' \in {"sleep", "lookup"} => listed' = 0,
           waiting' => step' \in Requests /\ ~ wedged'
    PROVE  BeatsInTime'
<1>1. quiet' = 0 /\ silence' <= 0 /\ quiet' * RequestMax \in Nat
  BY OneMoreQuiet DEF Beat, TypeInv, TypeOK
<1>2. Allowed' \in Nat /\ Limit' \in Nat
  BY <1>1, Durations DEF Allowed, Limit, TypeInv, TypeOK
<1>3. silence' \in Int /\ 0 <= QuietMax
  BY Durations DEF TypeInv, TypeOK
<1> QED BY <1>1, <1>2, <1>3 DEF BeatsInTime

\* So it is after an answer without a beat, when it was while waiting for it;
\* the interval is forgotten once a stub has been listed.
LEMMA NoBeatInTime ==
    ASSUME TypeInv, TypeInv', BeatsInTime, BeatsFit, NoBeat, elapsed' = 0,
           step \in Requests, ~ waiting, ~ wedged, UNCHANGED <<waiting, wedged>>,
           step' \in Requests \cup {"publish", "record"},
           step' \notin {"lookup", "list", "record"} => step \notin Opening \/ listed # 0,
           step' = "list" => step \in Opening /\ listed' = listed,
           step' # "lookup"
    PROVE  BeatsInTime'
<1> USE DEF TypeInv, TypeOK
<1>1. /\ quiet \in Nat /\ quiet < QuietMax /\ quiet' = quiet + 1 /\ silence' = silence
      /\ elapsed <= RequestMax /\ silence <= Allowed
  BY DEF NoBeat, BeatsInTime, Limit, Requests
<1>2. /\ quiet * RequestMax \in Nat
      /\ quiet' * RequestMax = quiet * RequestMax + RequestMax
  BY <1>1, OneMoreQuiet
<1>3. quiet' <= QuietMax /\ elapsed' <= Limit'
  BY <1>1, Durations DEF Limit, TypeInv
<1>4. CASE step' = "record"
  BY <1>1, <1>3, <1>4, AllowedFits DEF BeatsInTime, Allowed
<1>5. CASE step' = "list"
  BY <1>1, <1>2, <1>3, <1>5, Durations DEF BeatsInTime, Allowed, Requests
<1>6. CASE step' \notin {"lookup", "list", "record"}
  <2>1. silence <= quiet * RequestMax + elapsed
    BY <1>1, <1>6 DEF Allowed, Requests
  <2> QED BY <1>1, <1>2, <1>3, <1>6, <2>1, Durations DEF BeatsInTime, Allowed, Requests
<1> QED BY <1>4, <1>5, <1>6

\* Every step of a cycle leaves the loop in time.
LEMMA CycleInTime ==
    ASSUME TypeInv, TypeInv', BeatsInTime, BeatsFit, CycleStep
    PROVE  BeatsInTime'
<1>1. CASE StartCycle
  <2>1. elapsed = Interval /\ elapsed' = 0 /\ step' \in Opening /\ ~ waiting'
        /\ UNCHANGED <<quiet, silence, wedged, listed, fetched>> /\ listed = 0
    BY <1>1 DEF StartCycle, Goto, work, BeatsInTime, Requests
  <2>2. quiet * RequestMax \in Nat /\ silence \in Int
    BY OneMoreQuiet DEF TypeInv, TypeOK
  <2>3. ~ wedged => silence <= Interval
    BY <1>1, <2>1 DEF StartCycle, BeatsInTime, Allowed
  <2> QED BY <2>1, <2>2, <2>3, Durations DEF BeatsInTime, Allowed, Limit, Requests
<1>2. ASSUME NEW n \in 0..FolderMax, NEW more \in BOOLEAN, ListPage(n, more)
      PROVE  BeatsInTime'
  <2>1. /\ step = "list" /\ ~ waiting /\ ~ wedged /\ listed' = listed + n
        /\ fetched' = fetched /\ fetched = 0 /\ listed \in Nat /\ n \in Nat
    BY <1>2, Durations DEF ListPage, Answered, TypeInv, TypeOK, Counted
  <2>2. CASE n > 0
    <3>1. Beat /\ elapsed' = 0 /\ ~ waiting' /\ step' \notin {"sleep", "lookup"}
      BY <1>2, <2>1, <2>2 DEF ListPage, FetchNext, Drain, Goto
    <3> QED BY <3>1, BeatInTime
  <2>3. CASE n = 0
    <3>1. PICK unseen \in 0..listed : FetchNext(unseen)
      BY <1>2, <2>1, <2>3 DEF ListPage
    <3>2. /\ NoBeat /\ elapsed' = 0 /\ UNCHANGED <<waiting, wedged>>
          /\ step' \in {"fetch", "attach", "publish", "record"}
          /\ listed = 0 => step' = "record"
      BY <1>2, <2>1, <2>3, <3>1 DEF ListPage, FetchNext, Drain, Goto
    <3> QED BY <2>1, <3>2, NoBeatInTime DEF Requests
  <2> QED BY <2>1, <2>2, <2>3
<1>3. CASE Fetch \/ FetchMime
  <2>1. Beat /\ FetchNext(toFetch - 1) /\ ~ waiting
    BY <1>3 DEF Fetch, FetchMime, Fetched, Answered
  <2>2. elapsed' = 0 /\ ~ waiting' /\ step' \notin {"sleep", "lookup"}
    BY <2>1 DEF FetchNext, Drain, Goto
  <2> QED BY <2>1, <2>2, BeatInTime
<1>4. CASE SkipGone
  <2>1. /\ NoBeat /\ FetchNext(toFetch - 1) /\ ~ waiting /\ ~ wedged
        /\ step \in {"fetch", "mime"}
    BY <1>4 DEF SkipGone, Answered
  <2>2. /\ elapsed' = 0 /\ UNCHANGED <<waiting, wedged>>
        /\ step' \in {"fetch", "attach", "publish", "record"}
    BY <2>1 DEF FetchNext, Drain, Goto
  <2> QED BY <2>1, <2>2, NoBeatInTime DEF Requests
<1>5. CASE FetchFirst
  BY <1>5, NoBeatInTime DEF FetchFirst, Answered, Goto, Requests
<1>6. CASE Attach
  BY <1>6, NoBeatInTime DEF Attach, Answered, Goto, Requests
<1>7. CASE Publish
  <2>1. Beat /\ Drain(published + 1) /\ ~ waiting /\ ~ wedged
    BY <1>7 DEF Publish, BeatsInTime, Requests
  <2>2. elapsed' = 0 /\ ~ waiting' /\ step' \notin {"sleep", "lookup"}
    BY <2>1 DEF Drain, Goto
  <2> QED BY <2>1, <2>2, BeatInTime
<1>8. CASE Complete \/ GraphFails \/ BusFails
  <2>1. PICK outcome : Finish(outcome)
    BY <1>8 DEF Complete, GraphFails, BusFails
  <2>2. ~ waiting
    BY <1>8 DEF Complete, GraphFails, BusFails, Answered, BeatsInTime, Requests
  <2>3. Beat /\ elapsed' = 0 /\ ~ waiting' /\ listed' = 0
    BY <2>1, <2>2 DEF Finish, RecordCycle, Goto
  <2> QED BY <2>3, BeatInTime
<1>9. CASE Throttled
  <2>1. /\ Beat /\ elapsed' = 0 /\ step' \in Requests /\ ~ wedged' /\ step' # "sleep"
        /\ UNCHANGED <<step, listed>>
    BY <1>9 DEF Throttled, Requests, work
  <2> QED BY <2>1, BeatInTime DEF BeatsInTime
<1>10. CASE WaitOn
  <2>1. /\ Beat /\ elapsed' = 0 /\ step' \in Requests /\ ~ wedged' /\ step' # "sleep"
        /\ UNCHANGED <<step, listed>>
    BY <1>10 DEF WaitOn, BeatsInTime, Requests, work
  <2> QED BY <2>1, BeatInTime DEF BeatsInTime
<1>11. CASE LookUp
  <2>1. step = "lookup" /\ step' = "list" /\ listed' = listed /\ NoBeat /\ elapsed' = 0
        /\ ~ waiting /\ ~ wedged /\ UNCHANGED <<waiting, wedged>>
    BY <1>11 DEF LookUp, Answered, Goto, work
  <2> QED BY <2>1, NoBeatInTime DEF Requests
<1> QED BY <1>1, <1>2, <1>3, <1>4, <1>5, <1>6, <1>7, <1>8, <1>9, <1>10, <1>11 DEF CycleStep

\* Time runs only as far as the loop may wait where it is.
LEMMA TickInTime ==
    ASSUME TypeInv, BeatsInTime, Tick
    PROVE  BeatsInTime'
<1> USE DEF TypeInv, TypeOK
<1>1. UNCHANGED <<step, waiting, wedged, quiet, listed, fetched>>
  BY DEF Tick, work
<1>2. CASE wedged
  BY <1>1, <1>2 DEF BeatsInTime
<1>3. CASE ~ wedged
  <2>1. elapsed < Limit /\ elapsed' = elapsed + 1 /\ silence' <= silence + 1
    BY <1>3, Durations DEF Tick
  <2>2. silence <= Allowed /\ Allowed \in Nat /\ Limit \in Nat
    BY <1>3, OneMoreQuiet, Durations DEF BeatsInTime, Allowed, Limit
  <2>3. Limit' = Limit
    BY <1>1 DEF Limit
  <2>4. CASE waiting \/ step # "record"
    <3>1. Allowed' = Allowed + 1
      BY <1>1, <2>1, <2>4, OneMoreQuiet, Durations DEF Allowed
    <3>2. silence' <= Allowed' /\ elapsed' <= Limit'
      BY <2>1, <2>2, <2>3, <3>1, Durations DEF Tick
    <3> QED BY <1>1, <3>2 DEF BeatsInTime
  <2>5. CASE ~ waiting /\ step = "record"
    BY <2>1, <2>5 DEF Limit, Requests
  <2> QED BY <2>4, <2>5
<1> QED BY <1>2, <1>3

\* BeatsInTime is inductive, given the types.
LEMMA StepInTime ==
    ASSUME BeatsFit, TypeInv, TypeInv', BeatsInTime, [Next]_vars
    PROVE  BeatsInTime'
<1>1. CASE Wedge
  BY <1>1 DEF Wedge, work, BeatsInTime
<1>2. CASE Kill
  <2>1. Beat /\ elapsed' = 0 /\ ~ waiting' /\ listed' = 0
    BY <1>2 DEF Kill, Beat
  <2> QED BY <2>1, BeatInTime
<1>3. CASE SetBack
  <2>1. silence' <= silence /\ Allowed' = Allowed /\ Limit' = Limit /\ Allowed \in Int
        /\ UNCHANGED <<step, elapsed, waiting, wedged, quiet, listed>>
    BY <1>3, OneMoreQuiet, Durations DEF SetBack, work, Allowed, Limit, TypeInv, TypeOK
  <2> QED BY <2>1 DEF BeatsInTime, TypeInv, TypeOK
<1>4. CASE UNCHANGED vars
  BY <1>4 DEF vars, work, BeatsInTime, Allowed, Limit
<1> QED BY <1>1, <1>2, <1>3, <1>4, CycleInTime, TickInTime DEF Next

\* Between two beats a loop that does not hang stays within what its awaits may
\* cost, wherever it is and however the answers fall (Poller.poll_mailbox,
\* run_workflow and _beating_sleep together).
THEOREM AlwaysInTime ==
    ASSUME BeatsFit
    PROVE  Spec => []BeatsInTime
<1>1. Init => TypeInv /\ BeatsInTime
  BY InitTyped, InitInTime
<1>2. (TypeInv /\ BeatsInTime) /\ [Next]_vars => (TypeInv /\ BeatsInTime)'
  BY StepTyped, StepInTime
<1> QED BY <1>1, <1>2, PTL DEF Spec

\* So the orchestrator never kills a connector that makes progress.
THEOREM HealthyNotKilled ==
    ASSUME BeatsFit
    PROVE  Spec => HealthyNeverKilled
<1>1. TypeInv /\ BeatsInTime /\ [Next]_vars => [Kill => wedged]_vars
  <2> SUFFICES ASSUME TypeInv, BeatsInTime, Kill PROVE wedged
    OBVIOUS
  <2>1. silence > StaleAfter
    BY Durations DEF Kill, Status, TypeInv, TypeOK
  <2> QED BY <2>1, AllowedFits, Durations DEF TypeInv, TypeOK
<1>2. Spec => []TypeInv
  BY InitTyped, StepTyped, PTL DEF Spec
<1> QED BY <1>1, <1>2, AlwaysInTime, PTL DEF Spec, HealthyNeverKilled

-----------------------------------------------------------------------------
(* What /health tells of the two dependencies.                             *)

\* The bus probe tells how the last publish before this cycle went.
BusTold ==
    /\ bus = "ok" => lastBus = "ok"
    /\ lastBus = "error" => bus = "error"
    /\ lastBus = "ok" => bus # "unknown"

\* Past the listing Graph has answered; once a message of the cycle is out, so
\* has the bus, and before that its probe is the one the last cycle left.
Told ==
    /\ step = "sleep" => graph = lastGraph
    /\ step \in {"fetch", "mime", "attach", "publish", "record"} => lastGraph = "ok"
    /\ IF published > 0 THEN lastBus = "ok" ELSE BusTold

\* The probes are told at the start: nothing is known of either.
LEMMA InitTold == Init => Told
BY DEF Init, Told, BusTold

\* Answered requests and publishes leave the probes for the end of the cycle.
LEMMA AnswersTold ==
    ASSUME TypeInv, Told,
           lastGraph' = "ok", UNCHANGED <<lastBus, published, bus>>, step' # "sleep"
    PROVE  Told'
BY DEF Told, BusTold

\* A cycle that records what its last request came to has told it, and credits
\* the bus for what it published before.
LEMMA FinishTold ==
    ASSUME TypeInv, Told, NEW outcome \in {"ok", "graph", "bus"}, Finish(outcome),
           lastGraph' = IF outcome = "graph" THEN "error" ELSE "ok",
           lastBus' # lastBus => outcome = "bus" /\ lastBus' = "error"
    PROVE  Told'
<1>1. /\ step' = "sleep" /\ published' = 0
      /\ graph' = lastGraph'
      /\ bus' = IF outcome = "bus" THEN "error" ELSE IF published > 0 THEN "ok" ELSE bus
  BY DEF Finish, RecordCycle, Goto
<1>2. BusTold'
  <2>1. CASE outcome = "bus"
    BY <1>1, <2>1 DEF BusTold
  <2>2. CASE outcome # "bus" /\ published > 0
    BY <1>1, <2>2 DEF BusTold, Told
  <2>3. CASE outcome # "bus" /\ ~ published > 0
    BY <1>1, <2>3 DEF BusTold, Told
  <2> QED BY <2>1, <2>2, <2>3
<1> QED BY <1>1, <1>2 DEF Told

\* Every step of a cycle keeps what the probes tell.
LEMMA CycleTold ==
    ASSUME TypeInv, Told, CycleStep
    PROVE  Told'
<1>1. CASE StartCycle
  BY <1>1 DEF StartCycle, Goto, work, report, observed, Told, BusTold
<1>2. ASSUME NEW n \in 0..FolderMax, NEW more \in BOOLEAN, ListPage(n, more)
      PROVE  Told'
  <2>1. step' # "sleep"
    BY <1>2 DEF ListPage, FetchNext, Drain, Goto
  <2> QED BY <1>2, <2>1, AnswersTold DEF ListPage, Answered, report
<1>3. CASE Fetch \/ FetchMime \/ SkipGone
  <2>1. /\ lastGraph' = "ok" /\ UNCHANGED <<published, report, lastBus>>
        /\ FetchNext(toFetch - 1)
    BY <1>3 DEF Fetch, FetchMime, SkipGone, Fetched, Answered
  <2>2. step' # "sleep"
    BY <2>1 DEF FetchNext, Drain, Goto
  <2> QED BY <2>1, <2>2, AnswersTold DEF report
<1>4. CASE LookUp \/ FetchFirst \/ Attach
  <2>1. step' # "sleep"
    BY <1>4 DEF LookUp, FetchFirst, Attach, Goto
  <2> QED BY <1>4, <2>1, AnswersTold DEF LookUp, FetchFirst, Attach, Answered, work, report
<1>5. CASE Publish
  <2>1. /\ lastBus' = "ok" /\ published' > 0 /\ lastGraph = "ok" /\ UNCHANGED lastGraph
        /\ step' # "sleep"
    BY <1>5 DEF Publish, Drain, Goto, Told, TypeInv, TypeOK
  <2> QED BY <2>1 DEF Told
<1>6. CASE Complete
  BY <1>6, FinishTold DEF Complete, observed, Told
<1>7. CASE GraphFails
  BY <1>7, FinishTold DEF GraphFails
<1>8. CASE BusFails
  <2>1. lastGraph' = "ok"
    BY <1>8 DEF BusFails, Answered, Told
  <2> QED BY <1>8, <2>1, FinishTold DEF BusFails
<1>9. CASE Throttled \/ WaitOn
  BY <1>9 DEF Throttled, WaitOn, work, report, observed, Told, BusTold
<1> QED BY <1>1, <1>2, <1>3, <1>4, <1>5, <1>6, <1>7, <1>8, <1>9 DEF CycleStep

\* Told is inductive, given the types.
LEMMA StepTold ==
    ASSUME TypeInv, Told, [Next]_vars
    PROVE  Told'
<1>1. CASE Tick \/ Wedge \/ SetBack
  BY <1>1 DEF Tick, Wedge, SetBack, work, report, observed, Told, BusTold
<1>2. CASE Kill
  BY <1>2 DEF Kill, Told, BusTold
<1>3. CASE UNCHANGED vars
  BY <1>3 DEF vars, work, report, observed, Told, BusTold
<1> QED BY <1>1, <1>2, <1>3, CycleTold DEF Next

\* While the loop sleeps /health tells how the last request and the last
\* publish went, through every failure, retry and restart: record_cycle, called
\* from all three places run_workflow ends a cycle, forgets no outcome
\* (health.py:147-165, service.py:95-130).
THEOREM ProbesAlwaysTell == Spec => []ProbesTellLastOutcome
<1>1. Init => TypeInv /\ Told
  BY InitTyped, InitTold
<1>2. (TypeInv /\ Told) /\ [Next]_vars => (TypeInv /\ Told)'
  BY StepTyped, StepTold
<1>3. TypeInv /\ Told => ProbesTellLastOutcome
  BY DEF TypeInv, Counted, Told, BusTold, ProbesTellLastOutcome
<1> QED BY <1>1, <1>2, <1>3, PTL DEF Spec

=============================================================================
