------------------------------- MODULE Drain -------------------------------
(***************************************************************************)
(* How a backlog drains: the poller's record of published mail and its     *)
(* bounded batches (src/outlook_connector/poller.py), cycle by cycle, the  *)
(* stream of bounded length that carries the events (bus.py, config.py),   *)
(* and the consumer that is meant to empty the folder.                     *)
(*                                                                         *)
(* Mail is known by its rank in the folder, oldest first.  Time is kept as *)
(* ages: of what is remembered, and of the cycle; so it is unbounded, and  *)
(* whether a mail expires before the rest has had its turn is not a matter *)
(* of where a clock ends.  Of the version a mail was published at only     *)
(* this is kept: whether the mail has changed since (`changed').           *)
(*                                                                         *)
(* A listing here is complete: nothing holds changed mail back and no page *)
(* shifts.  What those do to the record is in Poller.                      *)
(***************************************************************************)
EXTENDS Integers, Sequences, FiniteSets

CONSTANTS
    Mail,            \* the stays of messages in the folder, as ranks by age
    BatchMax,        \* batch_max_messages
    RepublishAfter,  \* republish_after_minutes, or None
    CycleMax,        \* the longest a cycle takes, its sleep included
    Laps,            \* cycles that begin before the mail of the first expires
    StreamMax,       \* max_len of the Redis stream
    Slack,           \* bound on what approximate trimming leaves beyond it
    MaxFaults,       \* bound on failed cycles and restarts
    None

ASSUME DrainAssumption ==
    /\ Mail \subseteq Nat /\ IsFiniteSet(Mail)
    /\ {BatchMax, CycleMax, Laps, StreamMax} \subseteq Nat \ {0}
    /\ RepublishAfter \in (Nat \ {0}) \cup {None}
    /\ {Slack, MaxFaults} \subseteq Nat
    /\ None \notin Int

\* The age at which the record forgets a mail comes after Laps cycles have begun.
ASSUME LapsAssumption == RepublishAfter = None \/ (Laps - 1) * CycleMax < RepublishAfter

VARIABLES
    folder,   \* the mail that is in the folder
    arrived,  \* the mail that is or was
    age,      \* [Mail -> age or None]: how long ago published; None = not remembered
    changed,  \* the mail that has changed since it was fetched for its last publish
    awake,    \* a batch is being drained
    batch,    \* what is left of it
    spent,    \* age of the cycle
    stream,   \* the events on the bus that nobody has read
    faults,   \* failed cycles and restarts so far
    turns,    \* observer: [Mail -> 0..Laps]: cycles in a row that passed a mail over
    ahead,    \* observer: [Mail -> SUBSET Mail]: what those cycles took instead
    again     \* observer: [Mail -> Nat]: how often that was remembered mail that had changed

mailVars == <<folder, arrived>>
observers == <<turns, ahead, again>>
vars == <<mailVars, age, changed, awake, batch, spent, stream, faults, observers>>

\* Ages are kept up to the one that expires.
AgeMax == IF RepublishAfter = None THEN 0 ELSE RepublishAfter

TypeOK ==
    /\ folder \subseteq arrived /\ arrived \subseteq Mail
    /\ age \in [Mail -> (0..AgeMax) \cup {None}]
    /\ changed \subseteq Mail
    /\ awake \in BOOLEAN
    /\ batch \subseteq Mail
    /\ ~ awake => batch = {}
    /\ spent \in 0..CycleMax
    /\ stream \in Seq(Mail) /\ Len(stream) <= StreamMax + Slack
    /\ faults \in 0..MaxFaults
    /\ turns \in [Mail -> 0..Laps]
    /\ ahead \in [Mail -> SUBSET Mail]
    /\ again \in [Mail -> Nat]

NoTurns ==
    /\ turns' = [m \in Mail |-> 0]
    /\ ahead' = [m \in Mail |-> {}]
    /\ again' = [m \in Mail |-> 0]

Init ==
    /\ folder \in SUBSET Mail /\ arrived = folder
    /\ age = [m \in Mail |-> None] /\ changed = {}
    /\ awake = FALSE /\ batch = {} /\ spent = 1
    /\ stream = <<>>
    /\ faults = 0
    /\ turns = [m \in Mail |-> 0]
    /\ ahead = [m \in Mail |-> {}]
    /\ again = [m \in Mail |-> 0]

-----------------------------------------------------------------------------
(* The poller.                                                             *)

\* Mutant: expiry is off by one.
ExpiredEarly(m) == RepublishAfter # None /\ age[m] >= RepublishAfter - 1

\* Mutant: nothing expires.
ExpiredNever(m) == FALSE

Expired(m) == RepublishAfter # None /\ age[m] >= RepublishAfter

\* B is the BatchMax oldest of S, or all of it.
OldestOf(B, S) ==
    /\ B \subseteq S
    /\ \A m \in B, n \in S \ B : m < n
    /\ Cardinality(B) <= BatchMax
    /\ B = S \/ Cardinality(B) = BatchMax

\* Observers: the mail of W waits for another cycle, in which B goes ahead, R of
\* it not for the first time.  Counted up to Laps.
PassOver(W, B, R) ==
    LET counted == {m \in W : turns[m] < Laps}
    IN  /\ turns' = [m \in Mail |-> IF m \in counted THEN turns[m] + 1
                                    ELSE IF m \in W THEN turns[m] ELSE 0]
        /\ ahead' = [m \in Mail |-> IF m \in counted THEN ahead[m] \cup B
                                    ELSE IF m \in W THEN ahead[m] ELSE {}]
        /\ again' = [m \in Mail |-> IF m \in counted THEN again[m] + Cardinality(R)
                                    ELSE IF m \in W THEN again[m] ELSE 0]

\* What is left of the record when the listing has pruned it.
Kept == {m \in folder : age[m] # None /\ ~ Expired(m)}

\* Published, and not modified since.
IsPublished(m) == m \in Kept \ changed

\* The listing, the pruning of the record, the choice of the batch and its fetch.
Rescan ==
    /\ ~ awake /\ spent > 0
    /\ LET unseen == {m \in folder : ~ IsPublished(m)}
       IN \E chosen \in SUBSET unseen :
            /\ OldestOf(chosen, unseen)
            /\ batch' = chosen
            /\ age' = [m \in Mail |-> IF m \in Kept THEN age[m] ELSE None]
            /\ changed' = (changed \cap Kept) \ chosen
            /\ PassOver(unseen \ chosen, chosen, chosen \cap Kept)
    /\ awake' = TRUE
    /\ spent' = 0
    /\ UNCHANGED <<mailVars, stream, faults>>

\* Mutant: the stream is not trimmed.
Untrimmed(s) == {s}

\* XADD MAXLEN ~: the oldest events give way, read or not, down to StreamMax of
\* them or a few more.
Trimmed(s) ==
    {SubSeq(s, n + 1, Len(s)) :
        n \in {k \in 0..Len(s) : /\ k = 0 \/ Len(s) - k >= StreamMax
                                 /\ Len(s) - k <= StreamMax + Slack}}

\* The next of the batch is published and marked.
Publish ==
    /\ awake
    /\ \E m \in batch :
        /\ \A n \in batch : m <= n
        /\ stream' \in Trimmed(Append(stream, m))
        /\ age' = [age EXCEPT ![m] = 0]
        /\ batch' = batch \ {m}
    /\ UNCHANGED <<mailVars, changed, awake, spent, faults, observers>>

CycleDone ==
    /\ awake /\ batch = {}
    /\ awake' = FALSE
    /\ UNCHANGED <<mailVars, age, changed, batch, spent, stream, faults, observers>>

\* The first failure ends the cycle; what is left is not marked, and is as
\* changed as it was.
CycleFails ==
    /\ awake
    /\ faults < MaxFaults /\ faults' = faults + 1
    /\ awake' = FALSE /\ batch' = {}
    /\ changed' = {m \in changed \cup batch : age[m] # None}
    /\ NoTurns
    /\ UNCHANGED <<mailVars, age, spent, stream>>

\* The process is started again, with nothing remembered.
Restart ==
    /\ faults < MaxFaults /\ faults' = faults + 1
    /\ awake' = FALSE /\ batch' = {} /\ spent' = 1
    /\ age' = [m \in Mail |-> None] /\ changed' = {}
    /\ NoTurns
    /\ UNCHANGED <<mailVars, stream>>

-----------------------------------------------------------------------------
(* Everything else.                                                        *)

\* Time passes; a cycle takes CycleMax at most.
Tick ==
    /\ spent < CycleMax
    /\ spent' = spent + 1
    /\ age' = [m \in Mail |->
                 IF age[m] = None \/ age[m] = AgeMax THEN age[m] ELSE age[m] + 1]
    /\ UNCHANGED <<mailVars, changed, awake, batch, stream, faults, observers>>

Arrive(m) ==
    /\ m \notin arrived
    /\ folder' = folder \cup {m}
    /\ arrived' = arrived \cup {m}
    /\ UNCHANGED <<age, changed, awake, batch, spent, stream, faults, observers>>

\* Somebody flags or reads a mail; it matters for what has been fetched.
Change(m) ==
    /\ m \in folder \ changed
    /\ age[m] # None \/ m \in batch
    /\ changed' = changed \cup {m}
    /\ UNCHANGED <<mailVars, age, awake, batch, spent, stream, faults, observers>>

\* The consumer reads the oldest event and files its mail elsewhere.
Consume ==
    /\ stream # <<>>
    /\ stream' = Tail(stream)
    /\ folder' = folder \ {Head(stream)}
    /\ UNCHANGED <<arrived, age, changed, awake, batch, spent, faults, observers>>

Work == Rescan \/ Publish \/ CycleDone

Next ==
    \/ Work \/ CycleFails \/ Restart
    \/ Tick \/ Consume
    \/ \E m \in Mail : Arrive(m) \/ Change(m)

Spec == Init /\ [][Next]_vars

\* The poller goes on and so does time; nobody need read the stream.
FairSpec == Spec /\ WF_vars(Work) /\ WF_vars(Tick)

-----------------------------------------------------------------------------

\* The whole folder is drained before the first of it expires.
Fits == RepublishAfter = None \/ Cardinality(Mail) <= Laps * BatchMax

\* People leave the mail alone in the end.
ChangesEnd == <>[][\A m \in Mail : ~ Change(m)]_vars

\* No mail waits for long: the cycles in a row that take a full batch and leave it
\* behind, while none of them fails, go through the rest of the folder once, and
\* once more through what changed (config.py:68: "a backlog drains across
\* cycles").  This holds for as many cycles as begin before the first of it
\* expires; so what fits is drained.
NoneStarves ==
    \A m \in Mail : turns[m] * BatchMax < Cardinality(Mail) + again[m]

\* While it stays, a mail is published over and over, "and every N minutes
\* after that" (README.md:51), whether or not anybody empties the folder: if it
\* fits, and older mail is not changed for ever.
KeepsComing ==
    RepublishAfter # None /\ Fits /\ ChangesEnd =>
        \A m \in Mail : []<>(m \notin folder \/ age[m] = 0)

\* A consumer that keeps reading empties the folder in the end, although the
\* stream drops what it has no room for: republishing brings it back.  This needs
\* neither a folder that fits nor an end of the changes.
EmptiedInTheEnd == RepublishAfter # None /\ WF_vars(Consume) => <>[](folder = {})

\* What config.py:68 says of batch_max_messages: "a backlog (or a restart's
\* re-emit of the whole folder) drains across cycles", if nobody changes it.
BacklogDrains ==
    ChangesEnd => \A m \in Mail : m \in folder ~> (m \notin folder \/ age[m] = 0)

=============================================================================
