---------------------------- MODULE GraphSession ----------------------------
(***************************************************************************)
(* GraphSession (libs/outlook-helper/outlook_helper/http.py): what becomes *)
(* of the answer to one attempt of a request.                              *)
(***************************************************************************)
EXTENDS Integers

CONSTANTS
    MaxRetries,  \* max_retries
    Answers,     \* how an attempt may end, of those in Ends
    Ambiguous    \* those of Answers that may come after the request was carried out

Ends == {"200", "302", "404", "429", "500", "503", "lost"}
Errors == Ends \ {"200", "302"}

ASSUME SessionAssumption ==
    /\ MaxRetries \in Nat
    /\ Answers \subseteq Ends /\ "200" \in Answers
    /\ Ambiguous \subseteq Answers \cap Errors

VARIABLES
    attempt,  \* retries of the request in progress
    asleep,   \* in the Retry-After sleep
    answer    \* observer: how the last attempt ended

sessionVars == <<attempt, asleep, answer>>

SessionTypeOK ==
    /\ attempt \in 0..MaxRetries
    /\ asleep \in BOOLEAN
    /\ answer \in Ends

SessionInit == attempt = 0 /\ asleep = FALSE /\ answer = "200"

RetryStatus == {"429", "503"}

\* Mutant: one retry too many.
RetriesOnceMore(status) == status \in RetryStatus /\ attempt <= MaxRetries

\* request() tries again; upload_chunk and download never do.
Retries(status) == status \in RetryStatus /\ attempt < MaxRetries

\* Mutant: a throttled response is not an error once the retries are used up.
RaisesUnlessThrottled(status) == status \in Errors \ RetryStatus

\* A status of 400 or more, or an httpx error.
Raises(status) == status \in Errors

\* Mutant: the retries are not counted.
SleepUncounted == asleep' = TRUE /\ UNCHANGED attempt

Sleep == asleep' = TRUE /\ attempt' = attempt + 1

Wake == asleep /\ asleep' = FALSE /\ UNCHANGED <<attempt, answer>>

=============================================================================
