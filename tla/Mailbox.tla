------------------------------ MODULE Mailbox ------------------------------
(***************************************************************************)
(* The environment of the connector: one mailbox as Microsoft Graph serves *)
(* it, the clock, and everybody else who works in it (senders, people, the *)
(* downstream mover).  None of it is code of the repository; it is what    *)
(* src/ relies on.                                                         *)
(*                                                                         *)
(* Content is abstracted to the instant of its last change: two reads of a *)
(* message saw the same version exactly when they saw the same modifiedAt. *)
(***************************************************************************)
EXTENDS Integers, Sequences, FiniteSets

CONSTANTS
    Mail,                  \* the messages that can ever exist
    ReceivedAt,            \* [Mail -> Time]: receivedDateTime, never changes
    Shown,                 \* [Time -> Time]: an instant as Graph writes it
    Unstamped,             \* mail whose lastModifiedDateTime Graph omits
    IgnoreReceivedBefore,  \* the listing's `since` filter, or None
    PageSize,              \* messages per page of a listing ($top)
    MaxTime,               \* bound on the clock
    None                   \* no value (Python's None)

Time == 0..MaxTime
Maybe(S) == S \cup {None}

ASSUME MailAssumption == IsFiniteSet(Mail) /\ Unstamped \subseteq Mail
ASSUME MaxTimeAssumption == MaxTime \in Nat
ASSUME NoneAssumption == None \notin Int
ASSUME ReceivedAtAssumption == ReceivedAt \in [Mail -> Time]
ASSUME ShownAssumption ==
    /\ Shown \in [Time -> Time]
    /\ \A s, t \in Time : s <= t => Shown[s] <= Shown[t]
ASSUME PageSizeAssumption == PageSize \in Nat \ {0}
ASSUME SinceAssumption == IgnoreReceivedBefore \in Maybe(Int)

VARIABLES
    now,         \* the clock, shared by Graph and the connector
    where,       \* [Mail -> Places]
    modifiedAt   \* [Mail -> Time]: the instant of the last change

mailboxVars == <<now, where, modifiedAt>>

\* "outside": has not been in the polled folder yet; "elsewhere": moved out of
\* it, still in the mailbox and still served by id; "gone": deleted.
Places == {"outside", "folder", "elsewhere", "gone"}

MailboxTypeOK ==
    /\ now \in Time
    /\ where \in [Mail -> Places]
    /\ modifiedAt \in [Mail -> Time]
    /\ \A m \in Mail : modifiedAt[m] <= now

MailboxInit ==
    /\ now = 0
    /\ where \in [Mail -> {"outside", "folder"}]
    /\ \A m \in Mail : where[m] = "folder" => ReceivedAt[m] = 0
    /\ modifiedAt = [m \in Mail |-> 0]

-----------------------------------------------------------------------------
(* What a request returns.                                                 *)

\* lastModifiedDateTime of message m in a response given now.
Stamp(m) == IF m \in Unstamped THEN None ELSE Shown[modifiedAt[m]]

\* The folder's messages that pass the listing's $filter.
Matching(until, modifiedUntil) ==
    {m \in Mail :
        /\ where[m] = "folder"
        /\ IgnoreReceivedBefore = None \/ ReceivedAt[m] >= IgnoreReceivedBefore
        /\ until = None \/ ReceivedAt[m] <= until
        /\ modifiedUntil = None \/ modifiedAt[m] <= modifiedUntil}

\* The orders $orderby=receivedDateTime asc allows for S (ties in any order).
Listings(S) ==
    {order \in [1..Cardinality(S) -> S] :
        \A i, j \in 1..Cardinality(S) :
            i < j => /\ order[i] # order[j]
                     /\ ReceivedAt[order[i]] <= ReceivedAt[order[j]]}

\* A page is cut out of the listing as it is at the time of the request: the
\* nextLink only remembers how many messages have been served.
Page(order, skip) ==
    SubSeq(order, skip + 1,
           IF skip + PageSize < Len(order) THEN skip + PageSize ELSE Len(order))

-----------------------------------------------------------------------------
(* Everybody else's actions.                                               *)

\* A change of m at this instant.  No two changes of one message share one.
Touch(m) ==
    /\ modifiedAt[m] < now
    /\ modifiedAt' = [modifiedAt EXCEPT ![m] = now]

Tick ==
    /\ now < MaxTime
    /\ now' = now + 1
    /\ UNCHANGED <<where, modifiedAt>>

\* Delivered into the folder, or filed into it by somebody (a change too).
Arrive(m) ==
    /\ where[m] \in {"outside", "elsewhere"}
    /\ ReceivedAt[m] <= now
    /\ where' = [where EXCEPT ![m] = "folder"]
    /\ Touch(m)
    /\ UNCHANGED now

\* Read flag, category, flag.
Modify(m) ==
    /\ where[m] = "folder"
    /\ Touch(m)
    /\ UNCHANGED <<now, where>>

\* The downstream mover, or a person, files m in another folder.
MoveOut(m) ==
    /\ where[m] = "folder"
    /\ where' = [where EXCEPT ![m] = "elsewhere"]
    /\ Touch(m)
    /\ UNCHANGED now

Delete(m) ==
    /\ where[m] \in {"folder", "elsewhere"}
    /\ where' = [where EXCEPT ![m] = "gone"]
    /\ UNCHANGED <<now, modifiedAt>>

MailboxNext ==
    \/ Tick
    \/ \E m \in Mail : Arrive(m) \/ Modify(m) \/ MoveOut(m) \/ Delete(m)

=============================================================================
