------------------------------- MODULE Bridge -------------------------------
(***************************************************************************)
(* What the connector promises (README "at least once", poller.py:85-101), *)
(* without cycles, listings or memory: whoever reads the bus sees versions *)
(* of a message that never go back, of mail the configuration lets         *)
(* through, and ends up with the current version of everything that stays  *)
(* in the folder.                                                          *)
(***************************************************************************)
EXTENDS Mailbox

CONSTANTS NewerHold, ModifiedHold

VARIABLE delivered   \* [Mail -> Maybe(Time)]: version of the last event of each mail

bridgeVars == <<mailboxVars, delivered>>

Bound(hold) == IF hold = None THEN None ELSE now - hold

\* Received inside the configured bounds.
Admissible(m) ==
    /\ where[m] # "outside"
    /\ IgnoreReceivedBefore = None \/ ReceivedAt[m] >= IgnoreReceivedBefore
    /\ NewerHold = None \/ ReceivedAt[m] <= now - NewerHold

Init ==
    /\ MailboxInit
    /\ delivered = [m \in Mail |-> None]

\* The consumer gets version v of m: perhaps one it has, never an older one.
Deliver(m, v) ==
    /\ Admissible(m)
    /\ v <= modifiedAt[m]
    /\ delivered[m] = None \/ delivered[m] <= v
    /\ delivered' = [delivered EXCEPT ![m] = v]
    /\ UNCHANGED mailboxVars

Next ==
    \/ \E m \in Mail, v \in Time : Deliver(m, v)
    \/ MailboxNext /\ UNCHANGED delivered

Spec == Init /\ [][Next]_bridgeVars

\* Version v of m is in the folder, old enough to be listed.
Waiting(m, v) ==
    /\ m \in Matching(Bound(NewerHold), Bound(ModifiedHold))
    /\ modifiedAt[m] = v

\* Each version that waits in the folder is delivered, unless it is replaced,
\* moved out or deleted first.
Delivery ==
    \A m \in Mail, v \in Time :
        Waiting(m, v) ~> (delivered[m] = v \/ ~ Waiting(m, v))

=============================================================================
