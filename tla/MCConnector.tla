---------------------------- MODULE MCConnector ----------------------------
(***************************************************************************)
(* Connector on small instances: values for the constants that are         *)
(* functions or sets of messages.                                          *)
(***************************************************************************)
EXTENDS ConnectorInvariant

CONSTANTS m1, m2

TwoMails == {m1, m2}

\* m1 is the older one; m2 arrives while the connector runs.
Received == [m \in Mail |-> IF m = m1 THEN 0 ELSE 1]

\* Both are old enough to sit in the folder from the start.
ReceivedLongAgo == [m \in Mail |-> 0]

\* Stamps that tell any two instants apart.
Exact == [t \in Time |-> t]

\* Stamps that confuse the first two instants, and tell the others apart.
Coarse == [t \in Time |-> IF t = 0 THEN 0 ELSE t - 1]

NoMail == {}
JustM1 == {m1}
JustM2 == {m2}
LostOrUnacked == {"lost", "unacked"}

=============================================================================
