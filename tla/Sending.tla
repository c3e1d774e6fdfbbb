------------------------------- MODULE Sending -------------------------------
(***************************************************************************)
(* OutlookClient's outgoing mail (outlook_helper/client.py): send_email,   *)
(* create_draft and reply.  Each is a fixed course of requests, given up   *)
(* at the first that raises; Graph carries them out one by one, and people *)
(* who use the mailbox see the draft while it is being put together.       *)
(***************************************************************************)
EXTENDS GraphSession, Sequences

CONSTANTS
    Attachment,  \* the attachments a call may be given
    Large,       \* those over LARGE_ATTACHMENT_THRESHOLD
    Unreadable,  \* those given as a path that cannot be read
    Size,        \* [Large -> Nat]: their length in bytes
    ChunkSize,   \* DEFAULT_UPLOAD_CHUNK_SIZE
    None

ASSUME SendingAssumption ==
    /\ Large \subseteq Attachment
    /\ Size \in [Large -> Nat \ {0}]
    /\ ChunkSize \in Nat \ {0}
    /\ None \notin Attachment \cup {"returned", "raised"}

VARIABLES
    op,      \* the call
    wanted,  \* the attachments it was given
    step,    \* the request it makes next
    part,    \* the attachment that request is about, or None
    start,   \* the first byte of the chunk that request uploads
    left,    \* the attachments after that one
    result,  \* how it ended, or None
    draft,   \* Graph: the draft the client holds the id of, or None
    sent,    \* Graph: what the call has sent, copy by copy
    doubt    \* observer: what the call cannot know about its requests

courseVars == <<step, part, start, left>>
callVars == <<op, wanted, courseVars, result>>
graphVars == <<draft, sent>>
vars == <<sessionVars, callVars, graphVars, doubt>>

Calls == {"send_email", "create_draft", "reply"}
Creations == {"sendMail", "draft", "createReply"}
Steps == Creations \cup {"body", "inline", "session", "chunk", "send"}

\* A message in Graph: is its body ours, how often is each attachment on it,
\* and the upload session with the number of bytes it has received.
Message == [body : BOOLEAN, parts : [Attachment -> Nat],
            uploading : Attachment \cup {None}, received : Nat]
Blank(body, parts) ==
    [body |-> body, parts |-> [a \in Attachment |-> IF a \in parts THEN 1 ELSE 0],
     uploading |-> None, received |-> 0]

TypeOK ==
    /\ SessionTypeOK
    /\ op \in Calls /\ wanted \subseteq Attachment
    /\ step \in Steps /\ part \in Attachment \cup {None}
    /\ start \in Nat /\ left \subseteq wanted
    /\ result \in {None, "returned", "raised"}
    /\ draft \in Message \cup {None} /\ sent \in Seq(Message)
    /\ doubt \subseteq {"undone", "done"}

Init ==
    /\ SessionInit
    /\ op = "create_draft" /\ wanted = {} /\ result = "raised"
    /\ step = "draft" /\ part = None /\ start = 0 /\ left = {}
    /\ draft = None /\ sent = <<>> /\ doubt = {}

-----------------------------------------------------------------------------
(* The course of a call.                                                   *)

FirstStep(call, parts) ==
    CASE call = "send_email" /\ parts \cap Large = {} -> "sendMail"
      [] call = "reply" -> "createReply"
      [] OTHER -> "draft"

\* send_email and create_draft read all the files first; reply as it comes to them.
Begin(call, parts) ==
    /\ result # None
    /\ op' = call /\ wanted' = parts
    /\ step' = FirstStep(call, parts) /\ part' = None /\ start' = 0 /\ left' = {}
    /\ result' = IF call # "reply" /\ parts \cap Unreadable # {} THEN "raised" ELSE None
    /\ draft' = None /\ sent' = <<>> /\ doubt' = {}
    /\ attempt' = 0
    /\ UNCHANGED <<asleep, answer>>

End(outcome) == result' = outcome /\ UNCHANGED courseVars

Turn(request) == step' = request /\ UNCHANGED <<part, left, result>>

\* To the next of the attachments still to be put on the draft, or past the last.
NextPart(rest) ==
    \/ \E a \in rest :
        IF op = "reply" /\ a \in Unreadable
        THEN End("raised")
        ELSE /\ step' = IF a \in Large THEN "session" ELSE "inline"
             /\ part' = a /\ start' = 0 /\ left' = rest \ {a}
             /\ UNCHANGED result
    \/ /\ rest = {}
       /\ IF op = "create_draft" THEN End("returned")
          ELSE Turn("send") /\ UNCHANGED start

\* Mutant: a chunk that ends where the data ends is taken for one before the last.
UploadPastEnd ==
    IF start + ChunkSize <= Size[part]
    THEN start' = start + ChunkSize /\ Turn("chunk")
    ELSE NextPart(left)

Upload ==
    IF start + ChunkSize < Size[part]
    THEN start' = start + ChunkSize /\ Turn("chunk")
    ELSE NextPart(left)

\* Mutant: the end of the range is the first byte that is not in the chunk.
LastByteExclusive ==
    IF start + ChunkSize < Size[part] THEN start + ChunkSize ELSE Size[part]

\* "bytes start-end/total": the last chunk may be shorter.
LastByte ==
    (IF start + ChunkSize < Size[part] THEN start + ChunkSize ELSE Size[part]) - 1

Proceed ==
    /\ CASE step \in {"sendMail", "send"} -> End("returned")
         [] step = "draft" -> NextPart(wanted \cap Large)
         [] step = "createReply" -> Turn("body") /\ UNCHANGED start
         [] step = "body" -> NextPart(wanted)
         [] step = "inline" -> NextPart(left)
         [] step = "session" -> Turn("chunk") /\ UNCHANGED start
         [] step = "chunk" -> Upload
    /\ attempt' = 0
    /\ UNCHANGED <<op, wanted, asleep>>

GiveUp == End("raised") /\ UNCHANGED <<op, wanted, attempt, asleep>>

-----------------------------------------------------------------------------
(* Graph.                                                                  *)

\* The request names a draft that is not there any more.
NoDraft == step \notin Creations /\ draft = None

WithPart == [draft EXCEPT !.parts[part] = @ + 1, !.uploading = None, !.received = 0]

\* What a request does to the mailbox.
CarryOut ==
    /\ ~ NoDraft
    /\ sent' = CASE step = "sendMail" -> Append(sent, Blank(TRUE, wanted))
                 [] step = "send" -> Append(sent, draft)
                 [] OTHER -> sent
    /\ draft' = CASE step = "sendMail" -> draft
                  [] step = "draft" -> Blank(TRUE, wanted \ Large)
                  [] step = "createReply" -> Blank(FALSE, {})
                  [] step = "body" -> [draft EXCEPT !.body = TRUE]
                  [] step = "inline" -> WithPart
                  [] step = "session" -> [draft EXCEPT !.uploading = part, !.received = 0]
                  [] step = "chunk" ->
                        IF draft.uploading # part \/ draft.received # start THEN draft
                        ELSE IF LastByte + 1 < Size[part]
                             THEN [draft EXCEPT !.received = LastByte + 1] ELSE WithPart
                  [] step = "send" -> None

\* Somebody discards the draft.
Discard ==
    /\ draft # None
    /\ draft' = None
    /\ UNCHANGED <<sessionVars, callVars, sent, doubt>>

-----------------------------------------------------------------------------
(* The client.                                                             *)

Waiting == result = None /\ ~ asleep

Succeed ==
    /\ Waiting
    /\ CarryOut
    /\ answer' = "200"
    /\ Proceed
    /\ UNCHANGED doubt

\* httpx follows no redirect and 302 is below 400: the request counts as done,
\* unless the JSON its answer should hold is needed.
Redirected ==
    /\ Waiting
    /\ "302" \in Answers
    /\ answer' = "302"
    /\ IF step \in {"draft", "createReply", "session"} THEN GiveUp ELSE Proceed
    /\ doubt' = doubt \cup {"undone"}
    /\ UNCHANGED graphVars

\* An attempt is answered with an error, or not at all.
Fail(status) ==
    /\ Waiting
    /\ answer' = status
    /\ \/ /\ step # "chunk" /\ Retries(status)
          /\ Sleep
          /\ UNCHANGED callVars
       \/ /\ step = "chunk" \/ ~ Retries(status)
          /\ IF Raises(status) THEN GiveUp ELSE Proceed

\* The request was not carried out.
Refused ==
    /\ \/ \E status \in Answers \cap Errors : Fail(status)
       \/ NoDraft /\ Fail("404")
    /\ UNCHANGED <<graphVars, doubt>>

\* It was: a gateway gave up on it, or the answer was lost.
Unacknowledged ==
    /\ \E status \in Ambiguous : Fail(status)
    /\ CarryOut
    /\ doubt' = doubt \cup {"done"}

Continue == Wake /\ UNCHANGED <<callVars, graphVars, doubt>>

ClientStep == Succeed \/ Redirected \/ Refused \/ Unacknowledged \/ Continue

Next ==
    \/ \E call \in Calls, parts \in SUBSET Attachment : Begin(call, parts)
    \/ ClientStep
    \/ Discard

Spec == Init /\ [][Next]_vars

\* Every attempt is answered, times out or is given up, and sleeps end.
FairSpec == Spec /\ WF_vars(ClientStep)

-----------------------------------------------------------------------------
(* Properties.                                                             *)

Sends == op \in {"send_email", "reply"}

\* Whatever fails, is retried or is done twice, nobody is ever sent a message
\* that lacks its body or an attachment, unless a redirect passed for success
\* (client.py:369, 306).
SentIsComplete ==
    "undone" \notin doubt =>
        \A i \in DOMAIN sent : sent[i].body /\ \A a \in wanted : sent[i].parts[a] > 0

\* A send that returns has sent; one that nothing vouches for raises, unless a
\* redirect passed for success (http.py:87).
NeverLost == result = "returned" /\ Sends /\ "undone" \notin doubt => sent # <<>>

\* A retry after an answer that was wrong may send the mail again (http.py:83):
\* sendMail at most once per attempt, and mail that is put together as a draft
\* only once: what was sent is no draft any more when send is tried again, and
\* of a draft that was made twice the call knows one.
CopiesBounded == Len(sent) <= IF step = "sendMail" THEN MaxRetries + 1 ELSE 1

\* If every answer told what was done: a send that returns has sent one copy
\* with each attachment once and left no draft, create_draft has left one such
\* draft unless somebody discarded it, and a call that raises has sent nothing
\* (client.py:213, 239, 306).
DoneAsReported ==
    LET Whole(message) ==
            /\ message.body
            /\ \A a \in Attachment : message.parts[a] = IF a \in wanted THEN 1 ELSE 0
    IN  doubt = {} =>
        /\ result = "returned" /\ Sends => Len(sent) = 1 /\ Whole(sent[1]) /\ draft = None
        /\ result = "returned" /\ op = "create_draft" => draft = None \/ Whole(draft)
        /\ result = "raised" \/ op = "create_draft" => sent = <<>>

\* No call waits or retries for ever, however its requests are answered
\* (http.py:83).
CallEnds == (result = None) ~> (result # None)

\* The attachments the call has not come to yet.
Ahead == IF step \in Creations \cup {"body"} THEN wanted ELSE left

Rank(request) ==
    CASE request \in {"draft", "createReply"} -> 4
      [] request \in {"sendMail", "body"} -> 3
      [] request = "session" -> 2
      [] request \in {"inline", "chunk"} -> 1
      [] request = "send" -> 0

\* Less is left to do: the call is over, comes to another attachment, is on to a
\* later request or a later chunk, has used up a retry, or has slept.
LessToDo ==
    \/ result' # None
    \/ Ahead' \subseteq Ahead /\ Ahead' # Ahead
    \/ Ahead' = Ahead /\ Rank(step') < Rank(step)
    \/ /\ UNCHANGED <<step, part, left>>
       /\ \/ start < start' /\ start' < Size[part]
          \/ start' = start /\ attempt < attempt' /\ attempt' <= MaxRetries
          \/ UNCHANGED <<start, attempt>> /\ asleep /\ ~ asleep'

\* Why it ends: whatever is answered, every step of the client uses up something
\* there is a limited supply of, and nobody else gives any of it back.
StepsCount == [][ result = None => LessToDo \/ UNCHANGED <<sessionVars, callVars>> ]_vars

-----------------------------------------------------------------------------
(* The invariant behind the first three.                                   *)

\* Where a call is, and what it holds there.
Course ==
    /\ step = "sendMail" => draft = None
    /\ step \in {"sendMail", "draft"} => op # "reply"
    /\ step \in {"sendMail", "send"} => op # "create_draft"
    /\ step \in {"createReply", "body"} => op = "reply"
    /\ step \in Creations \cup {"body"} => part = None
    /\ step \in {"inline", "session", "chunk"} => part \in wanted \ left
    /\ step \in Creations \cup {"body", "send"} => left = {}
    /\ step \in {"session", "chunk"} => part \in Large
    /\ step = "session" => start = 0
    /\ step = "chunk" => start < Size[part]
    /\ step = "sendMail" => wanted \cap Large = {}

\* The attachments the call is through with.
Put(a) == a \in wanted /\ step # "body" /\ a \notin left /\ (a # part \/ step = "send")

\* The draft, if there still is one, has what the call is through with; and
\* nothing else and nothing twice if every answer told what was done.
Assembled ==
    result = None /\ draft # None /\ step \notin Creations =>
        /\ "undone" \notin doubt =>
            /\ step # "body" => draft.body
            /\ \A a \in Attachment : Put(a) => draft.parts[a] > 0
            /\ step = "chunk" => draft.uploading = part /\ draft.received = start
        /\ doubt = {} =>
            \A a \in Attachment : draft.parts[a] = IF Put(a) THEN 1 ELSE 0

\* How many copies are out: one per attempt of sendMail at most; none while the
\* draft is there, or before the call asks for it to be sent.
Copies ==
    /\ step = "sendMail" /\ result = None => Len(sent) <= attempt
    /\ step # "sendMail" /\ (draft # None \/ (result = None /\ step # "send")) => sent = <<>>

\* A call that goes on has sent nothing it knows of.
Unsent == doubt = {} /\ result = None => sent = <<>>

=============================================================================
