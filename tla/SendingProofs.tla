---------------------------- MODULE SendingProofs ----------------------------
(***************************************************************************)
(* Theorems about Sending, for every set of attachments, all sizes of      *)
(* theirs and of the chunks, every number of retries, and whatever Graph   *)
(* answers.                                                                *)
(***************************************************************************)
EXTENDS Sending, TLAPS

-----------------------------------------------------------------------------
(* Type correctness.                                                       *)

TypeInv == TypeOK /\ Course

\* The program starts with no call in progress.
LEMMA InitTyped == Init => TypeInv
<1> SUFFICES ASSUME Init PROVE TypeInv
  OBVIOUS
<1>1. SessionTypeOK
  <2>1. asleep \in BOOLEAN
    BY DEF Init, SessionInit
  <2> QED BY <2>1, SessionAssumption DEF Init, SessionInit, SessionTypeOK, Ends
<1>2. TypeOK
  BY <1>1, SendingAssumption DEF Init, TypeOK, Calls, Creations, Steps
<1>3. Course
  BY DEF Init, Course, Creations
<1> QED BY <1>2, <1>3 DEF TypeInv

\* A message nothing was done to yet is a message.
LEMMA BlankTyped ==
    ASSUME NEW body \in BOOLEAN, NEW parts \in SUBSET Attachment
    PROVE  Blank(body, parts) \in Message
BY DEF Blank, Message

\* So is one with one more attachment.
LEMMA WithPartTyped ==
    ASSUME draft \in Message, part \in Attachment
    PROVE  WithPart \in Message
<1>1. draft.parts \in [Attachment -> Nat] /\ draft.parts[part] + 1 \in Nat
  BY DEF Message
<1>2. [draft.parts EXCEPT ![part] = @ + 1] \in [Attachment -> Nat]
  BY <1>1
<1> QED BY <1>2 DEF WithPart, Message

\* One more copy makes a sequence of messages.
LEMMA OneMoreCopy ==
    ASSUME NEW copies \in Seq(Message), NEW message \in Message
    PROVE  Append(copies, message) \in Seq(Message)
OBVIOUS

\* The ranges of an upload meet end to end: the last byte of a chunk lies before
\* the end of the data, and the next chunk, if there is one, begins behind it.
LEMMA RangesMeet ==
    ASSUME NEW s \in Nat, NEW total \in Nat, s < total, start = s, Size[part] = total
    PROVE  /\ LastByte + 1 \in Nat /\ LastByte + 1 > s
           /\ s + ChunkSize < total => LastByte + 1 = s + ChunkSize
           /\ ~ s + ChunkSize < total => LastByte + 1 = total
BY SendingAssumption DEF LastByte

\* A request leaves a message in the mailbox, or none.
LEMMA CarryOutTyped ==
    ASSUME TypeInv, CarryOut
    PROVE  /\ draft' \in Message \cup {None}
           /\ sent' \in Seq(Message)
           /\ step = "sendMail" => draft' = None
<1> USE DEF TypeInv, TypeOK, Course, CarryOut
<1>1. CASE step = "sendMail"
  <2>1. PICK new \in Message : new = Blank(TRUE, wanted)
    BY BlankTyped
  <2>2. sent \in Seq(Message) /\ sent' = Append(sent, new) /\ draft' = None
    BY <1>1, <2>1
  <2>3. sent' \in Seq(Message)
    BY <2>1, <2>2, OneMoreCopy
  <2>4. draft' \in Message \cup {None}
    BY <2>1, <2>2
  <2> QED BY <2>2, <2>3, <2>4
<1>2. CASE step \in {"draft", "createReply"}
  BY <1>2, BlankTyped
<1>3. CASE step = "send"
  BY <1>3 DEF NoDraft, Creations
<1>4. CASE step = "body"
  BY <1>4 DEF NoDraft, Creations, Message
<1>5. CASE step \in {"inline", "session", "chunk"}
  <2>1. part \in Attachment /\ draft \in Message /\ sent' = sent
    BY <1>5 DEF NoDraft, Creations
  <2>2. WithPart \in Message
    BY <2>1, WithPartTyped
  <2>3. [draft EXCEPT !.uploading = part, !.received = 0] \in Message
    BY <2>1 DEF Message
  <2>4. step = "chunk" => [draft EXCEPT !.received = LastByte + 1] \in Message
    <3>1. step = "chunk" => LastByte + 1 \in Nat
      BY SendingAssumption, RangesMeet
    <3> QED BY <2>1, <3>1 DEF Message
  <2> QED BY <1>5, <2>1, <2>2, <2>3, <2>4
<1> QED BY <1>1, <1>2, <1>3, <1>4, <1>5 DEF Steps, Creations

\* On to the next attachment, past the last one, or given up.
LEMMA NextPartTyped ==
    ASSUME TypeInv, NEW rest \in SUBSET wanted, NextPart(rest), UNCHANGED <<op, wanted>>,
           result = None, left = {} \/ rest = left, step # "sendMail",
           rest = {} => left = {}
    PROVE  /\ step' \in Steps /\ part' \in Attachment \cup {None}
           /\ start' \in Nat /\ left' \subseteq wanted'
           /\ result' \in {None, "returned", "raised"}
           /\ step' # "sendMail"
           /\ Course'
<1> USE SendingAssumption DEF TypeInv, TypeOK, Course, NextPart, End, Turn, courseVars, Steps, Creations
<1>1. CASE UNCHANGED courseVars /\ result' \in {"returned", "raised"}
  BY <1>1
<1>2. ASSUME NEW a \in rest, step' = IF a \in Large THEN "session" ELSE "inline",
             part' = a, start' = 0, left' = rest \ {a}, UNCHANGED result
      PROVE  /\ step' \in {"session", "inline"} /\ part' \in wanted \ left'
             /\ left' \subseteq wanted
  BY <1>2
<1>3. CASE rest = {} /\ op # "create_draft" /\ step' = "send" /\ UNCHANGED <<part, left, result, start>>
  BY <1>3
<1> QED BY <1>1, <1>2, <1>3

\* The next step of a call.
LEMMA ProceedTyped ==
    ASSUME TypeInv, Proceed, result = None, answer' \in Ends,
           draft' \in Message \cup {None}, sent' \in Seq(Message), doubt' \subseteq {"undone", "done"},
           step = "sendMail" => draft' = None
    PROVE  TypeInv'
<1> USE SessionAssumption, SendingAssumption
<1>0. UNCHANGED <<op, wanted, asleep>> /\ attempt' = 0 /\ attempt' \in 0..MaxRetries
  BY DEF Proceed
<1>1. CASE step \in {"sendMail", "send"}
  BY <1>0, <1>1 DEF Proceed, End, courseVars, TypeInv, TypeOK, SessionTypeOK, Course, Creations
<1>2. CASE step = "createReply"
  BY <1>0, <1>2 DEF Proceed, Turn, TypeInv, TypeOK, SessionTypeOK, Course, Steps, Creations
<1>3. CASE step = "session"
  BY <1>0, <1>3 DEF Proceed, Turn, TypeInv, TypeOK, SessionTypeOK, Course, Steps, Creations
<1>4. CASE step = "chunk" /\ start + ChunkSize < Size[part]
  BY <1>0, <1>4 DEF Proceed, Upload, Turn, TypeInv, TypeOK, SessionTypeOK, Course, Steps, Creations
<1>5. ASSUME NEW rest \in SUBSET wanted, NextPart(rest), step # "sendMail",
             left = {} \/ rest = left, rest = {} => left = {}
      PROVE  TypeInv'
  BY <1>0, <1>5, NextPartTyped DEF TypeInv, TypeOK, SessionTypeOK
<1>6. CASE step = "draft"
  BY <1>5, <1>6 DEF Proceed, TypeInv, Course, Creations
<1>7. CASE step = "body"
  BY <1>5, <1>7 DEF Proceed, TypeInv, Course
<1>8. CASE step = "inline" \/ (step = "chunk" /\ ~ start + ChunkSize < Size[part])
  BY <1>5, <1>8 DEF Proceed, Upload, TypeInv, TypeOK
<1> QED BY <1>1, <1>2, <1>3, <1>4, <1>6, <1>7, <1>8 DEF TypeInv, TypeOK, Steps, Creations

\* An error: a sleep, or the end.
LEMMA FailTyped ==
    ASSUME TypeInv, NEW status \in Errors, Fail(status),
           draft' \in Message \cup {None}, sent' \in Seq(Message), doubt' \subseteq {"undone", "done"},
           step = "sendMail" => draft' = None
    PROVE  TypeInv'
<1> USE SessionAssumption, SendingAssumption
<1>1. answer' = status /\ answer' \in Ends
  BY DEF Fail, Errors
<1>2. CASE Retries(status) /\ Sleep /\ UNCHANGED callVars
  BY <1>1, <1>2
  DEF Retries, Sleep, callVars, courseVars, TypeInv, TypeOK, SessionTypeOK, Course
<1>3. CASE GiveUp
  BY <1>1, <1>3
  DEF GiveUp, End, courseVars, TypeInv, TypeOK, SessionTypeOK, Course
<1> QED BY <1>2, <1>3 DEF Fail, Raises

\* A new call.
LEMMA BeginTyped ==
    ASSUME TypeInv, NEW call \in Calls, NEW parts \in SUBSET Attachment, Begin(call, parts)
    PROVE  TypeInv'
BY SessionAssumption, SendingAssumption
DEF Begin, FirstStep, TypeInv, TypeOK, SessionTypeOK, Course, Calls, Steps, Creations

\* Whatever happens.
LEMMA StepTyped == TypeInv /\ [Next]_vars => TypeInv'
<1> SUFFICES ASSUME TypeInv, [Next]_vars PROVE TypeInv'
  OBVIOUS
<1> USE SessionAssumption
<1>1. CASE Succeed
  BY <1>1, CarryOutTyped, ProceedTyped DEF Succeed, Waiting, Ends, TypeInv, TypeOK
<1>2. CASE Redirected
  <2>1. /\ UNCHANGED graphVars /\ answer' \in Ends /\ doubt' \subseteq {"undone", "done"}
    BY <1>2 DEF Redirected, Ends, TypeInv, TypeOK
  <2>2. CASE GiveUp
    BY <2>1, <2>2 DEF GiveUp, End, courseVars, graphVars, TypeInv, TypeOK, SessionTypeOK, Course
  <2>3. CASE Proceed
    BY <1>2, <2>1, <2>3, ProceedTyped DEF Redirected, Waiting, graphVars, TypeInv, TypeOK, Course
  <2> QED BY <1>2, <2>2, <2>3 DEF Redirected
<1>3. CASE Refused
  <2>1. PICK status \in Errors : Fail(status)
    BY <1>3 DEF Refused, Errors, Ends
  <2> QED BY <1>3, <2>1, FailTyped DEF Refused, graphVars, TypeInv, TypeOK, Course
<1>4. CASE Unacknowledged
  <2>1. PICK status \in Errors : Fail(status)
    BY <1>4 DEF Unacknowledged
  <2> QED BY <1>4, <2>1, FailTyped, CarryOutTyped DEF Unacknowledged, TypeInv, TypeOK
<1>5. CASE Continue
  BY <1>5 DEF Continue, Wake, callVars, courseVars, graphVars, TypeInv, TypeOK, SessionTypeOK, Course
<1>6. CASE Discard
  BY <1>6 DEF Discard, sessionVars, callVars, courseVars, TypeInv, TypeOK, SessionTypeOK, Course
<1>7. CASE UNCHANGED vars
  BY <1>7 DEF vars, sessionVars, callVars, courseVars, graphVars, TypeInv, TypeOK, SessionTypeOK, Course
<1> QED BY <1>1, <1>2, <1>3, <1>4, <1>5, <1>6, <1>7, BeginTyped DEF Next, ClientStep

\* Every variable keeps its type, and every step its place in the call
\* (OutlookClient.send_email, create_draft, reply).
THEOREM TypeCorrect == Spec => [](TypeOK /\ Course)
<1>1. Spec => []TypeInv
  BY InitTyped, StepTyped, PTL DEF Spec
<1> QED BY <1>1 DEF TypeInv

-----------------------------------------------------------------------------
(* What is sent.                                                           *)

\* The invariant, on top of TypeInv.
Sound == Assembled /\ Unsent /\ SentIsComplete /\ NeverLost /\ DoneAsReported

\* Before the first call nothing was sent.
LEMMA InitSound == Init => Sound
BY SendingAssumption
DEF Init, Sound, Assembled, Unsent, SentIsComplete, NeverLost, DoneAsReported, Sends, Creations

\* What is sent by a request that is carried out is complete.
LEMMA CopiesComplete ==
    ASSUME TypeInv, Sound, CarryOut, result = None, "undone" \notin doubt
    PROVE  \A i \in DOMAIN sent' : sent'[i].body /\ \A a \in wanted : sent'[i].parts[a] > 0
<1>0. /\ sent \in Seq(Message)
      /\ \A i \in DOMAIN sent : sent[i].body /\ \A a \in wanted : sent[i].parts[a] > 0
  BY DEF TypeInv, TypeOK, Sound, SentIsComplete
<1>1. ASSUME NEW copy \in Message, sent' = Append(sent, copy),
             copy.body, \A a \in wanted : copy.parts[a] > 0
      PROVE  \A i \in DOMAIN sent' : sent'[i].body /\ \A a \in wanted : sent'[i].parts[a] > 0
  <2>1. DOMAIN sent' = 1..(Len(sent) + 1) /\ Len(sent) \in Nat
    BY <1>0, <1>1
  <2>2. sent'[Len(sent) + 1] = copy
    BY <1>0, <1>1
  <2>3. \A i \in 1..Len(sent) : i \in DOMAIN sent /\ sent'[i] = sent[i]
    BY <1>0, <1>1
  <2> SUFFICES ASSUME NEW i \in 1..(Len(sent) + 1)
               PROVE  sent'[i].body /\ \A a \in wanted : sent'[i].parts[a] > 0
    BY <2>1
  <2>4. CASE i \in 1..Len(sent)
    BY <1>0, <2>3, <2>4
  <2>5. CASE i = Len(sent) + 1
    BY <1>1, <2>2, <2>5
  <2> QED BY <2>1, <2>4, <2>5
<1>2. CASE step = "sendMail"
  <2>1. Blank(TRUE, wanted) \in Message
    BY BlankTyped DEF TypeInv, TypeOK
  <2>2. sent' = Append(sent, Blank(TRUE, wanted))
    BY <1>2 DEF CarryOut
  <2>3. Blank(TRUE, wanted).body /\ \A a \in wanted : Blank(TRUE, wanted).parts[a] > 0
    BY DEF Blank, TypeInv, TypeOK
  <2> QED BY <1>1, <2>1, <2>2, <2>3
<1>3. CASE step = "send"
  <2>1. draft \in Message /\ sent' = Append(sent, draft)
    BY <1>3 DEF CarryOut, NoDraft, Creations, TypeInv, TypeOK
  <2>2. draft # None /\ left = {}
    BY <1>3 DEF CarryOut, NoDraft, Creations, TypeInv, Course
  <2>3. draft.body /\ \A a \in wanted : draft.parts[a] > 0
    BY <1>3, <2>2 DEF Sound, Assembled, Put, Creations, TypeInv, TypeOK
  <2> QED BY <1>1, <2>1, <2>3
<1>4. CASE step \notin {"sendMail", "send"}
  BY <1>0, <1>4 DEF CarryOut
<1> QED BY <1>2, <1>3, <1>4

\* On to the next attachment, or past the last one, with all the others on the
\* draft.
LEMMA NextPartSound ==
    ASSUME TypeInv, Sound, NEW rest \in SUBSET wanted, NextPart(rest),
           result = None, step \notin {"sendMail", "send"}, rest = {} => left = {},
           UNCHANGED <<op, wanted, doubt, sent>>, draft' \in Message,
           "undone" \notin doubt =>
                draft'.body /\ \A a \in wanted \ rest : draft'.parts[a] > 0,
           doubt = {} =>
                \A a \in Attachment : draft'.parts[a] = IF a \in wanted \ rest THEN 1 ELSE 0
    PROVE  Sound'
<1>0. /\ doubt = {} => sent = <<>> /\ "undone" \notin doubt
      /\ "undone" \notin doubt =>
            \A i \in DOMAIN sent : sent[i].body /\ \A a \in wanted : sent[i].parts[a] > 0
      /\ wanted \subseteq Attachment
  BY DEF Sound, Unsent, SentIsComplete, TypeInv, TypeOK
<1>1. SentIsComplete'
  BY <1>0 DEF SentIsComplete
<1>2. ASSUME NEW a \in rest, step' = IF a \in Large THEN "session" ELSE "inline",
             part' = a, left' = rest \ {a}, UNCHANGED result
      PROVE  Sound'
  <2>1. \A b \in Attachment : Put(b)' <=> b \in wanted \ rest
    BY <1>2 DEF Put
  <2>2. Assembled'
    BY <1>0, <1>2, <2>1 DEF Assembled
  <2> QED BY <1>0, <1>1, <1>2, <2>2, SendingAssumption
          DEF Sound, Unsent, NeverLost, DoneAsReported
<1>3. CASE rest = {} /\ op # "create_draft" /\ step' = "send" /\ UNCHANGED <<part, left, result>>
  <2>1. \A b \in Attachment : Put(b)' <=> b \in wanted \ rest
    BY <1>3 DEF Put
  <2>2. Assembled'
    BY <1>0, <1>3, <2>1 DEF Assembled
  <2> QED BY <1>0, <1>1, <1>3, <2>2, SendingAssumption
          DEF Sound, Unsent, NeverLost, DoneAsReported
<1>4. CASE result' = "raised"
  BY <1>0, <1>1, <1>4, SendingAssumption
  DEF Sound, Assembled, Unsent, NeverLost, DoneAsReported
<1>5. CASE rest = {} /\ op = "create_draft" /\ result' = "returned"
  BY <1>0, <1>1, <1>5, SendingAssumption
  DEF Sound, Assembled, Unsent, NeverLost, DoneAsReported, Sends
<1> QED BY <1>2, <1>3, <1>4, <1>5 DEF NextPart, End, Turn

\* A request that is carried out, and answered as such.
LEMMA SucceedSound == TypeInv /\ Sound /\ Succeed => Sound'
<1> SUFFICES ASSUME TypeInv, Sound, Succeed PROVE Sound'
  OBVIOUS
<1>0. /\ result = None /\ CarryOut /\ Proceed
      /\ UNCHANGED <<op, wanted, doubt>>
      /\ wanted \subseteq Attachment /\ sent \in Seq(Message)
      /\ doubt = {} => sent = <<>> /\ "undone" \notin doubt
  BY DEF Succeed, Waiting, Proceed, TypeInv, TypeOK, Sound, Unsent
<1>1. draft' \in Message \cup {None} /\ SentIsComplete'
  BY <1>0, CarryOutTyped, CopiesComplete DEF SentIsComplete
<1>2. ~ NoDraft
  BY <1>0 DEF CarryOut
<1>3. CASE step = "sendMail"
  <2>0. PICK new \in Message : new = Blank(TRUE, wanted)
    BY <1>0, BlankTyped
  <2>1. /\ sent' = Append(sent, new) /\ draft' = None
        /\ result' = "returned" /\ op # "create_draft"
    BY <1>0, <1>3, <2>0 DEF CarryOut, Proceed, End, TypeInv, Course
  <2>2. sent' # <<>> /\ (sent = <<>> => Len(sent') = 1 /\ sent'[1] = new)
    <3>1. Len(sent') = Len(sent) + 1 /\ Len(sent) \in Nat /\ sent'[Len(sent) + 1] = new
      BY <1>0, <2>1
    <3> QED BY <3>1
  <2>3. new.body /\ \A a \in Attachment : new.parts[a] = IF a \in wanted THEN 1 ELSE 0
    BY <2>0 DEF Blank
  <2> QED BY <1>0, <1>1, <2>1, <2>2, <2>3, SendingAssumption
          DEF Sound, Assembled, Unsent, NeverLost, DoneAsReported
<1>4. CASE step = "send"
  <2>1. /\ sent' = Append(sent, draft) /\ draft' = None /\ draft # None
        /\ result' = "returned" /\ op # "create_draft" /\ left = {}
    BY <1>0, <1>2, <1>4 DEF CarryOut, Proceed, End, TypeInv, Course, NoDraft, Creations
  <2>2. sent' # <<>> /\ (sent = <<>> => Len(sent') = 1 /\ sent'[1] = draft)
    BY <1>0, <2>1
  <2>3. doubt = {} =>
            draft.body /\ \A a \in Attachment : draft.parts[a] = IF a \in wanted THEN 1 ELSE 0
    BY <1>0, <1>4, <2>1 DEF Sound, Assembled, Put, Creations
  <2> QED BY <1>0, <1>1, <2>1, <2>2, <2>3, SendingAssumption
          DEF Sound, Assembled, Unsent, NeverLost, DoneAsReported
<1>5. step \notin {"sendMail", "send"} => UNCHANGED sent
  BY <1>0 DEF CarryOut
<1>6. ASSUME "undone" \in doubt PROVE Sound'
  BY <1>0, <1>1, <1>6
  DEF Sound, Assembled, Unsent, SentIsComplete, NeverLost, DoneAsReported
<1>10. CASE step = "createReply"
  <2>1. /\ draft' = Blank(FALSE, {}) /\ step' = "body"
        /\ UNCHANGED <<part, left, result, sent>>
    BY <1>0, <1>10 DEF CarryOut, Proceed, Turn
  <2>2. \A a \in Attachment : ~ Put(a)' /\ draft'.parts[a] = 0
    BY <2>1 DEF Blank, Put
  <2>3. Assembled'
    BY <1>0, <2>1, <2>2 DEF Assembled
  <2> QED BY <1>0, <1>1, <2>1, <2>3, SendingAssumption
          DEF Sound, Unsent, NeverLost, DoneAsReported
<1>11. CASE step = "session"
  <2>1. /\ draft' = [draft EXCEPT !.uploading = part, !.received = 0] /\ step' = "chunk"
        /\ UNCHANGED <<part, left, result, sent, start>> /\ start = 0
    BY <1>0, <1>11 DEF CarryOut, Proceed, Turn, TypeInv, Course
  <2>2. draft # None /\ draft \in Message
    BY <1>2, <1>11 DEF NoDraft, Creations, TypeInv, TypeOK
  <2>3. /\ draft'.body = draft.body /\ draft'.parts = draft.parts
        /\ draft'.uploading = part /\ draft'.received = start'
    BY <2>1, <2>2 DEF Message
  <2>4. \A a \in Attachment : Put(a)' <=> Put(a)
    BY <1>0, <1>11, <2>1 DEF Put
  <2>5. Assembled'
    BY <1>0, <1>11, <2>1, <2>2, <2>3, <2>4 DEF Assembled, Sound, Creations
  <2> QED BY <1>0, <1>1, <2>1, <2>5, SendingAssumption
          DEF Sound, Unsent, NeverLost, DoneAsReported
<1>12. ASSUME step = "chunk", start + ChunkSize < Size[part], "undone" \notin doubt
       PROVE  Sound'
  <2>1. step' = "chunk" /\ start' = start + ChunkSize /\ UNCHANGED <<part, left, result, sent>>
    BY <1>0, <1>12 DEF CarryOut, Proceed, Upload, Turn
  <2>2. draft # None /\ draft \in Message
    BY <1>2, <1>12 DEF NoDraft, Creations, TypeInv, TypeOK
  <2>3. draft.uploading = part /\ draft.received = start
    BY <1>0, <1>12, <2>2 DEF Sound, Assembled, Creations
  <2>8. /\ start \in Nat /\ Size[part] \in Nat /\ start < Size[part]
        /\ LastByte + 1 = start + ChunkSize
    BY <1>12, SendingAssumption, RangesMeet DEF TypeInv, TypeOK, Course
  <2>4. draft' = [draft EXCEPT !.received = start + ChunkSize]
    BY <1>0, <1>12, <2>3, <2>8 DEF CarryOut
  <2>5. /\ draft'.body = draft.body /\ draft'.parts = draft.parts
        /\ draft'.uploading = part /\ draft'.received = start'
    BY <2>1, <2>2, <2>3, <2>4 DEF Message
  <2>6. \A a \in Attachment : Put(a)' <=> Put(a)
    BY <1>0, <1>12, <2>1 DEF Put
  <2>7. Assembled'
    BY <1>0, <1>12, <2>1, <2>2, <2>5, <2>6 DEF Assembled, Sound, Creations
  <2> QED BY <1>0, <1>1, <2>1, <2>7, SendingAssumption
          DEF Sound, Unsent, NeverLost, DoneAsReported
<1>7. CASE step = "draft"
  <2>1. draft' = Blank(TRUE, wanted \ Large) /\ draft' \in Message
    BY <1>0, <1>7, BlankTyped DEF CarryOut
  <2>2. /\ draft'.body
        /\ \A a \in Attachment : draft'.parts[a] = IF a \in wanted \ Large THEN 1 ELSE 0
    BY <2>1 DEF Blank
  <2>3. NextPart(wanted \cap Large) /\ left = {}
    BY <1>0, <1>7 DEF Proceed, TypeInv, Course, Creations
  <2>4. \A a \in Attachment : a \in wanted \ Large <=> a \in wanted \ (wanted \cap Large)
    OBVIOUS
  <2>5. \A a \in wanted \ (wanted \cap Large) : draft'.parts[a] > 0
    BY <1>0, <2>2, <2>4
  <2>6. \A a \in Attachment :
            draft'.parts[a] = IF a \in wanted \ (wanted \cap Large) THEN 1 ELSE 0
    BY <2>2, <2>4
  <2>7. wanted \cap Large \in SUBSET wanted
    OBVIOUS
  <2> HIDE DEF Sound, TypeInv
  <2> QED BY <1>0, <1>5, <1>7, <2>1, <2>2, <2>3, <2>5, <2>6, <2>7, NextPartSound
<1>8. CASE step = "body"
  <2>1. draft # None /\ draft \in Message /\ draft' = [draft EXCEPT !.body = TRUE]
    BY <1>0, <1>2, <1>8 DEF CarryOut, NoDraft, Creations, TypeInv, TypeOK
  <2>2. draft' \in Message /\ draft'.body /\ draft'.parts = draft.parts
    BY <2>1 DEF Message
  <2>3. doubt = {} => \A a \in Attachment : draft.parts[a] = 0
    BY <1>0, <1>8, <2>1 DEF Sound, Assembled, Put, Creations
  <2>4. NextPart(wanted) /\ left = {}
    BY <1>0, <1>8 DEF Proceed, TypeInv, Course
  <2> QED BY <1>0, <1>5, <1>8, <2>2, <2>3, <2>4, NextPartSound
<1>9. ASSUME step = "inline" \/ (step = "chunk" /\ ~ start + ChunkSize < Size[part]), "undone" \notin doubt
      PROVE  Sound'
  <2>1. draft # None /\ draft \in Message /\ part \in wanted \ left
    BY <1>2, <1>9 DEF NoDraft, Creations, TypeInv, TypeOK, Course
  <2>2. draft' = WithPart
    <3>1. CASE step = "inline"
      BY <1>0, <3>1 DEF CarryOut
    <3>2. CASE step = "chunk" /\ ~ start + ChunkSize < Size[part]
      <4>1. draft.uploading = part /\ draft.received = start
        BY <1>0, <1>9, <2>1, <3>2 DEF Sound, Assembled, Creations
      <4>2. /\ start \in Nat /\ Size[part] \in Nat /\ start < Size[part]
            /\ LastByte + 1 = Size[part]
        BY <3>2, SendingAssumption, RangesMeet DEF TypeInv, TypeOK, Course
      <4> QED BY <1>0, <3>2, <4>1, <4>2 DEF CarryOut
    <3> QED BY <1>9, <3>1, <3>2
  <2>3. draft' \in Message
    BY <1>0, <2>1, <2>2, WithPartTyped
  <2>4. /\ draft'.body = draft.body /\ draft'.parts[part] = draft.parts[part] + 1
        /\ \A a \in Attachment \ {part} : draft'.parts[a] = draft.parts[a]
        /\ \A a \in Attachment : draft.parts[a] \in Nat
    BY <1>0, <2>1, <2>2 DEF WithPart, Message
  <2>5. \A a \in Attachment : Put(a) <=> a \in (wanted \ left) \ {part}
    BY <1>0, <1>9 DEF Put
  <2>6. draft.body /\ \A a \in Attachment : Put(a) => draft.parts[a] > 0
    BY <1>0, <1>9, <2>1 DEF Sound, Assembled, Creations
  <2>7. doubt = {} => \A a \in Attachment : draft.parts[a] = IF Put(a) THEN 1 ELSE 0
    BY <1>0, <1>9, <2>1 DEF Sound, Assembled, Creations
  <2>8. NextPart(left) /\ left \subseteq wanted
    BY <1>0, <1>9 DEF Proceed, Upload, TypeInv, TypeOK
  <2>9. \A a \in wanted \ left : draft'.parts[a] > 0
    BY <1>0, <2>1, <2>4, <2>5, <2>6
  <2>10. doubt = {} =>
            \A a \in Attachment : draft'.parts[a] = IF a \in wanted \ left THEN 1 ELSE 0
    BY <1>0, <2>1, <2>4, <2>5, <2>7
  <2> QED BY <1>0, <1>5, <1>9, <2>3, <2>4, <2>6, <2>8, <2>9, <2>10, NextPartSound
<1> QED BY <1>3, <1>4, <1>6, <1>7, <1>8, <1>9, <1>10, <1>11, <1>12
        DEF TypeInv, TypeOK, Steps, Creations

\* A request that a redirect made pass for done.
LEMMA RedirectedSound == TypeInv /\ Sound /\ Redirected => Sound'
BY DEF Redirected, Sound, Assembled, Unsent, SentIsComplete, NeverLost, DoneAsReported

\* A failure before the request was carried out.
LEMMA RefusedSound == TypeInv /\ Sound /\ Refused => Sound'
<1> SUFFICES ASSUME TypeInv, Sound, Refused PROVE Sound'
  OBVIOUS
<1>0. UNCHANGED <<graphVars, doubt>>
  BY DEF Refused
<1>1. PICK status \in Errors : Fail(status)
  BY SessionAssumption DEF Refused, Errors, Ends
<1>2. CASE UNCHANGED callVars
  BY <1>0, <1>2
  DEF Sound, Assembled, Unsent, SentIsComplete, NeverLost, DoneAsReported, Put, Sends,
      callVars, courseVars, graphVars
<1>3. CASE GiveUp
  BY <1>0, <1>1, <1>3, SendingAssumption
  DEF Fail, Waiting, GiveUp, End, courseVars, graphVars,
      Sound, Assembled, Unsent, SentIsComplete, NeverLost, DoneAsReported, Sends
<1> QED BY <1>1, <1>2, <1>3 DEF Fail, Raises

\* A failure after it.
LEMMA UnacknowledgedSound == TypeInv /\ Sound /\ Unacknowledged => Sound'
<1> SUFFICES ASSUME TypeInv, Sound, Unacknowledged PROVE Sound'
  OBVIOUS
<1>0. CarryOut /\ doubt' = doubt \cup {"done"} /\ doubt' # {}
  BY DEF Unacknowledged
<1>1. PICK status \in Errors : Fail(status)
  BY SessionAssumption DEF Unacknowledged
<1>2. result = None /\ UNCHANGED <<op, wanted>>
  BY <1>1 DEF Fail, Waiting, callVars, GiveUp, Raises
<1>3. SentIsComplete'
  BY <1>0, <1>2, CopiesComplete DEF SentIsComplete
<1>4. CASE GiveUp
  BY <1>0, <1>2, <1>3, <1>4, SendingAssumption
  DEF GiveUp, End, Sound, Assembled, Unsent, NeverLost, DoneAsReported
<1>5. CASE UNCHANGED callVars /\ step # "chunk"
  <2>1. UNCHANGED <<step, part, left, result, start>>
    BY <1>5 DEF callVars, courseVars
  <2>2. Assembled'
    <3> SUFFICES ASSUME step \notin Creations, draft' # None, "undone" \notin doubt
                 PROVE  /\ step # "body" => draft'.body
                        /\ \A a \in Attachment : Put(a) => draft'.parts[a] > 0
      BY <1>0, <1>2, <1>5, <2>1 DEF Assembled, Put
    <3>1. draft # None /\ draft \in Message
      BY <1>0 DEF CarryOut, NoDraft, TypeInv, TypeOK
    <3>2. /\ step # "body" => draft.body
          /\ \A a \in Attachment : Put(a) => draft.parts[a] > 0
      BY <1>2, <3>1 DEF Sound, Assembled
    <3>3. CASE step = "body"
      BY <1>0, <3>3 DEF CarryOut, Put
    <3>4. CASE step = "session"
      <4>1. draft' = [draft EXCEPT !.uploading = part, !.received = 0]
        BY <1>0, <3>4 DEF CarryOut
      <4> QED BY <3>1, <3>2, <3>4, <4>1 DEF Message
    <3>5. CASE step = "inline"
      <4>1. draft' = WithPart
        BY <1>0, <3>5 DEF CarryOut
      <4>2. \A a \in Attachment : Put(a) => a # part
        BY <3>5 DEF Put
      <4>3. /\ draft'.body = draft.body
            /\ \A a \in Attachment \ {part} : draft'.parts[a] = draft.parts[a]
        BY <3>1, <4>1 DEF WithPart, Message
      <4> QED BY <3>2, <3>5, <4>2, <4>3
    <3>6. CASE step = "send"
      BY <1>0, <3>6 DEF CarryOut
    <3> QED BY <1>5, <3>3, <3>4, <3>5, <3>6 DEF TypeInv, TypeOK, Steps, Creations
  <2> QED BY <1>0, <1>2, <1>3, <2>1, <2>2, SendingAssumption
          DEF Sound, Unsent, NeverLost, DoneAsReported
<1> QED BY <1>1, <1>4, <1>5 DEF Fail, Raises

\* Whatever happens.
LEMMA StepSound == TypeInv /\ Sound /\ [Next]_vars => Sound'
<1> SUFFICES ASSUME TypeInv, Sound, [Next]_vars PROVE Sound'
  OBVIOUS
<1>1. CASE Continue \/ UNCHANGED vars
  BY <1>1
  DEF Continue, vars, Sound, Assembled, Unsent, SentIsComplete, NeverLost, DoneAsReported, Put, Sends,
      callVars, courseVars, graphVars
<1>2. CASE Discard
  BY <1>2
  DEF Discard, Sound, Assembled, Unsent, SentIsComplete, NeverLost, DoneAsReported, Sends,
      callVars, courseVars
<1>3. ASSUME NEW call \in Calls, NEW parts \in SUBSET Attachment, Begin(call, parts)
      PROVE  Sound'
  BY <1>3, SendingAssumption
  DEF Begin, Sound, Assembled, Unsent, SentIsComplete, NeverLost, DoneAsReported, Sends
<1> QED BY <1>1, <1>2, <1>3, SucceedSound, RedirectedSound, RefusedSound, UnacknowledgedSound
        DEF Next, ClientStep

\* Both hold together.
LEMMA AlwaysSound == Spec => []Sound
<1>1. Spec => []TypeInv
  BY InitTyped, StepTyped, PTL DEF Spec
<1> QED BY <1>1, InitSound, StepSound, PTL DEF Spec

\* The inductive invariant: the draft holds what the call is through with, and
\* exactly that if every answer told what was done (client.py:369, 391).
THEOREM AlwaysAssembled == Spec => []Assembled
BY AlwaysSound, PTL DEF Sound

\* No message goes out without its body or with an attachment missing, however
\* often requests fail or are done twice (OutlookClient.send_email, reply).
THEOREM AlwaysComplete == Spec => []SentIsComplete
BY AlwaysSound, PTL DEF Sound

\* A send that returns has sent (GraphSession.request).
THEOREM NothingLost == Spec => []NeverLost
BY AlwaysSound, PTL DEF Sound

\* The outcome a call reports is what happened, if every answer was right
\* (OutlookClient.send_email, create_draft, reply).
THEOREM ReportTrue == Spec => []DoneAsReported
BY AlwaysSound, PTL DEF Sound


-----------------------------------------------------------------------------
(* How many copies are sent.                                               *)

CopiesInv == Copies /\ CopiesBounded

\* As long as nothing is sent there is nothing to count.
LEMMA NoCopies ==
    ASSUME TypeInv', sent' = <<>>
    PROVE  CopiesInv'
<1>1. attempt' \in Nat /\ MaxRetries \in Nat /\ Len(sent') = 0
  BY SessionAssumption DEF TypeInv, TypeOK, SessionTypeOK
<1> QED BY <1>1 DEF CopiesInv, Copies, CopiesBounded

\* What a request adds when it is carried out.
LEMMA CarryOutCopies ==
    ASSUME TypeInv, CopiesInv, CarryOut, result = None
    PROVE  /\ step = "sendMail" => Len(sent') <= attempt + 1
           /\ step = "send" => Len(sent') <= 1 /\ draft' = None
           /\ step \notin {"sendMail", "send"} => sent' = <<>>
<1>0. sent \in Seq(Message) /\ attempt \in Nat
  BY SessionAssumption DEF TypeInv, TypeOK, SessionTypeOK
<1>1. CASE step = "sendMail"
  <2>1. Len(sent) <= attempt
    BY <1>1 DEF CopiesInv, Copies
  <2>2. sent' = Append(sent, Blank(TRUE, wanted)) /\ Blank(TRUE, wanted) \in Message
    BY <1>1, BlankTyped DEF CarryOut, TypeInv, TypeOK
  <2>3. Len(sent') = Len(sent) + 1
    BY <1>0, <2>2
  <2> QED BY <1>0, <1>1, <2>1, <2>3
<1>2. CASE step = "send"
  <2>1. draft # None /\ draft \in Message
    BY <1>2 DEF CarryOut, NoDraft, Creations, TypeInv, TypeOK
  <2>2. sent = <<>> /\ sent' = Append(sent, draft) /\ draft' = None
    BY <1>2, <2>1 DEF CarryOut, CopiesInv, Copies
  <2>3. Len(sent') = 1
    BY <2>1, <2>2
  <2> QED BY <1>2, <2>2, <2>3
<1>3. CASE step \notin {"sendMail", "send"}
  BY <1>3 DEF CarryOut, CopiesInv, Copies
<1> QED BY <1>1, <1>2, <1>3

\* A call goes on with its course, or ends: with what is sent bounded as one
\* more attempt allows.
LEMMA OnwardCopies ==
    ASSUME TypeInv, TypeInv', result = None, Proceed \/ GiveUp,
           step = "sendMail" => Len(sent') <= attempt + 1,
           step = "send" => Len(sent') <= 1 /\ (draft' # None => sent' = <<>>),
           step \notin {"sendMail", "send"} => sent' = <<>>
    PROVE  CopiesInv'
<1>0. /\ attempt \in Nat /\ MaxRetries \in Nat /\ attempt <= MaxRetries
      /\ Len(sent') \in Nat
  BY SessionAssumption DEF TypeInv, TypeOK, SessionTypeOK
<1>1. CASE step \in {"sendMail", "send"}
  <2>1. UNCHANGED step /\ result' \in {"returned", "raised"}
    BY <1>1 DEF Proceed, GiveUp, End, courseVars
  <2>2. result' # None
    BY <2>1, SendingAssumption
  <2> QED BY <1>0, <1>1, <2>1, <2>2 DEF CopiesInv, Copies, CopiesBounded
<1>2. CASE step \notin {"sendMail", "send"}
  BY <1>2, NoCopies
<1> QED BY <1>1, <1>2

\* An attempt failed: the next one, or the end of the call.
LEMMA FailCopies ==
    ASSUME TypeInv, TypeInv', NEW status \in Errors, Fail(status),
           step = "sendMail" => Len(sent') <= attempt + 1,
           step = "send" => Len(sent') <= 1 /\ (draft' # None => sent' = <<>>),
           step \notin {"sendMail", "send"} => sent' = <<>>
    PROVE  CopiesInv'
<1>1. result = None
  BY DEF Fail, Waiting
<1>2. CASE Sleep /\ UNCHANGED callVars
  <2>1. attempt' = attempt + 1 /\ UNCHANGED <<step, result>>
    BY <1>2 DEF Sleep, callVars, courseVars
  <2>2. attempt' <= MaxRetries /\ attempt' \in Nat /\ MaxRetries \in Nat /\ Len(sent') \in Nat
    BY SessionAssumption DEF TypeInv, TypeOK, SessionTypeOK
  <2>3. CASE step \in {"sendMail", "send"}
    BY <2>1, <2>2, <2>3 DEF CopiesInv, Copies, CopiesBounded
  <2>4. CASE step \notin {"sendMail", "send"}
    BY <2>4, NoCopies
  <2> QED BY <2>3, <2>4
<1>3. CASE GiveUp
  BY <1>1, <1>3, OnwardCopies
<1> QED BY <1>2, <1>3 DEF Fail, Raises

\* A request that changed nothing leaves the count as it was.
LEMMA SameCopies ==
    ASSUME TypeInv, CopiesInv, result = None, UNCHANGED graphVars
    PROVE  /\ step = "sendMail" => Len(sent') <= attempt + 1
           /\ step = "send" => Len(sent') <= 1 /\ (draft' # None => sent' = <<>>)
           /\ step \notin {"sendMail", "send"} => sent' = <<>>
<1>1. attempt \in Nat /\ Len(sent) \in Nat
  BY SessionAssumption DEF TypeInv, TypeOK, SessionTypeOK
<1> QED BY <1>1 DEF graphVars, CopiesInv, Copies, CopiesBounded

\* CopiesInv is inductive, given the types.
LEMMA StepCopies ==
    ASSUME TypeInv, TypeInv', CopiesInv, [Next]_vars
    PROVE  CopiesInv'
<1>1. CASE Succeed
  BY <1>1, CarryOutCopies, OnwardCopies DEF Succeed, Waiting
<1>2. CASE Redirected
  BY <1>2, SameCopies, OnwardCopies DEF Redirected, Waiting
<1>3. CASE Refused
  <2>1. PICK status \in Errors : Fail(status)
    BY <1>3, SessionAssumption DEF Refused, Errors, Ends
  <2>2. result = None /\ UNCHANGED graphVars
    BY <1>3, <2>1 DEF Refused, Fail, Waiting
  <2> QED BY <2>1, <2>2, SameCopies, FailCopies
<1>4. CASE Unacknowledged
  <2>1. PICK status \in Errors : Fail(status)
    BY <1>4, SessionAssumption DEF Unacknowledged
  <2>2. result = None /\ CarryOut
    BY <1>4, <2>1 DEF Unacknowledged, Fail, Waiting
  <2> QED BY <2>1, <2>2, CarryOutCopies, FailCopies
<1>5. CASE Continue \/ Discard \/ UNCHANGED vars
  BY <1>5
  DEF Continue, Wake, Discard, vars, sessionVars, callVars, courseVars, graphVars,
      CopiesInv, Copies, CopiesBounded
<1>6. ASSUME NEW call \in Calls, NEW parts \in SUBSET Attachment, Begin(call, parts)
      PROVE  CopiesInv'
  BY <1>6, NoCopies DEF Begin
<1> QED BY <1>1, <1>2, <1>3, <1>4, <1>5, <1>6 DEF Next, ClientStep

\* However often requests are carried out and answered as failed, sendMail sends
\* one copy per attempt at most, and what is put together as a draft goes out
\* once (GraphSession.request, OutlookClient.send_email, reply).
THEOREM CopiesAlwaysBounded == Spec => []CopiesBounded
<1>1. Init => CopiesInv
  BY SessionAssumption DEF Init, SessionInit, CopiesInv, Copies, CopiesBounded
<1>2. TypeInv /\ CopiesInv /\ [Next]_vars => CopiesInv'
  BY StepTyped, StepCopies
<1>3. Spec => []TypeInv
  BY InitTyped, StepTyped, PTL DEF Spec
<1> QED BY <1>1, <1>2, <1>3, PTL DEF Spec, CopiesInv

-----------------------------------------------------------------------------
(* A call ends: what each step uses up.                                    *)

\* On to the next attachment, of those ahead, or to the sending, which is last.
LEMMA NextPartCounts ==
    ASSUME TypeInv, result = None, NEW rest \in SUBSET wanted, NextPart(rest),
           UNCHANGED wanted, rest \subseteq Ahead, rest = {} => left = {},
           step \notin {"sendMail", "send"}
    PROVE  LessToDo
<1> USE SendingAssumption DEF TypeInv, TypeOK, Course
<1>1. CASE result' \in {"returned", "raised"}
  BY <1>1 DEF LessToDo
<1>2. ASSUME NEW a \in rest, step' = IF a \in Large THEN "session" ELSE "inline", left' = rest \ {a}
      PROVE  LessToDo
  <2>1. Ahead' = rest \ {a}
    BY <1>2 DEF Ahead, Creations
  <2> QED BY <1>2, <2>1 DEF LessToDo
<1>3. CASE rest = {} /\ step' = "send" /\ left' = left
  <2>1. Ahead' = {}
    BY <1>3 DEF Ahead, Creations
  <2>2. Rank(step') = 0
    BY <1>3 DEF Rank
  <2>3. Rank(step) > 0
    <3>1. CASE step \in {"draft", "createReply"}
      BY <3>1 DEF Rank
    <3>2. CASE step = "body"
      BY <3>2 DEF Rank
    <3>3. CASE step = "session"
      BY <3>3 DEF Rank
    <3>4. CASE step \in {"inline", "chunk"}
      BY <3>4 DEF Rank
    <3> QED BY <3>1, <3>2, <3>3, <3>4 DEF Steps, Creations
  <2> QED BY <2>1, <2>2, <2>3 DEF LessToDo
<1> QED BY <1>1, <1>2, <1>3 DEF NextPart, End, Turn

\* A request that is done with is one less.
LEMMA ProceedCounts ==
    ASSUME TypeInv, result = None, Proceed
    PROVE  LessToDo
<1> USE SendingAssumption DEF TypeInv, TypeOK, Course
<1>1. CASE step \in {"sendMail", "send"}
  BY <1>1 DEF Proceed, End, LessToDo
<1>2. CASE step = "createReply"
  <2>1. step' = "body" /\ wanted' = wanted
    BY <1>2 DEF Proceed, Turn
  <2>2. Rank(step) = 4 /\ Rank(step') = 3
    BY <1>2, <2>1 DEF Rank
  <2> QED BY <1>2, <2>1, <2>2 DEF LessToDo, Ahead, Creations
<1>3. CASE step = "session"
  <2>1. step' = "chunk" /\ left' = left
    BY <1>3 DEF Proceed, Turn
  <2>2. Rank(step) = 2 /\ Rank(step') = 1
    BY <1>3, <2>1 DEF Rank
  <2> QED BY <1>3, <2>1, <2>2 DEF LessToDo, Ahead, Creations
<1>4. CASE step = "chunk" /\ start + ChunkSize < Size[part]
  <2>1. step' = "chunk" /\ left' = left /\ part' = part /\ start' = start + ChunkSize
    BY <1>4 DEF Proceed, Upload, Turn
  <2>2. start < start' /\ start' < Size[part]
    BY <1>4, <2>1
  <2> QED BY <1>4, <2>1, <2>2 DEF LessToDo
<1>5. CASE step = "draft" \/ step = "body"
  <2>1. left = {} /\ Ahead = wanted /\ wanted' = wanted
    BY <1>5 DEF Proceed, Ahead, Creations
  <2>2. PICK rest \in SUBSET wanted : NextPart(rest)
    BY <1>5 DEF Proceed
  <2> QED BY <1>5, <2>1, <2>2, NextPartCounts
<1>6. CASE step = "inline" \/ (step = "chunk" /\ ~ start + ChunkSize < Size[part])
  <2>1. NextPart(left) /\ Ahead = left /\ wanted' = wanted
    BY <1>6 DEF Proceed, Upload, Ahead, Creations
  <2> QED BY <1>6, <2>1, NextPartCounts
<1> QED BY <1>1, <1>2, <1>3, <1>4, <1>5, <1>6 DEF Steps, Creations

\* An error that is not final costs a retry.
LEMMA FailCounts ==
    ASSUME TypeInv, NEW status, Fail(status), status \in Errors
    PROVE  LessToDo
<1>1. CASE Retries(status) /\ Sleep /\ UNCHANGED callVars
  <2>1. UNCHANGED <<step, part, left, start>>
    BY <1>1 DEF callVars, courseVars
  <2>2. attempt < attempt' /\ attempt' <= MaxRetries
    BY <1>1, SessionAssumption DEF Retries, Sleep, TypeInv, TypeOK, SessionTypeOK
  <2> QED BY <2>1, <2>2 DEF LessToDo
<1>2. CASE GiveUp
  BY <1>2, SendingAssumption DEF GiveUp, End, LessToDo
<1> QED BY <1>1, <1>2 DEF Fail, Raises

\* Every step of the client counts; nobody else touches the call.
LEMMA StepCounts ==
    TypeInv /\ [Next]_vars =>
        [result = None => LessToDo \/ UNCHANGED <<sessionVars, callVars>>]_vars
<1> SUFFICES ASSUME TypeInv, Next, result = None
             PROVE  LessToDo \/ UNCHANGED <<sessionVars, callVars>>
  BY DEF vars
<1>1. CASE Succeed
  BY <1>1, ProceedCounts DEF Succeed
<1>2. CASE Redirected
  <2>1. CASE GiveUp
    BY <2>1, SendingAssumption DEF GiveUp, End, LessToDo
  <2>2. CASE Proceed
    BY <2>2, ProceedCounts
  <2> QED BY <1>2, <2>1, <2>2 DEF Redirected
<1>3. CASE Refused \/ Unacknowledged
  <2>1. PICK status \in Errors : Fail(status)
    BY <1>3, SessionAssumption DEF Refused, Unacknowledged, Errors, Ends
  <2> QED BY <2>1, FailCounts
<1>4. CASE Continue
  <2>1. asleep /\ ~ asleep' /\ UNCHANGED <<attempt, step, part, left, start>>
    BY <1>4 DEF Continue, Wake, callVars, courseVars
  <2> QED BY <2>1 DEF LessToDo
<1>5. CASE Discard
  BY <1>5 DEF Discard
<1>6. CASE \E call \in Calls, parts \in SUBSET Attachment : Begin(call, parts)
  BY <1>6 DEF Begin
<1> QED BY <1>1, <1>2, <1>3, <1>4, <1>5, <1>6 DEF Next, ClientStep

\* No call goes on for ever: each step comes to another of finitely many
\* attachments, to a later request, a later chunk or a later attempt, and none
\* of them comes back (client.py:239, http.py:75).
THEOREM EveryStepCounts == Spec => StepsCount
<1>1. Spec => []TypeInv
  BY InitTyped, StepTyped, PTL DEF Spec
<1> QED BY <1>1, StepCounts, PTL DEF Spec, StepsCount

=============================================================================
