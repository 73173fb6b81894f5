--------------------- MODULE WhatsappMessagesProofs ---------------------
(***************************************************************************)
(* Proofs about WhatsappMessages, for every number of registrations,       *)
(* queues, senders, handlers, messages, crashes and callbacks.             *)
(***************************************************************************)
EXTENDS WhatsappMessages, SequenceTheorems, TLAPS

-----------------------------------------------------------------------------
(* Sequences.                                                              *)

LEMMA Appended ==
    ASSUME NEW S, NEW q \in Seq(S), NEW e \in S, NEW q2, q2 = Append(q, e)
    PROVE  /\ q2 \in Seq(S) /\ Len(q) \in Nat /\ Len(q2) = Len(q) + 1
           /\ DOMAIN q = 1..Len(q) /\ DOMAIN q2 = 1..(Len(q) + 1)
           /\ \A i \in DOMAIN q : q2[i] = q[i]
           /\ q2[Len(q) + 1] = e
BY AppendProperties

LEMMA Updated ==
    ASSUME NEW S, NEW q \in Seq(S), NEW i \in DOMAIN q, NEW e \in S, NEW q2,
           q2 = [q EXCEPT ![i] = e]
    PROVE  /\ q2 \in Seq(S) /\ Len(q2) = Len(q) /\ DOMAIN q2 = DOMAIN q
           /\ q2[i] = e /\ \A j \in DOMAIN q \ {i} : q2[j] = q[j]
<1>1. i \in 1..Len(q)
  OBVIOUS
<1> QED
  BY <1>1, ExceptSeq

LEMMA Mapped ==
    ASSUME NEW S, NEW q \in Seq(S), NEW q2, q2 = [i \in DOMAIN q |-> q2[i]],
           \A i \in DOMAIN q : q2[i] \in S
    PROVE  q2 \in Seq(S) /\ Len(q2) = Len(q) /\ DOMAIN q2 = DOMAIN q
<1>1. Len(q) \in Nat /\ DOMAIN q = 1..Len(q)
  OBVIOUS
<1>2. q2 \in [1..Len(q) -> S]
  BY <1>1
<1> QED
  BY <1>1, <1>2, SeqDef

-----------------------------------------------------------------------------
(* Types, one part for each variable or actor.                             *)

Accepted == [body : Body \cup {NoBody}, fate : Fate \cup {"open"}]

MessagesTyped == messages \in Seq(Registrations) /\ Len(messages) <= MaxMessages

\* A job that Bull has handed out again too often is given up.
JobsTyped ==
    /\ jobs \in Seq(Job)
    /\ \A j \in DOMAIN jobs :
         /\ jobs[j].processType = "whatsappTemplateGeneric" => jobs[j].body \in Body
         /\ jobs[j].stalls > MaxStalls => jobs[j].state = "failed"

PendingTyped == pendingMessages \in Seq(PendingMessage)

RowsTyped ==
    /\ twilioMessages \in Seq(TwilioMessage)
    /\ \A i \in DOMAIN twilioMessages : twilioMessages[i].sid \in 0..Len(twilio)

LatestTyped == latestMessages \in [Registrations -> 0..Len(twilioMessages)]

TwilioTyped == twilio \in Seq(Accepted)

\* Two senders are never at work on the same job.
SendersTyped ==
    /\ sender \in [Senders -> Sender]
    /\ \A s \in Senders : sender[s].pc # "idle" =>
         /\ sender[s].job \in DOMAIN jobs
         /\ jobs[sender[s].job].state = "active"
         /\ jobs[sender[s].job].queue = QueueOf[s]
         /\ sender[s].pc = "pending" =>
              jobs[sender[s].job].processType = "whatsappTemplateGeneric"
         /\ sender[s].pc \in {"latest", "insert"} =>
              sender[s].row \in DOMAIN twilioMessages
         /\ sender[s].sid # NoSid => sender[s].sid \in DOMAIN twilio
    /\ \A s, t \in Senders :
         s # t /\ sender[s].pc # "idle" /\ sender[t].pc # "idle"
           => sender[s].job # sender[t].job

IncomingTyped ==
    /\ incoming \in [Handlers -> Incoming]
    /\ \A h \in Handlers : incoming[h].todo \subseteq DOMAIN pendingMessages

ResendingTyped ==
    /\ resending \in [Handlers -> Resending]
    /\ \A h \in Handlers :
         resending[h].pc = "update" => resending[h].message.retryCount < MaxRetryCount

BoundsTyped == received \in 0..MaxIncoming /\ faults \in 0..MaxFaults

TypeInv ==
    /\ MessagesTyped /\ JobsTyped /\ PendingTyped /\ RowsTyped /\ LatestTyped
    /\ TwilioTyped /\ SendersTyped /\ IncomingTyped /\ ResendingTyped /\ BoundsTyped

(* What no step takes away: a message, what a job is for, a pending message,  *)
(* a row and whose it is, what Twilio has accepted, and that a registration   *)
(* has a latest message.                                                      *)

MessagesKept ==
    /\ MessagesTyped' /\ DOMAIN messages \subseteq DOMAIN messages'
    /\ \A m \in DOMAIN messages : messages'[m] = messages[m]

SameJob(new, old) ==
    /\ new.queue = old.queue /\ new.processType = old.processType
    /\ new.registration = old.registration /\ new.body = old.body
    /\ new.pendingMessageId = old.pendingMessageId
    /\ new.existingMessageSid = old.existingMessageSid

JobsKept ==
    /\ JobsTyped' /\ DOMAIN jobs \subseteq DOMAIN jobs'
    /\ \A j \in DOMAIN jobs : SameJob(jobs'[j], jobs[j])

PendingKept ==
    /\ PendingTyped' /\ DOMAIN pendingMessages \subseteq DOMAIN pendingMessages'
    /\ \A p \in DOMAIN pendingMessages :
         pendingMessages'[p].body = pendingMessages[p].body

RowsKept ==
    /\ RowsTyped' /\ DOMAIN twilioMessages \subseteq DOMAIN twilioMessages'
    /\ \A i \in DOMAIN twilioMessages :
         /\ twilioMessages'[i].registration = twilioMessages[i].registration
         /\ twilioMessages'[i].body = twilioMessages[i].body

TwilioKept ==
    /\ TwilioTyped' /\ DOMAIN twilio \subseteq DOMAIN twilio'
    /\ \A sid \in DOMAIN twilio :
         /\ twilio'[sid].body = twilio[sid].body
         /\ twilio[sid].fate # "open" => twilio'[sid].fate = twilio[sid].fate

LatestKept ==
    /\ LatestTyped'
    /\ \A r \in Registrations :
         latestMessages[r] # NoMessage => latestMessages'[r] # NoMessage

Kept == MessagesKept /\ JobsKept /\ PendingKept /\ RowsKept /\ TwilioKept /\ LatestKept

LEMMA MessagesUnchanged == MessagesTyped /\ UNCHANGED messages => MessagesKept
BY DEF MessagesTyped, MessagesKept

LEMMA JobsUnchanged == JobsTyped /\ UNCHANGED jobs => JobsKept
BY DEF JobsTyped, JobsKept, SameJob

LEMMA PendingUnchanged == PendingTyped /\ UNCHANGED pendingMessages => PendingKept
BY DEF PendingTyped, PendingKept

LEMMA TwilioUnchanged == TwilioTyped /\ UNCHANGED twilio => TwilioKept
BY DEF TwilioTyped, TwilioKept

LEMMA RowsUnchanged ==
    RowsTyped /\ TwilioTyped /\ TwilioKept /\ UNCHANGED twilioMessages => RowsKept
<1> SUFFICES ASSUME RowsTyped, TwilioTyped, TwilioKept, UNCHANGED twilioMessages
             PROVE  RowsKept
  OBVIOUS
<1>1. Len(twilio) \in Nat /\ Len(twilio') \in Nat /\ 1..Len(twilio) \subseteq 1..Len(twilio')
  BY DEF TwilioTyped, TwilioKept
<1>2. Len(twilio) <= Len(twilio')
  <2>1. CASE Len(twilio) = 0
    BY <1>1, <2>1
  <2>2. CASE Len(twilio) # 0
    <3>1. Len(twilio) \in 1..Len(twilio)
      BY <1>1, <2>2
    <3> QED
      BY <1>1, <3>1
  <2> QED
    BY <2>1, <2>2
<1> QED
  BY <1>1, <1>2 DEF RowsTyped, RowsKept

LEMMA LatestUnchanged ==
    LatestTyped /\ RowsTyped /\ RowsKept /\ UNCHANGED latestMessages => LatestKept
<1> SUFFICES ASSUME LatestTyped, RowsTyped, RowsKept, UNCHANGED latestMessages
             PROVE  LatestKept
  OBVIOUS
<1>1. /\ Len(twilioMessages) \in Nat /\ Len(twilioMessages') \in Nat
      /\ 1..Len(twilioMessages) \subseteq 1..Len(twilioMessages')
  BY DEF RowsTyped, RowsKept
<1>2. Len(twilioMessages) <= Len(twilioMessages')
  <2>1. CASE Len(twilioMessages) = 0
    BY <1>1, <2>1
  <2>2. CASE Len(twilioMessages) # 0
    <3>1. Len(twilioMessages) \in 1..Len(twilioMessages)
      BY <1>1, <2>2
    <3> QED
      BY <1>1, <3>1
  <2> QED
    BY <2>1, <2>2
<1> QED
  BY <1>1, <1>2 DEF LatestTyped, LatestKept

LEMMA IncomingUnchanged ==
    IncomingTyped /\ PendingKept /\ UNCHANGED incoming => IncomingTyped'
BY DEF IncomingTyped, PendingKept

LEMMA ResendingUnchanged == ResendingTyped /\ UNCHANGED resending => ResendingTyped'
BY DEF ResendingTyped

\* The senders stay, and so do the jobs they are at work on.
LEMMA SendersUnchanged ==
    ASSUME TypeInv, Kept, UNCHANGED sender,
           \A j \in DOMAIN jobs : jobs[j].state = "active" => jobs'[j].state = "active"
    PROVE  SendersTyped'
BY DEF TypeInv, SendersTyped, Kept, JobsKept, SameJob, RowsKept, TwilioKept

LEMMA StoreUnchanged ==
    ASSUME TypeInv, UNCHANGED <<storeVars, twilio>>
    PROVE  PendingKept /\ RowsKept /\ TwilioKept /\ LatestKept
BY PendingUnchanged, TwilioUnchanged, RowsUnchanged, LatestUnchanged
   DEF TypeInv, storeVars

LEMMA TypedFrom ==
    ASSUME Kept, SendersTyped', IncomingTyped', ResendingTyped', BoundsTyped'
    PROVE  TypeInv'
BY DEF Kept, TypeInv, MessagesKept, JobsKept, PendingKept, RowsKept, TwilioKept, LatestKept

-----------------------------------------------------------------------------
(* Jobs that are added.                                                    *)

NewJob == Len(jobs) + 1

JobAdded(processType, r, body, pendingMessageId, existingMessageSid) ==
    /\ NewJob \notin DOMAIN jobs /\ DOMAIN jobs' = DOMAIN jobs \cup {NewJob}
    /\ \A j \in DOMAIN jobs : jobs'[j] = jobs[j]
    /\ jobs'[NewJob].processType = processType
    /\ jobs'[NewJob].registration = r /\ jobs'[NewJob].body = body
    /\ jobs'[NewJob].pendingMessageId = pendingMessageId
    /\ jobs'[NewJob].existingMessageSid = existingMessageSid
    /\ jobs'[NewJob].state = "queued"

LEMMA AddMessageJobAdds ==
    ASSUME JobsTyped, NEW processType \in ProcessType, NEW r \in Registrations,
           NEW body \in Body \cup {NoBody}, NEW pid \in Nat, NEW sid \in Nat,
           processType = "whatsappTemplateGeneric" => body \in Body,
           AddMessageJob(processType, r, body, pid, sid)
    PROVE  JobsKept /\ JobAdded(processType, r, body, pid, sid)
<1>1. PICK queue \in BulkQueues \cup {"reply"} :
        jobs' = Append(jobs,
          [queue |-> queue, processType |-> processType, registration |-> r,
           body |-> body, pendingMessageId |-> pid, existingMessageSid |-> sid,
           state |-> "queued", stalls |-> 0])
  BY DEF AddMessageJob
<1> DEFINE new == [queue |-> queue, processType |-> processType, registration |-> r,
                   body |-> body, pendingMessageId |-> pid,
                   existingMessageSid |-> sid, state |-> "queued", stalls |-> 0]
<1>2. new \in Job
  BY MessageBoundsAssumption DEF Job
<1>3. /\ new.processType = processType /\ new.registration = r /\ new.body = body
      /\ new.pendingMessageId = pid /\ new.existingMessageSid = sid
      /\ new.state = "queued" /\ new.stalls = 0
  OBVIOUS
<1>4. jobs' = Append(jobs, new)
  BY <1>1
<1> HIDE DEF new
<1>5. /\ jobs' \in Seq(Job) /\ Len(jobs) \in Nat /\ DOMAIN jobs = 1..Len(jobs)
      /\ DOMAIN jobs' = 1..(Len(jobs) + 1)
      /\ \A j \in DOMAIN jobs : jobs'[j] = jobs[j]
      /\ jobs'[NewJob] = new
  BY <1>2, <1>4, Appended DEF JobsTyped, NewJob
<1>6. NewJob \notin DOMAIN jobs /\ DOMAIN jobs' = DOMAIN jobs \cup {NewJob}
  BY <1>5 DEF NewJob
<1>7. ~(new.stalls > MaxStalls)
  BY <1>3, MessageBoundsAssumption
<1>8. JobsTyped'
  BY <1>3, <1>5, <1>6, <1>7 DEF JobsTyped
<1>9. JobsKept
  BY <1>5, <1>6, <1>8 DEF JobsKept, SameJob
<1> QED
  BY <1>3, <1>5, <1>6, <1>9 DEF JobAdded

LEMMA SendersKept ==
    ASSUME TypeInv, Kept, UNCHANGED sender,
           \A j \in DOMAIN jobs : jobs'[j] = jobs[j]
    PROVE  SendersTyped'
BY SendersUnchanged

-----------------------------------------------------------------------------
(* Users, and the messages of registrations.                               *)

LEMMA SendMessageFacts ==
    ASSUME TypeInv, NEW r \in Registrations, SendMessage(r)
    PROVE  /\ Kept /\ TypeInv'
           /\ Len(messages) + 1 \notin DOMAIN messages
           /\ DOMAIN messages' = DOMAIN messages \cup {Len(messages) + 1}
           /\ messages'[Len(messages) + 1] = r
           /\ JobAdded(IF r \in WithWhatsapp THEN "whatsappTemplateGeneric" ELSE "sms",
                       r, Len(messages) + 1, NoMessage, NoSid)
           /\ UNCHANGED <<storeVars, twilio, sender, incoming, resending, bounds>>
<1> DEFINE type == IF r \in WithWhatsapp THEN "whatsappTemplateGeneric" ELSE "sms"
<1>1. /\ Len(messages) < MaxMessages
      /\ messages' = Append(messages, r)
      /\ AddMessageJob(type, r, Len(messages) + 1, NoMessage, NoSid)
      /\ UNCHANGED <<storeVars, twilio, sender, incoming, resending, bounds>>
  BY DEF SendMessage
<1>2. type \in ProcessType
  BY DEF ProcessType
<1> HIDE DEF type
<1>3. /\ messages' \in Seq(Registrations) /\ Len(messages) \in Nat
      /\ Len(messages') = Len(messages) + 1
      /\ DOMAIN messages = 1..Len(messages)
      /\ DOMAIN messages' = 1..(Len(messages) + 1)
      /\ \A m \in DOMAIN messages : messages'[m] = messages[m]
      /\ messages'[Len(messages) + 1] = r
  BY <1>1, Appended DEF TypeInv, MessagesTyped
<1>4. Len(messages) + 1 \in Body
  BY <1>1, <1>3, MessageBoundsAssumption DEF Body
<1>5. MessagesKept
  BY <1>1, <1>3, MessageBoundsAssumption DEF MessagesKept, MessagesTyped
<1>6. NoMessage \in Nat /\ NoSid \in Nat
  BY DEF NoMessage, NoSid
<1>7. JobsKept /\ JobAdded(type, r, Len(messages) + 1, NoMessage, NoSid)
  BY <1>1, <1>2, <1>4, <1>6, AddMessageJobAdds DEF TypeInv
<1>8. Kept
  BY <1>1, <1>5, <1>7, StoreUnchanged DEF Kept
<1>9. SendersTyped'
  BY <1>1, <1>7, <1>8, SendersKept DEF JobAdded
<1>10. IncomingTyped' /\ ResendingTyped' /\ BoundsTyped'
  BY <1>1, <1>8, IncomingUnchanged, ResendingUnchanged DEF TypeInv, Kept, bounds, BoundsTyped
<1>11. Len(messages) + 1 \notin DOMAIN messages
       /\ DOMAIN messages' = DOMAIN messages \cup {Len(messages) + 1}
  BY <1>3
<1> QED
  BY <1>1, <1>3, <1>7, <1>8, <1>9, <1>10, <1>11, TypedFrom DEF type

\* A step of a handler or of a callback that stores nothing.
LEMMA NothingStored ==
    ASSUME TypeInv, JobsKept, UNCHANGED <<messages, storeVars, twilio, sender>>,
           \A j \in DOMAIN jobs : jobs'[j] = jobs[j]
    PROVE  Kept /\ SendersTyped'
<1>1. MessagesKept
  BY MessagesUnchanged DEF TypeInv
<1>2. Kept
  BY <1>1, StoreUnchanged DEF Kept
<1> QED
  BY <1>2, SendersKept

LEMMA PendingOfTyped == \A r \in Registrations : PendingOf(r) \subseteq DOMAIN pendingMessages
BY DEF PendingOf

LEMMA PendingMessageFacts ==
    ASSUME TypeInv, NEW p \in DOMAIN pendingMessages
    PROVE  p \in Nat /\ pendingMessages[p].body \in Body
<1>1. pendingMessages \in Seq(PendingMessage)
  BY DEF TypeInv, PendingTyped
<1>2. pendingMessages[p] \in PendingMessage /\ p \in 1..Len(pendingMessages)
  BY <1>1
<1>3. pendingMessages[p].body \in Body
  BY <1>2, Zenon DEF PendingMessage
<1> QED
  BY <1>1, <1>2, <1>3

LEMMA NotIncomingType == NotIncoming \in Incoming /\ NotIncoming.todo = {}
<1>1. (CHOOSE r \in Registrations : TRUE) \in Registrations
  BY MessageBoundsAssumption
<1> QED
  BY <1>1, Zenon DEF Incoming, NotIncoming

LEMMA IncomingStepTyped ==
    ASSUME IncomingTyped, PendingKept, NEW h \in Handlers, NEW new \in Incoming,
           new.todo \subseteq DOMAIN pendingMessages,
           incoming' = [incoming EXCEPT ![h] = new]
    PROVE  IncomingTyped'
<1>1. incoming' \in [Handlers -> Incoming]
  BY DEF IncomingTyped
<1>2. ASSUME NEW g \in Handlers PROVE incoming'[g].todo \subseteq DOMAIN pendingMessages'
  BY <1>2 DEF IncomingTyped, PendingKept
<1> QED
  BY <1>1, <1>2 DEF IncomingTyped

\* An answer finds pending messages to send, or is answered itself.
DefaultReplyAdded ==
    \E r \in Registrations :
        JobAdded("whatsappDefaultReply", r, NoBody, NoMessage, NoSid)

LEMMA ProcessIncomingWhatsappFacts ==
    ASSUME TypeInv, NEW h \in Handlers, NEW r \in WithWhatsapp,
           ProcessIncomingWhatsapp(h, r)
    PROVE  /\ Kept /\ TypeInv'
           /\ UNCHANGED jobs \/ DefaultReplyAdded
           /\ UNCHANGED <<messages, storeVars, twilio, sender, resending>>
<1>1. /\ received < MaxIncoming /\ received' = received + 1
      /\ UNCHANGED <<messages, storeVars, twilio, sender, resending, faults>>
      /\ \/ /\ AddMessageJob("whatsappDefaultReply", r, NoBody, NoMessage, NoSid)
            /\ UNCHANGED incoming
         \/ /\ incoming' = [incoming EXCEPT ![h] =
                 [busy |-> TRUE, registration |-> r, todo |-> PendingOf(r)]]
            /\ UNCHANGED jobs
  BY DEF ProcessIncomingWhatsapp, unchangedByIncoming
<1>2. r \in Registrations
  BY MessageBoundsAssumption
<1>3. BoundsTyped'
  BY <1>1, MessageBoundsAssumption DEF TypeInv, BoundsTyped
<1>4. CASE AddMessageJob("whatsappDefaultReply", r, NoBody, NoMessage, NoSid)
           /\ UNCHANGED incoming
  <2>1. /\ "whatsappDefaultReply" \in ProcessType /\ NoBody \in Body \cup {NoBody}
        /\ NoMessage \in Nat /\ NoSid \in Nat
    BY DEF ProcessType, NoMessage, NoSid
  <2>2. JobsKept /\ JobAdded("whatsappDefaultReply", r, NoBody, NoMessage, NoSid)
    BY <1>2, <1>4, <2>1, AddMessageJobAdds DEF TypeInv
  <2>3. Kept /\ SendersTyped'
    BY <1>1, <2>2, NothingStored DEF JobAdded
  <2>4. IncomingTyped' /\ ResendingTyped'
    BY <1>1, <1>4, <2>3, IncomingUnchanged, ResendingUnchanged DEF TypeInv, Kept
  <2> QED
    BY <1>1, <1>2, <1>3, <2>2, <2>3, <2>4, TypedFrom DEF DefaultReplyAdded
<1>5. CASE /\ incoming' = [incoming EXCEPT ![h] =
                 [busy |-> TRUE, registration |-> r, todo |-> PendingOf(r)]]
           /\ UNCHANGED jobs
  <2>1. Kept /\ SendersTyped'
    BY <1>1, <1>5, NothingStored, JobsUnchanged DEF TypeInv
  <2> DEFINE new == [busy |-> TRUE, registration |-> r, todo |-> PendingOf(r)]
  <2>2. PendingOf(r) \subseteq DOMAIN pendingMessages /\ PendingOf(r) \subseteq Nat
    BY <1>2, PendingOfTyped, PendingMessageFacts
  <2>3. new \in Incoming /\ new.todo = PendingOf(r)
    BY <1>2, <2>2, Zenon DEF Incoming
  <2> HIDE DEF new
  <2>4. IncomingTyped'
    BY <1>5, <2>1, <2>2, <2>3, IncomingStepTyped DEF TypeInv, Kept, new
  <2> QED
    BY <1>1, <1>3, <1>5, <2>1, <2>4, ResendingUnchanged, TypedFrom DEF TypeInv
<1> QED
  BY <1>1, <1>4, <1>5

LEMMA SendPendingWhatsappMessageFacts ==
    ASSUME TypeInv, NEW h \in Handlers, NEW p \in incoming[h].todo,
           SendPendingWhatsappMessage(h, p)
    PROVE  /\ Kept /\ TypeInv' /\ p \in DOMAIN pendingMessages
           /\ \E r \in Registrations :
                JobAdded("whatsappPendingMessage", r, pendingMessages[p].body, p, NoSid)
           /\ UNCHANGED <<messages, storeVars, twilio, sender, resending>>
<1> DEFINE rest == incoming[h].todo \ {p}
           r == incoming[h].registration
           new == IF rest = {} THEN NotIncoming
                  ELSE [incoming[h] EXCEPT !.todo = rest]
<1>1. /\ AddMessageJob("whatsappPendingMessage", r, pendingMessages[p].body, p, NoSid)
      /\ incoming' = [incoming EXCEPT ![h] = new]
      /\ UNCHANGED <<messages, storeVars, twilio, sender, resending, received, faults>>
  BY DEF SendPendingWhatsappMessage, unchangedByIncoming
<1>2. incoming[h] \in Incoming /\ incoming[h].todo \subseteq DOMAIN pendingMessages
  BY DEF TypeInv, IncomingTyped
<1>3. /\ p \in DOMAIN pendingMessages /\ p \in Nat
      /\ pendingMessages[p].body \in Body \cup {NoBody}
  BY <1>2, PendingMessageFacts
<1>4. r \in Registrations /\ rest \in SUBSET Nat /\ rest \subseteq DOMAIN pendingMessages
  BY <1>2, Zenon DEF Incoming
<1>5. new \in Incoming /\ new.todo \subseteq DOMAIN pendingMessages
  <2>1. CASE rest = {}
    BY <2>1, NotIncomingType
  <2>2. CASE rest # {}
    <3> DEFINE x == incoming[h]
    <3>1. x \in Incoming
      BY <1>2
    <3> HIDE DEF x, rest
    <3>2. [x EXCEPT !.todo = rest] \in Incoming /\ [x EXCEPT !.todo = rest].todo = rest
      BY <1>4, <3>1, Zenon DEF Incoming
    <3> QED
      BY <1>4, <2>2, <3>2 DEF x
  <2> QED
    BY <2>1, <2>2
<1>6. "whatsappPendingMessage" \in ProcessType /\ NoSid \in Nat
  BY DEF ProcessType, NoSid
<1> HIDE DEF rest, new
<1>7. JobsKept
      /\ JobAdded("whatsappPendingMessage", r, pendingMessages[p].body, p, NoSid)
  <2> HIDE DEF r
  <2> QED
    BY <1>1, <1>3, <1>4, <1>6, AddMessageJobAdds DEF TypeInv
<1>8. Kept /\ SendersTyped'
  BY <1>1, <1>7, NothingStored DEF JobAdded
<1>9. IncomingTyped'
  BY <1>1, <1>5, <1>8, IncomingStepTyped DEF TypeInv, Kept
<1>10. ResendingTyped' /\ BoundsTyped'
  BY <1>1, ResendingUnchanged DEF TypeInv, BoundsTyped
<1> QED
  BY <1>1, <1>3, <1>4, <1>7, <1>8, <1>9, <1>10, TypedFrom

-----------------------------------------------------------------------------
(* Twilio and its callbacks.                                               *)

LEMMA DeliverFacts ==
    ASSUME TypeInv, NEW sid \in DOMAIN twilio, Deliver(sid)
    PROVE  /\ Kept /\ TypeInv'
           /\ UNCHANGED <<messages, jobs, storeVars, sender, incoming, resending>>
<1>1. PICK fate \in Fate : twilio' = [twilio EXCEPT ![sid].fate = fate]
  BY DEF Deliver
<1>2. /\ twilio[sid].fate = "open"
      /\ UNCHANGED <<messages, jobs, storeVars, sender, incoming, resending, bounds>>
  BY DEF Deliver
<1> DEFINE new == [twilio[sid] EXCEPT !.fate = fate]
<1>3. twilio \in Seq(Accepted)
  BY DEF TypeInv, TwilioTyped
<1>4. twilio[sid] \in Accepted
  BY <1>3
<1>5. new \in Accepted /\ new.body = twilio[sid].body
  BY <1>4 DEF Accepted
<1>6. twilio' = [twilio EXCEPT ![sid] = new]
  BY <1>1
<1> HIDE DEF new
<1>7. /\ twilio' \in Seq(Accepted) /\ DOMAIN twilio' = DOMAIN twilio
      /\ twilio'[sid] = new
      /\ \A s \in DOMAIN twilio \ {sid} : twilio'[s] = twilio[s]
  BY <1>3, <1>5, <1>6, Updated
<1>8. TwilioKept
  BY <1>2, <1>5, <1>7 DEF TwilioKept, TwilioTyped
<1>9. /\ MessagesKept /\ JobsKept /\ PendingKept
  BY <1>2, MessagesUnchanged, JobsUnchanged, PendingUnchanged DEF TypeInv, storeVars
<1>10. RowsKept
  BY <1>2, <1>8, RowsUnchanged DEF TypeInv, storeVars
<1>11. LatestKept
  BY <1>2, <1>10, LatestUnchanged DEF TypeInv, storeVars
<1>12. Kept
  BY <1>8, <1>9, <1>10, <1>11 DEF Kept
<1>13. SendersTyped' /\ IncomingTyped' /\ ResendingTyped' /\ BoundsTyped'
  BY <1>2, <1>9, <1>12, SendersKept, IncomingUnchanged, ResendingUnchanged
     DEF TypeInv, bounds, BoundsTyped
<1> QED
  BY <1>2, <1>12, <1>13, TypedFrom

\* Rows are updated where they are; a row may lose its sid.
LEMMA RowsMapped ==
    ASSUME TypeInv, TwilioKept,
           twilioMessages' = [i \in DOMAIN twilioMessages |-> twilioMessages'[i]],
           \A i \in DOMAIN twilioMessages :
             /\ twilioMessages'[i] \in TwilioMessage
             /\ twilioMessages'[i].registration = twilioMessages[i].registration
             /\ twilioMessages'[i].body = twilioMessages[i].body
             /\ twilioMessages'[i].sid \in {twilioMessages[i].sid, NoSid}
    PROVE  RowsKept /\ DOMAIN twilioMessages' = DOMAIN twilioMessages
<1>1. RowsTyped /\ TwilioTyped
  BY DEF TypeInv
<1>2. RowsKept \/ ~UNCHANGED twilioMessages
  BY <1>1, RowsUnchanged
<1>3. /\ twilioMessages' \in Seq(TwilioMessage)
      /\ DOMAIN twilioMessages' = DOMAIN twilioMessages
  BY <1>1, Mapped DEF RowsTyped
<1>4. Len(twilio) \in Nat /\ Len(twilio') \in Nat /\ Len(twilio) <= Len(twilio')
  <2>1. Len(twilio) \in Nat /\ Len(twilio') \in Nat /\ 1..Len(twilio) \subseteq 1..Len(twilio')
    BY <1>1 DEF TwilioTyped, TwilioKept
  <2>2. CASE Len(twilio) # 0
    <3>1. Len(twilio) \in 1..Len(twilio)
      BY <2>1, <2>2
    <3> QED
      BY <2>1, <3>1
  <2> QED
    BY <2>1, <2>2
<1>5. \A i \in DOMAIN twilioMessages' : twilioMessages'[i].sid \in 0..Len(twilio')
  BY <1>1, <1>3, <1>4 DEF RowsTyped, NoSid
<1> QED
  BY <1>3, <1>5 DEF RowsKept, RowsTyped

LEMMA RowFacts ==
    ASSUME TypeInv, NEW i \in DOMAIN twilioMessages
    PROVE  /\ twilioMessages[i] \in TwilioMessage
           /\ twilioMessages[i].sid \in 0..Len(twilio) /\ i \in Nat
<1>1. twilioMessages \in Seq(TwilioMessage)
      /\ \A j \in DOMAIN twilioMessages : twilioMessages[j].sid \in 0..Len(twilio)
  BY DEF TypeInv, RowsTyped
<1> QED
  BY <1>1

\* A callback, or a failure, that stores nothing but rows.
LEMMA OnlyRowsStored ==
    ASSUME TypeInv, RowsKept,
           UNCHANGED <<messages, jobs, pendingMessages, latestMessages, twilio>>
    PROVE  Kept
<1>1. /\ MessagesKept /\ JobsKept /\ PendingKept /\ TwilioKept
  BY MessagesUnchanged, JobsUnchanged, PendingUnchanged, TwilioUnchanged DEF TypeInv
<1>2. LatestKept
  BY LatestUnchanged DEF TypeInv
<1> QED
  BY <1>1, <1>2 DEF Kept

\* What a callback says is written to the rows with its sid, unless they are
\* final; nothing else of a row changes.
StatusUpdated(sid, status) ==
    /\ status \in Reported(sid)
    /\ DOMAIN twilioMessages' = DOMAIN twilioMessages
    /\ \A i \in DOMAIN twilioMessages :
         /\ twilioMessages'[i].sid = twilioMessages[i].sid
         /\ twilioMessages'[i].body = twilioMessages[i].body
         /\ twilioMessages'[i].status # twilioMessages[i].status =>
              /\ twilioMessages[i].sid = sid /\ twilioMessages'[i].status = status
              /\ twilioMessages[i].processType # "sms" =>
                   twilioMessages[i].status \notin {"read", "failed"}

LEMMA UpdateStatusFacts ==
    ASSUME TypeInv, NEW sid \in DOMAIN twilio, NEW status \in TwilioStatus,
           UpdateStatus(sid, status)
    PROVE  /\ Kept /\ TypeInv' /\ StatusUpdated(sid, status)
           /\ UNCHANGED <<messages, jobs, pendingMessages, latestMessages, twilio,
                          sender, incoming, resending>>
<1> DEFINE updated(i) == /\ i \in RowOf(sid)
                         /\ twilioMessages[i].processType # "sms" =>
                              twilioMessages[i].status \notin {"read", "failed"}
<1>1. /\ status \in Reported(sid)
      /\ twilioMessages' = [i \in DOMAIN twilioMessages |->
           IF updated(i) THEN [twilioMessages[i] EXCEPT !.status = status]
           ELSE twilioMessages[i]]
      /\ UNCHANGED <<jobs, resending, faults, messages, pendingMessages,
                     latestMessages, twilio, sender, incoming, received>>
  BY DEF UpdateStatus, UpdateStatusUnless, unchangedByCallback
<1>2. ASSUME NEW i \in DOMAIN twilioMessages
      PROVE  /\ twilioMessages'[i] \in TwilioMessage
             /\ twilioMessages'[i].registration = twilioMessages[i].registration
             /\ twilioMessages'[i].body = twilioMessages[i].body
             /\ twilioMessages'[i].sid = twilioMessages[i].sid
             /\ updated(i) \/ twilioMessages'[i] = twilioMessages[i]
             /\ updated(i) => twilioMessages'[i].status = status
  <2>1. twilioMessages[i] \in TwilioMessage
    BY RowFacts
  <2>2. twilioMessages'[i] = IF updated(i) THEN [twilioMessages[i] EXCEPT !.status = status]
                             ELSE twilioMessages[i]
    BY <1>1
  <2> HIDE DEF updated
  <2> QED
    BY <2>1, <2>2 DEF TwilioMessage
<1>3. TwilioKept
  BY <1>1, TwilioUnchanged DEF TypeInv
<1>4. twilioMessages' = [i \in DOMAIN twilioMessages |-> twilioMessages'[i]]
  BY <1>1
<1> HIDE DEF updated
<1>5. RowsKept /\ DOMAIN twilioMessages' = DOMAIN twilioMessages
  BY <1>2, <1>3, <1>4, RowsMapped
<1>6. Kept
  BY <1>1, <1>5, OnlyRowsStored
<1>7. SendersTyped' /\ IncomingTyped' /\ ResendingTyped' /\ BoundsTyped'
  BY <1>1, <1>6, SendersKept, IncomingUnchanged, ResendingUnchanged
     DEF TypeInv, Kept, BoundsTyped
<1>8. StatusUpdated(sid, status)
  BY <1>1, <1>2, <1>5 DEF StatusUpdated, updated, RowOf
<1> QED
  BY <1>1, <1>6, <1>7, <1>8, TypedFrom

\* The row that is sent again, as it was read.
Found(message) ==
    \E i \in DOMAIN twilioMessages :
        /\ message = twilioMessages[i] /\ message.sid \in DOMAIN twilio
        /\ twilio[message.sid].fate = "faulty"
        /\ message.processType # "sms"
        /\ message.processType # "whatsappTemplateGeneric"

LEMMA FindFaultyMessageFacts ==
    ASSUME TypeInv, NEW h \in Handlers, NEW sid \in DOMAIN twilio,
           FindFaultyMessage(h, sid)
    PROVE  /\ Kept /\ TypeInv'
           /\ Found(resending'[h].message)
           /\ \A g \in Handlers \ {h} : resending'[g] = resending[g]
           /\ UNCHANGED <<messages, jobs, storeVars, twilio, sender, incoming>>
<1>1. PICK i \in ToSendAgain(sid) :
        resending' = [resending EXCEPT ![h] =
          [pc |-> "update", message |-> twilioMessages[i], id |-> i]]
  BY DEF FindFaultyMessage
<1>2. /\ faults < MaxFaults /\ faults' = faults + 1
      /\ UNCHANGED <<jobs, twilioMessages, messages, pendingMessages, latestMessages,
                     twilio, sender, incoming, received>>
  BY DEF FindFaultyMessage, unchangedByCallback
<1> DEFINE new == [pc |-> "update", message |-> twilioMessages[i], id |-> i]
<1>3. /\ i \in DOMAIN twilioMessages /\ twilioMessages[i].sid = sid
      /\ twilio[sid].fate = "faulty"
      /\ twilioMessages[i].processType # "sms"
      /\ twilioMessages[i].processType # "whatsappTemplateGeneric"
      /\ twilioMessages[i].retryCount < MaxRetryCount
  BY DEF ToSendAgain, RowOf
<1>4. twilioMessages[i] \in TwilioMessage /\ i \in Nat
  BY <1>3, RowFacts
<1>5. /\ new \in Resending /\ new.message = twilioMessages[i]
  BY <1>4 DEF Resending
<1> HIDE DEF new
<1>6. /\ resending' \in [Handlers -> Resending] /\ resending'[h] = new
      /\ \A g \in Handlers \ {h} : resending'[g] = resending[g]
  BY <1>1, <1>5 DEF TypeInv, ResendingTyped, new
<1>7. ResendingTyped'
  BY <1>3, <1>5, <1>6 DEF TypeInv, ResendingTyped
<1>8. Kept /\ SendersTyped'
  BY <1>2, NothingStored, JobsUnchanged DEF TypeInv, storeVars
<1>9. IncomingTyped' /\ BoundsTyped'
  BY <1>2, <1>8, IncomingUnchanged, MessageBoundsAssumption DEF TypeInv, Kept, BoundsTyped
<1> QED
  BY <1>2, <1>3, <1>5, <1>6, <1>7, <1>8, <1>9, TypedFrom DEF Found, storeVars

\* One of the handlers goes on; nothing is said about the others.
LEMMA UpdateRetryCountFacts ==
    ASSUME TypeInv, NEW h \in Handlers, UpdateRetryCount(h)
    PROVE  /\ Kept /\ TypeInv'
           /\ resending[h].pc = "update" /\ resending'[h].message = resending[h].message
           /\ \A g \in Handlers \ {h} : resending'[g] = resending[g]
           /\ DOMAIN twilioMessages' = DOMAIN twilioMessages
           /\ \A i \in DOMAIN twilioMessages :
                /\ twilioMessages'[i].sid = twilioMessages[i].sid
                /\ twilioMessages'[i].body = twilioMessages[i].body
                /\ twilioMessages'[i].status = twilioMessages[i].status
           /\ UNCHANGED <<messages, jobs, pendingMessages, latestMessages, twilio,
                          sender, incoming>>
<1> DEFINE message == resending[h].message
           again(i) == i \in RowOf(message.sid)
<1>1. /\ resending[h].pc = "update"
      /\ twilioMessages' = [i \in DOMAIN twilioMessages |->
           IF again(i)
           THEN [twilioMessages[i] EXCEPT !.retryCount = message.retryCount + 1]
           ELSE twilioMessages[i]]
      /\ resending' = [resending EXCEPT ![h].pc = "wait"]
      /\ UNCHANGED <<jobs, faults, messages, pendingMessages, latestMessages, twilio,
                     sender, incoming, received>>
  BY DEF UpdateRetryCount, unchangedByCallback
<1>2. resending[h] \in Resending /\ message.retryCount < MaxRetryCount
  BY <1>1 DEF TypeInv, ResendingTyped
<1>3. message.retryCount \in 0..MaxRetryCount
  BY <1>2 DEF Resending, TwilioMessage
<1>4. message.retryCount + 1 \in 0..MaxRetryCount
  BY <1>2, <1>3, MessageBoundsAssumption
<1>5. ASSUME NEW i \in DOMAIN twilioMessages
      PROVE  /\ twilioMessages'[i] \in TwilioMessage
             /\ twilioMessages'[i].registration = twilioMessages[i].registration
             /\ twilioMessages'[i].body = twilioMessages[i].body
             /\ twilioMessages'[i].sid = twilioMessages[i].sid
             /\ twilioMessages'[i].status = twilioMessages[i].status
  <2>1. twilioMessages[i] \in TwilioMessage
    BY RowFacts
  <2> DEFINE count == message.retryCount + 1
  <2>2. twilioMessages'[i] = IF again(i)
                             THEN [twilioMessages[i] EXCEPT !.retryCount = count]
                             ELSE twilioMessages[i]
    BY <1>1
  <2>3. count \in 0..MaxRetryCount
    BY <1>4
  <2> HIDE DEF again, message, count
  <2> QED
    BY <2>1, <2>2, <2>3 DEF TwilioMessage
<1>6. twilioMessages' = [i \in DOMAIN twilioMessages |-> twilioMessages'[i]]
  BY <1>1
<1> HIDE DEF again
<1>7. TwilioKept
  BY <1>1, TwilioUnchanged DEF TypeInv
<1>8. RowsKept /\ DOMAIN twilioMessages' = DOMAIN twilioMessages
  BY <1>5, <1>6, <1>7, RowsMapped
<1>9. Kept
  BY <1>1, <1>8, OnlyRowsStored
<1>10. /\ resending' \in [Handlers -> Resending]
       /\ resending'[h].message = message /\ resending'[h].pc = "wait"
       /\ \A g \in Handlers \ {h} : resending'[g] = resending[g]
  BY <1>1, <1>2 DEF TypeInv, ResendingTyped, Resending
<1>11. ResendingTyped'
  BY <1>10 DEF TypeInv, ResendingTyped
<1>12. SendersTyped' /\ IncomingTyped' /\ BoundsTyped'
  BY <1>1, <1>9, SendersKept, IncomingUnchanged DEF TypeInv, Kept, BoundsTyped
<1> QED
  BY <1>1, <1>5, <1>8, <1>9, <1>10, <1>11, <1>12, TypedFrom

LEMMA NotResendingType == NotResending \in Resending /\ NotResending.pc = "idle"
<1>1. NotIncoming.registration \in Registrations
  <2>1. (CHOOSE r \in Registrations : TRUE) \in Registrations
    BY MessageBoundsAssumption
  <2> QED
    BY <2>1 DEF NotIncoming
<1> QED
  BY <1>1, MessageBoundsAssumption
     DEF Resending, NotResending, TwilioMessage, NoMessage, NoBody, NoSid,
         ProcessType, TwilioStatus

LEMMA HandleFaultyTemplateErrorFacts ==
    ASSUME TypeInv, NEW h \in Handlers, HandleFaultyTemplateError(h),
           resending[h].message.processType # "whatsappTemplateGeneric"
    PROVE  /\ Kept /\ TypeInv'
           /\ resending[h].pc = "wait" /\ resending'[h].pc = "idle"
           /\ \A g \in Handlers \ {h} : resending'[g] = resending[g]
           /\ LET message == resending[h].message
              IN  JobAdded(message.processType, message.registration, message.body,
                           resending[h].id, message.sid)
           /\ UNCHANGED <<messages, storeVars, twilio, sender, incoming>>
<1> DEFINE message == resending[h].message
<1>1. /\ resending[h].pc = "wait"
      /\ AddMessageJob(message.processType, message.registration, message.body,
                       resending[h].id, message.sid)
      /\ resending' = [resending EXCEPT ![h] = NotResending]
      /\ UNCHANGED <<twilioMessages, faults, messages, pendingMessages,
                     latestMessages, twilio, sender, incoming, received>>
  BY DEF HandleFaultyTemplateError, unchangedByCallback
<1>2. resending[h] \in Resending
  BY DEF TypeInv, ResendingTyped
<1>3. message \in TwilioMessage /\ resending[h].id \in Nat
  BY <1>2 DEF Resending
<1>4. /\ message.processType \in ProcessType /\ message.registration \in Registrations
      /\ message.body \in Body \cup {NoBody} /\ message.sid \in Nat
      /\ message.processType # "whatsappTemplateGeneric"
  BY <1>3 DEF TwilioMessage
<1>5. JobsKept /\ JobAdded(message.processType, message.registration, message.body,
                           resending[h].id, message.sid)
  <2> HIDE DEF message
  <2> QED
    BY <1>1, <1>3, <1>4, AddMessageJobAdds DEF TypeInv
<1>6. Kept /\ SendersTyped'
  BY <1>1, <1>5, NothingStored DEF JobAdded, storeVars
<1>7. /\ resending' \in [Handlers -> Resending] /\ resending'[h].pc = "idle"
      /\ \A g \in Handlers \ {h} : resending'[g] = resending[g]
  BY <1>1, NotResendingType DEF TypeInv, ResendingTyped
<1>8. ResendingTyped'
  BY <1>7 DEF TypeInv, ResendingTyped
<1>9. IncomingTyped' /\ BoundsTyped'
  BY <1>1, <1>6, IncomingUnchanged DEF TypeInv, Kept, BoundsTyped
<1> QED
  BY <1>1, <1>5, <1>6, <1>7, <1>8, <1>9, TypedFrom DEF storeVars

-----------------------------------------------------------------------------
(* The senders.                                                            *)

\* Sender s goes on with its job, as x; the others stay.
Goes(s, x) ==
    /\ sender'[s] = x /\ x \in Sender
    /\ sender[s].pc # "idle" /\ x.pc # "idle" /\ x.job = sender[s].job
    /\ \A t \in Senders \ {s} : sender'[t] = sender[t]

LEMMA SenderFacts ==
    ASSUME TypeInv, NEW s \in Senders
    PROVE  sender[s] \in Sender
BY DEF TypeInv, SendersTyped

LEMMA JobFacts ==
    ASSUME TypeInv, NEW s \in Senders, sender[s].pc # "idle"
    PROVE  /\ sender[s].job \in DOMAIN jobs /\ JobOf(s) \in Job
           /\ JobOf(s).state = "active"
           /\ JobOf(s).registration \in Registrations
           /\ JobOf(s).processType \in ProcessType
           /\ BodySent(s) \in Body \cup {NoBody}
<1>1. sender[s].job \in DOMAIN jobs /\ JobOf(s).state = "active" /\ jobs \in Seq(Job)
  BY DEF TypeInv, SendersTyped, JobsTyped, JobOf
<1>2. JobOf(s) \in Job
  BY <1>1 DEF JobOf
<1> QED
  BY <1>1, <1>2 DEF Job, BodySent

LEMMA GoesTyped ==
    ASSUME TypeInv, Kept, NEW s \in Senders, NEW x \in Sender,
           sender' = [sender EXCEPT ![s] = x],
           sender[s].pc # "idle", x.pc \notin {"idle", "pending"},
           x.job = sender[s].job,
           x.pc \in {"latest", "insert"} => x.row \in DOMAIN twilioMessages',
           x.sid # NoSid => x.sid \in DOMAIN twilio',
           UNCHANGED jobs
    PROVE  Goes(s, x) /\ SendersTyped'
<1>1. /\ sender' \in [Senders -> Sender] /\ sender'[s] = x
      /\ \A t \in Senders \ {s} : sender'[t] = sender[t]
  BY DEF TypeInv, SendersTyped
<1>2. ASSUME NEW t \in Senders, sender'[t].pc # "idle"
      PROVE  /\ sender'[t].job \in DOMAIN jobs'
             /\ jobs'[sender'[t].job].state = "active"
             /\ jobs'[sender'[t].job].queue = QueueOf[t]
             /\ sender'[t].pc = "pending" =>
                  jobs'[sender'[t].job].processType = "whatsappTemplateGeneric"
             /\ sender'[t].pc \in {"latest", "insert"} =>
                  sender'[t].row \in DOMAIN twilioMessages'
             /\ sender'[t].sid # NoSid => sender'[t].sid \in DOMAIN twilio'
  <2>1. CASE t = s
    BY <1>1, <2>1 DEF TypeInv, SendersTyped
  <2>2. CASE t # s
    <3>1. sender'[t] = sender[t]
      BY <1>1, <2>2
    <3> QED
      BY <1>2, <3>1 DEF TypeInv, SendersTyped, Kept, RowsKept, TwilioKept
  <2> QED
    BY <2>1, <2>2
<1>3. ASSUME NEW t \in Senders, NEW u \in Senders,
             t # u, sender'[t].pc # "idle", sender'[u].pc # "idle"
      PROVE  sender'[t].job # sender'[u].job
  <2>1. sender[t].pc # "idle" /\ sender[u].pc # "idle"
        /\ sender'[t].job = sender[t].job /\ sender'[u].job = sender[u].job
    BY <1>1, <1>3
  <2> QED
    BY <1>3, <2>1 DEF TypeInv, SendersTyped
<1> QED
  BY <1>1, <1>2, <1>3 DEF Goes, SendersTyped

\* The senders alone; users, handlers and counts stay.
LEMMA SenderTyped ==
    ASSUME TypeInv, Kept, SendersTyped', faults' \in 0..MaxFaults,
           UNCHANGED <<incoming, resending, received>>
    PROVE  TypeInv'
<1>1. IncomingTyped' /\ ResendingTyped' /\ BoundsTyped'
  BY IncomingUnchanged, ResendingUnchanged DEF TypeInv, Kept, BoundsTyped
<1> QED
  BY <1>1, TypedFrom

LEMMA FaultsTyped == TypeInv /\ UNCHANGED faults => faults' \in 0..MaxFaults
BY DEF TypeInv, BoundsTyped

\* Job j has another state and is otherwise the same.
JobState(j, state) ==
    /\ DOMAIN jobs' = DOMAIN jobs /\ jobs'[j].state = state
    /\ \A i \in DOMAIN jobs \ {j} : jobs'[i] = jobs[i]

LEMMA JobStateTyped ==
    ASSUME TypeInv, NEW j \in DOMAIN jobs,
           NEW state \in {"queued", "active", "stalled", "failed", "completed"},
           jobs' = [jobs EXCEPT ![j].state = state],
           jobs[j].stalls > MaxStalls => state = "failed"
    PROVE  JobsKept /\ JobState(j, state) /\ jobs'[j].stalls = jobs[j].stalls
<1> DEFINE new == [jobs[j] EXCEPT !.state = state]
<1>1. jobs \in Seq(Job)
  BY DEF TypeInv, JobsTyped
<1>2. jobs[j] \in Job
  BY <1>1
<1>3. /\ new \in Job /\ new.state = state /\ new.stalls = jobs[j].stalls
      /\ SameJob(new, jobs[j])
  BY <1>2 DEF Job, SameJob
<1>4. jobs' = [jobs EXCEPT ![j] = new]
  OBVIOUS
<1> HIDE DEF new
<1>5. /\ jobs' \in Seq(Job) /\ DOMAIN jobs' = DOMAIN jobs
      /\ jobs'[j] = new /\ \A i \in DOMAIN jobs \ {j} : jobs'[i] = jobs[i]
  BY <1>1, <1>3, <1>4, Updated
<1>6. JobsTyped'
  BY <1>3, <1>5 DEF TypeInv, JobsTyped, SameJob
<1> QED
  BY <1>3, <1>5, <1>6 DEF JobsKept, JobState, SameJob

LEMMA IdleSenderType ==
    /\ IdleSender \in Sender /\ IdleSender.pc = "idle" /\ IdleSender.sid = NoSid
BY DEF IdleSender, Sender, SenderPc, NoSid, NoMessage

\* A sender takes a job of its queue.
Takes(s, j) ==
    /\ j \in DOMAIN jobs /\ jobs[j].state = "queued" /\ JobState(j, "active")
    /\ sender[s].pc = "idle"
    /\ sender'[s].job = j /\ sender'[s].sid = NoSid
    /\ sender'[s].pc = IF jobs[j].processType = "whatsappTemplateGeneric"
                       THEN "pending" ELSE "create"
    /\ \A t \in Senders \ {s} : sender'[t] = sender[t]

LEMMA TakeJobFacts ==
    ASSUME TypeInv, NEW s \in Senders, NEW j \in DOMAIN jobs, TakeJob(s, j)
    PROVE  /\ Kept /\ TypeInv' /\ Takes(s, j)
           /\ UNCHANGED <<messages, storeVars, twilio, incoming, resending>>
<1> DEFINE pc == IF jobs[j].processType = "whatsappTemplateGeneric"
                 THEN "pending" ELSE "create"
           mid == [IdleSender EXCEPT !.job = j]
           new == [mid EXCEPT !.pc = pc]
<1>1. /\ sender[s].pc = "idle" /\ jobs[j].state = "queued"
      /\ jobs[j].queue \in {QueueOf[s]}
      /\ jobs' = [jobs EXCEPT ![j].state = "active"]
      /\ sender' = [sender EXCEPT ![s] = new]
      /\ UNCHANGED <<storeVars, twilio, messages, incoming, resending, bounds>>
  BY DEF TakeJob, TakeJobOf, unchangedBySender
<1>2. j \in Nat /\ pc \in SenderPc /\ pc \in {"pending", "create"}
  <2>1. jobs \in Seq(Job)
    BY DEF TypeInv, JobsTyped
  <2> QED
    BY <2>1 DEF SenderPc
<1> HIDE DEF pc
<1>3. mid \in Sender /\ mid.job = j /\ mid.sid = NoSid
  BY <1>2, IdleSenderType DEF Sender, IdleSender
<1> HIDE DEF mid
<1>4. new \in Sender /\ new.job = j /\ new.sid = NoSid /\ new.pc = pc
  BY <1>2, <1>3 DEF Sender
<1> HIDE DEF new
<1>5. jobs[j].stalls > MaxStalls => FALSE
  BY <1>1 DEF TypeInv, JobsTyped
<1>6. JobsKept /\ JobState(j, "active")
  BY <1>1, <1>5, JobStateTyped
<1>7. Kept
  BY <1>1, <1>6, StoreUnchanged, MessagesUnchanged DEF Kept, TypeInv
<1>8. /\ sender' \in [Senders -> Sender] /\ sender'[s] = new
      /\ \A t \in Senders \ {s} : sender'[t] = sender[t]
  BY <1>1, <1>4 DEF TypeInv, SendersTyped
<1>9. \A t \in Senders \ {s} : sender[t].pc # "idle" => sender[t].job # j
  BY <1>1 DEF TypeInv, SendersTyped
<1>10. Takes(s, j)
  BY <1>1, <1>4, <1>6, <1>8 DEF Takes, pc
<1>11. ASSUME NEW t \in Senders, sender'[t].pc # "idle"
       PROVE  /\ sender'[t].job \in DOMAIN jobs'
              /\ jobs'[sender'[t].job].state = "active"
              /\ jobs'[sender'[t].job].queue = QueueOf[t]
              /\ sender'[t].pc = "pending" =>
                   jobs'[sender'[t].job].processType = "whatsappTemplateGeneric"
              /\ sender'[t].pc \in {"latest", "insert"} =>
                   sender'[t].row \in DOMAIN twilioMessages'
              /\ sender'[t].sid # NoSid => sender'[t].sid \in DOMAIN twilio'
  <2>1. CASE t = s
    <3>1. /\ jobs'[j].queue = QueueOf[s]
          /\ jobs'[j].processType = jobs[j].processType
      BY <1>1, <1>6 DEF JobsKept, SameJob
    <3> QED
      BY <1>2, <1>4, <1>6, <1>8, <2>1, <3>1 DEF JobState, pc
  <2>2. CASE t # s
    <3>1. sender'[t] = sender[t] /\ sender[t].job # j
      BY <1>8, <1>9, <1>11, <2>2
    <3> QED
      BY <1>6, <1>7, <1>11, <3>1
         DEF JobState, TypeInv, SendersTyped, Kept, RowsKept, TwilioKept
  <2> QED
    BY <2>1, <2>2
<1>12. ASSUME NEW t \in Senders, NEW u \in Senders,
              t # u, sender'[t].pc # "idle", sender'[u].pc # "idle"
       PROVE  sender'[t].job # sender'[u].job
  <2>1. CASE t = s
    BY <1>4, <1>8, <1>9, <1>12, <2>1
  <2>2. CASE u = s
    BY <1>4, <1>8, <1>9, <1>12, <2>2
  <2>3. CASE t # s /\ u # s
    BY <1>8, <1>12, <2>3 DEF TypeInv, SendersTyped
  <2> QED
    BY <2>1, <2>2, <2>3
<1>13. SendersTyped'
  BY <1>8, <1>11, <1>12 DEF SendersTyped
<1>14. TypeInv'
  BY <1>1, <1>7, <1>13, FaultsTyped, SenderTyped DEF bounds
<1> QED
  BY <1>1, <1>7, <1>10, <1>14

\* A new pending message with the text of the job.
PendingAdded(s) ==
    LET new == Len(pendingMessages) + 1
    IN  /\ new \notin DOMAIN pendingMessages
        /\ DOMAIN pendingMessages' = DOMAIN pendingMessages \cup {new}
        /\ \A p \in DOMAIN pendingMessages : pendingMessages'[p] = pendingMessages[p]
        /\ pendingMessages'[new].body = JobOf(s).body
        /\ pendingMessages'[new].deleted = FALSE

LEMMA StorePendingMessageFacts ==
    ASSUME TypeInv, NEW s \in Senders, StorePendingMessage(s)
    PROVE  /\ Kept /\ TypeInv' /\ PendingAdded(s)
           /\ \E x : /\ Goes(s, x) /\ x.pc = "create" /\ x.sid = sender[s].sid
           /\ UNCHANGED <<messages, jobs, twilioMessages, latestMessages, twilio,
                          incoming, resending>>
<1> DEFINE new == [registration |-> JobOf(s).registration, body |-> JobOf(s).body,
                   deleted |-> FALSE]
           x == [sender[s] EXCEPT !.pc = "create"]
<1>1. /\ sender[s].pc = "pending"
      /\ pendingMessages' = Append(pendingMessages, new)
      /\ sender' = [sender EXCEPT ![s] = x]
      /\ UNCHANGED <<jobs, twilioMessages, latestMessages, twilio, messages,
                     incoming, resending, bounds>>
  BY DEF StorePendingMessage, Goto, unchangedBySender
<1>2. /\ x \in Sender /\ x.pc = "create" /\ x.sid = sender[s].sid
      /\ x.job = sender[s].job
  BY SenderFacts DEF Sender, SenderPc
<1>3. JobOf(s).processType = "whatsappTemplateGeneric" /\ sender[s].job \in DOMAIN jobs
  BY <1>1 DEF TypeInv, SendersTyped, JobOf
<1>4. JobOf(s).body \in Body /\ JobOf(s).registration \in Registrations
  BY <1>1, <1>3, JobFacts DEF TypeInv, JobsTyped, JobOf
<1>5. new \in PendingMessage /\ new.body = JobOf(s).body /\ new.deleted = FALSE
  <2> DEFINE r == JobOf(s).registration
             b == JobOf(s).body
  <2>1. r \in Registrations /\ b \in Body
    BY <1>4
  <2> HIDE DEF r, b
  <2>2. [registration |-> r, body |-> b, deleted |-> FALSE] \in PendingMessage
    BY <2>1, Zenon DEF PendingMessage
  <2> QED
    BY <2>2 DEF r, b
<1> HIDE DEF new, x
<1>6. /\ pendingMessages' \in Seq(PendingMessage) /\ Len(pendingMessages) \in Nat
      /\ DOMAIN pendingMessages = 1..Len(pendingMessages)
      /\ DOMAIN pendingMessages' = 1..(Len(pendingMessages) + 1)
      /\ \A p \in DOMAIN pendingMessages : pendingMessages'[p] = pendingMessages[p]
      /\ pendingMessages'[Len(pendingMessages) + 1] = new
  BY <1>1, <1>5, Appended DEF TypeInv, PendingTyped
<1>7. PendingAdded(s)
  BY <1>5, <1>6 DEF PendingAdded
<1>8. PendingKept
  BY <1>6 DEF PendingKept, PendingTyped
<1>9. MessagesKept /\ JobsKept /\ TwilioKept
  BY <1>1, MessagesUnchanged, JobsUnchanged, TwilioUnchanged DEF TypeInv
<1>10. RowsKept
  BY <1>1, <1>9, RowsUnchanged DEF TypeInv
<1>11. Kept
  BY <1>1, <1>8, <1>9, <1>10, LatestUnchanged DEF Kept, TypeInv
<1>12. x.sid # NoSid => x.sid \in DOMAIN twilio'
  BY <1>1, <1>2 DEF TypeInv, SendersTyped
<1>13. Goes(s, x) /\ SendersTyped'
  BY <1>1, <1>2, <1>11, <1>12, GoesTyped
<1> QED
  BY <1>1, <1>2, <1>7, <1>11, <1>13, FaultsTyped, SenderTyped DEF bounds

\* The sender knows the sid of what Twilio has accepted, or does not.
Created(s, x) ==
    /\ Goes(s, x) /\ x.pc = "save"
    /\ \/ x.sid = sender[s].sid
       \/ /\ x.sid \in DOMAIN twilio' /\ twilio'[x.sid].body = BodySent(s)

LEMMA CreateMessageFacts ==
    ASSUME TypeInv, NEW s \in Senders, CreateMessage(s)
    PROVE  /\ Kept /\ TypeInv' /\ sender[s].pc = "create"
           /\ \E x : Created(s, x)
           /\ UNCHANGED <<messages, jobs, storeVars, incoming, resending>>
<1> DEFINE new == [body |-> BodySent(s), fate |-> "open"]
<1>1. /\ sender[s].pc = "create"
      /\ UNCHANGED <<messages, jobs, storeVars, incoming, resending, received>>
      /\ \/ /\ twilio' = Append(twilio, new)
            /\ \/ /\ sender' = [sender EXCEPT ![s].pc = "save", ![s].sid = Len(twilio')]
                  /\ UNCHANGED faults
               \/ faults < MaxFaults /\ faults' = faults + 1 /\ Goto(s, "save")
         \/ Goto(s, "save") /\ UNCHANGED <<twilio, faults>>
  BY DEF CreateMessage
<1>2. new \in Accepted /\ new.body = BodySent(s)
  BY <1>1, JobFacts DEF Accepted
<1> HIDE DEF new
<1>3. \/ UNCHANGED twilio
      \/ /\ twilio' \in Seq(Accepted) /\ Len(twilio) \in Nat
         /\ Len(twilio') = Len(twilio) + 1
         /\ DOMAIN twilio = 1..Len(twilio) /\ DOMAIN twilio' = 1..(Len(twilio) + 1)
         /\ \A sid \in DOMAIN twilio : twilio'[sid] = twilio[sid]
         /\ twilio'[Len(twilio) + 1] = new
  BY <1>1, <1>2, Appended DEF TypeInv, TwilioTyped
<1>4. TwilioKept
  BY <1>3, TwilioUnchanged DEF TypeInv, TwilioKept, TwilioTyped
<1>5. MessagesKept /\ JobsKept /\ PendingKept
  BY <1>1, MessagesUnchanged, JobsUnchanged, PendingUnchanged DEF TypeInv, storeVars
<1>6. RowsKept
  BY <1>1, <1>4, RowsUnchanged DEF TypeInv, storeVars
<1>7. Kept
  BY <1>1, <1>4, <1>5, <1>6, LatestUnchanged DEF Kept, TypeInv, storeVars
<1>8. faults' \in 0..MaxFaults
  BY <1>1, MessageBoundsAssumption DEF TypeInv, BoundsTyped
<1>9. sender[s] \in Sender
  BY SenderFacts
<1>10. sender[s].sid # NoSid => sender[s].sid \in DOMAIN twilio'
  BY <1>1, <1>4 DEF TypeInv, SendersTyped, TwilioKept
<1>11. CASE Goto(s, "save")
  <2> DEFINE x == [sender[s] EXCEPT !.pc = "save"]
  <2>1. /\ x \in Sender /\ x.pc = "save" /\ x.sid = sender[s].sid
        /\ x.job = sender[s].job
    BY <1>9 DEF Sender, SenderPc
  <2>2. sender' = [sender EXCEPT ![s] = x]
    BY <1>11 DEF Goto
  <2> HIDE DEF x
  <2>3. Goes(s, x) /\ SendersTyped'
    BY <1>1, <1>7, <1>10, <2>1, <2>2, GoesTyped
  <2> QED
    BY <1>1, <1>7, <1>8, <2>1, <2>3, SenderTyped DEF Created
<1>12. CASE /\ twilio' = Append(twilio, new)
            /\ sender' = [sender EXCEPT ![s].pc = "save", ![s].sid = Len(twilio')]
  <2>1. /\ Len(twilio) \in Nat /\ Len(twilio') = Len(twilio) + 1
        /\ DOMAIN twilio' = 1..(Len(twilio) + 1)
        /\ twilio'[Len(twilio) + 1] = new
    BY <1>2, <1>12, Appended DEF TypeInv, TwilioTyped
  <2> DEFINE sid == Len(twilio')
             mid == [sender[s] EXCEPT !.pc = "save"]
             x == [mid EXCEPT !.sid = sid]
  <2>2. sid \in DOMAIN twilio' /\ sid \in Nat /\ twilio'[sid] = new
    BY <2>1
  <2>3. mid \in Sender /\ mid.pc = "save" /\ mid.job = sender[s].job
    BY <1>9 DEF Sender, SenderPc
  <2>4. sender' = [sender EXCEPT ![s] = x]
    BY <1>12
  <2> HIDE DEF mid, sid
  <2>5. x \in Sender /\ x.pc = "save" /\ x.sid = sid /\ x.job = sender[s].job
    BY <2>2, <2>3 DEF Sender
  <2> HIDE DEF x
  <2>6. Goes(s, x) /\ SendersTyped'
    BY <1>1, <1>7, <2>2, <2>4, <2>5, GoesTyped
  <2> QED
    BY <1>1, <1>2, <1>7, <1>8, <2>2, <2>5, <2>6, SenderTyped DEF Created
<1> QED
  BY <1>1, <1>11, <1>12

\* The row of the message that was to be sent again has failed.
FailureStored(s, x) ==
    LET existing == JobOf(s).existingMessageSid
    IN  /\ Goes(s, x) /\ x.pc = "throw" /\ x.sid = NoSid
        /\ existing # NoSid
        /\ DOMAIN twilioMessages' = DOMAIN twilioMessages
        /\ \A i \in DOMAIN twilioMessages :
             /\ twilioMessages'[i].body = twilioMessages[i].body
             /\ twilioMessages[i].sid # existing =>
                  twilioMessages'[i] = twilioMessages[i]
             /\ twilioMessages[i].sid = existing =>
                  twilioMessages'[i].status = "failed" /\ twilioMessages'[i].sid = NoSid

NewRow == Len(twilioMessages) + 1

RowAdded(s, x) ==
    /\ Goes(s, x) /\ x.pc = "latest" /\ x.sid = sender[s].sid /\ x.row = NewRow
    /\ NewRow \notin DOMAIN twilioMessages
    /\ DOMAIN twilioMessages' = DOMAIN twilioMessages \cup {NewRow}
    /\ \A i \in DOMAIN twilioMessages : twilioMessages'[i] = twilioMessages[i]
    /\ twilioMessages'[NewRow].body = BodySent(s)
    /\ twilioMessages'[NewRow].registration = JobOf(s).registration
    /\ twilioMessages'[NewRow].sid = sender[s].sid
    /\ twilioMessages'[NewRow].status # "read"

LEMMA StoreSendMessageFacts ==
    ASSUME TypeInv, NEW s \in Senders, StoreSendMessage(s)
    PROVE  /\ Kept /\ TypeInv' /\ sender[s].pc = "save"
           /\ \E x : FailureStored(s, x) \/ RowAdded(s, x)
           /\ UNCHANGED <<messages, jobs, pendingMessages, latestMessages, twilio,
                          incoming, resending>>
<1> DEFINE existing == JobOf(s).existingMessageSid
           new == [registration |-> JobOf(s).registration, body |-> BodySent(s),
                   processType |-> JobOf(s).processType, sid |-> sender[s].sid,
                   status |-> IF sender[s].sid = NoSid THEN "failed" ELSE "sent",
                   retryCount |-> 0]
<1>1. /\ sender[s].pc = "save"
      /\ UNCHANGED <<jobs, pendingMessages, latestMessages, twilio, messages,
                     incoming, resending, bounds>>
      /\ \/ /\ sender[s].sid = NoSid /\ existing # NoSid
            /\ twilioMessages' = [i \in DOMAIN twilioMessages |->
                 IF twilioMessages[i].sid = existing
                 THEN [twilioMessages[i] EXCEPT !.status = "failed", !.sid = NoSid]
                 ELSE twilioMessages[i]]
            /\ sender' = [sender EXCEPT ![s].pc = "throw"]
         \/ /\ twilioMessages' = Append(twilioMessages, new)
            /\ sender' = [sender EXCEPT ![s].pc = "latest",
                                        ![s].row = Len(twilioMessages')]
  BY DEF StoreSendMessage, unchangedBySender, Goto
<1>2. sender[s] \in Sender /\ sender[s].pc = "save"
  BY <1>1, SenderFacts
<1>3. sender[s].sid # NoSid => sender[s].sid \in DOMAIN twilio'
  BY <1>1 DEF TypeInv, SendersTyped
<1>4. TwilioKept
  BY <1>1, TwilioUnchanged DEF TypeInv
<1>5. CASE /\ sender[s].sid = NoSid /\ existing # NoSid
           /\ twilioMessages' = [i \in DOMAIN twilioMessages |->
                IF twilioMessages[i].sid = existing
                THEN [twilioMessages[i] EXCEPT !.status = "failed", !.sid = NoSid]
                ELSE twilioMessages[i]]
           /\ sender' = [sender EXCEPT ![s].pc = "throw"]
  <2> DEFINE x == [sender[s] EXCEPT !.pc = "throw"]
  <2> HIDE DEF existing
  <2>1. ASSUME NEW i \in DOMAIN twilioMessages
        PROVE  /\ twilioMessages'[i] \in TwilioMessage
               /\ twilioMessages'[i].registration = twilioMessages[i].registration
               /\ twilioMessages'[i].body = twilioMessages[i].body
               /\ twilioMessages'[i].sid \in {twilioMessages[i].sid, NoSid}
               /\ twilioMessages[i].sid # existing =>
                    twilioMessages'[i] = twilioMessages[i]
               /\ twilioMessages[i].sid = existing =>
                    twilioMessages'[i].status = "failed" /\ twilioMessages'[i].sid = NoSid
    <3> DEFINE mid == [twilioMessages[i] EXCEPT !.status = "failed"]
    <3>1. twilioMessages[i] \in TwilioMessage
      BY RowFacts
    <3>2. /\ mid \in TwilioMessage /\ mid.status = "failed"
          /\ mid.registration = twilioMessages[i].registration
          /\ mid.body = twilioMessages[i].body
      BY <3>1 DEF TwilioMessage, TwilioStatus
    <3>3. twilioMessages'[i] = IF twilioMessages[i].sid = existing
                               THEN [mid EXCEPT !.sid = NoSid]
                               ELSE twilioMessages[i]
      BY <1>5 DEF existing
    <3>4. NoSid \in Nat
      BY DEF NoSid
    <3> HIDE DEF mid
    <3> QED
      BY <3>1, <3>2, <3>3, <3>4 DEF TwilioMessage
  <2>2. twilioMessages' = [i \in DOMAIN twilioMessages |-> twilioMessages'[i]]
    BY <1>5
  <2>3. RowsKept /\ DOMAIN twilioMessages' = DOMAIN twilioMessages
    BY <1>4, <2>1, <2>2, RowsMapped
  <2>4. Kept
    BY <1>1, <2>3, OnlyRowsStored
  <2>5. /\ x \in Sender /\ x.pc = "throw" /\ x.sid = sender[s].sid
        /\ x.job = sender[s].job
    BY <1>2 DEF Sender, SenderPc
  <2>6. sender' = [sender EXCEPT ![s] = x]
    BY <1>5
  <2> HIDE DEF x
  <2>7. Goes(s, x) /\ SendersTyped'
    BY <1>1, <1>3, <2>4, <2>5, <2>6, GoesTyped
  <2>8. FailureStored(s, x)
    BY <1>5, <2>1, <2>3, <2>5, <2>7 DEF FailureStored, existing
  <2> QED
    BY <1>1, <2>4, <2>7, <2>8, FaultsTyped, SenderTyped DEF bounds
<1>6. CASE /\ twilioMessages' = Append(twilioMessages, new)
           /\ sender' = [sender EXCEPT ![s].pc = "latest", ![s].row = Len(twilioMessages')]
  <2> DEFINE mid == [sender[s] EXCEPT !.pc = "latest"]
             row == Len(twilioMessages')
             x == [mid EXCEPT !.row = row]
  <2>1. sender[s].sid \in Nat
    BY <1>2 DEF Sender
  <2>2. /\ new \in TwilioMessage /\ new.body = BodySent(s)
        /\ new.registration = JobOf(s).registration
        /\ new.sid = sender[s].sid /\ new.status # "read"
    <3> DEFINE r == JobOf(s).registration
               b == BodySent(s)
               type == JobOf(s).processType
               sid == sender[s].sid
               status == IF sid = NoSid THEN "failed" ELSE "sent"
    <3>1. /\ r \in Registrations /\ b \in Body \cup {NoBody} /\ type \in ProcessType
          /\ sid \in Nat
      BY <1>1, <2>1, JobFacts
    <3>2. status \in TwilioStatus /\ status # "read"
      BY DEF TwilioStatus
    <3> HIDE DEF r, b, type, sid, status
    <3>3. [registration |-> r, body |-> b, processType |-> type, sid |-> sid,
           status |-> status, retryCount |-> 0] \in TwilioMessage
      BY <3>1, <3>2, MessageBoundsAssumption DEF TwilioMessage
    <3> QED
      BY <3>2, <3>3 DEF r, b, type, sid, status
  <2> HIDE DEF new
  <2>3. /\ twilioMessages' \in Seq(TwilioMessage) /\ Len(twilioMessages) \in Nat
        /\ Len(twilioMessages') = NewRow
        /\ DOMAIN twilioMessages = 1..Len(twilioMessages)
        /\ DOMAIN twilioMessages' = 1..(Len(twilioMessages) + 1)
        /\ \A i \in DOMAIN twilioMessages : twilioMessages'[i] = twilioMessages[i]
        /\ twilioMessages'[NewRow] = new
    BY <1>6, <2>2, Appended DEF TypeInv, RowsTyped, NewRow
  <2>4. /\ NewRow \notin DOMAIN twilioMessages
        /\ DOMAIN twilioMessages' = DOMAIN twilioMessages \cup {NewRow}
    BY <2>3 DEF NewRow
  <2>5. new.sid \in 0..Len(twilio')
    <3>1. twilio' \in Seq(Accepted)
      BY <1>4 DEF TwilioKept, TwilioTyped
    <3> QED
      BY <1>3, <2>2, <3>1 DEF NoSid
  <2>6. RowsTyped'
    BY <1>1, <2>3, <2>4, <2>5 DEF RowsTyped, TypeInv
  <2>7. RowsKept
    BY <2>3, <2>4, <2>6 DEF RowsKept
  <2>8. Kept
    BY <1>1, <2>7, OnlyRowsStored
  <2>9. mid \in Sender /\ mid.pc = "latest" /\ mid.job = sender[s].job
        /\ mid.sid = sender[s].sid
    BY <1>2 DEF Sender, SenderPc
  <2>10. sender' = [sender EXCEPT ![s] = x]
    BY <1>6
  <2>11. row \in Nat /\ row = NewRow
    BY <2>3 DEF NewRow
  <2> HIDE DEF mid, row
  <2>12. /\ x \in Sender /\ x.pc = "latest" /\ x.job = sender[s].job
         /\ x.sid = sender[s].sid /\ x.row = NewRow
    BY <2>9, <2>11 DEF Sender
  <2> HIDE DEF x
  <2>13. Goes(s, x) /\ SendersTyped'
    BY <1>1, <1>3, <2>4, <2>8, <2>10, <2>12, GoesTyped
  <2>14. RowAdded(s, x)
    BY <2>2, <2>3, <2>4, <2>12, <2>13 DEF RowAdded
  <2> QED
    BY <1>1, <2>8, <2>13, <2>14, FaultsTyped, SenderTyped DEF bounds
<1> QED
  BY <1>1, <1>5, <1>6

LEMMA AfterStoringType ==
    ASSUME NEW s \in Senders
    PROVE  /\ AfterStoring(s) \in {"throw", "sent", "complete"}
           /\ AfterStoring(s) # "throw" => sender[s].sid # NoSid
           /\ AfterStoring(s) = "sent" => JobOf(s).processType = "whatsappPendingMessage"
BY DEF AfterStoring

\* A step that only moves the sender, and the latest message of a registration.
LEMMA OnlyLatestStored ==
    ASSUME TypeInv, LatestKept,
           UNCHANGED <<messages, jobs, pendingMessages, twilioMessages, twilio>>
    PROVE  Kept
<1>1. /\ MessagesKept /\ JobsKept /\ PendingKept /\ TwilioKept
  BY MessagesUnchanged, JobsUnchanged, PendingUnchanged, TwilioUnchanged DEF TypeInv
<1>2. RowsKept
  BY <1>1, RowsUnchanged DEF TypeInv
<1> QED
  BY <1>1, <1>2 DEF Kept

\* The row of the sender becomes the latest message, and the sender has only to
\* end its job, or to delete its pending message first.
LatestStored(s, x) ==
    /\ Goes(s, x) /\ x.pc = AfterStoring(s) /\ x.sid = sender[s].sid
    /\ latestMessages'[JobOf(s).registration] = sender[s].row
    /\ \A r \in Registrations \ {JobOf(s).registration} :
         latestMessages'[r] = latestMessages[r]

LEMMA StoreLatest ==
    ASSUME TypeInv, NEW s \in Senders, sender[s].pc \in {"latest", "insert"},
           latestMessages' = [latestMessages EXCEPT
             ![JobOf(s).registration] = sender[s].row],
           Goto(s, AfterStoring(s)),
           UNCHANGED <<messages, jobs, pendingMessages, twilioMessages, twilio>>
    PROVE  Kept /\ SendersTyped' /\ \E x : LatestStored(s, x)
<1> DEFINE x == [sender[s] EXCEPT !.pc = AfterStoring(s)]
           r == JobOf(s).registration
<1>1. /\ sender[s] \in Sender /\ sender[s].pc # "idle" /\ r \in Registrations
  BY SenderFacts, JobFacts
<1>2. sender[s].row \in DOMAIN twilioMessages
  BY DEF TypeInv, SendersTyped
<1>3. /\ sender[s].row \in 0..Len(twilioMessages) /\ sender[s].row # NoMessage
  BY <1>2 DEF TypeInv, RowsTyped, NoMessage
<1>4. /\ latestMessages' \in [Registrations -> 0..Len(twilioMessages)]
      /\ latestMessages'[r] = sender[s].row
      /\ \A q \in Registrations \ {r} : latestMessages'[q] = latestMessages[q]
  BY <1>1, <1>3 DEF TypeInv, LatestTyped
<1>5. LatestKept
  BY <1>3, <1>4 DEF LatestKept, LatestTyped
<1>6. Kept
  BY <1>5, OnlyLatestStored
<1>7. AfterStoring(s) \in SenderPc /\ AfterStoring(s) \in {"throw", "sent", "complete"}
  BY AfterStoringType DEF SenderPc
<1>8. /\ x \in Sender /\ x.pc = AfterStoring(s) /\ x.sid = sender[s].sid
      /\ x.job = sender[s].job
  BY <1>1, <1>7 DEF Sender
<1>9. sender' = [sender EXCEPT ![s] = x]
  BY DEF Goto
<1>10. x.sid # NoSid => x.sid \in DOMAIN twilio'
  BY <1>1, <1>8 DEF TypeInv, SendersTyped
<1> HIDE DEF x
<1>11. Goes(s, x) /\ SendersTyped'
  BY <1>1, <1>6, <1>7, <1>8, <1>9, <1>10, GoesTyped
<1> QED
  BY <1>4, <1>6, <1>8, <1>11 DEF LatestStored

LEMMA UpdateLatestMessageFacts ==
    ASSUME TypeInv, NEW s \in Senders, UpdateLatestMessage(s)
    PROVE  /\ Kept /\ TypeInv' /\ sender[s].pc = "latest"
           /\ \/ \E x : LatestStored(s, x)
              \/ /\ \E x : /\ Goes(s, x) /\ x.pc = "insert"
                           /\ x.sid = sender[s].sid /\ x.row = sender[s].row
                 /\ UNCHANGED latestMessages
           /\ UNCHANGED <<messages, jobs, pendingMessages, twilioMessages, twilio,
                          incoming, resending>>
<1>1. /\ sender[s].pc = "latest"
      /\ UNCHANGED <<jobs, pendingMessages, twilioMessages, twilio, messages,
                     incoming, resending, bounds>>
      /\ \/ /\ latestMessages' = [latestMessages EXCEPT
                 ![JobOf(s).registration] = sender[s].row]
            /\ Goto(s, AfterStoring(s))
         \/ Goto(s, "insert") /\ UNCHANGED latestMessages
  BY DEF UpdateLatestMessage, UpdateLatestMessageOr, unchangedBySender
<1>2. CASE /\ latestMessages' = [latestMessages EXCEPT
                ![JobOf(s).registration] = sender[s].row]
           /\ Goto(s, AfterStoring(s))
  <2>1. Kept /\ SendersTyped' /\ \E x : LatestStored(s, x)
    BY <1>1, <1>2, StoreLatest
  <2> QED
    BY <1>1, <2>1, FaultsTyped, SenderTyped DEF bounds
<1>3. CASE Goto(s, "insert") /\ UNCHANGED latestMessages
  <2> DEFINE x == [sender[s] EXCEPT !.pc = "insert"]
  <2>1. Kept
    <3>1. RowsKept
      BY <1>1, RowsUnchanged, TwilioUnchanged DEF TypeInv
    <3> QED
      BY <1>1, <1>3, <3>1, LatestUnchanged, OnlyLatestStored DEF TypeInv
  <2>2. /\ x \in Sender /\ x.pc = "insert" /\ x.sid = sender[s].sid
        /\ x.job = sender[s].job /\ x.row = sender[s].row
    BY SenderFacts DEF Sender, SenderPc
  <2>3. sender' = [sender EXCEPT ![s] = x]
    BY <1>3 DEF Goto
  <2>4. /\ x.sid # NoSid => x.sid \in DOMAIN twilio'
        /\ x.row \in DOMAIN twilioMessages'
    BY <1>1, <2>2 DEF TypeInv, SendersTyped
  <2> HIDE DEF x
  <2>5. Goes(s, x) /\ SendersTyped'
    BY <1>1, <2>1, <2>2, <2>3, <2>4, GoesTyped
  <2> QED
    BY <1>1, <1>3, <2>1, <2>2, <2>5, FaultsTyped, SenderTyped DEF bounds
<1> QED
  BY <1>1, <1>2, <1>3

\* The index is unique: the message is stored again, as a failed one.
InsertFailed(s, x) ==
    /\ Goes(s, x) /\ x.sid = NoSid
    /\ x.pc = IF sender[s].sid = NoSid THEN "throw" ELSE "save"
    /\ latestMessages[JobOf(s).registration] # NoMessage

LEMMA InsertLatestMessageFacts ==
    ASSUME TypeInv, NEW s \in Senders, InsertLatestMessage(s)
    PROVE  /\ Kept /\ TypeInv' /\ sender[s].pc = "insert"
           /\ \/ \E x : LatestStored(s, x)
              \/ (\E x : InsertFailed(s, x)) /\ UNCHANGED latestMessages
           /\ UNCHANGED <<messages, jobs, pendingMessages, twilioMessages, twilio,
                          incoming, resending>>
<1> DEFINE pc == IF sender[s].sid = NoSid THEN "throw" ELSE "save"
<1>1. /\ sender[s].pc = "insert"
      /\ UNCHANGED <<jobs, pendingMessages, twilioMessages, twilio, messages,
                     incoming, resending, bounds>>
      /\ \/ /\ latestMessages' = [latestMessages EXCEPT
                 ![JobOf(s).registration] = sender[s].row]
            /\ Goto(s, AfterStoring(s))
         \/ /\ latestMessages[JobOf(s).registration] # NoMessage
            /\ sender' = [sender EXCEPT ![s].sid = NoSid, ![s].pc = pc]
            /\ UNCHANGED latestMessages
  BY DEF InsertLatestMessage, unchangedBySender
<1>2. CASE /\ latestMessages' = [latestMessages EXCEPT
                ![JobOf(s).registration] = sender[s].row]
           /\ Goto(s, AfterStoring(s))
  <2>1. Kept /\ SendersTyped' /\ \E x : LatestStored(s, x)
    BY <1>1, <1>2, StoreLatest
  <2> QED
    BY <1>1, <2>1, FaultsTyped, SenderTyped DEF bounds
<1>3. CASE /\ latestMessages[JobOf(s).registration] # NoMessage
           /\ sender' = [sender EXCEPT ![s].sid = NoSid, ![s].pc = pc]
           /\ UNCHANGED latestMessages
  <2> DEFINE mid == [sender[s] EXCEPT !.sid = NoSid]
             x == [mid EXCEPT !.pc = pc]
  <2>1. Kept
    <3>1. RowsKept
      BY <1>1, RowsUnchanged, TwilioUnchanged DEF TypeInv
    <3> QED
      BY <1>1, <1>3, <3>1, LatestUnchanged, OnlyLatestStored DEF TypeInv
  <2>2. sender[s] \in Sender /\ NoSid \in Nat
    BY SenderFacts DEF NoSid
  <2>3. mid \in Sender /\ mid.sid = NoSid /\ mid.job = sender[s].job
    BY <2>2 DEF Sender
  <2>4. sender' = [sender EXCEPT ![s] = x]
    BY <1>3
  <2>5. pc \in SenderPc /\ pc \in {"throw", "save"}
    BY DEF SenderPc
  <2> HIDE DEF mid, pc
  <2>6. x \in Sender /\ x.pc = pc /\ x.sid = NoSid /\ x.job = sender[s].job
    BY <2>3, <2>5 DEF Sender
  <2> HIDE DEF x
  <2>7. Goes(s, x) /\ SendersTyped'
    BY <1>1, <2>1, <2>4, <2>5, <2>6, GoesTyped
  <2>8. InsertFailed(s, x)
    BY <1>3, <2>6, <2>7 DEF InsertFailed, pc
  <2> QED
    BY <1>1, <1>3, <2>1, <2>8, <2>7, FaultsTyped, SenderTyped DEF bounds
<1> QED
  BY <1>1, <1>2, <1>3

\* Only the pending message of the job is deleted.
PendingDeleted(s) ==
    /\ DOMAIN pendingMessages' = DOMAIN pendingMessages
    /\ \A p \in DOMAIN pendingMessages :
         /\ pendingMessages'[p].body = pendingMessages[p].body
         /\ p # JobOf(s).pendingMessageId => pendingMessages'[p] = pendingMessages[p]

LEMMA DeletedType ==
    ASSUME NEW message \in PendingMessage
    PROVE  /\ [message EXCEPT !.deleted = TRUE] \in PendingMessage
           /\ [message EXCEPT !.deleted = TRUE].body = message.body
<1>1. [message EXCEPT !.deleted = TRUE] \in PendingMessage
  BY Zenon DEF PendingMessage
<1>2. [message EXCEPT !.deleted = TRUE].body = message.body
  BY Zenon DEF PendingMessage
<1> QED
  BY <1>1, <1>2

LEMMA DeletePendingMessageFacts ==
    ASSUME TypeInv, NEW s \in Senders, DeletePendingMessage(s)
    PROVE  /\ Kept /\ TypeInv' /\ sender[s].pc = "sent" /\ PendingDeleted(s)
           /\ \E x : Goes(s, x) /\ x.pc = "complete" /\ x.sid = sender[s].sid
           /\ UNCHANGED <<messages, jobs, twilioMessages, latestMessages, twilio,
                          incoming, resending>>
<1> DEFINE x == [sender[s] EXCEPT !.pc = "complete"]
           pid == JobOf(s).pendingMessageId
<1>1. /\ sender[s].pc = "sent"
      /\ pendingMessages' = [p \in DOMAIN pendingMessages |->
           IF p = pid THEN [pendingMessages[p] EXCEPT !.deleted = TRUE]
           ELSE pendingMessages[p]]
      /\ sender' = [sender EXCEPT ![s] = x]
      /\ UNCHANGED <<jobs, twilioMessages, latestMessages, twilio, messages,
                     incoming, resending, bounds>>
  BY DEF DeletePendingMessage, DeletePendingMessageAt, Goto, unchangedBySender
<1> HIDE DEF pid
<1>2. pendingMessages \in Seq(PendingMessage)
  BY DEF TypeInv, PendingTyped
<1>3. ASSUME NEW p \in DOMAIN pendingMessages
      PROVE  /\ pendingMessages'[p] \in PendingMessage
             /\ pendingMessages'[p].body = pendingMessages[p].body
             /\ p # pid => pendingMessages'[p] = pendingMessages[p]
  <2> DEFINE old == pendingMessages[p]
             new == [old EXCEPT !.deleted = TRUE]
  <2>1. old \in PendingMessage
    BY <1>2
  <2>2. new \in PendingMessage /\ new.body = old.body
    <3> HIDE DEF old
    <3> QED
      BY <2>1, DeletedType
  <2>3. pendingMessages'[p] = IF p = pid THEN new ELSE old
    BY <1>1
  <2> HIDE DEF new
  <2> QED
    BY <2>1, <2>2, <2>3
<1>4. pendingMessages' = [p \in DOMAIN pendingMessages |-> pendingMessages'[p]]
  BY <1>1
<1>5. /\ pendingMessages' \in Seq(PendingMessage)
      /\ DOMAIN pendingMessages' = DOMAIN pendingMessages
  BY <1>2, <1>3, <1>4, Mapped
<1>6. PendingKept /\ PendingDeleted(s)
  BY <1>3, <1>5 DEF PendingKept, PendingTyped, PendingDeleted, pid
<1>7. MessagesKept /\ JobsKept /\ TwilioKept
  BY <1>1, MessagesUnchanged, JobsUnchanged, TwilioUnchanged DEF TypeInv
<1>8. RowsKept
  BY <1>1, <1>7, RowsUnchanged DEF TypeInv
<1>9. Kept
  BY <1>1, <1>6, <1>7, <1>8, LatestUnchanged DEF Kept, TypeInv
<1>10. /\ x \in Sender /\ x.pc = "complete" /\ x.sid = sender[s].sid
       /\ x.job = sender[s].job
  BY SenderFacts DEF Sender, SenderPc
<1>11. x.sid # NoSid => x.sid \in DOMAIN twilio'
  BY <1>1, <1>10 DEF TypeInv, SendersTyped
<1> HIDE DEF x
<1>12. Goes(s, x) /\ SendersTyped'
  BY <1>1, <1>9, <1>10, <1>11, GoesTyped
<1> QED
  BY <1>1, <1>6, <1>9, <1>10, <1>12, FaultsTyped, SenderTyped DEF bounds

LEMMA EndJobFacts ==
    ASSUME TypeInv, NEW s \in Senders, EndJob(s)
    PROVE  /\ Kept /\ TypeInv' /\ sender[s].pc \in {"complete", "throw"}
           /\ \E state : JobState(sender[s].job, state)
           /\ jobs'[sender[s].job].stalls = jobs[sender[s].job].stalls
           /\ sender'[s].pc = "idle"
           /\ \A t \in Senders \ {s} : sender'[t] = sender[t]
           /\ UNCHANGED <<messages, storeVars, twilio, incoming, resending>>
<1> DEFINE j == sender[s].job
           state == IF sender[s].pc = "complete" THEN "completed" ELSE "failed"
<1>1. /\ sender[s].pc \in {"complete", "throw"}
      /\ jobs' = [jobs EXCEPT ![j].state = state]
      /\ sender' = [sender EXCEPT ![s] = IdleSender]
      /\ UNCHANGED <<storeVars, twilio, messages, incoming, resending, bounds>>
  BY DEF EndJob, unchangedBySender
<1>2. j \in DOMAIN jobs /\ jobs[j].state = "active"
  BY <1>1 DEF TypeInv, SendersTyped
<1>3. ~(jobs[j].stalls > MaxStalls)
  BY <1>2 DEF TypeInv, JobsTyped
<1>4. state \in {"completed", "failed"}
  OBVIOUS
<1> HIDE DEF j, state
<1>5. JobsKept /\ JobState(j, state) /\ jobs'[j].stalls = jobs[j].stalls
  BY <1>1, <1>2, <1>3, <1>4, JobStateTyped
<1>6. Kept
  BY <1>1, <1>5, StoreUnchanged, MessagesUnchanged DEF Kept, TypeInv
<1>7. /\ sender' \in [Senders -> Sender] /\ sender'[s] = IdleSender
      /\ \A t \in Senders \ {s} : sender'[t] = sender[t]
  BY <1>1, IdleSenderType DEF TypeInv, SendersTyped
<1>8. \A t \in Senders \ {s} : sender[t].pc # "idle" => sender[t].job # j
  BY <1>1 DEF TypeInv, SendersTyped, j
<1>9. ASSUME NEW t \in Senders, sender'[t].pc # "idle"
      PROVE  t # s /\ sender'[t] = sender[t] /\ sender[t].pc # "idle" /\ sender[t].job # j
  BY <1>7, <1>8, <1>9, IdleSenderType
<1>10. SendersTyped'
  BY <1>5, <1>6, <1>7, <1>9
     DEF TypeInv, SendersTyped, JobState, Kept, RowsKept, TwilioKept
<1> QED
  BY <1>1, <1>5, <1>6, <1>7, <1>10, IdleSenderType, FaultsTyped, SenderTyped
     DEF bounds, j

-----------------------------------------------------------------------------
(* Crashes, and the jobs they interrupt.                                   *)

\* Nothing of a job changes but its state; one that is not done is still not
\* done, or given up.
JobsGoOn ==
    /\ DOMAIN jobs' = DOMAIN jobs
    /\ \A j \in DOMAIN jobs :
         /\ Unfinished(j) => Unfinished(j)' \/ jobs'[j].stalls > MaxStalls
         /\ jobs[j].stalls > MaxStalls => jobs'[j].stalls > MaxStalls

LEMMA CrashFacts ==
    ASSUME TypeInv, Crash
    PROVE  /\ Kept /\ TypeInv' /\ JobsGoOn
           /\ \A s \in Senders : sender'[s].pc = "idle"
           /\ \A h \in Handlers : resending'[h].pc = "idle"
           /\ UNCHANGED <<messages, storeVars, twilio>>
<1>1. /\ faults < MaxFaults /\ faults' = faults + 1
      /\ jobs' = [j \in DOMAIN jobs |->
           IF jobs[j].state = "active" THEN [jobs[j] EXCEPT !.state = "stalled"]
                                       ELSE jobs[j]]
      /\ sender' = [s \in Senders |-> IdleSender]
      /\ incoming' = [h \in Handlers |-> NotIncoming]
      /\ resending' = [h \in Handlers |-> NotResending]
      /\ UNCHANGED <<messages, storeVars, twilio, received>>
  BY DEF Crash
<1>2. jobs \in Seq(Job)
  BY DEF TypeInv, JobsTyped
<1>3. ASSUME NEW j \in DOMAIN jobs
      PROVE  /\ jobs'[j] \in Job /\ SameJob(jobs'[j], jobs[j])
             /\ jobs'[j].stalls = jobs[j].stalls
             /\ jobs'[j].state = IF jobs[j].state = "active" THEN "stalled"
                                 ELSE jobs[j].state
  <2>1. jobs[j] \in Job
    BY <1>2
  <2>2. jobs'[j] = IF jobs[j].state = "active" THEN [jobs[j] EXCEPT !.state = "stalled"]
                   ELSE jobs[j]
    BY <1>1
  <2> QED
    BY <2>1, <2>2 DEF Job, SameJob
<1>4. jobs' = [j \in DOMAIN jobs |-> jobs'[j]]
  BY <1>1
<1>5. jobs' \in Seq(Job) /\ DOMAIN jobs' = DOMAIN jobs
  BY <1>2, <1>3, <1>4, Mapped
<1>6. JobsTyped'
  BY <1>3, <1>5 DEF TypeInv, JobsTyped, SameJob
<1>7. JobsKept /\ JobsGoOn
  BY <1>3, <1>5, <1>6 DEF JobsKept, JobsGoOn, Unfinished
<1>8. Kept
  BY <1>1, <1>7, StoreUnchanged, MessagesUnchanged DEF Kept, TypeInv
<1>9. SendersTyped'
  BY <1>1, IdleSenderType DEF SendersTyped
<1>10. IncomingTyped' /\ ResendingTyped'
  BY <1>1, NotIncomingType, NotResendingType DEF IncomingTyped, ResendingTyped
<1>11. BoundsTyped'
  BY <1>1, MessageBoundsAssumption DEF TypeInv, BoundsTyped
<1> QED
  BY <1>1, <1>7, <1>8, <1>9, <1>10, <1>11, IdleSenderType, NotResendingType, TypedFrom

LEMMA RecoverStalledJobFacts ==
    ASSUME TypeInv, NEW j \in DOMAIN jobs, RecoverStalledJob(j)
    PROVE  /\ Kept /\ TypeInv' /\ JobsGoOn
           /\ UNCHANGED <<messages, storeVars, twilio, sender, incoming, resending>>
<1> DEFINE count == jobs[j].stalls + 1
           state == IF jobs[j].stalls < MaxStalls THEN "queued" ELSE "failed"
           mid == [jobs[j] EXCEPT !.stalls = count]
           new == [mid EXCEPT !.state = state]
<1>1. /\ jobs[j].state = "stalled" /\ jobs' = [jobs EXCEPT ![j] = new]
      /\ UNCHANGED <<messages, storeVars, twilio, sender, incoming, resending, bounds>>
  BY DEF RecoverStalledJob
<1>2. jobs \in Seq(Job) /\ jobs[j] \in Job
  <2>1. jobs \in Seq(Job)
    BY DEF TypeInv, JobsTyped
  <2> QED
    BY <2>1
<1>3. jobs[j].stalls \in 0..(MaxStalls + 1) /\ ~(jobs[j].stalls > MaxStalls)
  BY <1>1, <1>2 DEF TypeInv, JobsTyped, Job
<1>4. /\ count \in 0..(MaxStalls + 1)
      /\ \/ state = "queued" /\ ~(count > MaxStalls)
         \/ state = "failed" /\ count > MaxStalls
  <2>1. MaxStalls \in Nat
    BY MessageBoundsAssumption
  <2>2. CASE jobs[j].stalls < MaxStalls
    BY <1>3, <2>1, <2>2
  <2>3. CASE ~(jobs[j].stalls < MaxStalls)
    BY <1>3, <2>1, <2>3
  <2> QED
    BY <2>2, <2>3
<1> HIDE DEF count, state
<1>5. mid \in Job /\ mid.stalls = count /\ SameJob(mid, jobs[j])
  BY <1>2, <1>4 DEF Job, SameJob
<1> HIDE DEF mid
<1>6. /\ new \in Job /\ new.stalls = count /\ new.state = state
      /\ SameJob(new, jobs[j])
  BY <1>4, <1>5 DEF Job, SameJob
<1> HIDE DEF new
<1>7. /\ jobs' \in Seq(Job) /\ DOMAIN jobs' = DOMAIN jobs
      /\ jobs'[j] = new /\ \A i \in DOMAIN jobs \ {j} : jobs'[i] = jobs[i]
  BY <1>1, <1>2, <1>6, Updated
<1>8. JobsTyped'
  BY <1>4, <1>6, <1>7 DEF TypeInv, JobsTyped, SameJob
<1>9. JobsKept
  BY <1>6, <1>7, <1>8 DEF JobsKept, SameJob
<1>10. JobsGoOn
  BY <1>3, <1>4, <1>6, <1>7 DEF JobsGoOn, Unfinished
<1>11. Kept
  BY <1>1, <1>9, StoreUnchanged, MessagesUnchanged DEF Kept, TypeInv
<1>12. \A i \in DOMAIN jobs : jobs[i].state = "active" => jobs'[i].state = "active"
  BY <1>1, <1>7
<1>13. SendersTyped' /\ IncomingTyped' /\ ResendingTyped' /\ BoundsTyped'
  BY <1>1, <1>11, <1>12, SendersUnchanged, IncomingUnchanged, ResendingUnchanged
     DEF TypeInv, Kept, bounds, BoundsTyped
<1> QED
  BY <1>1, <1>10, <1>11, <1>13, TypedFrom

-----------------------------------------------------------------------------
(* The kinds of steps.                                                     *)

Sends ==
    \E r \in Registrations :
        /\ Len(messages) + 1 \notin DOMAIN messages
        /\ DOMAIN messages' = DOMAIN messages \cup {Len(messages) + 1}
        /\ messages'[Len(messages) + 1] = r
        /\ JobAdded(IF r \in WithWhatsapp THEN "whatsappTemplateGeneric" ELSE "sms",
                    r, Len(messages) + 1, NoMessage, NoSid)
        /\ UNCHANGED <<storeVars, twilio, sender, resending>>

Receives ==
    /\ DefaultReplyAdded
    /\ UNCHANGED <<messages, storeVars, twilio, sender, resending>>

Answers ==
    /\ \E p \in DOMAIN pendingMessages : \E r \in Registrations :
         JobAdded("whatsappPendingMessage", r, pendingMessages[p].body, p, NoSid)
    /\ UNCHANGED <<messages, storeVars, twilio, sender, resending>>

\* Nothing but the fate of a message, or who is to be answered.
Waits == UNCHANGED <<messages, jobs, storeVars, sender, resending>>

Reports ==
    /\ \E sid \in DOMAIN twilio : \E status \in TwilioStatus : StatusUpdated(sid, status)
    /\ UNCHANGED <<messages, jobs, pendingMessages, latestMessages, twilio, sender,
                   resending>>

Finds ==
    /\ \E h \in Handlers :
         /\ Found(resending'[h].message)
         /\ \A g \in Handlers \ {h} : resending'[g] = resending[g]
    /\ UNCHANGED <<messages, jobs, storeVars, twilio, sender>>

Counts ==
    /\ \E h \in Handlers :
         /\ resending[h].pc = "update" /\ resending'[h].message = resending[h].message
         /\ \A g \in Handlers \ {h} : resending'[g] = resending[g]
    /\ DOMAIN twilioMessages' = DOMAIN twilioMessages
    /\ \A i \in DOMAIN twilioMessages :
         /\ twilioMessages'[i].sid = twilioMessages[i].sid
         /\ twilioMessages'[i].body = twilioMessages[i].body
         /\ twilioMessages'[i].status = twilioMessages[i].status
    /\ UNCHANGED <<messages, jobs, pendingMessages, latestMessages, twilio, sender>>

Resends ==
    /\ \E h \in Handlers :
         /\ resending[h].pc = "wait" /\ resending'[h].pc = "idle"
         /\ \A g \in Handlers \ {h} : resending'[g] = resending[g]
         /\ LET message == resending[h].message
            IN  JobAdded(message.processType, message.registration, message.body,
                         resending[h].id, message.sid)
    /\ UNCHANGED <<messages, storeVars, twilio, sender>>

Takings(s) ==
    /\ \E j \in DOMAIN jobs : Takes(s, j)
    /\ UNCHANGED <<messages, storeVars, twilio, resending>>

Pends(s) ==
    /\ PendingAdded(s)
    /\ \E x : /\ Goes(s, x) /\ x.pc = "create" /\ x.sid = sender[s].sid
    /\ UNCHANGED <<messages, jobs, twilioMessages, latestMessages, twilio, resending>>

Creates(s) ==
    /\ sender[s].pc = "create"
    /\ \E x : Created(s, x)
    /\ UNCHANGED <<messages, jobs, storeVars, resending>>

Stores(s) ==
    /\ sender[s].pc = "save"
    /\ \E x : FailureStored(s, x) \/ RowAdded(s, x)
    /\ UNCHANGED <<messages, jobs, pendingMessages, latestMessages, twilio, resending>>

\* The latest message is there, is to be inserted, or was inserted by another.
Links(s) ==
    /\ sender[s].pc \in {"latest", "insert"}
    /\ \/ \E x : LatestStored(s, x)
       \/ /\ \E x : /\ Goes(s, x) /\ x.pc = "insert"
                    /\ x.sid = sender[s].sid /\ x.row = sender[s].row
          /\ UNCHANGED latestMessages
       \/ (\E x : InsertFailed(s, x)) /\ UNCHANGED latestMessages
    /\ UNCHANGED <<messages, jobs, pendingMessages, twilioMessages, twilio, resending>>

Deletes(s) ==
    /\ sender[s].pc = "sent" /\ PendingDeleted(s)
    /\ \E x : Goes(s, x) /\ x.pc = "complete" /\ x.sid = sender[s].sid
    /\ UNCHANGED <<messages, jobs, twilioMessages, latestMessages, twilio, resending>>

Ends(s) ==
    /\ sender[s].pc \in {"complete", "throw"}
    /\ \E state : JobState(sender[s].job, state)
    /\ jobs'[sender[s].job].stalls = jobs[sender[s].job].stalls
    /\ sender'[s].pc = "idle"
    /\ \A t \in Senders \ {s} : sender'[t] = sender[t]
    /\ UNCHANGED <<messages, storeVars, twilio, resending>>

Interrupted ==
    /\ JobsGoOn
    /\ \/ UNCHANGED <<sender, resending>>
       \/ /\ \A s \in Senders : sender'[s].pc = "idle"
          /\ \A h \in Handlers : resending'[h].pc = "idle"
    /\ UNCHANGED <<messages, storeVars, twilio>>

Step ==
    \/ Sends \/ Receives \/ Answers \/ Waits \/ Reports \/ Finds \/ Counts \/ Resends
    \/ \E s \in Senders :
         \/ Takings(s) \/ Pends(s) \/ Creates(s) \/ Stores(s) \/ Links(s)
         \/ Deletes(s) \/ Ends(s)
    \/ Interrupted

\* A row of Twilio's message that is to be sent again.
Faulty(sid, body, r) ==
    /\ sid \in DOMAIN twilio /\ twilio[sid].fate = "faulty" /\ twilio[sid].body = body
    /\ \E i \in DOMAIN twilioMessages : twilioMessages[i].registration = r

ToResend(message) ==
    /\ Faulty(message.sid, message.body, message.registration)
    /\ message.processType # "sms" /\ message.processType # "whatsappTemplateGeneric"

ResendInv == \A h \in Handlers : resending[h].pc # "idle" => ToResend(resending[h].message)

LEMMA NextIsStep ==
    ASSUME TypeInv, ResendInv, [Next]_vars
    PROVE  Kept /\ TypeInv' /\ Step
<1>1. CASE UNCHANGED vars
  <2>1. UNCHANGED <<messages, jobs, storeVars, twilio, sender, incoming, resending, bounds>>
    BY <1>1 DEF vars
  <2>2. Kept /\ SendersTyped'
    BY <2>1, NothingStored, JobsUnchanged DEF TypeInv
  <2>3. TypeInv'
    BY <2>1, <2>2, FaultsTyped, SenderTyped DEF bounds
  <2> QED
    BY <2>1, <2>2, <2>3 DEF Step, Waits
<1>2. CASE \E r \in Registrations : SendMessage(r)
  BY <1>2, SendMessageFacts DEF Step, Sends
<1>3. ASSUME NEW s \in Senders, SenderStep(s) PROVE Kept /\ TypeInv' /\ Step
  <2>1. CASE \E j \in DOMAIN jobs : TakeJob(s, j)
    BY <2>1, TakeJobFacts DEF Step, Takings
  <2>2. CASE StorePendingMessage(s)
    BY <2>2, StorePendingMessageFacts DEF Step, Pends
  <2>3. CASE CreateMessage(s)
    BY <2>3, CreateMessageFacts DEF Step, Creates
  <2>4. CASE StoreSendMessage(s)
    BY <2>4, StoreSendMessageFacts DEF Step, Stores
  <2>5. CASE UpdateLatestMessage(s)
    BY <2>5, UpdateLatestMessageFacts DEF Step, Links
  <2>6. CASE InsertLatestMessage(s)
    BY <2>6, InsertLatestMessageFacts DEF Step, Links
  <2>7. CASE DeletePendingMessage(s)
    BY <2>7, DeletePendingMessageFacts DEF Step, Deletes
  <2>8. CASE EndJob(s)
    BY <2>8, EndJobFacts DEF Step, Ends
  <2> QED
    BY <1>3, <2>1, <2>2, <2>3, <2>4, <2>5, <2>6, <2>7, <2>8 DEF SenderStep
<1>4. ASSUME NEW h \in Handlers, HandlerStep(h) PROVE Kept /\ TypeInv' /\ Step
  <2>1. CASE \E r \in WithWhatsapp : ProcessIncomingWhatsapp(h, r)
    BY <2>1, ProcessIncomingWhatsappFacts DEF Step, Receives, Waits
  <2>2. CASE \E p \in incoming[h].todo : SendPendingWhatsappMessage(h, p)
    BY <2>2, SendPendingWhatsappMessageFacts DEF Step, Answers
  <2>3. CASE \E sid \in DOMAIN twilio : FindFaultyMessage(h, sid)
    BY <2>3, FindFaultyMessageFacts DEF Step, Finds
  <2>4. CASE UpdateRetryCount(h)
    BY <2>4, UpdateRetryCountFacts DEF Step, Counts
  <2>5. CASE HandleFaultyTemplateError(h)
    <3>1. resending[h].pc = "wait"
      BY <2>5 DEF HandleFaultyTemplateError
    <3>2. resending[h].message.processType # "whatsappTemplateGeneric"
      BY <3>1 DEF ResendInv, ToResend
    <3> QED
      BY <2>5, <3>2, HandleFaultyTemplateErrorFacts DEF Step, Resends
  <2> QED
    BY <1>4, <2>1, <2>2, <2>3, <2>4, <2>5 DEF HandlerStep
<1>5. CASE \E sid \in DOMAIN twilio : Deliver(sid)
  BY <1>5, DeliverFacts DEF Step, Waits
<1>6. CASE \E sid \in DOMAIN twilio : \E status \in TwilioStatus : UpdateStatus(sid, status)
  BY <1>6, UpdateStatusFacts DEF Step, Reports
<1>7. CASE Crash
  BY <1>7, CrashFacts DEF Step, Interrupted
<1>8. CASE \E j \in DOMAIN jobs : RecoverStalledJob(j)
  BY <1>8, RecoverStalledJobFacts DEF Step, Interrupted
<1> QED
  BY <1>1, <1>2, <1>3, <1>4, <1>5, <1>6, <1>7, <1>8 DEF Next

-----------------------------------------------------------------------------
(* Where a job comes from.                                                 *)

Origin(job) ==
    /\ job.processType \in {"sms", "whatsappTemplateGeneric"} =>
         /\ job.existingMessageSid = NoSid
         /\ job.body \in DOMAIN messages /\ messages[job.body] = job.registration
    /\ job.processType = "sms" => job.registration \notin WithWhatsapp
    /\ job.processType = "whatsappPendingMessage" /\ job.existingMessageSid = NoSid =>
         /\ job.pendingMessageId \in DOMAIN pendingMessages
         /\ pendingMessages[job.pendingMessageId].body = job.body
    /\ job.processType = "whatsappDefaultReply" /\ job.existingMessageSid = NoSid =>
         job.body = NoBody
    /\ job.existingMessageSid # NoSid =>
         Faulty(job.existingMessageSid, job.body, job.registration)

OriginInv == \A j \in DOMAIN jobs : Origin(jobs[j])

LEMMA FaultyKept ==
    ASSUME Kept, NEW sid, NEW body, NEW r, Faulty(sid, body, r)
    PROVE  Faulty(sid, body, r)'
BY DEF Faulty, Kept, TwilioKept, RowsKept

LEMMA OriginKept ==
    ASSUME Kept, NEW old, NEW new, SameJob(new, old), Origin(old)
    PROVE  Origin(new)'
BY FaultyKept DEF Origin, SameJob, Kept, MessagesKept, PendingKept

LEMMA OldOrigins ==
    ASSUME Kept, OriginInv, NEW j \in DOMAIN jobs, NEW job, job = jobs'[j]
    PROVE  Origin(job)'
<1>1. SameJob(job, jobs[j]) /\ Origin(jobs[j])
  BY DEF Kept, JobsKept, OriginInv
<1> QED
  BY <1>1, OriginKept

LEMMA OriginsOf ==
    ASSUME \A j \in DOMAIN jobs' : \A job : job = jobs'[j] => Origin(job)'
    PROVE  OriginInv'
BY DEF OriginInv, Origin, Faulty

LEMMA OriginsStay ==
    ASSUME Kept, OriginInv, DOMAIN jobs' = DOMAIN jobs
    PROVE  OriginInv'
BY OldOrigins, OriginsOf

\* The step adds a job, of which all is known.
LEMMA AddedOrigin ==
    ASSUME Kept, OriginInv, NEW type, NEW r, NEW body, NEW pid, NEW sid,
           JobAdded(type, r, body, pid, sid),
           \A job : /\ job.processType = type /\ job.registration = r /\ job.body = body
                    /\ job.pendingMessageId = pid /\ job.existingMessageSid = sid
                    => Origin(job)'
    PROVE  OriginInv'
<1>1. ASSUME NEW j \in DOMAIN jobs', NEW job, job = jobs'[j] PROVE Origin(job)'
  <2>1. CASE j \in DOMAIN jobs
    BY <1>1, <2>1, OldOrigins
  <2>2. CASE j = NewJob
    BY <1>1, <2>2 DEF JobAdded
  <2> QED
    BY <1>1, <2>1, <2>2 DEF JobAdded
<1> QED
  BY <1>1, OriginsOf

LEMMA OriginStep ==
    ASSUME TypeInv, Kept, OriginInv, ResendInv, Step
    PROVE  OriginInv'
<1>1. CASE Sends
  <2> DEFINE m == Len(messages) + 1
  <2>1. PICK r \in Registrations :
          /\ m \in DOMAIN messages' /\ messages'[m] = r
          /\ JobAdded(IF r \in WithWhatsapp THEN "whatsappTemplateGeneric" ELSE "sms",
                      r, m, NoMessage, NoSid)
    BY <1>1 DEF Sends
  <2> HIDE DEF m
  <2>2. ASSUME NEW job,
               job.processType = IF r \in WithWhatsapp THEN "whatsappTemplateGeneric"
                                 ELSE "sms",
               job.registration = r, job.body = m, job.existingMessageSid = NoSid
        PROVE  Origin(job)'
    BY <2>1, <2>2 DEF Origin
  <2> QED
    BY <2>1, <2>2, AddedOrigin
<1>2. CASE Receives
  <2>1. PICK r \in Registrations :
          JobAdded("whatsappDefaultReply", r, NoBody, NoMessage, NoSid)
    BY <1>2 DEF Receives, DefaultReplyAdded
  <2>2. ASSUME NEW job, job.processType = "whatsappDefaultReply", job.body = NoBody,
               job.existingMessageSid = NoSid
        PROVE  Origin(job)'
    BY <2>2 DEF Origin
  <2> QED
    BY <2>1, <2>2, AddedOrigin
<1>3. CASE Answers
  <2>1. PICK p \in DOMAIN pendingMessages, r \in Registrations :
          JobAdded("whatsappPendingMessage", r, pendingMessages[p].body, p, NoSid)
    BY <1>3 DEF Answers
  <2>2. ASSUME NEW job, job.processType = "whatsappPendingMessage",
               job.body = pendingMessages[p].body, job.pendingMessageId = p,
               job.existingMessageSid = NoSid
        PROVE  Origin(job)'
    BY <2>2 DEF Origin, Kept, PendingKept
  <2> QED
    BY <2>1, <2>2, AddedOrigin
<1>4. CASE Resends
  <2>1. PICK h \in Handlers :
          /\ resending[h].pc = "wait"
          /\ LET message == resending[h].message
             IN  JobAdded(message.processType, message.registration, message.body,
                          resending[h].id, message.sid)
    BY <1>4 DEF Resends
  <2> DEFINE message == resending[h].message
  <2>2. ToResend(message)
    BY <2>1 DEF ResendInv
  <2> HIDE DEF message
  <2>3. message.sid # NoSid
    BY <2>2 DEF ToResend, Faulty, TypeInv, TwilioTyped, NoSid
  <2>4. ASSUME NEW job, job.processType = message.processType,
               job.registration = message.registration, job.body = message.body,
               job.existingMessageSid = message.sid
        PROVE  Origin(job)'
    <3>1. Faulty(job.existingMessageSid, job.body, job.registration)
      BY <2>2, <2>4 DEF ToResend
    <3>2. Faulty(job.existingMessageSid, job.body, job.registration)'
      BY <3>1, FaultyKept
    <3> QED
      BY <2>2, <2>3, <2>4, <3>2 DEF Origin, ToResend
  <2> QED
    BY <2>1, <2>4, AddedOrigin DEF message
<1>5. CASE Waits \/ Reports \/ Finds \/ Counts
  BY <1>5, OriginsStay DEF Waits, Reports, Finds, Counts
<1>6. ASSUME NEW s \in Senders,
             \/ Takings(s) \/ Pends(s) \/ Creates(s) \/ Stores(s) \/ Links(s)
             \/ Deletes(s) \/ Ends(s)
      PROVE  OriginInv'
  <2>1. CASE Takings(s) \/ Ends(s)
    BY <2>1, OriginsStay DEF Takings, Takes, Ends, JobState
  <2>2. CASE Pends(s) \/ Creates(s) \/ Stores(s) \/ Links(s) \/ Deletes(s)
    BY <2>2, OriginsStay DEF Pends, Creates, Stores, Links, Deletes
  <2> QED
    BY <1>6, <2>1, <2>2
<1>7. CASE Interrupted
  BY <1>7, OriginsStay DEF Interrupted, JobsGoOn
<1> QED
  BY <1>1, <1>2, <1>3, <1>4, <1>5, <1>6, <1>7 DEF Step

-----------------------------------------------------------------------------
(* What is sent again, and what a row says.                                *)

\* A row with a sid has the text that Twilio knows; only what was read says so.
RowOk(row) ==
    /\ row.sid # NoSid => row.sid \in DOMAIN twilio /\ twilio[row.sid].body = row.body
    /\ row.status = "read" => row.sid # NoSid /\ twilio[row.sid].fate = "read"

RowInv == \A i \in DOMAIN twilioMessages : RowOk(twilioMessages[i])

LEMMA ToResendKept ==
    ASSUME Kept, NEW message, ToResend(message)
    PROVE  ToResend(message)'
BY FaultyKept DEF ToResend

LEMMA ToResendOf ==
    ASSUME \A h \in Handlers : resending'[h].pc # "idle" =>
             \A message : message = resending'[h].message => ToResend(message)'
    PROVE  ResendInv'
BY DEF ResendInv, ToResend, Faulty

\* A handler that goes on, or stays, has the message it had.
LEMMA ResendsStay ==
    ASSUME Kept, ResendInv,
           \A h \in Handlers : resending'[h].pc # "idle" =>
             resending[h].pc # "idle" /\ resending'[h].message = resending[h].message
    PROVE  ResendInv'
BY ToResendKept, ToResendOf DEF ResendInv

LEMMA FoundIsFaulty ==
    ASSUME TypeInv, RowInv, NEW message, Found(message)
    PROVE  ToResend(message)
<1>1. PICK i \in DOMAIN twilioMessages :
        /\ message = twilioMessages[i] /\ message.sid \in DOMAIN twilio
        /\ twilio[message.sid].fate = "faulty"
        /\ message.processType # "sms"
        /\ message.processType # "whatsappTemplateGeneric"
  BY DEF Found
<1>2. message.sid # NoSid
  BY <1>1 DEF TypeInv, TwilioTyped, NoSid
<1> QED
  BY <1>1, <1>2 DEF RowInv, RowOk, ToResend, Faulty

LEMMA ResendStep ==
    ASSUME TypeInv, Kept, RowInv, ResendInv, Step
    PROVE  ResendInv'
<1>1. CASE Finds
  <2>1. PICK h \in Handlers :
          /\ Found(resending'[h].message)
          /\ \A g \in Handlers \ {h} : resending'[g] = resending[g]
    BY <1>1 DEF Finds
  <2>2. ASSUME NEW g \in Handlers, resending'[g].pc # "idle",
               NEW message, message = resending'[g].message
        PROVE  ToResend(message)'
    <3>1. ToResend(message)
      <4>1. CASE g = h
        <5>1. Found(message)
          BY <2>1, <2>2, <4>1
        <5> QED
          BY <5>1, FoundIsFaulty
      <4>2. CASE g # h
        BY <2>1, <2>2, <4>2 DEF ResendInv
      <4> QED
        BY <4>1, <4>2
    <3> QED
      BY <3>1, ToResendKept
  <2> QED
    BY <2>2, ToResendOf
<1>2. CASE Counts
  <2>1. \A g \in Handlers : resending'[g].pc # "idle" =>
          resending[g].pc # "idle" /\ resending'[g].message = resending[g].message
    BY <1>2 DEF Counts
  <2> QED
    BY <2>1, ResendsStay
<1>3. CASE Resends
  <2>1. \A g \in Handlers : resending'[g].pc # "idle" =>
          resending[g].pc # "idle" /\ resending'[g].message = resending[g].message
    BY <1>3 DEF Resends
  <2> QED
    BY <2>1, ResendsStay
<1>4. CASE Interrupted
  BY <1>4, ResendsStay DEF Interrupted
<1>5. CASE UNCHANGED resending
  BY <1>5, ResendsStay
<1>6. UNCHANGED resending \/ Finds \/ Counts \/ Resends \/ Interrupted
  BY DEF Step, Sends, Receives, Answers, Waits, Reports, Takings, Pends, Creates,
         Stores, Links, Deletes, Ends
<1> QED
  BY <1>1, <1>2, <1>3, <1>4, <1>5, <1>6

LEMMA RowKept ==
    ASSUME Kept, NEW row, RowOk(row)
    PROVE  RowOk(row)'
BY DEF RowOk, Kept, TwilioKept

LEMMA RowsOf ==
    ASSUME \A i \in DOMAIN twilioMessages' : \A row : row = twilioMessages'[i] => RowOk(row)'
    PROVE  RowInv'
BY DEF RowInv, RowOk

LEMMA RowStep ==
    ASSUME TypeInv, Kept, RowInv, SendersTyped', Step,
           \A s \in Senders : sender[s].pc # "idle" /\ sender[s].sid # NoSid =>
             /\ sender[s].sid \in DOMAIN twilio
             /\ twilio[sender[s].sid].body = BodySent(s)
    PROVE  RowInv'
<1>1. CASE UNCHANGED twilioMessages
  BY <1>1, RowKept, RowsOf DEF RowInv
<1>2. CASE Reports
  <2>1. PICK sid \in DOMAIN twilio, status \in TwilioStatus : StatusUpdated(sid, status)
    BY <1>2 DEF Reports
  <2>2. UNCHANGED twilio
    BY <1>2 DEF Reports
  <2>3. sid # NoSid
    BY DEF TypeInv, TwilioTyped, NoSid
  <2>4. status = "read" => twilio[sid].fate = "read"
    BY <2>1 DEF StatusUpdated, Reported
  <2>5. ASSUME NEW i \in DOMAIN twilioMessages', NEW row, row = twilioMessages'[i]
        PROVE  RowOk(row)'
    <3>1. /\ i \in DOMAIN twilioMessages
          /\ row.sid = twilioMessages[i].sid /\ row.body = twilioMessages[i].body
          /\ row.status # twilioMessages[i].status =>
               row.sid = sid /\ row.status = status
      BY <2>1, <2>5 DEF StatusUpdated
    <3>2. RowOk(twilioMessages[i])
      BY <3>1 DEF RowInv
    <3> QED
      BY <2>2, <2>3, <2>4, <3>1, <3>2 DEF RowOk
  <2> QED
    BY <2>5, RowsOf
<1>3. CASE Counts
  <2>1. ASSUME NEW i \in DOMAIN twilioMessages', NEW row, row = twilioMessages'[i]
        PROVE  RowOk(row)'
    <3>1. /\ i \in DOMAIN twilioMessages /\ UNCHANGED twilio
          /\ row.sid = twilioMessages[i].sid /\ row.body = twilioMessages[i].body
          /\ row.status = twilioMessages[i].status
      BY <1>3, <2>1 DEF Counts
    <3>2. RowOk(twilioMessages[i])
      BY <3>1 DEF RowInv
    <3> QED
      BY <3>1, <3>2 DEF RowOk
  <2> QED
    BY <2>1, RowsOf
<1>4. ASSUME NEW s \in Senders, Stores(s) PROVE RowInv'
  <2>1. PICK x : FailureStored(s, x) \/ RowAdded(s, x)
    BY <1>4 DEF Stores
  <2>2. UNCHANGED twilio /\ sender[s].pc # "idle"
    BY <1>4 DEF Stores
  <2>3. ASSUME FailureStored(s, x), NEW i \in DOMAIN twilioMessages',
               NEW row, row = twilioMessages'[i]
        PROVE  RowOk(row)'
    <3>1. /\ i \in DOMAIN twilioMessages
          /\ \/ row = twilioMessages[i]
             \/ row.status = "failed" /\ row.sid = NoSid
      BY <2>3 DEF FailureStored
    <3>2. RowOk(twilioMessages[i])
      BY <3>1 DEF RowInv
    <3> QED
      BY <2>2, <3>1, <3>2 DEF RowOk
  <2>4. ASSUME RowAdded(s, x), NEW i \in DOMAIN twilioMessages',
               NEW row, row = twilioMessages'[i]
        PROVE  RowOk(row)'
    <3>1. CASE i = NewRow
      <4>1. /\ row.body = BodySent(s) /\ row.sid = sender[s].sid /\ row.status # "read"
        BY <2>4, <3>1 DEF RowAdded
      <4> QED
        BY <2>2, <4>1 DEF RowOk
    <3>2. CASE i # NewRow
      <4>1. i \in DOMAIN twilioMessages /\ row = twilioMessages[i]
        BY <2>4, <3>2 DEF RowAdded
      <4> QED
        BY <2>2, <4>1 DEF RowInv, RowOk
    <3> QED
      BY <3>1, <3>2
  <2> QED
    BY <2>1, <2>3, <2>4, RowsOf
<1>5. \/ UNCHANGED twilioMessages \/ Reports \/ Counts
      \/ \E s \in Senders : Stores(s)
  BY DEF Step, Sends, Receives, Answers, Waits, Finds, Resends, Takings, Pends, Creates,
         Links, Deletes, Ends, Interrupted, storeVars
<1> QED
  BY <1>1, <1>2, <1>3, <1>4, <1>5

-----------------------------------------------------------------------------
(* What a sender has done.                                                 *)

\* The text it sends; what Twilio accepted; the row it has stored; the pending
\* message or the failed row that is left of its message; and, unless it sends
\* again, that the registration has a latest message.
SenderOk(x) ==
    x.pc # "idle" =>
      LET job == jobs[x.job]
          text == IF job.processType = "whatsappTemplateGeneric" THEN NoBody ELSE job.body
      IN  /\ x.sid # NoSid => x.sid \in DOMAIN twilio /\ twilio[x.sid].body = text
          /\ x.pc \in {"sent", "complete"} => x.sid # NoSid
          /\ x.pc = "sent" => job.processType = "whatsappPendingMessage"
          /\ x.pc \in {"latest", "insert"} =>
               /\ x.row \in DOMAIN twilioMessages
               /\ twilioMessages[x.row].registration = job.registration
               /\ twilioMessages[x.row].body = text
          /\ x.pc # "pending" /\ job.processType = "whatsappTemplateGeneric" =>
               \E p \in DOMAIN pendingMessages : pendingMessages[p].body = job.body
          /\ x.pc = "throw" /\ job.processType = "sms" =>
               \E i \in DOMAIN twilioMessages : twilioMessages[i].body = job.body
          /\ x.pc \in {"sent", "complete", "throw"} /\ job.existingMessageSid = NoSid =>
               latestMessages[job.registration] # NoMessage

SenderInv == \A s \in Senders : SenderOk(sender[s])

LEMMA SenderOkKept ==
    ASSUME TypeInv, Kept, NEW x, x.pc # "idle" => x.job \in DOMAIN jobs, SenderOk(x)
    PROVE  SenderOk(x)'
<1> SUFFICES ASSUME x.pc # "idle" PROVE SenderOk(x)'
  BY DEF SenderOk
<1>1. SameJob(jobs'[x.job], jobs[x.job]) /\ jobs[x.job].registration \in Registrations
  <2>1. jobs \in Seq(Job) /\ x.job \in DOMAIN jobs
    BY DEF TypeInv, JobsTyped
  <2>2. jobs[x.job] \in Job
    BY <2>1
  <2> QED
    BY <2>1, <2>2 DEF Kept, JobsKept, Job
<1> QED
  BY <1>1 DEF SenderOk, SameJob, Kept, PendingKept, RowsKept, TwilioKept, LatestKept

LEMMA SendersOf ==
    ASSUME \A s \in Senders : \A x : x = sender'[s] => SenderOk(x)'
    PROVE  SenderInv'
BY DEF SenderInv, SenderOk

\* A sender that stays as it is.
LEMMA SenderStays ==
    ASSUME TypeInv, Kept, SenderInv, NEW s \in Senders, sender'[s] = sender[s],
           NEW x, x = sender'[s]
    PROVE  SenderOk(x)'
BY SenderOkKept DEF SenderInv, TypeInv, SendersTyped

LEMMA SenderIdle ==
    ASSUME NEW x, x.pc = "idle" PROVE SenderOk(x)'
BY DEF SenderOk

LEMMA SendersGo ==
    ASSUME TypeInv, Kept, SenderInv, NEW s \in Senders, NEW x, Goes(s, x), SenderOk(x)'
    PROVE  SenderInv'
<1>1. ASSUME NEW t \in Senders, NEW y, y = sender'[t] PROVE SenderOk(y)'
  <2>1. CASE t = s
    BY <1>1, <2>1 DEF Goes
  <2>2. CASE t # s
    BY <1>1, <2>2, SenderStays DEF Goes
  <2> QED
    BY <2>1, <2>2
<1> QED
  BY <1>1, SendersOf

\* The sender before the step, once its job and its text are named.
LEMMA SenderWas ==
    ASSUME TypeInv, SenderInv, NEW s \in Senders, sender[s].pc # "idle"
    PROVE  /\ sender[s].job \in DOMAIN jobs /\ JobOf(s) = jobs[sender[s].job]
           /\ SenderOk(sender[s])
           /\ sender[s].sid # NoSid =>
                sender[s].sid \in DOMAIN twilio /\ twilio[sender[s].sid].body = BodySent(s)
BY DEF SenderInv, SenderOk, JobOf, BodySent, TypeInv, SendersTyped

LEMMA SenderInvStep ==
    ASSUME TypeInv, Kept, OriginInv, SenderInv, Step
    PROVE  SenderInv'
<1>1. CASE UNCHANGED sender
  BY <1>1, SenderStays, SendersOf
<1>2. ASSUME NEW s \in Senders, Takings(s) PROVE SenderInv'
  <2>1. PICK j \in DOMAIN jobs : Takes(s, j)
    BY <1>2 DEF Takings
  <2>2. jobs'[j].processType = jobs[j].processType
    BY DEF Kept, JobsKept, SameJob
  <2>3. ASSUME NEW t \in Senders, NEW x, x = sender'[t] PROVE SenderOk(x)'
    <3>1. CASE t # s
      BY <2>1, <2>3, <3>1, SenderStays DEF Takes
    <3>2. CASE t = s
      BY <2>1, <2>2, <2>3, <3>2 DEF Takes, SenderOk
    <3> QED
      BY <3>1, <3>2
  <2> QED
    BY <2>3, SendersOf
<1>3. ASSUME NEW s \in Senders, Pends(s) PROVE SenderInv'
  <2>1. PICK x : Goes(s, x) /\ x.pc = "create" /\ x.sid = sender[s].sid
    BY <1>3 DEF Pends
  <2>2. /\ PendingAdded(s) /\ UNCHANGED <<jobs, twilio>>
    BY <1>3 DEF Pends
  <2>3. SenderOk(sender[s]) /\ sender[s].pc # "idle" /\ x.job = sender[s].job
        /\ JobOf(s) = jobs[x.job]
    BY <2>1, SenderWas DEF Goes
  <2>4. \E p \in DOMAIN pendingMessages' : pendingMessages'[p].body = jobs[x.job].body
    BY <2>2, <2>3 DEF PendingAdded
  <2>5. SenderOk(x)'
    BY <2>1, <2>2, <2>3, <2>4 DEF SenderOk
  <2> QED
    BY <2>1, <2>5, SendersGo
<1>4. ASSUME NEW s \in Senders, Creates(s) PROVE SenderInv'
  <2>1. PICK x : Created(s, x)
    BY <1>4 DEF Creates
  <2>2. UNCHANGED <<jobs, storeVars>> /\ sender[s].pc = "create"
    BY <1>4 DEF Creates
  <2>3. SenderOk(sender[s]) /\ x.job = sender[s].job /\ JobOf(s) = jobs[x.job]
        /\ sender[s].job \in DOMAIN jobs
    BY <2>1, <2>2, SenderWas DEF Created, Goes
  <2>4. x.sid # NoSid => x.sid \in DOMAIN twilio' /\ twilio'[x.sid].body = BodySent(s)
    <3>1. CASE x.sid = sender[s].sid
      BY <2>2, <3>1, SenderWas DEF Kept, TwilioKept
    <3>2. CASE x.sid # sender[s].sid
      BY <2>1, <3>2 DEF Created
    <3> QED
      BY <3>1, <3>2
  <2>5. x.pc = "save" /\ Goes(s, x)
    BY <2>1 DEF Created
  <2>6. SenderOk(x)'
    BY <2>2, <2>3, <2>4, <2>5 DEF SenderOk, BodySent, storeVars
  <2> QED
    BY <2>5, <2>6, SendersGo
<1>5. ASSUME NEW s \in Senders, Stores(s) PROVE SenderInv'
  <2>1. PICK x : FailureStored(s, x) \/ RowAdded(s, x)
    BY <1>5 DEF Stores
  <2>2. UNCHANGED <<jobs, pendingMessages, latestMessages, twilio>> /\ sender[s].pc = "save"
    BY <1>5 DEF Stores
  <2>3. Goes(s, x) /\ SenderOk(sender[s]) /\ x.job = sender[s].job
        /\ JobOf(s) = jobs[x.job] /\ sender[s].job \in DOMAIN jobs
    BY <2>1, <2>2, SenderWas DEF FailureStored, RowAdded, Goes
  <2>4. CASE FailureStored(s, x)
    <3>1. x.pc = "throw" /\ x.sid = NoSid /\ jobs[x.job].existingMessageSid # NoSid
      BY <2>3, <2>4 DEF FailureStored
    <3>2. jobs[x.job].processType \notin {"sms", "whatsappTemplateGeneric"}
      BY <2>3, <3>1 DEF OriginInv, Origin
    <3>3. SenderOk(x)'
      BY <2>2, <2>3, <3>1, <3>2 DEF SenderOk
    <3> QED
      BY <2>3, <3>3, SendersGo
  <2>5. CASE RowAdded(s, x)
    <3>1. /\ x.pc = "latest" /\ x.sid = sender[s].sid /\ x.row \in DOMAIN twilioMessages'
          /\ twilioMessages'[x.row].body = BodySent(s)
          /\ twilioMessages'[x.row].registration = JobOf(s).registration
      BY <2>5 DEF RowAdded
    <3>2. SenderOk(x)'
      BY <2>2, <2>3, <3>1 DEF SenderOk, BodySent
    <3> QED
      BY <2>3, <3>2, SendersGo
  <2> QED
    BY <2>1, <2>4, <2>5
<1>6. ASSUME NEW s \in Senders, Links(s) PROVE SenderInv'
  <2>1. /\ sender[s].pc \in {"latest", "insert"}
        /\ UNCHANGED <<jobs, pendingMessages, twilioMessages, twilio>>
    BY <1>6 DEF Links
  <2>2. SenderOk(sender[s]) /\ JobOf(s) = jobs[sender[s].job]
        /\ sender[s].job \in DOMAIN jobs /\ JobOf(s).registration \in Registrations
    BY <2>1, SenderWas, JobFacts
  <2>3. ASSUME NEW x, LatestStored(s, x) PROVE SenderInv'
    <3>1. /\ Goes(s, x) /\ x.pc = AfterStoring(s) /\ x.sid = sender[s].sid
          /\ x.job = sender[s].job
          /\ latestMessages'[JobOf(s).registration] = sender[s].row
      BY <2>3 DEF LatestStored, Goes
    <3>2. /\ sender[s].row \in DOMAIN twilioMessages
          /\ sender[s].row # NoMessage
      BY <2>1 DEF TypeInv, SendersTyped, RowsTyped, NoMessage
    <3>3. /\ x.pc \in {"throw", "sent", "complete"} /\ (x.pc # "throw" => x.sid # NoSid)
          /\ x.pc = "sent" => JobOf(s).processType = "whatsappPendingMessage"
      BY <3>1, AfterStoringType
    <3>4. SenderOk(x)'
      BY <2>1, <2>2, <3>1, <3>2, <3>3 DEF SenderOk
    <3> QED
      BY <3>1, <3>4, SendersGo
  <2>4. ASSUME NEW x, Goes(s, x), x.pc = "insert", x.sid = sender[s].sid,
               x.row = sender[s].row, UNCHANGED latestMessages
        PROVE  SenderInv'
    <3>1. SenderOk(x)'
      BY <2>1, <2>2, <2>4 DEF SenderOk, Goes
    <3> QED
      BY <2>4, <3>1, SendersGo
  <2>5. ASSUME NEW x, InsertFailed(s, x), UNCHANGED latestMessages PROVE SenderInv'
    <3>1. /\ Goes(s, x) /\ x.sid = NoSid /\ x.pc \in {"throw", "save"}
          /\ x.job = sender[s].job
          /\ latestMessages[JobOf(s).registration] # NoMessage
      BY <2>5 DEF InsertFailed, Goes
    <3>2. SenderOk(x)'
      BY <2>1, <2>2, <2>5, <3>1 DEF SenderOk
    <3> QED
      BY <3>1, <3>2, SendersGo
  <2> QED
    BY <1>6, <2>3, <2>4, <2>5 DEF Links
<1>7. ASSUME NEW s \in Senders, Deletes(s) PROVE SenderInv'
  <2>1. PICK x : Goes(s, x) /\ x.pc = "complete" /\ x.sid = sender[s].sid
    BY <1>7 DEF Deletes
  <2>2. /\ sender[s].pc = "sent" /\ PendingDeleted(s)
        /\ UNCHANGED <<jobs, twilioMessages, latestMessages, twilio>>
    BY <1>7 DEF Deletes
  <2>3. SenderOk(sender[s]) /\ x.job = sender[s].job
    BY <2>1, <2>2, SenderWas DEF Goes
  <2>4. SenderOk(x)'
    BY <2>1, <2>2, <2>3 DEF SenderOk, PendingDeleted
  <2> QED
    BY <2>1, <2>4, SendersGo
<1>8. ASSUME NEW s \in Senders, Ends(s) PROVE SenderInv'
  <2>1. ASSUME NEW t \in Senders, NEW x, x = sender'[t] PROVE SenderOk(x)'
    <3>1. CASE t = s
      BY <1>8, <2>1, <3>1, SenderIdle DEF Ends
    <3>2. CASE t # s
      BY <1>8, <2>1, <3>2, SenderStays DEF Ends
    <3> QED
      BY <3>1, <3>2
  <2> QED
    BY <2>1, SendersOf
<1>9. CASE \A s \in Senders : sender'[s].pc = "idle"
  BY <1>9, SenderIdle, SendersOf
<1> QED
  BY <1>1, <1>2, <1>3, <1>4, <1>5, <1>6, <1>7, <1>8, <1>9
     DEF Step, Sends, Receives, Answers, Waits, Reports, Finds, Counts, Resends,
         Interrupted

-----------------------------------------------------------------------------
(* No message is lost.                                                     *)

AcceptedText(m) == \E sid \in DOMAIN twilio : twilio[sid].body = m

\* A pending message is only deleted when it was sent, or for another.
PendingInv ==
    \A p \in DOMAIN pendingMessages :
        \/ ~pendingMessages[p].deleted
        \/ TakenForAnother(p)
        \/ AcceptedText(pendingMessages[p].body)

LEMMA AcceptedTextKept ==
    ASSUME Kept, NEW m, AcceptedText(m) PROVE AcceptedText(m)'
BY DEF Kept, TwilioKept, AcceptedText

LEMMA TakenKept ==
    ASSUME Kept, NEW p, TakenForAnother(p) PROVE TakenForAnother(p)'
BY DEF Kept, JobsKept, SameJob, TakenForAnother

LEMMA PendingOfStep ==
    ASSUME \A p \in DOMAIN pendingMessages' :
             \/ ~pendingMessages'[p].deleted
             \/ TakenForAnother(p)'
             \/ \A m : m = pendingMessages'[p].body => AcceptedText(m)'
    PROVE  PendingInv'
BY DEF PendingInv, AcceptedText

LEMMA PendingStep ==
    ASSUME TypeInv, Kept, OriginInv, SenderInv, PendingInv, Step
    PROVE  PendingInv'
<1>1. ASSUME NEW p \in DOMAIN pendingMessages, NEW m, m = pendingMessages'[p].body,
             TakenForAnother(p) \/ AcceptedText(pendingMessages[p].body)
      PROVE  TakenForAnother(p)' \/ AcceptedText(m)'
  <2>1. m = pendingMessages[p].body
    BY <1>1 DEF Kept, PendingKept
  <2> QED
    BY <1>1, <2>1, TakenKept, AcceptedTextKept
<1>2. CASE UNCHANGED pendingMessages
  BY <1>1, <1>2, PendingOfStep DEF PendingInv
<1>3. ASSUME NEW s \in Senders, Pends(s) PROVE PendingInv'
  <2>1. PendingAdded(s)
    BY <1>3 DEF Pends
  <2>2. ASSUME NEW p \in DOMAIN pendingMessages', NEW m, m = pendingMessages'[p].body
        PROVE  ~pendingMessages'[p].deleted \/ TakenForAnother(p)' \/ AcceptedText(m)'
    <3>1. CASE p \in DOMAIN pendingMessages
      <4>1. pendingMessages'[p] = pendingMessages[p]
        BY <2>1, <3>1 DEF PendingAdded
      <4> QED
        BY <1>1, <2>2, <3>1, <4>1 DEF PendingInv
    <3>2. CASE p \notin DOMAIN pendingMessages
      <4>1. pendingMessages'[p].deleted = FALSE
        BY <2>1, <2>2, <3>2 DEF PendingAdded
      <4> QED
        BY <4>1
    <3> QED
      BY <3>1, <3>2
  <2> QED
    BY <2>2, PendingOfStep
<1>4. ASSUME NEW s \in Senders, Deletes(s) PROVE PendingInv'
  <2>1. PendingDeleted(s) /\ sender[s].pc = "sent"
    BY <1>4 DEF Deletes
  <2> DEFINE job == JobOf(s)
  <2>2. /\ sender[s].job \in DOMAIN jobs /\ job = jobs[sender[s].job]
        /\ job.processType = "whatsappPendingMessage"
        /\ sender[s].sid \in DOMAIN twilio /\ twilio[sender[s].sid].body = job.body
        /\ Origin(job)
    BY <2>1, SenderWas DEF SenderOk, OriginInv
  <2> HIDE DEF job
  <2>3. ASSUME NEW p \in DOMAIN pendingMessages', NEW m, m = pendingMessages'[p].body
        PROVE  ~pendingMessages'[p].deleted \/ TakenForAnother(p)' \/ AcceptedText(m)'
    <3>1. p \in DOMAIN pendingMessages /\ pendingMessages'[p].body = pendingMessages[p].body
      BY <2>1, <2>3 DEF PendingDeleted
    <3>2. CASE p # job.pendingMessageId
      <4>1. pendingMessages'[p] = pendingMessages[p]
        BY <2>1, <3>1, <3>2 DEF PendingDeleted, job
      <4> QED
        BY <1>1, <2>3, <3>1, <4>1 DEF PendingInv
    <3>3. CASE p = job.pendingMessageId
      <4>1. CASE job.existingMessageSid # NoSid
        <5>1. TakenForAnother(p)
          BY <2>2, <3>3, <4>1 DEF TakenForAnother
        <5> QED
          BY <5>1, TakenKept
      <4>2. CASE job.existingMessageSid = NoSid
        <5>1. pendingMessages[p].body = job.body
          BY <2>2, <3>3, <4>2 DEF Origin
        <5>2. AcceptedText(m)
          BY <2>2, <2>3, <3>1, <5>1 DEF AcceptedText
        <5> QED
          BY <5>2, AcceptedTextKept
      <4> QED
        BY <4>1, <4>2
    <3> QED
      BY <3>2, <3>3
  <2> QED
    BY <2>3, PendingOfStep
<1>5. \/ UNCHANGED pendingMessages
      \/ \E s \in Senders : Pends(s) \/ Deletes(s)
  BY DEF Step, Sends, Receives, Answers, Waits, Reports, Finds, Counts, Resends,
         Takings, Creates, Stores, Links, Ends, Interrupted, storeVars
<1> QED
  BY <1>2, <1>3, <1>4, <1>5

\* Nothing more has to be done for the message, but by those who answer it.
Secured(m) ==
    \/ IsPending(m)
    \/ AcceptedText(m)
    \/ /\ messages[m] \notin WithWhatsapp
       /\ \E i \in DOMAIN twilioMessages : twilioMessages[i].body = m

LEMMA PendingSecures ==
    ASSUME PendingInv, NEW p \in DOMAIN pendingMessages
    PROVE  Secured(pendingMessages[p].body)
BY DEF PendingInv, Secured, IsPending

LEMMA PendingSecuresNext ==
    ASSUME PendingInv', NEW p \in DOMAIN pendingMessages', NEW m,
           m = pendingMessages'[p].body
    PROVE  Secured(m)'
BY DEF PendingInv, Secured, IsPending, AcceptedText

LEMMA SecuredKept ==
    ASSUME Kept, PendingInv', NEW m \in DOMAIN messages, Secured(m)
    PROVE  Secured(m)'
<1>1. CASE IsPending(m)
  <2>1. PICK p \in DOMAIN pendingMessages : pendingMessages[p].body = m
    BY <1>1 DEF IsPending
  <2>2. p \in DOMAIN pendingMessages' /\ m = pendingMessages'[p].body
    BY <2>1 DEF Kept, PendingKept
  <2> QED
    BY <2>2, PendingSecuresNext
<1>2. CASE AcceptedText(m)
  BY <1>2, AcceptedTextKept DEF Secured
<1>3. CASE /\ messages[m] \notin WithWhatsapp
           /\ \E i \in DOMAIN twilioMessages : twilioMessages[i].body = m
  BY <1>3 DEF Secured, Kept, MessagesKept, RowsKept
<1> QED
  BY <1>1, <1>2, <1>3 DEF Secured

\* Before a sender ends its job, the message of it is safe.
LEMMA EndedIsSecured ==
    ASSUME TypeInv, OriginInv, SenderInv, PendingInv, NEW s \in Senders,
           sender[s].pc \in {"complete", "throw"},
           NEW m \in DOMAIN messages, JobOf(s).body = m
    PROVE  Secured(m)
<1> DEFINE job == JobOf(s)
<1>1. /\ sender[s].job \in DOMAIN jobs /\ job = jobs[sender[s].job]
      /\ SenderOk(sender[s]) /\ Origin(job) /\ job.processType \in ProcessType
  BY SenderWas, JobFacts DEF OriginInv
<1> HIDE DEF job
<1>2. job.body = m /\ m # NoBody
  BY DEF job, TypeInv, MessagesTyped, NoBody
<1>3. CASE job.existingMessageSid # NoSid
  BY <1>1, <1>2, <1>3 DEF Origin, Faulty, Secured, AcceptedText
<1>4. CASE job.existingMessageSid = NoSid
  <2>1. CASE job.processType = "sms"
    <3>1. messages[m] \notin WithWhatsapp
      BY <1>1, <1>2, <2>1 DEF Origin
    <3>2. CASE sender[s].pc = "complete"
      BY <1>1, <1>2, <2>1, <3>2 DEF SenderOk, Secured, AcceptedText
    <3>3. CASE sender[s].pc = "throw"
      BY <1>1, <1>2, <2>1, <3>1, <3>3 DEF SenderOk, Secured
    <3> QED
      BY <3>2, <3>3
  <2>2. CASE job.processType = "whatsappTemplateGeneric"
    <3>1. PICK p \in DOMAIN pendingMessages : pendingMessages[p].body = m
      BY <1>1, <1>2, <2>2 DEF SenderOk
    <3> QED
      BY <3>1, PendingSecures
  <2>3. CASE job.processType = "whatsappPendingMessage"
    <3>1. PICK p \in DOMAIN pendingMessages : pendingMessages[p].body = m
      BY <1>1, <1>2, <1>4, <2>3 DEF Origin
    <3> QED
      BY <3>1, PendingSecures
  <2>4. CASE job.processType = "whatsappDefaultReply"
    BY <1>1, <1>2, <1>4, <2>4 DEF Origin
  <2> QED
    BY <1>1, <2>1, <2>2, <2>3, <2>4 DEF ProcessType
<1> QED
  BY <1>3, <1>4

ToBeDone(j) == Unfinished(j) \/ jobs[j].stalls > MaxStalls

\* A job that is to be done stays so, until its sender ends it.
LEMMA ToBeDoneStays ==
    ASSUME TypeInv, Kept, Step, NEW j \in DOMAIN jobs, ToBeDone(j)
    PROVE  ToBeDone(j)' \/ \E s \in Senders : Ends(s) /\ sender[s].job = j
<1>1. CASE jobs'[j] = jobs[j]
  BY <1>1 DEF ToBeDone, Unfinished
<1>2. CASE \E s \in Senders : Takings(s)
  BY <1>1, <1>2 DEF Takings, Takes, JobState, ToBeDone, Unfinished
<1>3. CASE \E s \in Senders : Ends(s)
  BY <1>1, <1>3 DEF Ends, JobState
<1>4. CASE Interrupted
  BY <1>4 DEF Interrupted, JobsGoOn, ToBeDone
<1>5. CASE Sends \/ Receives \/ Answers \/ Resends
  BY <1>1, <1>5 DEF Sends, Receives, DefaultReplyAdded, Answers, Resends, JobAdded
<1>6. \/ UNCHANGED jobs \/ Sends \/ Receives \/ Answers \/ Resends \/ Interrupted
      \/ \E s \in Senders : Takings(s) \/ Ends(s)
  BY DEF Step, Waits, Reports, Finds, Counts, Pends, Creates, Stores, Links, Deletes
<1> QED
  BY <1>1, <1>2, <1>3, <1>4, <1>5, <1>6

LostInv == \A m \in DOMAIN messages : HasJob(m) \/ Secured(m)

LEMMA LostStep ==
    ASSUME TypeInv, Kept, OriginInv, SenderInv, PendingInv, PendingInv', LostInv, Step
    PROVE  LostInv'
<1>1. ASSUME NEW m \in DOMAIN messages PROVE HasJob(m)' \/ Secured(m)'
  <2>1. CASE Secured(m)
    BY <2>1, SecuredKept
  <2>2. CASE HasJob(m)
    <3>1. PICK j \in DOMAIN jobs : jobs[j].body = m /\ ToBeDone(j)
      BY <2>2 DEF HasJob, ToBeDone
    <3>2. j \in DOMAIN jobs' /\ jobs'[j].body = m
      BY <3>1 DEF Kept, JobsKept, SameJob
    <3>3. CASE ToBeDone(j)'
      BY <3>2, <3>3 DEF HasJob, ToBeDone
    <3>4. ASSUME NEW s \in Senders, Ends(s), sender[s].job = j PROVE Secured(m)'
      <4>1. sender[s].pc \in {"complete", "throw"} /\ JobOf(s).body = m
        BY <3>1, <3>4 DEF Ends, JobOf
      <4> QED
        BY <4>1, EndedIsSecured, SecuredKept
    <3> QED
      BY <3>1, <3>3, <3>4, ToBeDoneStays
  <2> QED
    BY <2>1, <2>2 DEF LostInv
<1>2. CASE Sends
  <2>1. ASSUME NEW m \in DOMAIN messages', m \notin DOMAIN messages PROVE HasJob(m)'
    BY <1>2, <2>1 DEF Sends, JobAdded, HasJob, Unfinished
  <2> QED
    BY <1>1, <2>1 DEF LostInv
<1>3. UNCHANGED messages \/ Sends
  BY DEF Step, Receives, Answers, Waits, Reports, Finds, Counts, Resends,
         Takings, Pends, Creates, Stores, Links, Deletes, Ends, Interrupted
<1> QED
  BY <1>1, <1>2, <1>3 DEF LostInv

-----------------------------------------------------------------------------
(* The latest message of a registration.                                   *)

\* A job that sends a message for the first time and has not yet made sure that
\* there is a latest message.
FirstJob(j) ==
    /\ jobs[j].existingMessageSid = NoSid /\ ToBeDone(j)
    /\ \A s \in Senders :
         sender[s].job = j => sender[s].pc \notin {"sent", "complete", "throw"}

HasLatest(r) ==
    \/ latestMessages[r] # NoMessage
    \/ \E j \in DOMAIN jobs : FirstJob(j) /\ jobs[j].registration = r

LatestInv ==
    /\ \A i \in DOMAIN twilioMessages : HasLatest(twilioMessages[i].registration)
    /\ \A r \in Registrations : latestMessages[r] # NoMessage =>
         /\ latestMessages[r] \in DOMAIN twilioMessages
         /\ twilioMessages[latestMessages[r]].registration = r

\* A sender that comes to an end of a first job has seen to it.
LEMMA EndingHasLatest ==
    ASSUME TypeInv, Kept, SenderInv, SenderInv', TypeInv', NEW s \in Senders,
           NEW j \in DOMAIN jobs, jobs[j].existingMessageSid = NoSid,
           sender'[s].job = j, sender'[s].pc \in {"sent", "complete", "throw"}
    PROVE  latestMessages'[jobs[j].registration] # NoMessage
<1>1. /\ jobs'[j].existingMessageSid = NoSid
      /\ jobs'[j].registration = jobs[j].registration
  BY DEF Kept, JobsKept, SameJob
<1> QED
  BY <1>1 DEF SenderInv, SenderOk

LEMMA HasLatestStays ==
    ASSUME TypeInv, TypeInv', Kept, SenderInv, SenderInv', Step,
           NEW r \in Registrations, HasLatest(r)
    PROVE  HasLatest(r)'
<1>1. CASE latestMessages[r] # NoMessage
  BY <1>1 DEF Kept, LatestKept, HasLatest
<1>2. ASSUME NEW j \in DOMAIN jobs, FirstJob(j), jobs[j].registration = r
      PROVE  HasLatest(r)'
  <2>1. /\ j \in DOMAIN jobs' /\ jobs'[j].registration = r
        /\ jobs'[j].existingMessageSid = NoSid
    BY <1>2 DEF Kept, JobsKept, SameJob, FirstJob
  <2>2. ToBeDone(j)'
    <3>1. ASSUME NEW s \in Senders, Ends(s), sender[s].job = j PROVE FALSE
      BY <1>2, <3>1 DEF Ends, FirstJob
    <3> QED
      BY <1>2, <3>1, ToBeDoneStays DEF FirstJob
  <2>3. CASE \E s \in Senders :
               sender'[s].job = j /\ sender'[s].pc \in {"sent", "complete", "throw"}
    BY <1>2, <2>3, EndingHasLatest DEF FirstJob, HasLatest
  <2>4. CASE ~ \E s \in Senders :
               sender'[s].job = j /\ sender'[s].pc \in {"sent", "complete", "throw"}
    <3>1. FirstJob(j)'
      BY <2>1, <2>2, <2>4 DEF FirstJob
    <3> QED
      BY <2>1, <3>1 DEF HasLatest
  <2> QED
    BY <2>3, <2>4
<1> QED
  BY <1>1, <1>2 DEF HasLatest

LEMMA RowRegistration ==
    ASSUME TypeInv, NEW i \in DOMAIN twilioMessages
    PROVE  twilioMessages[i].registration \in Registrations
BY RowFacts DEF TwilioMessage

\* A sender that has stored a row has a first job, or there was a row before.
LEMMA NewRowHasLatest ==
    ASSUME TypeInv, TypeInv', Kept, OriginInv, SenderInv, SenderInv', LatestInv, Step,
           NEW s \in Senders, sender[s].pc = "save", NEW x, RowAdded(s, x),
           UNCHANGED jobs
    PROVE  \A r : r = JobOf(s).registration => HasLatest(r)'
<1>0. PICK j, job : j = sender[s].job /\ job = JobOf(s)
  OBVIOUS
<1>1. /\ j \in DOMAIN jobs /\ job = jobs[j] /\ Origin(job) /\ job.state = "active"
      /\ job.registration \in Registrations
  BY <1>0, SenderWas, JobFacts DEF OriginInv
<1> SUFFICES ASSUME NEW r, r = job.registration PROVE HasLatest(r)'
  BY <1>0
<1>2. CASE job.existingMessageSid # NoSid
  <2>1. PICK i \in DOMAIN twilioMessages : twilioMessages[i].registration = r
    BY <1>1, <1>2 DEF Origin, Faulty
  <2>2. HasLatest(r)
    BY <2>1 DEF LatestInv
  <2> QED
    BY <1>1, <2>2, HasLatestStays
<1>3. CASE job.existingMessageSid = NoSid
  <2>1. ASSUME NEW t \in Senders, sender'[t].job = j
        PROVE  sender'[t].pc \notin {"sent", "complete", "throw"}
    <3>1. CASE t = s
      BY <3>1 DEF RowAdded, Goes
    <3>2. CASE t # s
      <4>1. sender'[t] = sender[t] /\ sender[s].pc # "idle"
        BY <3>2 DEF RowAdded, Goes
      <4>2. sender[t].pc = "idle"
        BY <1>0, <2>1, <3>2, <4>1 DEF TypeInv, SendersTyped
      <4> QED
        BY <4>1, <4>2
    <3> QED
      BY <3>1, <3>2
  <2>2. jobs' = jobs /\ jobs[j].state = "active" /\ jobs[j].existingMessageSid = NoSid
        /\ jobs[j].registration = r
    BY <1>1, <1>3
  <2>3. FirstJob(j)'
    BY <2>1, <2>2 DEF FirstJob, ToBeDone, Unfinished
  <2> QED
    BY <1>1, <2>2, <2>3 DEF HasLatest
<1> QED
  BY <1>2, <1>3

LEMMA LatestStep ==
    ASSUME TypeInv, TypeInv', Kept, OriginInv, SenderInv, SenderInv', LatestInv, Step
    PROVE  LatestInv'
<1>1. ASSUME NEW i \in DOMAIN twilioMessages', NEW r,
             r = twilioMessages'[i].registration
      PROVE  HasLatest(r)'
  <2>1. CASE i \in DOMAIN twilioMessages
    <3>1. r = twilioMessages[i].registration
      BY <1>1, <2>1 DEF Kept, RowsKept
    <3> QED
      BY <2>1, <3>1, RowRegistration, HasLatestStays DEF LatestInv
  <2>2. CASE i \notin DOMAIN twilioMessages
    <3>1. PICK s \in Senders : Stores(s)
      BY <1>1, <2>2 DEF Step, Sends, Receives, Answers, Waits, Reports, StatusUpdated,
        Finds, Counts, Resends, Takings, Pends, Creates, Links, Deletes, Ends,
        Interrupted, storeVars
    <3>2. PICK x : RowAdded(s, x)
      BY <1>1, <2>2, <3>1 DEF Stores, FailureStored
    <3>3. r = JobOf(s).registration
      BY <1>1, <2>2, <3>2 DEF RowAdded
    <3> QED
      BY <3>1, <3>2, <3>3, NewRowHasLatest DEF Stores
  <2> QED
    BY <2>1, <2>2
<1>2. ASSUME NEW r \in Registrations, latestMessages'[r] # NoMessage
      PROVE  /\ latestMessages'[r] \in DOMAIN twilioMessages'
             /\ twilioMessages'[latestMessages'[r]].registration = r
  <2>1. CASE latestMessages'[r] = latestMessages[r]
    BY <1>2, <2>1 DEF LatestInv, Kept, RowsKept
  <2>2. CASE latestMessages'[r] # latestMessages[r]
    <3>1. PICK s \in Senders : Links(s)
      BY <2>2 DEF Step, Sends, Receives, Answers, Waits, Reports, Finds, Counts, Resends,
        Takings, Pends, Creates, Stores, Deletes, Ends, Interrupted, storeVars
    <3>2. PICK x : LatestStored(s, x)
      BY <2>2, <3>1 DEF Links
    <3>3. /\ r = JobOf(s).registration /\ latestMessages'[r] = sender[s].row
          /\ sender[s].pc \in {"latest", "insert"} /\ UNCHANGED twilioMessages
      BY <2>2, <3>1, <3>2 DEF Links, LatestStored
    <3>4. /\ sender[s].row \in DOMAIN twilioMessages
          /\ twilioMessages[sender[s].row].registration = r
      BY <3>3, SenderWas DEF SenderOk
    <3> QED
      BY <3>3, <3>4
  <2> QED
    BY <2>1, <2>2
<1>3. ASSUME NEW i \in DOMAIN twilioMessages'
      PROVE  HasLatest(twilioMessages[i].registration)'
  BY <1>1, <1>3 DEF HasLatest, FirstJob, ToBeDone, Unfinished
<1> QED
  BY <1>2, <1>3 DEF LatestInv

-----------------------------------------------------------------------------
(* The inductive invariant.                                                *)

Inv ==
    /\ TypeInv /\ OriginInv /\ ResendInv /\ RowInv /\ PendingInv /\ SenderInv
    /\ LostInv /\ LatestInv

LEMMA InitInv == Init => Inv
<1> SUFFICES ASSUME Init PROVE Inv
  OBVIOUS
<1>1. /\ messages = << >> /\ jobs = << >> /\ pendingMessages = << >>
      /\ twilioMessages = << >> /\ twilio = << >>
      /\ latestMessages = [r \in Registrations |-> NoMessage]
      /\ sender = [s \in Senders |-> IdleSender]
      /\ incoming = [h \in Handlers |-> NotIncoming]
      /\ resending = [h \in Handlers |-> NotResending]
      /\ received = 0 /\ faults = 0
  BY DEF Init
<1>2. /\ MaxMessages \in Nat /\ MaxIncoming \in Nat /\ MaxFaults \in Nat
  BY MessageBoundsAssumption
<1>3. MessagesTyped /\ JobsTyped /\ PendingTyped /\ RowsTyped /\ TwilioTyped
  BY <1>1, <1>2, EmptySeq
     DEF MessagesTyped, JobsTyped, PendingTyped, RowsTyped, TwilioTyped
<1>4. LatestTyped /\ BoundsTyped
  BY <1>1, <1>2 DEF LatestTyped, BoundsTyped, NoMessage
<1>5. SendersTyped
  BY <1>1, IdleSenderType DEF SendersTyped
<1>6. IncomingTyped /\ ResendingTyped
  BY <1>1, NotIncomingType, NotResendingType DEF IncomingTyped, ResendingTyped
<1>7. OriginInv /\ RowInv /\ PendingInv /\ LostInv
  BY <1>1 DEF OriginInv, RowInv, PendingInv, LostInv
<1>8. ResendInv
  BY <1>1, NotResendingType DEF ResendInv
<1>9. SenderInv
  BY <1>1, IdleSenderType DEF SenderInv, SenderOk
<1>10. LatestInv
  BY <1>1 DEF LatestInv
<1> QED
  BY <1>3, <1>4, <1>5, <1>6, <1>7, <1>8, <1>9, <1>10 DEF Inv, TypeInv

LEMMA NextInv == Inv /\ [Next]_vars => Inv'
<1> SUFFICES ASSUME Inv, [Next]_vars PROVE Inv'
  OBVIOUS
<1>1. /\ TypeInv /\ OriginInv /\ ResendInv /\ RowInv /\ PendingInv /\ SenderInv
      /\ LostInv /\ LatestInv
  BY DEF Inv
<1>2. Kept /\ TypeInv' /\ Step
  BY <1>1, NextIsStep
<1>3. OriginInv' /\ ResendInv'
  BY <1>1, <1>2, OriginStep, ResendStep
<1>4. SenderInv'
  BY <1>1, <1>2, SenderInvStep
<1>5. RowInv'
  BY <1>1, <1>2, SenderWas, RowStep DEF TypeInv
<1>6. PendingInv'
  BY <1>1, <1>2, PendingStep
<1>7. LostInv'
  BY <1>1, <1>2, <1>6, LostStep
<1>8. LatestInv'
  BY <1>1, <1>2, <1>4, LatestStep
<1> QED
  BY <1>2, <1>3, <1>4, <1>5, <1>6, <1>7, <1>8 DEF Inv

LEMMA InvHolds == Spec => []Inv
<1>1. Init => Inv
  BY InitInv
<1>2. Inv /\ [Next]_vars => Inv'
  BY NextInv
<1> QED
  BY <1>1, <1>2, PTL DEF Spec

-----------------------------------------------------------------------------
(* The theorems.                                                           *)

\* The variables have their types, and senders are at work on active jobs of
\* their own queue (message-queues.service.ts, default-message.processor.ts).
THEOREM TypeCorrect == Spec => []TypeOK
<1>1. Inv => TypeOK
  BY DEF Inv, TypeInv, TypeOK, MessagesTyped, JobsTyped, PendingTyped, RowsTyped,
         LatestTyped, TwilioTyped, Accepted, SendersTyped, IncomingTyped, ResendingTyped,
         BoundsTyped
<1> QED
  BY <1>1, InvHolds, PTL

\* A message of a user is still to be sent, waits for an answer, was accepted by
\* Twilio, or is a failed SMS; whatever fails, crashes or is sent twice.
THEOREM NothingLost == Spec => []NoMessageIsLost
<1>1. Inv => NoMessageIsLost
  BY DEF Inv, LostInv, Secured, AcceptedText, NoMessageIsLost
<1> QED
  BY <1>1, InvHolds, PTL

\* A registration with messages that nobody is storing has a latest one of its
\* own, however many senders store its messages at once.
THEOREM LatestKnown == Spec => []LatestMessageIsKnown
<1>1. Inv => LatestMessageIsKnown
  <2> SUFFICES ASSUME Inv, NEW r \in Registrations,
                      NEW i \in DOMAIN twilioMessages, twilioMessages[i].registration = r
               PROVE  \/ \E j \in DOMAIN jobs :
                           /\ jobs[j].registration = r
                           /\ Unfinished(j) \/ jobs[j].stalls > MaxStalls
                      \/ /\ latestMessages[r] \in DOMAIN twilioMessages
                         /\ twilioMessages[latestMessages[r]].registration = r
    BY DEF LatestMessageIsKnown
  <2> QED
    BY DEF Inv, LatestInv, HasLatest, FirstJob, ToBeDone
<1> QED
  BY <1>1, InvHolds, PTL

\* However late or often Twilio calls back, and whatever is sent again, a WhatsApp
\* message that was read or has failed stays so.
THEOREM FinalKept == Spec => FinalStatusIsKept
<1> DEFINE Final(i) == /\ twilioMessages[i].processType # "sms"
                       /\ twilioMessages[i].status \in {"read", "failed"}
           Keeps == \A i \in DOMAIN twilioMessages :
                      Final(i) => twilioMessages'[i].status = twilioMessages[i].status
<1>1. Inv /\ [Next]_vars => Keeps
  <2> SUFFICES ASSUME Inv, [Next]_vars, NEW i \in DOMAIN twilioMessages, Final(i)
               PROVE  twilioMessages'[i].status = twilioMessages[i].status
    OBVIOUS
  <2>1. /\ TypeInv /\ OriginInv /\ RowInv /\ SenderInv /\ Step
    BY NextIsStep DEF Inv
  <2>2. CASE UNCHANGED twilioMessages
    BY <2>2
  <2>3. CASE Reports
    BY <2>3 DEF Reports, StatusUpdated
  <2>4. CASE Counts
    BY <2>4 DEF Counts
  <2>5. ASSUME NEW s \in Senders, Stores(s)
        PROVE  twilioMessages'[i].status = twilioMessages[i].status
    <3>1. PICK x : FailureStored(s, x) \/ RowAdded(s, x)
      BY <2>5 DEF Stores
    <3>2. CASE RowAdded(s, x)
      BY <3>2 DEF RowAdded
    <3>3. CASE FailureStored(s, x)
      <4>1. JobOf(s).existingMessageSid # NoSid /\ sender[s].pc # "idle"
        BY <3>3 DEF FailureStored, Goes
      <4>2. twilio[JobOf(s).existingMessageSid].fate = "faulty"
        BY <2>1, <4>1, SenderWas DEF OriginInv, Origin, Faulty
      <4>3. CASE twilioMessages[i].sid = JobOf(s).existingMessageSid
        <5>1. twilioMessages[i].status # "read"
          BY <2>1, <4>2, <4>3 DEF RowInv, RowOk
        <5> QED
          BY <3>3, <4>3, <5>1 DEF FailureStored
      <4>4. CASE twilioMessages[i].sid # JobOf(s).existingMessageSid
        BY <3>3, <4>4 DEF FailureStored
      <4> QED
        BY <4>3, <4>4
    <3> QED
      BY <3>1, <3>2, <3>3
  <2>6. \/ UNCHANGED twilioMessages \/ Reports \/ Counts
        \/ \E s \in Senders : Stores(s)
    BY <2>1 DEF Step, Sends, Receives, Answers, Waits, Finds, Resends, Takings, Pends,
           Creates, Links, Deletes, Ends, Interrupted, storeVars
  <2> QED
    BY <2>2, <2>3, <2>4, <2>5, <2>6
<1> QED
  BY <1>1, InvHolds, PTL DEF Spec, FinalStatusIsKept
=============================================================================
