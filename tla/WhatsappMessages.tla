------------------------ MODULE WhatsappMessages ------------------------
(***************************************************************************)
(* Messages to registrations, over WhatsApp or SMS, through Twilio.        *)
(*                                                                         *)
(*   user     --> a job per registration, in one of the bulk queues        *)
(*   sender   --> an SMS is sent as it is.  A WhatsApp message may not be: *)
(*                it becomes a pending message, and a template is sent     *)
(*                that asks for an answer                                  *)
(*   incoming --> the answer: a job in the reply queue for each pending    *)
(*                message, or for a default reply if there is none         *)
(*   status   --> what Twilio says became of a message; one refused as a   *)
(*                faulty template (63016) is queued again                  *)
(*                                                                         *)
(* Every message is a row of twilio_message, the newest of a registration  *)
(* its latest_message.  Vouchers, that are sent likewise, are in           *)
(* IntersolveVouchers.  Twilio and Bull are not in the repository.  The    *)
(* callbacks and incoming messages that a crash interrupts are handed out  *)
(* again by Bull; here they just come again.                               *)
(***************************************************************************)
EXTENDS Integers, FiniteSets, Sequences

CONSTANTS
    Registrations,
    WithWhatsapp,   \* the registrations that have a WhatsApp number
    BulkQueues,     \* queues of jobs of users: by the number of recipients
    Senders,        \* the processors of the queues
    QueueOf,        \* the queue of each
    Handlers,       \* processors of callbacks, and those of incoming messages
    MaxRetryCount,  \* how often a row is sent again, 3 in the code
    MaxMessages,    \* bound on the messages of users
    MaxIncoming,    \* bound on the messages of registrations
    MaxFates,       \* bound on the messages of which Twilio reports anything
    MaxFaults,      \* bound on the crashes, the answers of Twilio that are lost
                    \* and the callbacks that send again, together
    MaxStalls       \* maxStalledCount of Bull, 1 by default

ASSUME QueuesAssumption ==
    /\ "reply" \notin BulkQueues
    /\ QueueOf \in [Senders -> BulkQueues \cup {"reply"}]
ASSUME MessageBoundsAssumption ==
    /\ Registrations # {}
    /\ WithWhatsapp \subseteq Registrations
    /\ {MaxRetryCount, MaxMessages, MaxIncoming, MaxFates, MaxFaults, MaxStalls} \subseteq Nat

VARIABLES
    messages,        \* the registration of each message of a user
    jobs,            \* the jobs of all queues, in the order they were added
    pendingMessages, \* whatsapp_pending_message; an id is an index
    twilioMessages,  \* twilio_message; an id is an index
    latestMessages,  \* latest_message of each registration, 0 if it has none
    twilio,          \* the messages Twilio has accepted; a sid is an index
    sender, incoming, resending,
    received, faults  \* counted for the bounds

storeVars == <<pendingMessages, twilioMessages, latestMessages>>
bounds == <<received, faults>>
vars == <<messages, jobs, storeVars, twilio, sender, incoming, resending, bounds>>

Body == 1..MaxMessages
NoBody == 0       \* a template or a default reply
NoSid == 0        \* "failed-" and a uuid
NoMessage == 0

ProcessType == {"sms", "whatsappTemplateGeneric", "whatsappPendingMessage",
                "whatsappDefaultReply"}

\* pendingMessageId and existingMessageSid are the customData of the job.
Job == [queue : BulkQueues \cup {"reply"}, processType : ProcessType,
        registration : Registrations, body : Body \cup {NoBody},
        pendingMessageId : Nat, existingMessageSid : Nat,
        state : {"queued", "active", "stalled", "failed", "completed"},
        stalls : 0..(MaxStalls + 1)]

PendingMessage == [registration : Registrations, body : Body, deleted : BOOLEAN]

\* "sent" is any status that says less: accepted, queued, sent, delivered.
TwilioStatus == {"sent", "read", "undelivered", "failed"}

TwilioMessage == [registration : Registrations, body : Body \cup {NoBody},
                  processType : ProcessType, sid : Nat, status : TwilioStatus,
                  retryCount : 0..MaxRetryCount]

\* What becomes of a message at Twilio; "faulty" is a free message that needed a
\* template (63016).
Fate == {"read", "failed", "faulty"}

SenderPc == {"idle", "pending", "create", "save", "latest", "insert", "sent",
             "complete", "throw"}

\* row: of twilioMessages.  sid: NoSid once sending has failed.
Sender == [pc : SenderPc, job : Nat, sid : Nat, row : Nat]
IdleSender == [pc |-> "idle", job |-> 0, sid |-> NoSid, row |-> NoMessage]

\* todo: the pending messages that were read and are still to be queued.
Incoming == [busy : BOOLEAN, registration : Registrations, todo : SUBSET Nat]
NotIncoming ==
    [busy |-> FALSE, registration |-> CHOOSE r \in Registrations : TRUE, todo |-> {}]

\* message: the row as it was read.
Resending == [pc : {"idle", "update", "wait"}, message : TwilioMessage, id : Nat]
NotResending ==
    [pc |-> "idle", id |-> NoMessage,
     message |-> [registration |-> NotIncoming.registration, body |-> NoBody,
                  processType |-> "sms", sid |-> NoSid, status |-> "sent",
                  retryCount |-> 0]]

TypeOK ==
    /\ messages \in Seq(Registrations) /\ Len(messages) <= MaxMessages
    /\ jobs \in Seq(Job)
    /\ pendingMessages \in Seq(PendingMessage)
    /\ twilioMessages \in Seq(TwilioMessage)
    /\ \A i \in DOMAIN twilioMessages : twilioMessages[i].sid \in 0..Len(twilio)
    /\ latestMessages \in [Registrations -> 0..Len(twilioMessages)]
    /\ twilio \in Seq([body : Body \cup {NoBody}, fate : Fate \cup {"open"}])
    /\ sender \in [Senders -> Sender]
    /\ \A s \in Senders : sender[s].pc # "idle" =>
         /\ sender[s].job \in DOMAIN jobs
         /\ jobs[sender[s].job].state = "active"
         /\ jobs[sender[s].job].queue = QueueOf[s]
    /\ incoming \in [Handlers -> Incoming]
    /\ resending \in [Handlers -> Resending]
    /\ received \in 0..MaxIncoming /\ faults \in 0..MaxFaults

Init ==
    /\ messages = << >>
    /\ jobs = << >>
    /\ pendingMessages = << >> /\ twilioMessages = << >>
    /\ latestMessages = [r \in Registrations |-> NoMessage]
    /\ twilio = << >>
    /\ sender = [s \in Senders |-> IdleSender]
    /\ incoming = [h \in Handlers |-> NotIncoming]
    /\ resending = [h \in Handlers |-> NotResending]
    /\ received = 0 /\ faults = 0

-----------------------------------------------------------------------------
(* addMessageJob.  Replies have a queue of their own; the size of a bulk   *)
(* decides between the others.                                             *)

AddMessageJob(processType, r, body, pendingMessageId, existingMessageSid) ==
    \E queue \in IF processType \in {"sms", "whatsappTemplateGeneric"}
                 THEN BulkQueues ELSE {"reply"} :
        jobs' = Append(jobs,
          [queue |-> queue, processType |-> processType, registration |-> r,
           body |-> body, pendingMessageId |-> pendingMessageId,
           existingMessageSid |-> existingMessageSid,
           state |-> "queued", stalls |-> 0])

\* smsOrWhatsappTemplateGeneric
SendMessage(r) ==
    /\ Len(messages) < MaxMessages
    /\ messages' = Append(messages, r)
    /\ AddMessageJob(IF r \in WithWhatsapp THEN "whatsappTemplateGeneric" ELSE "sms",
                     r, Len(messages) + 1, NoMessage, NoSid)
    /\ UNCHANGED <<storeVars, twilio, sender, incoming, resending, bounds>>

-----------------------------------------------------------------------------
(* The senders: sendTextMessage and what it calls.                         *)

unchangedBySender == <<messages, incoming, resending, bounds>>

JobOf(s) == jobs[sender[s].job]

Goto(s, pc) == sender' = [sender EXCEPT ![s].pc = pc]

TakeJobOf(s, j, queues) ==
    /\ sender[s].pc = "idle"
    /\ jobs[j].state = "queued" /\ jobs[j].queue \in queues
    /\ \A i \in DOMAIN jobs :
         jobs[i].state = "queued" /\ jobs[i].queue = jobs[j].queue => j <= i
    /\ jobs' = [jobs EXCEPT ![j].state = "active"]
    /\ sender' = [sender EXCEPT ![s] = [IdleSender EXCEPT
         !.job = j,
         !.pc = IF jobs[j].processType = "whatsappTemplateGeneric"
                THEN "pending" ELSE "create"]]
    /\ UNCHANGED <<storeVars, twilio, unchangedBySender>>

TakeAnyJob_Wrong(s, j) == TakeJobOf(s, j, BulkQueues \cup {"reply"})

TakeJob(s, j) == TakeJobOf(s, j, {QueueOf[s]})

StorePendingMessage(s) ==
    /\ sender[s].pc = "pending"
    /\ pendingMessages' = Append(pendingMessages,
         [registration |-> JobOf(s).registration, body |-> JobOf(s).body,
          deleted |-> FALSE])
    /\ Goto(s, "create")
    /\ UNCHANGED <<jobs, twilioMessages, latestMessages, twilio, unchangedBySender>>

\* A template or a default reply does not say what the message is.
BodySent(s) ==
    IF JobOf(s).processType = "whatsappTemplateGeneric" THEN NoBody ELSE JobOf(s).body

\* Twilio accepts the message, or its answer is lost, or it refuses it.
CreateMessage(s) ==
    /\ sender[s].pc = "create"
    /\ \/ /\ twilio' = Append(twilio, [body |-> BodySent(s), fate |-> "open"])
          /\ \/ /\ sender' = [sender EXCEPT ![s].pc = "save", ![s].sid = Len(twilio')]
                /\ UNCHANGED faults
             \/ /\ faults < MaxFaults
                /\ faults' = faults + 1
                /\ Goto(s, "save")
       \/ /\ Goto(s, "save")
          /\ UNCHANGED <<twilio, faults>>
    /\ UNCHANGED <<messages, jobs, storeVars, incoming, resending, received>>

\* Only a failure is written to the row of the message that is sent again.
StoreSendMessage(s) ==
    LET existing == JobOf(s).existingMessageSid
    IN  /\ sender[s].pc = "save"
        /\ \/ /\ sender[s].sid = NoSid /\ existing # NoSid
              /\ twilioMessages' = [i \in DOMAIN twilioMessages |->
                   IF twilioMessages[i].sid = existing
                   THEN [twilioMessages[i] EXCEPT !.status = "failed", !.sid = NoSid]
                   ELSE twilioMessages[i]]
              /\ Goto(s, "throw")
           \/ /\ sender[s].sid # NoSid \/ existing = NoSid
              /\ twilioMessages' = Append(twilioMessages,
                   [registration |-> JobOf(s).registration, body |-> BodySent(s),
                    processType |-> JobOf(s).processType, sid |-> sender[s].sid,
                    status |-> IF sender[s].sid = NoSid THEN "failed" ELSE "sent",
                    retryCount |-> 0])
              /\ sender' = [sender EXCEPT ![s].pc = "latest",
                                          ![s].row = Len(twilioMessages')]
        /\ UNCHANGED <<jobs, pendingMessages, latestMessages, twilio,
                       unchangedBySender>>

\* Only processWhatsappPendingMessage has something left to do.
AfterStoring(s) ==
    IF sender[s].sid = NoSid THEN "throw"
    ELSE IF JobOf(s).processType = "whatsappPendingMessage" THEN "sent" ELSE "complete"

UpdateLatestMessageOr(s, none) ==
    LET r == JobOf(s).registration
    IN  /\ sender[s].pc = "latest"
        /\ \/ /\ latestMessages[r] # NoMessage
              /\ latestMessages' = [latestMessages EXCEPT ![r] = sender[s].row]
              /\ Goto(s, AfterStoring(s))
           \/ /\ latestMessages[r] = NoMessage
              /\ Goto(s, none)
              /\ UNCHANGED latestMessages
        /\ UNCHANGED <<jobs, pendingMessages, twilioMessages, twilio,
                       unchangedBySender>>

UpdateLatestMessageOnly_Wrong(s) == UpdateLatestMessageOr(s, AfterStoring(s))

UpdateLatestMessage(s) == UpdateLatestMessageOr(s, "insert")

\* Another sender may have inserted one since: the index is unique, and what is
\* thrown is caught as if Twilio had refused the message, which is stored again.
InsertLatestMessage(s) ==
    LET r == JobOf(s).registration
    IN  /\ sender[s].pc = "insert"
        /\ \/ /\ latestMessages[r] = NoMessage
              /\ latestMessages' = [latestMessages EXCEPT ![r] = sender[s].row]
              /\ Goto(s, AfterStoring(s))
           \/ /\ latestMessages[r] # NoMessage
              /\ sender' = [sender EXCEPT
                   ![s].sid = NoSid,
                   ![s].pc = IF sender[s].sid = NoSid THEN "throw" ELSE "save"]
              /\ UNCHANGED latestMessages
        /\ UNCHANGED <<jobs, pendingMessages, twilioMessages, twilio,
                       unchangedBySender>>

DeletePendingMessageAt(s, pcs) ==
    /\ sender[s].pc \in pcs
    /\ pendingMessages' = [p \in DOMAIN pendingMessages |->
         IF p = JobOf(s).pendingMessageId
         THEN [pendingMessages[p] EXCEPT !.deleted = TRUE]
         ELSE pendingMessages[p]]
    /\ Goto(s, "complete")
    /\ UNCHANGED <<jobs, twilioMessages, latestMessages, twilio, unchangedBySender>>

DeletePendingMessageFinally_Wrong(s) == DeletePendingMessageAt(s, {"sent", "throw"})

DeletePendingMessage(s) == DeletePendingMessageAt(s, {"sent"})

EndJob(s) ==
    /\ sender[s].pc \in {"complete", "throw"}
    /\ jobs' = [jobs EXCEPT ![sender[s].job].state =
         IF sender[s].pc = "complete" THEN "completed" ELSE "failed"]
    /\ sender' = [sender EXCEPT ![s] = IdleSender]
    /\ UNCHANGED <<storeVars, twilio, unchangedBySender>>

SenderStep(s) ==
    \/ \E j \in DOMAIN jobs : TakeJob(s, j)
    \/ StorePendingMessage(s)
    \/ CreateMessage(s)
    \/ StoreSendMessage(s)
    \/ UpdateLatestMessage(s)
    \/ InsertLatestMessage(s)
    \/ DeletePendingMessage(s)
    \/ EndJob(s)

-----------------------------------------------------------------------------
(* Messages of registrations.                                              *)

PendingOf(r) ==
    {p \in DOMAIN pendingMessages : /\ pendingMessages[p].registration = r
                                    /\ ~pendingMessages[p].deleted}

unchangedByIncoming == <<messages, storeVars, twilio, sender, resending, faults>>

ProcessIncomingWhatsapp(h, r) ==
    /\ ~incoming[h].busy
    /\ received < MaxIncoming
    /\ received' = received + 1
    /\ \/ /\ PendingOf(r) = {}
          /\ AddMessageJob("whatsappDefaultReply", r, NoBody, NoMessage, NoSid)
          /\ UNCHANGED incoming
       \/ /\ PendingOf(r) # {}
          /\ incoming' = [incoming EXCEPT ![h] =
               [busy |-> TRUE, registration |-> r, todo |-> PendingOf(r)]]
          /\ UNCHANGED jobs
    /\ UNCHANGED unchangedByIncoming

\* One by one, with two seconds between them, as they were read.
SendPendingWhatsappMessage(h, p) ==
    LET rest == incoming[h].todo \ {p}
    IN  /\ incoming[h].busy
        /\ p \in incoming[h].todo /\ \A q \in rest : p <= q
        /\ AddMessageJob("whatsappPendingMessage", incoming[h].registration,
                         pendingMessages[p].body, p, NoSid)
        /\ incoming' = [incoming EXCEPT ![h] =
             IF rest = {} THEN NotIncoming ELSE [@ EXCEPT !.todo = rest]]
        /\ UNCHANGED <<unchangedByIncoming, received>>

-----------------------------------------------------------------------------
(* Callbacks of Twilio, in any order and any number.                       *)

unchangedByCallback == <<messages, pendingMessages, latestMessages, twilio, sender,
                         incoming, received>>

Deliver(sid) ==
    /\ twilio[sid].fate = "open"
    /\ Cardinality({s \in DOMAIN twilio : twilio[s].fate # "open"}) < MaxFates
    /\ \E fate \in Fate : twilio' = [twilio EXCEPT ![sid].fate = fate]
    /\ UNCHANGED <<messages, jobs, storeVars, sender, incoming, resending, bounds>>

\* The statuses Twilio may report for a message.
Reported(sid) ==
    CASE twilio[sid].fate = "read"   -> {"sent", "read"}
      [] twilio[sid].fate = "failed" -> {"sent", "failed"}
      [] twilio[sid].fate = "faulty" -> {"undelivered", "failed"}
      [] OTHER -> {}

RowOf(sid) == {i \in DOMAIN twilioMessages : twilioMessages[i].sid = sid}

\* A free message refused for want of a template is to be sent again.
ToSendAgain(sid) ==
    {i \in RowOf(sid) : /\ twilio[sid].fate = "faulty"
                        /\ twilioMessages[i].processType # "sms"
                        /\ twilioMessages[i].processType # "whatsappTemplateGeneric"
                        /\ twilioMessages[i].retryCount < MaxRetryCount}

UpdateStatusUnless(sid, status, final) ==
    /\ status \in Reported(sid)
    /\ ToSendAgain(sid) = {}
    /\ twilioMessages' = [i \in DOMAIN twilioMessages |->
         IF /\ i \in RowOf(sid)
            /\ twilioMessages[i].processType # "sms" => twilioMessages[i].status \notin final
         THEN [twilioMessages[i] EXCEPT !.status = status]
         ELSE twilioMessages[i]]
    /\ UNCHANGED <<jobs, resending, faults, unchangedByCallback>>

UpdateAnyStatus_Wrong(sid, status) == UpdateStatusUnless(sid, status, {})

\* processWhatsappStatusCallback; processSmsStatusCallback has no guard.
UpdateStatus(sid, status) == UpdateStatusUnless(sid, status, {"read", "failed"})

\* Of the two callbacks that say so, only "undelivered" does anything.
FindFaultyMessage(h, sid) ==
    /\ resending[h].pc = "idle"
    /\ faults < MaxFaults
    /\ \E i \in ToSendAgain(sid) :
         resending' = [resending EXCEPT ![h] =
           [pc |-> "update", message |-> twilioMessages[i], id |-> i]]
    /\ faults' = faults + 1
    /\ UNCHANGED <<jobs, twilioMessages, unchangedByCallback>>

UpdateRetryCount(h) ==
    LET message == resending[h].message
    IN  /\ resending[h].pc = "update"
        /\ twilioMessages' = [i \in DOMAIN twilioMessages |->
             IF i \in RowOf(message.sid)
             THEN [twilioMessages[i] EXCEPT !.retryCount = message.retryCount + 1]
             ELSE twilioMessages[i]]
        /\ resending' = [resending EXCEPT ![h].pc = "wait"]
        /\ UNCHANGED <<jobs, faults, unchangedByCallback>>

\* After thirty seconds.  The pendingMessageId is the id of the twilio_message.
HandleFaultyTemplateError(h) ==
    LET message == resending[h].message
    IN  /\ resending[h].pc = "wait"
        /\ AddMessageJob(message.processType, message.registration, message.body,
                         resending[h].id, message.sid)
        /\ resending' = [resending EXCEPT ![h] = NotResending]
        /\ UNCHANGED <<twilioMessages, faults, unchangedByCallback>>

HandlerStep(h) ==
    \/ \E r \in WithWhatsapp : ProcessIncomingWhatsapp(h, r)
    \/ \E p \in incoming[h].todo : SendPendingWhatsappMessage(h, p)
    \/ \E sid \in DOMAIN twilio : FindFaultyMessage(h, sid)
    \/ UpdateRetryCount(h)
    \/ HandleFaultyTemplateError(h)

-----------------------------------------------------------------------------
Crash ==
    /\ faults < MaxFaults
    /\ faults' = faults + 1
    /\ jobs' = [j \in DOMAIN jobs |->
         IF jobs[j].state = "active" THEN [jobs[j] EXCEPT !.state = "stalled"]
                                     ELSE jobs[j]]
    /\ sender' = [s \in Senders |-> IdleSender]
    /\ incoming' = [h \in Handlers |-> NotIncoming]
    /\ resending' = [h \in Handlers |-> NotResending]
    /\ UNCHANGED <<messages, storeVars, twilio, received>>

RecoverStalledJob(j) ==
    /\ jobs[j].state = "stalled"
    /\ jobs' = [jobs EXCEPT
         ![j].stalls = @ + 1,
         ![j].state = IF jobs[j].stalls < MaxStalls THEN "queued" ELSE "failed"]
    /\ UNCHANGED <<messages, storeVars, twilio, sender, incoming, resending, bounds>>

Next ==
    \/ \E r \in Registrations : SendMessage(r)
    \/ \E s \in Senders : SenderStep(s)
    \/ \E h \in Handlers : HandlerStep(h)
    \/ \E sid \in DOMAIN twilio : Deliver(sid)
    \/ \E sid \in DOMAIN twilio : \E status \in TwilioStatus : UpdateStatus(sid, status)
    \/ Crash
    \/ \E j \in DOMAIN jobs : RecoverStalledJob(j)

Spec == Init /\ [][Next]_vars

-----------------------------------------------------------------------------
(* Properties.                                                             *)

Unfinished(j) == jobs[j].state \in {"queued", "active", "stalled"}

\* The job is still to be done, or Bull has given it up.
HasJob(m) ==
    \E j \in DOMAIN jobs :
        jobs[j].body = m /\ (Unfinished(j) \/ jobs[j].stalls > MaxStalls)

\* A message sent again takes an unrelated pending message with it, whose id is
\* that of the row of the message.
TakenForAnother(p) ==
    \E j \in DOMAIN jobs :
        jobs[j].existingMessageSid # NoSid /\ jobs[j].pendingMessageId = p

IsPending(m) ==
    \E p \in DOMAIN pendingMessages :
        /\ pendingMessages[p].body = m
        /\ ~pendingMessages[p].deleted \/ TakenForAnother(p)

\* A message of a user is still to be sent, waits for an answer, or was accepted
\* by Twilio; an SMS may also have failed.  Whatever fails, crashes or is sent
\* twice, none gets lost (message.service.ts:147-169, 260-311).
NoMessageIsLost ==
    \A m \in DOMAIN messages :
        \/ HasJob(m)
        \/ IsPending(m)
        \/ \E sid \in DOMAIN twilio : twilio[sid].body = m
        \/ /\ messages[m] \notin WithWhatsapp
           /\ \E i \in DOMAIN twilioMessages : twilioMessages[i].body = m

\* However late or often a callback comes, a WhatsApp message that was read or
\* has failed stays so, also when it is sent again
\* (message-incoming.service.ts:181-191, whatsapp.service.ts:140-151).
FinalStatusIsKept ==
    [][\A i \in DOMAIN twilioMessages :
         /\ twilioMessages[i].processType # "sms"
         /\ twilioMessages[i].status \in {"read", "failed"}
         => twilioMessages'[i].status = twilioMessages[i].status]_vars

\* Two senders may store the first messages of a registration at once, and one
\* of them fails to say which is the latest.  But once nobody is storing one, a
\* registration with messages has a latest one, of its own
\* (last-message-status.service.ts:14-39).
LatestMessageIsKnown ==
    \A r \in Registrations :
        LET own == {i \in DOMAIN twilioMessages : twilioMessages[i].registration = r}
            storing == \E j \in DOMAIN jobs :
                /\ jobs[j].registration = r
                /\ Unfinished(j) \/ jobs[j].stalls > MaxStalls
        IN  own = {} \/ storing \/ latestMessages[r] \in own
=============================================================================
