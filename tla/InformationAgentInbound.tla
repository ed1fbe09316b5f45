----------------------- MODULE InformationAgentInbound -----------------------
(***************************************************************************)
(* Replies of professionals to the requests of the information agent: the  *)
(* webhook of Resend that files a reply under its case and queues it, and  *)
(* the worker that claims the jobs, reads each reply again and proposes    *)
(* what it found (information-agent-inbound.ts and the modules beside it); *)
(* the claim and the triggers that refuse the writes of a worker that lost *)
(* its lease (information_agent_inbound_lease_fencing), and those that     *)
(* keep candidates off a closed case.                                      *)
(*                                                                         *)
(* The replies belong to one case.  A webhook and a worker run the same    *)
(* code, ingestReceivedEmail, the worker with a lease and the webhook      *)
(* without: both are actors.  A lease is the attempt that it was given     *)
(* for, since each claim counts one and draws a new lease.                 *)
(***************************************************************************)
EXTENDS Naturals, FiniteSets

CONSTANTS
    Emails,        \* replies
    Deliveries,    \* executions of the webhook
    Workers,       \* executions of the queue
    MaxAttempts,   \* attempts of a job: 10
    Stories        \* what a behaviour is about

Actors == Deliveries \cup Workers

\* What a reply turns out to be: something to read, an automatic reply, an opposition, a wrong
\* recipient, or something that only a person should read.
Kinds == {"answer", "auto", "optout", "wrong", "doubt"}

\* A story: the replies that arrive, what the webhook takes them for, and the worker, to whom the
\* provider may give more; whether a worker may stall beyond its lease; how many things fail, and
\* how often others change the case or the mission.
ASSUME StoryAssumption ==
    /\ MaxAttempts \in Nat \ {0} /\ Deliveries \cap Workers = {}
    /\ Stories \subseteq [emails : SUBSET Emails, hook : Kinds, job : Kinds, stall : BOOLEAN,
                          faults : Nat, changes : Nat]

VARIABLES
    story,       \* one of Stories, drawn once
    case,        \* status of the case: sent, review or closed
    message,     \* of each reply: inbound_processing, its status and its lease
    job,         \* information_agent_inbound_jobs
    found,       \* of each reply: evidence assets, and the status of its candidates
    replied,     \* the mission has been told
    opposed,     \* information_agent_contacts: the sender opposes
    pilot,       \* the autopilot: identity excluded, event logged, autopilot stopped
    actor,       \* the executions
    held,        \* the jobs that each worker claimed and has not begun
    fresh,       \* the actors whose copy of the case is the current one; the workers, of the mission
    acked,       \* the replies whose delivery Resend saw answered
    faults, changes

replies == <<message, job, found>>
effects == <<replied, opposed, pilot>>
vars == <<story, case, replies, effects, actor, held, fresh, acked, faults, changes>>

Terminal == {"completed", "review", "ignored"}
MessageStatuses == Terminal \cup {"absent", "queued", "processing", "failed"}
JobStatuses == Terminal \cup {"none", "queued", "processing", "failed"}

Idle == [step |-> "idle", email |-> 0, lease |-> 0, dup |-> FALSE, seen |-> "absent", result |-> "queued"]
NoMessage == [status |-> "absent", lease |-> 0]
NoJob == [status |-> "none", attempts |-> 0, due |-> FALSE, old |-> FALSE]

Init ==
    /\ story \in Stories
    /\ case = "sent"
    /\ message = [m \in Emails |-> NoMessage]
    /\ job = [m \in Emails |-> NoJob]
    /\ found = [m \in Emails |-> [assets |-> FALSE, candidates |-> "none"]]
    /\ replied = FALSE /\ opposed = FALSE
    /\ pilot = [excluded |-> FALSE, logged |-> FALSE, stopped |-> FALSE]
    /\ actor = [a \in Actors |-> Idle]
    /\ held = [w \in Workers |-> {}]
    /\ fresh = [case |-> {}, mission |-> {}]
    /\ acked = {}
    /\ faults = 0 /\ changes = 0

Open == case # "closed"
Kind(a) == IF a \in Workers THEN story.job ELSE story.hook
Faulty == faults < story.faults /\ faults' = faults + 1
NoFault == UNCHANGED faults

At(a, step) == actor[a].step = step
To(a, step) == actor' = [actor EXCEPT ![a].step = step]

\* The job is in the hands of this lease; so is the message.
Holds(a) ==
    LET j == job[actor[a].email] IN j.status = "processing" /\ j.attempts = actor[a].lease
Marked(a) == message[actor[a].email].lease = actor[a].lease
Fenced(a) == Holds(a) /\ Marked(a)

\* A webhook that fails answers 500.  A worker fails its job; from within its try block it first
\* writes that the message failed.
InTry == {"assets", "recheck", "dismiss", "facts", "body", "reply", "mission", "final", "giveup"}
Throws(a) ==
    IF a \in Deliveries THEN actor' = [actor EXCEPT ![a] = Idle]
    ELSE To(a, IF actor[a].step \in InTry THEN "catch" ELSE "fail")

\* InformationAgentInboundLeaseLostError
LeaseLost(a) == IF a \in Deliveries THEN Throws(a) ELSE To(a, "fail")

\* A call that had its effect, and whose answer may be lost.
Then(a, step) ==
    \/ NoFault /\ To(a, step)
    \/ Faulty /\ Throws(a)

\* The worker settles its job with the result; the webhook answers 2xx.
Return(a, result) ==
    \/ /\ NoFault
       /\ IF a \in Deliveries
          THEN actor' = [actor EXCEPT ![a] = Idle] /\ acked' = acked \cup {actor[a].email}
          ELSE /\ actor' = [actor EXCEPT ![a].step = "settle", ![a].result = result]
               /\ UNCHANGED acked
    \/ Faulty /\ Throws(a) /\ UNCHANGED acked

\* What a worker that holds its lease renews at each of its steps.
Renewed(a) ==
    IF a \in Workers /\ Holds(a) THEN job' = [job EXCEPT ![actor[a].email].old = FALSE]
    ELSE UNCHANGED job

-----------------------------------------------------------------------------
\* The two writes of the message and of the case

\* updateInboundProcessingState: with a lease, while the message carries it; without, whatever the
\* message has become since it was read.
Write(a, status) ==
    message' = [message EXCEPT ![actor[a].email] = [status |-> status, lease |-> actor[a].lease]]
MayWrite(a) == a \in Workers => Marked(a)

\* updateOpenInformationAgentCase and updateInboundReplyCase, whose evidence is never empty.
\* Nothing matches once the case has changed since it was read; what matches is fenced.
Matches(a) == Open /\ a \in fresh.case
Refused(a) == a \in Workers /\ ~ Fenced(a)
UpdateCase ==
    case' = "review" /\ fresh' = [fresh EXCEPT !.case = {}]

-----------------------------------------------------------------------------
\* ingestReceivedEmail, by the webhook and by the worker

\* Resend delivers a reply until it is answered, at times once more.
Deliver(d, m) ==
    /\ At(d, "idle")
    /\ m \in story.emails \ acked
    /\ IF \E e \in Deliveries : ~ At(e, "idle") /\ actor[e].email = m THEN Faulty ELSE NoFault
    /\ actor' = [actor EXCEPT ![d] = [Idle EXCEPT !.step = "read", !.email = m]]
    /\ UNCHANGED <<story, case, replies, effects, held, fresh, acked, changes>>

\* The case and its mission are read.  Without an open case the reply is kept apart, and an
\* opposition counts all the same.
Read(a) ==
    /\ At(a, "read")
    /\ IF Open
       THEN /\ Then(a, "load")
            /\ fresh' = [case |-> fresh.case \cup {a}, mission |-> fresh.mission \cup ({a} \cap Workers)]
            /\ UNCHANGED <<opposed, acked>>
       ELSE /\ opposed' = (opposed \/ Kind(a) = "optout")
            /\ Return(a, "ignored")
            /\ UNCHANGED fresh
    /\ UNCHANGED <<story, case, replies, replied, pilot, held, changes>>

\* insertOrLoadInboundMessage: what was received before is not done twice, and what a worker holds
\* is left to it.
Receive(d) ==
    LET me == actor[d]
        now == message[me.email]
    IN /\ d \in Deliveries /\ At(d, "load")
       /\ IF now.status = "absent"
          THEN /\ message' = [message EXCEPT ![me.email].status = "queued"]
               /\ Then(d, "check")
               /\ UNCHANGED acked
          ELSE /\ UNCHANGED message
               /\ IF now.status \in Terminal \/ now.lease # 0 THEN Return(d, "queued")
                  ELSE /\ NoFault /\ actor' = [actor EXCEPT ![d].step = "check", ![d].dup = TRUE]
                       /\ UNCHANGED acked
       /\ UNCHANGED <<story, case, job, found, effects, held, fresh, changes>>

Load(w) ==
    LET status == message[actor[w].email].status
    IN /\ w \in Workers /\ At(w, "load")
       /\ IF ~ Fenced(w) THEN NoFault /\ LeaseLost(w)
          ELSE IF status \in Terminal THEN Return(w, status)
          ELSE Then(w, "start")
       /\ Renewed(w)
       /\ UNCHANGED <<story, case, message, found, effects, held, fresh, acked, changes>>

Start(w) ==
    /\ At(w, "start")
    /\ IF Fenced(w) THEN Write(w, "processing") /\ Then(w, "check")
       ELSE NoFault /\ LeaseLost(w) /\ UNCHANGED message
    /\ Renewed(w)
    /\ UNCHANGED <<story, case, found, effects, held, fresh, acked, changes>>

\* What comes first for each kind of reply.  A reply to read is queued by the webhook, once.
First(a) ==
    CASE Kind(a) = "auto" -> "ignore"
      [] Kind(a) = "optout" -> "oppose"
      [] Kind(a) = "wrong" -> "known"
      [] Kind(a) = "doubt" -> "update"
      [] Kind(a) = "answer" ->
            IF a \in Workers THEN "assets" ELSE IF actor[a].dup THEN "enqueue" ELSE "queue"

Sees(d) == actor' = [actor EXCEPT ![d].step = "note", ![d].seen = message[actor[d].email].status]

\* ignoreIfCaseClosed: of a closed case the message is read and written back.  That of a worker is
\* fenced, and changes nothing; a webhook writes what it has seen, whatever was written since.
Check(a) ==
    /\ At(a, "check")
    /\ IF (a \in Workers /\ ~ Holds(a)) \/ (~ Open /\ ~ Marked(a)) THEN NoFault /\ LeaseLost(a)
       ELSE IF Open THEN Then(a, First(a))
       ELSE IF a \in Workers THEN Then(a, "ignore")
       ELSE NoFault /\ Sees(a)
    /\ Renewed(a)
    /\ UNCHANGED <<story, case, message, found, effects, held, fresh, acked, changes>>

\* (mutant) a closed case is closed for oppositions too.
NoteSilent(d) ==
    /\ At(d, "note")
    /\ Write(d, actor[d].seen)
    /\ Then(d, "ignore")
    /\ UNCHANGED <<story, case, job, found, effects, held, fresh, acked, changes>>

\* An opposition is recorded even so.
Note(d) ==
    /\ At(d, "note")
    /\ Write(d, actor[d].seen)
    /\ Then(d, IF Kind(d) = "optout" THEN "closed" ELSE "ignore")
    /\ UNCHANGED <<story, case, job, found, effects, held, fresh, acked, changes>>

\* recordInboundContactOptOut; a case that is open is then put in review.
Oppose(a) ==
    /\ actor[a].step \in {"oppose", "closed"}
    /\ opposed' = TRUE
    /\ Then(a, IF At(a, "closed") THEN "ignore" ELSE "update")
    /\ UNCHANGED <<story, case, replies, replied, pilot, held, fresh, acked, changes>>

\* applyWrongRecipient: unless the case has its event already, the identity is excluded, the event
\* logged, and the autopilot, which had sent the request, stopped.
Known(a) ==
    /\ At(a, "known")
    /\ Then(a, IF pilot.logged THEN "update" ELSE "exclude")
    /\ UNCHANGED <<story, case, replies, effects, held, fresh, acked, changes>>

ApplyWrongRecipient(a, step, done, next) ==
    /\ At(a, step)
    /\ pilot' = done
    /\ Then(a, next)
    /\ UNCHANGED <<story, case, replies, replied, opposed, held, fresh, acked, changes>>

Exclude(a) == ApplyWrongRecipient(a, "exclude", [pilot EXCEPT !.excluded = TRUE], "log")
Log(a) == ApplyWrongRecipient(a, "log", [pilot EXCEPT !.logged = TRUE], "stop")
Stop(a) == ApplyWrongRecipient(a, "stop", [pilot EXCEPT !.stopped = TRUE], "update")

Update(a) ==
    /\ At(a, "update")
    /\ IF Matches(a)
       THEN IF Refused(a) THEN NoFault /\ Throws(a) /\ UNCHANGED <<case, fresh>>
            ELSE UpdateCase /\ Then(a, "review")
       ELSE Then(a, "review") /\ UNCHANGED <<case, fresh>>
    /\ Renewed(a)
    /\ UNCHANGED <<story, message, found, effects, held, acked, changes>>

\* The last write of what is ignored, put in review, or given up because the case has changed.
End(a) ==
    LET status == IF actor[a].step \in {"ignore", "dismiss"} THEN "ignored" ELSE "review"
    IN /\ actor[a].step \in {"ignore", "dismiss", "review", "giveup", "final"}
       /\ IF MayWrite(a) THEN Write(a, status) /\ Return(a, status)
          ELSE NoFault /\ LeaseLost(a) /\ UNCHANGED <<message, acked>>
       /\ Renewed(a)
       /\ UNCHANGED <<story, case, found, effects, held, fresh, changes>>

\* The webhook queues what is to be read: the message, then its job, of which there is one.
Queue(d) ==
    /\ At(d, "queue")
    /\ Write(d, "queued")
    /\ Then(d, "enqueue")
    /\ UNCHANGED <<story, case, job, found, effects, held, fresh, acked, changes>>

\* (mutant) only the first delivery of a reply makes its job.
EnqueueOnce(d) ==
    /\ At(d, "enqueue")
    /\ IF job[actor[d].email].status = "none" /\ ~ actor[d].dup
       THEN job' = [job EXCEPT ![actor[d].email] = [NoJob EXCEPT !.status = "queued", !.due = TRUE]]
       ELSE UNCHANGED job
    /\ Return(d, "queued")
    /\ UNCHANGED <<story, case, message, found, effects, held, fresh, changes>>

Enqueue(d) ==
    /\ At(d, "enqueue")
    /\ IF job[actor[d].email].status = "none"
       THEN job' = [job EXCEPT ![actor[d].email] = [NoJob EXCEPT !.status = "queued", !.due = TRUE]]
       ELSE UNCHANGED job
    /\ Return(d, "queued")
    /\ UNCHANGED <<story, case, message, found, effects, held, fresh, changes>>

-----------------------------------------------------------------------------
\* The rest of ingestReceivedEmail, by the worker alone

\* (mutant) a write that carries a lease is accepted.
AdmittedAlways(w) == actor[w].lease # 0

\* enforce_information_agent_inbound_write_lease refuses what carries another lease.
Admitted(w) == Fenced(w)

Insert(w, step, things, next) ==
    /\ At(w, step)
    /\ IF Admitted(w)
       THEN found' = [found EXCEPT ![actor[w].email] = things] /\ Then(w, next)
       ELSE NoFault /\ Throws(w) /\ UNCHANGED found
    /\ Renewed(w)
    /\ UNCHANGED <<story, case, message, effects, held, fresh, acked, changes>>

\* storeInboundAttachments
Assets(w) == Insert(w, "assets", [found[actor[w].email] EXCEPT !.assets = TRUE], "recheck")

Recheck(w) ==
    /\ At(w, "recheck")
    /\ IF ~ Holds(w) \/ (~ Open /\ ~ Marked(w)) THEN NoFault /\ LeaseLost(w)
       ELSE Then(w, IF Open THEN "facts" ELSE "dismiss")
    /\ Renewed(w)
    /\ UNCHANGED <<story, case, message, found, effects, held, fresh, acked, changes>>

\* guard_information_agent_fact_associations: a closed case takes no candidate.
Accepting == Open

\* persistFactCandidates: those that exist already stay as they are.
Facts(w) ==
    LET mine == found[actor[w].email]
    IN IF Accepting
       THEN Insert(w, "facts", [mine EXCEPT !.candidates = IF @ = "none" THEN "pending" ELSE @],
                   "body")
       ELSE /\ At(w, "facts")
            /\ NoFault /\ Throws(w) /\ Renewed(w)
            /\ UNCHANGED <<story, case, message, found, effects, held, fresh, acked, changes>>

\* persistInboundBodyEvidence
Body(w) == Insert(w, "body", [found[actor[w].email] EXCEPT !.assets = TRUE], "reply")

\* updateInboundReplyCase
Reply(w) ==
    /\ At(w, "reply")
    /\ IF Matches(w)
       THEN IF Refused(w) THEN NoFault /\ Throws(w) /\ UNCHANGED <<case, fresh>>
            ELSE UpdateCase /\ Then(w, "mission")
       ELSE Then(w, "giveup") /\ UNCHANGED <<case, fresh>>
    /\ Renewed(w)
    /\ UNCHANGED <<story, message, found, effects, held, acked, changes>>

\* The mission is told, unless it has changed since it was read: then the job is tried again.
Mission(w) ==
    /\ At(w, "mission")
    /\ IF w \in fresh.mission /\ Admitted(w)
       THEN replied' = TRUE /\ fresh' = [fresh EXCEPT !.mission = {}] /\ Then(w, "final")
       ELSE NoFault /\ LeaseLost(w) /\ UNCHANGED <<replied, fresh>>
    /\ Renewed(w)
    /\ UNCHANGED <<story, case, message, found, opposed, pilot, held, acked, changes>>

-----------------------------------------------------------------------------
\* The queue: runInformationAgentInboundQueue

\* claim_information_agent_inbound_jobs: jobs whose attempts are used up end in review, and those
\* that are due, or that their worker left for ten minutes, are claimed with their messages.
Exhausted == {m \in Emails : job[m].status = "processing" /\ job[m].attempts = MaxAttempts /\ job[m].old}
Waiting(m) == job[m].status \in {"queued", "failed"} /\ job[m].due
Abandoned(m) == job[m].status = "processing" /\ job[m].old

\* (mutant) a job that its worker left is not taken up again.
ClaimableWaiting == {m \in Emails : job[m].attempts < MaxAttempts /\ Waiting(m)}

\* (mutant) the attempts are not limited.
ClaimableForEver == {m \in Emails : Waiting(m) \/ Abandoned(m)}

Claimable ==
    {m \in Emails : job[m].attempts < MaxAttempts /\ (Waiting(m) \/ Abandoned(m))}

Claim(w) ==
    /\ At(w, "idle")
    /\ Exhausted # {} \/ Claimable # {}
    /\ job' = [m \in Emails |->
            IF m \in Claimable
            THEN [status |-> "processing", attempts |-> job[m].attempts + 1, due |-> FALSE, old |-> FALSE]
            ELSE IF m \in Exhausted THEN [job[m] EXCEPT !.status = "review", !.old = FALSE]
            ELSE job[m]]
    /\ message' = [m \in Emails |->
            IF m \in Claimable THEN [message[m] EXCEPT !.lease = job[m].attempts + 1]
            ELSE IF m \in Exhausted THEN [status |-> "review", lease |-> 0]
            ELSE message[m]]
    /\ held' = [held EXCEPT ![w] = {[email |-> m, lease |-> job[m].attempts + 1] : m \in Claimable}]
    /\ To(w, IF Claimable = {} THEN "idle" ELSE "take")
    /\ NoFault
    /\ UNCHANGED <<story, case, found, effects, fresh, acked, changes>>

NextJob(w) == actor' = [actor EXCEPT ![w] = [Idle EXCEPT !.step = IF held[w] = {} THEN "idle" ELSE "take"]]

\* One claimed job after the other: a job that was lost meanwhile is passed over.
Take(w) ==
    /\ At(w, "take")
    /\ \E h \in held[w] :
        /\ held' = [held EXCEPT ![w] = @ \ {h}]
        /\ IF job[h.email].status = "processing" /\ job[h.email].attempts = h.lease
           THEN /\ actor' = [actor EXCEPT ![w] =
                        [Idle EXCEPT !.step = "gate", !.email = h.email, !.lease = h.lease]]
                /\ job' = [job EXCEPT ![h.email].old = FALSE]
           ELSE /\ actor' = [actor EXCEPT ![w] =
                        [Idle EXCEPT !.step = IF held[w] = {h} THEN "idle" ELSE "take"]]
                /\ UNCHANGED job
    /\ NoFault
    /\ UNCHANGED <<story, case, message, found, effects, fresh, acked, changes>>

\* The job of a closed case is retired with its message: markInboundMessageIgnored.
Gate(w) ==
    /\ At(w, "gate")
    /\ Then(w, IF Open THEN "read" ELSE "ignore")
    /\ UNCHANGED <<story, case, replies, effects, held, fresh, acked, changes>>

\* settleInformationAgentInboundJob and failInformationAgentInboundJob: the message is released,
\* then its job.
Release(w) ==
    /\ actor[w].step \in {"settle", "fail"}
    /\ IF Marked(w)
       THEN /\ message' = [message EXCEPT ![actor[w].email].lease = 0]
            /\ \/ NoFault /\ To(w, IF At(w, "settle") THEN "close" ELSE "drop")
               \/ Faulty /\ (IF At(w, "settle") THEN To(w, "fail") ELSE NextJob(w))
       ELSE NoFault /\ NextJob(w) /\ UNCHANGED message
    /\ UNCHANGED <<story, case, job, found, effects, held, fresh, acked, changes>>

\* The last attempt ends in review.
Outcome(w) ==
    IF At(w, "close") THEN actor[w].result
    ELSE IF actor[w].lease >= MaxAttempts THEN "review" ELSE "failed"

Close(w) ==
    /\ actor[w].step \in {"close", "drop"}
    /\ IF Holds(w) THEN job' = [job EXCEPT ![actor[w].email].status = Outcome(w), ![actor[w].email].old = FALSE]
       ELSE UNCHANGED job
    /\ NextJob(w)
    /\ NoFault
    /\ UNCHANGED <<story, case, message, found, effects, held, fresh, acked, changes>>

\* The catch block
Catch(w) ==
    /\ At(w, "catch")
    /\ IF Marked(w) THEN Write(w, "failed") ELSE UNCHANGED message
    /\ To(w, "fail")
    /\ NoFault
    /\ UNCHANGED <<story, case, job, found, effects, held, fresh, acked, changes>>

-----------------------------------------------------------------------------
\* What fails, what others do, and time

\* A call fails before it had any effect.
Error(a) ==
    /\ actor[a].step \notin {"idle", "take"} /\ Faulty
    /\ IF actor[a].step \in {"fail", "drop"} THEN NextJob(a)
       ELSE IF At(a, "catch") THEN To(a, "fail") ELSE Throws(a)
    /\ UNCHANGED <<story, case, replies, effects, held, fresh, acked, changes>>

\* The execution is lost.
Die(a) ==
    /\ ~ At(a, "idle") /\ Faulty
    /\ actor' = [actor EXCEPT ![a] = Idle]
    /\ held' = IF a \in Workers THEN [held EXCEPT ![a] = {}] ELSE held
    /\ UNCHANGED <<story, case, replies, effects, fresh, acked, changes>>

\* (mutant) what waits for a review stays when the case is closed.
RejectedNever == found

\* reject_information_agent_candidates_on_case_close
Rejected ==
    [m \in Emails |-> IF found[m].candidates = "pending" THEN [found[m] EXCEPT !.candidates = "rejected"]
                      ELSE found[m]]

\* Others close the case, put it in review, or mark a bounce on it or on the mission.
Change ==
    /\ changes < story.changes /\ changes' = changes + 1
    /\ \/ case' = "closed" /\ found' = Rejected /\ fresh' = [fresh EXCEPT !.case = {}]
       \/ Open /\ case' = "review" /\ fresh' = [fresh EXCEPT !.case = {}] /\ UNCHANGED found
       \/ fresh' = [fresh EXCEPT !.case = {}] /\ UNCHANGED <<case, found>>
       \/ fresh' = [fresh EXCEPT !.mission = {}] /\ UNCHANGED <<case, found>>
    /\ UNCHANGED <<story, message, job, effects, actor, held, acked, faults>>

\* Ten minutes pass since the lease of a job was renewed: its worker is lost, or stalls.
Old(m) ==
    /\ job[m].status = "processing" /\ ~ job[m].old
    /\ \/ story.stall
       \/ \A w \in Workers :
            /\ ~ (actor[w].email = m /\ actor[w].lease = job[m].attempts)
            /\ [email |-> m, lease |-> job[m].attempts] \notin held[w]
    /\ job' = [job EXCEPT ![m].old = TRUE]
    /\ UNCHANGED <<story, case, message, found, effects, actor, held, fresh, acked, faults, changes>>

\* The backoff of a failed job ends.
Due(m) ==
    /\ job[m].status = "failed" /\ ~ job[m].due
    /\ job' = [job EXCEPT ![m].due = TRUE]
    /\ UNCHANGED <<story, case, message, found, effects, actor, held, fresh, acked, faults, changes>>

Ingest(a) ==
    \/ Read(a) \/ Check(a) \/ Oppose(a) \/ Known(a) \/ Exclude(a) \/ Log(a) \/ Stop(a)
    \/ Update(a) \/ End(a)

Serve(d) == Receive(d) \/ Note(d) \/ Queue(d) \/ Enqueue(d) \/ Ingest(d)

Work(w) ==
    \/ Take(w) \/ Gate(w) \/ Load(w) \/ Start(w) \/ Assets(w) \/ Recheck(w) \/ Facts(w) \/ Body(w)
    \/ Reply(w) \/ Mission(w) \/ Release(w) \/ Close(w) \/ Catch(w) \/ Ingest(w)

Next ==
    \/ \E d \in Deliveries : Serve(d) \/ (\E m \in Emails : Deliver(d, m))
    \/ \E w \in Workers : Claim(w) \/ Work(w)
    \/ \E a \in Actors : Error(a) \/ Die(a)
    \/ \E m \in Emails : Old(m) \/ Due(m)
    \/ Change

Spec == Init /\ [][Next]_vars

\* Executions run, Resend delivers until it is answered, the cron calls the queue, time passes.
Fairness ==
    /\ \A d \in Deliveries : WF_vars(Serve(d))
    /\ \A w \in Workers : WF_vars(Work(w))
    /\ \A m \in Emails :
        /\ WF_vars(\E d \in Deliveries : Deliver(d, m))
        /\ WF_vars(Old(m)) /\ WF_vars(Due(m))
    /\ WF_vars(\E w \in Workers : Claim(w))

FairSpec == Spec /\ Fairness

-----------------------------------------------------------------------------
Steps ==
    {"idle", "read", "load", "start", "check", "note", "ignore", "oppose", "closed", "known", "exclude",
     "log", "stop", "update", "review", "queue", "enqueue", "take", "gate", "settle", "close", "fail", "drop",
     "catch"} \cup InTry

ActorStates ==
    [step : Steps, email : Emails \cup {0}, lease : 0 .. MaxAttempts, dup : BOOLEAN,
     seen : MessageStatuses, result : Terminal \cup {"queued"}]

RepliesTyped ==
    /\ message \in [Emails -> [status : MessageStatuses, lease : 0 .. MaxAttempts]]
    /\ job \in [Emails -> [status : JobStatuses, attempts : 0 .. MaxAttempts, due : BOOLEAN, old : BOOLEAN]]
    /\ \A m \in Emails :
        /\ message[m].lease \in {0, job[m].attempts}
        /\ job[m].status = "none" => job[m].attempts = 0

ActorsTyped ==
    /\ actor \in [Actors -> ActorStates]
    /\ \A a \in Actors : actor[a].step \notin {"idle", "take"} => actor[a].email \in Emails
    /\ \A d \in Deliveries : actor[d].lease = 0

EffectsTyped ==
    /\ found \in [Emails -> [assets : BOOLEAN, candidates : {"none", "pending", "rejected"}]]
    /\ replied \in BOOLEAN /\ opposed \in BOOLEAN
    /\ pilot \in [excluded : BOOLEAN, logged : BOOLEAN, stopped : BOOLEAN]

\* Types; the attempts never exceed those of the table, the lease of a message is one that the
\* latest claim of its job has given, and only an execution that works has a reply.
TypeOK ==
    /\ story \in Stories /\ case \in {"sent", "review", "closed"}
    /\ RepliesTyped /\ ActorsTyped /\ EffectsTyped
    /\ held \in [Workers -> SUBSET [email : Emails, lease : 0 .. MaxAttempts]]
    /\ fresh \in [case : SUBSET Actors, mission : SUBSET Actors]
    /\ acked \subseteq Emails /\ faults \in Nat /\ changes \in Nat

\* A closed case has no candidate that waits for a review, whatever worker was about to add one.
ClosedHasNoPending == ~ Open => \A m \in Emails : found[m].candidates # "pending"

\* An opposition that Resend saw answered is recorded, whether the case was open, closed, or closed
\* while the webhook ran, and whatever failed on the way.
OppositionHonoured == story.hook = "optout" /\ acked # {} => opposed

\* How a reply may end while its case is open: a person reads it, or it was an automatic one.
Ended(status) == status = "review" \/ (status = "ignored" /\ "auto" \in {story.hook, story.job})

\* A reply whose delivery was answered is not lost, whatever was repeated, late or failed: while its
\* case is open it has ended, itself or by its job, or its job is still to be settled.
NothingLost ==
    \A m \in acked :
        Open /\ message[m].status # "absent" =>
            \/ Ended(message[m].status) \/ Ended(job[m].status)
            \/ job[m].status \in {"queued", "processing", "failed"}

\* Once a job is settled, by another worker or for want of attempts, no step of a worker that still
\* works on its reply adds to what was found in it, or changes the message, the case or the mission.
SettledIsFinal ==
    [][\A m \in Emails : job[m].status \in Terminal =>
            /\ found'[m].assets = found[m].assets
            /\ found'[m].candidates = "pending" => found[m].candidates = "pending"
            /\ \A w \in Workers :
                actor[w].step \notin {"idle", "take"} /\ actor[w].email = m /\ actor'[w] # actor[w] =>
                    message'[m] = message[m] /\ UNCHANGED <<case, replied>>]_vars

\* A job is settled in the end, whoever fails, dies, stalls or erases the lease of its message.
JobEnds == \A m \in Emails : job[m].status # "none" ~> job[m].status \in Terminal

\* docs/runbooks/information-agent.md:61: a reply that says that it is the wrong recipient stops the
\* autopilot that had written to it; here, once the reply is answered and in review.
WrongRecipientStops ==
    story.hook = "wrong" /\ (\E m \in acked : message[m].status = "review") => pilot.stopped
=============================================================================
