-------------------- MODULE InformationAgentInboundProofs --------------------
(***************************************************************************)
(* Proofs about InformationAgentInbound, for any replies, webhooks,        *)
(* workers, attempts and stories.                                          *)
(***************************************************************************)
EXTENDS InformationAgentInbound, TLAPS

-----------------------------------------------------------------------------
\* Typing: where an execution goes next

LEMMA Bounds == MaxAttempts \in Nat \ {0} /\ 0 \in 0 .. MaxAttempts
  BY StoryAssumption

Results == Terminal \cup {"queued"}

LEMMA IdleTyped ==
  ASSUME NEW st \in {"idle", "take"}
  PROVE  [Idle EXCEPT !.step = st] \in ActorStates /\ Idle \in ActorStates
  BY Bounds DEF ActorStates, Idle, Steps, MessageStatuses

\* An execution that works may go to any step; one that does not, to its end or to its next job.
LEMMA ToTyped ==
  ASSUME ActorsTyped, NEW a \in Actors, NEW st \in Steps, To(a, st),
         actor[a].step \notin {"idle", "take"} \/ st \in {"idle", "take"}
  PROVE  ActorsTyped'
  <1>1. actor' = [actor EXCEPT ![a] = [actor[a] EXCEPT !.step = st]]
    BY DEF To
  <1>2. [actor[a] EXCEPT !.step = st] \in ActorStates
    BY DEF ActorsTyped, ActorStates
  <1>3. \A b \in Actors : actor'[b].email = actor[b].email /\ actor'[b].lease = actor[b].lease
                          /\ actor'[b].step = IF b = a THEN st ELSE actor[b].step
    BY <1>1 DEF ActorsTyped, ActorStates
  <1> QED
    BY <1>1, <1>2, <1>3 DEF ActorsTyped, Actors

\* So may one that is given a new record.
LEMMA NewTyped ==
  ASSUME ActorsTyped, NEW a \in Actors, NEW r \in ActorStates, actor' = [actor EXCEPT ![a] = r],
         r.step \in {"idle", "take"} \/ r.email \in Emails, a \in Workers \/ r.lease = 0
  PROVE  ActorsTyped'
  BY StoryAssumption DEF ActorsTyped, Actors

LEMMA RestTyped ==
  ASSUME ActorsTyped, NEW a \in Actors, actor' = [actor EXCEPT ![a] = Idle]
  PROVE  ActorsTyped'
  <1>1. Idle \in ActorStates /\ Idle.step = "idle" /\ Idle.lease = 0
    BY IdleTyped DEF Idle
  <1> QED
    BY <1>1, NewTyped

LEMMA ThrowsTyped ==
  ASSUME ActorsTyped, NEW a \in Actors, actor[a].step \notin {"idle", "take"}, Throws(a)
  PROVE  ActorsTyped'
  <1>1. CASE a \in Deliveries
    BY <1>1, RestTyped DEF Throws
  <1>2. CASE a \notin Deliveries
    <2>1. "catch" \in Steps /\ "fail" \in Steps
      BY DEF Steps
    <2> QED
      BY <1>2, <2>1, ToTyped DEF Throws
  <1> QED
    BY <1>1, <1>2

LEMMA LeaseLostTyped ==
  ASSUME ActorsTyped, NEW a \in Actors, actor[a].step \notin {"idle", "take"}, LeaseLost(a)
  PROVE  ActorsTyped'
  <1>1. "fail" \in Steps
    BY DEF Steps
  <1> QED
    BY <1>1, ThrowsTyped, ToTyped DEF LeaseLost

LEMMA ThenTyped ==
  ASSUME ActorsTyped, NEW a \in Actors, actor[a].step \notin {"idle", "take"}, NEW st \in Steps,
         Then(a, st), faults \in Nat
  PROVE  ActorsTyped' /\ faults' \in Nat
  BY ThrowsTyped, ToTyped DEF Then, NoFault, Faulty

LEMMA ReturnTyped ==
  ASSUME ActorsTyped, NEW a \in Actors, actor[a].step \notin {"idle", "take"},
         NEW res \in Results, Return(a, res), faults \in Nat, acked \subseteq Emails
  PROVE  ActorsTyped' /\ faults' \in Nat /\ acked' \subseteq Emails
  <1>1. actor[a].email \in Emails /\ actor[a] \in ActorStates
    BY DEF ActorsTyped
  <1>2. CASE Faulty /\ Throws(a) /\ UNCHANGED acked
    BY <1>2, ThrowsTyped DEF Faulty
  <1>3. CASE NoFault /\ a \in Deliveries
    BY <1>1, <1>3, RestTyped, ThrowsTyped DEF Return, NoFault, Faulty
  <1>4. CASE /\ NoFault /\ a \notin Deliveries
             /\ actor' = [actor EXCEPT ![a].step = "settle", ![a].result = res]
             /\ UNCHANGED acked
    <2> DEFINE r == [actor[a] EXCEPT !.step = "settle", !.result = res]
    <2>1. r \in ActorStates /\ r.email \in Emails
      BY <1>1 DEF ActorStates, Steps, Results
    <2>2. actor' = [actor EXCEPT ![a] = r]
      BY <1>4
    <2> HIDE DEF r
    <2> QED
      BY <1>4, <2>1, <2>2, NewTyped DEF Actors, NoFault
  <1> QED
    BY <1>2, <1>3, <1>4 DEF Return

LEMMA NextJobTyped ==
  ASSUME ActorsTyped, NEW a \in Actors, NextJob(a)
  PROVE  ActorsTyped'
  <1>1. PICK st \in {"idle", "take"} : actor' = [actor EXCEPT ![a] = [Idle EXCEPT !.step = st]]
    BY DEF NextJob
  <1>2. [Idle EXCEPT !.step = st] \in ActorStates /\ [Idle EXCEPT !.step = st].step = st
        /\ [Idle EXCEPT !.step = st].lease = 0
    BY IdleTyped DEF Idle
  <1> QED
    BY <1>1, <1>2, NewTyped

-----------------------------------------------------------------------------
\* Typing: what the writes do to the messages and the jobs

Jobs == [status : JobStatuses, attempts : 0 .. MaxAttempts, due : BOOLEAN, old : BOOLEAN]
JobsKept ==
    /\ job' \in [Emails -> Jobs]
    /\ \A m \in Emails : job'[m].status = job[m].status /\ job'[m].attempts = job[m].attempts

LEMMA RenewedKeeps ==
  ASSUME RepliesTyped, NEW a \in Actors, Renewed(a)
  PROVE  JobsKept
  <1>1. job \in [Emails -> Jobs]
    BY DEF RepliesTyped, Jobs
  <1>2. CASE UNCHANGED job
    BY <1>1, <1>2 DEF JobsKept
  <1>3. CASE job' = [job EXCEPT ![actor[a].email].old = FALSE]
    BY <1>1, <1>3 DEF JobsKept, Jobs
  <1> QED
    BY <1>2, <1>3 DEF Renewed

LEMMA KeptTyped ==
  ASSUME RepliesTyped, JobsKept, UNCHANGED message
  PROVE  RepliesTyped'
  BY DEF RepliesTyped, JobsKept, Jobs

LEMMA RenewedTyped ==
  ASSUME RepliesTyped, NEW a \in Actors, Renewed(a), UNCHANGED message
  PROVE  RepliesTyped'
  BY RenewedKeeps, KeptTyped

\* A write keeps the lease that the message has, or has none when its job has none.
LEMMA WriteTyped ==
  ASSUME RepliesTyped, ActorsTyped, NEW a \in Actors, NEW st \in MessageStatuses,
         a \in Workers => Marked(a), Write(a, st), JobsKept
  PROVE  RepliesTyped'
  <1> DEFINE e == actor[a].email
             r == [status |-> st, lease |-> actor[a].lease]
  <1>1. actor[a].lease \in 0 .. MaxAttempts
    BY DEF ActorsTyped, ActorStates
  <1>2. message' = [message EXCEPT ![e] = r] /\ r.lease = actor[a].lease
        /\ r \in [status : MessageStatuses, lease : 0 .. MaxAttempts]
    BY <1>1 DEF Write
  <1>3. r.lease = 0 \/ r.lease = message[e].lease
    BY <1>2 DEF ActorsTyped, Actors, Marked
  <1> HIDE DEF r
  <1>4. \A m \in Emails : message'[m].lease \in {0, job'[m].attempts}
    BY <1>2, <1>3 DEF RepliesTyped, JobsKept
  <1> QED
    BY <1>2, <1>4 DEF RepliesTyped, JobsKept, Jobs

LEMMA SameJobs == ASSUME RepliesTyped, UNCHANGED job PROVE JobsKept
  BY DEF RepliesTyped, JobsKept, Jobs

-----------------------------------------------------------------------------
\* Typing: ingestReceivedEmail

LEMMA StepNames ==
  /\ {"read", "load", "start", "check", "note", "ignore", "oppose", "closed", "known", "exclude", "log",
      "stop", "update", "review", "queue", "enqueue", "gate", "settle", "close", "fail", "drop",
      "catch", "assets", "recheck", "dismiss", "facts", "body", "reply", "mission", "final",
      "giveup"} \subseteq Steps
  /\ \A a \in Actors : Kind(a) \in Kinds => First(a) \in Steps
  BY DEF Steps, InTry, First, Kinds

LEMMA DeliverTyped ==
  ASSUME TypeOK, NEW d \in Deliveries, NEW m \in Emails, Deliver(d, m)
  PROVE  TypeOK'
  <1> DEFINE r == [Idle EXCEPT !.step = "read", !.email = m]
  <1>1. r \in ActorStates /\ r.email = m /\ r.lease = 0
    BY Bounds DEF ActorStates, Idle, Steps, MessageStatuses
  <1>2. actor' = [actor EXCEPT ![d] = r]
    BY DEF Deliver
  <1> HIDE DEF r
  <1>3. ActorsTyped'
    BY <1>1, <1>2, NewTyped DEF TypeOK, Actors
  <1> QED
    BY <1>3 DEF TypeOK, Deliver, Faulty, NoFault, RepliesTyped, EffectsTyped, replies, effects

LEMMA ReadTyped ==
  ASSUME TypeOK, NEW a \in Actors, Read(a)
  PROVE  TypeOK'
  <1>1. actor[a].step \notin {"idle", "take"} /\ "load" \in Steps /\ "ignored" \in Results
    BY StepNames DEF Read, At, Results, Terminal
  <1>2. ActorsTyped' /\ faults' \in Nat /\ acked' \subseteq Emails
    BY <1>1, ThenTyped, ReturnTyped DEF TypeOK, Read
  <1>3. opposed' \in BOOLEAN
    <2>1. opposed \in BOOLEAN
      BY DEF TypeOK, EffectsTyped
    <2>2. UNCHANGED opposed \/ opposed' = (opposed \/ Kind(a) = "optout")
      BY DEF Read
    <2> QED
      BY <2>1, <2>2, Zenon
  <1>4. fresh' \in [case : SUBSET Actors, mission : SUBSET Actors]
    BY DEF TypeOK, Read
  <1> QED
    BY <1>2, <1>3, <1>4 DEF TypeOK, Read, RepliesTyped, EffectsTyped, replies

LEMMA ReceiveTyped ==
  ASSUME TypeOK, NEW d \in Deliveries, Receive(d)
  PROVE  TypeOK'
  <1>1. d \in Actors /\ actor[d].step \notin {"idle", "take"} /\ "check" \in Steps
        /\ "queued" \in Results
    BY StepNames DEF Receive, At, Results, Actors
  <1>2. ActorsTyped' /\ faults' \in Nat /\ acked' \subseteq Emails
    <2>1. CASE Then(d, "check") /\ UNCHANGED acked
      BY <1>1, <2>1, ThenTyped DEF TypeOK
    <2>2. CASE Return(d, "queued")
      BY <1>1, <2>2, ReturnTyped DEF TypeOK
    <2>3. CASE /\ NoFault /\ actor' = [actor EXCEPT ![d].step = "check", ![d].dup = TRUE]
               /\ UNCHANGED acked
      <3> DEFINE r == [actor[d] EXCEPT !.step = "check", !.dup = TRUE]
      <3>1. r \in ActorStates /\ r.email \in Emails /\ r.lease = 0
        BY <1>1 DEF TypeOK, ActorsTyped, ActorStates
      <3>2. actor' = [actor EXCEPT ![d] = r]
        BY <2>3
      <3> HIDE DEF r
      <3> QED
        BY <1>1, <2>3, <3>1, <3>2, NewTyped DEF TypeOK, NoFault
    <2> QED
      BY <2>1, <2>2, <2>3 DEF Receive
  <1>3. RepliesTyped'
    <2> DEFINE e == actor[d].email
    <2>1. UNCHANGED message \/ message' = [message EXCEPT ![e] = [message[e] EXCEPT !.status = "queued"]]
      BY DEF Receive
    <2>2. message' \in [Emails -> [status : MessageStatuses, lease : 0 .. MaxAttempts]]
          /\ \A m \in Emails : message'[m].lease = message[m].lease
      <3> DEFINE T == [status : MessageStatuses, lease : 0 .. MaxAttempts]
                 r == [message[e] EXCEPT !.status = "queued"]
      <3>1. e \in Emails /\ message \in [Emails -> T]
        BY <1>1 DEF TypeOK, RepliesTyped, ActorsTyped
      <3>2. r \in T /\ r.lease = message[e].lease
        BY <3>1 DEF MessageStatuses
      <3> HIDE DEF T, r
      <3>3. UNCHANGED message \/ message' = [message EXCEPT ![e] = r]
        BY <2>1 DEF r
      <3>4. message' \in [Emails -> T] /\ \A m \in Emails : message'[m].lease = message[m].lease
        BY <3>1, <3>2, <3>3
      <3> QED
        BY <3>4 DEF T
    <2> QED
      BY <2>2 DEF TypeOK, RepliesTyped, Receive
  <1> QED
    BY <1>2, <1>3 DEF TypeOK, Receive, EffectsTyped, effects

LEMMA LoadTyped ==
  ASSUME TypeOK, NEW w \in Workers, Load(w)
  PROVE  TypeOK'
  <1>1. w \in Actors /\ actor[w].step \notin {"idle", "take"} /\ "start" \in Steps
    BY StepNames DEF Load, At, Actors
  <1>2. ActorsTyped' /\ faults' \in Nat /\ acked' \subseteq Emails
    BY <1>1, ThenTyped, ReturnTyped, LeaseLostTyped DEF TypeOK, Load, NoFault, Results
  <1>3. RepliesTyped'
    BY <1>1, RenewedTyped DEF TypeOK, Load
  <1> QED
    BY <1>2, <1>3 DEF TypeOK, Load, EffectsTyped, effects

LEMMA StartTyped ==
  ASSUME TypeOK, NEW w \in Workers, Start(w)
  PROVE  TypeOK'
  <1>1. w \in Actors /\ actor[w].step \notin {"idle", "take"} /\ "check" \in Steps
        /\ "processing" \in MessageStatuses
    BY StepNames DEF Start, At, Actors, MessageStatuses
  <1>2. ActorsTyped' /\ faults' \in Nat
    BY <1>1, ThenTyped, LeaseLostTyped DEF TypeOK, Start, NoFault
  <1>3. RepliesTyped'
    BY <1>1, RenewedTyped, RenewedKeeps, WriteTyped DEF TypeOK, Start, Fenced
  <1> QED
    BY <1>2, <1>3 DEF TypeOK, Start, EffectsTyped, effects

LEMMA CheckTyped ==
  ASSUME TypeOK, NEW a \in Actors, Check(a)
  PROVE  TypeOK'
  <1>1. actor[a].step \notin {"idle", "take"} /\ {"ignore", "note"} \subseteq Steps
    BY StepNames DEF Check, At
  <1>2. First(a) \in Steps
    <2>1. story.hook \in Kinds /\ story.job \in Kinds
      BY StoryAssumption DEF TypeOK
    <2> QED
      BY <2>1, StepNames DEF Kind
  <1>3. ActorsTyped' /\ faults' \in Nat
    <2>1. CASE NoFault /\ LeaseLost(a)
      BY <1>1, <2>1, LeaseLostTyped DEF TypeOK, NoFault
    <2>2. CASE \E st \in Steps : Then(a, st)
      BY <1>1, <2>2, ThenTyped DEF TypeOK
    <2>3. CASE NoFault /\ Sees(a)
      <3> DEFINE e == actor[a].email
                 z == [actor[a] EXCEPT !.step = "note", !.seen = message[e].status]
      <3>1. e \in Emails /\ actor[a] \in ActorStates
        BY <1>1 DEF TypeOK, ActorsTyped
      <3>2. message[e].status \in MessageStatuses
        BY <3>1 DEF TypeOK, RepliesTyped
      <3>3. z \in ActorStates /\ z.email = e /\ z.lease = actor[a].lease
        BY <1>1, <3>1, <3>2 DEF ActorStates
      <3>4. actor' = [actor EXCEPT ![a] = z]
        BY <2>3 DEF Sees
      <3>5. a \in Workers \/ actor[a].lease = 0
        BY DEF TypeOK, ActorsTyped, Actors
      <3> HIDE DEF z, e
      <3> QED
        BY <2>3, <3>1, <3>3, <3>4, <3>5, NewTyped DEF TypeOK, NoFault
    <2> QED
      BY <1>1, <1>2, <2>1, <2>2, <2>3 DEF Check, Sees
  <1>4. RepliesTyped'
    BY RenewedTyped DEF TypeOK, Check
  <1> QED
    BY <1>3, <1>4 DEF TypeOK, Check, EffectsTyped, effects

\* A step that only goes on, with one change of the effects.
LEMMA EffectTyped ==
  ASSUME TypeOK, NEW a \in Actors, actor[a].step \notin {"idle", "take"}, NEW st \in Steps,
         Then(a, st), UNCHANGED <<story, case, replies, held, fresh, acked, changes, replied>>,
         opposed' \in BOOLEAN, pilot' \in [excluded : BOOLEAN, logged : BOOLEAN, stopped : BOOLEAN]
  PROVE  TypeOK'
  <1>1. ActorsTyped' /\ faults' \in Nat
    BY ThenTyped DEF TypeOK
  <1> QED
    BY <1>1 DEF TypeOK, RepliesTyped, EffectsTyped, replies

LEMMA OpposeTyped ==
  ASSUME TypeOK, NEW a \in Actors, Oppose(a)
  PROVE  TypeOK'
  <1>1. actor[a].step \notin {"idle", "take"} /\ {"update", "ignore"} \subseteq Steps
    BY StepNames DEF Oppose
  <1>2. PICK st \in Steps : Then(a, st)
    BY <1>1 DEF Oppose
  <1> QED
    BY <1>1, <1>2, EffectTyped DEF Oppose, TypeOK, EffectsTyped

LEMMA KnownTyped ==
  ASSUME TypeOK, NEW a \in Actors, Known(a)
  PROVE  TypeOK'
  <1>1. actor[a].step \notin {"idle", "take"} /\ {"update", "exclude"} \subseteq Steps
    BY StepNames DEF Known, At
  <1>2. PICK st \in Steps : Then(a, st)
    BY <1>1 DEF Known
  <1> QED
    BY <1>1, <1>2, EffectTyped DEF Known, TypeOK, EffectsTyped, effects

LEMMA PilotTyped ==
  ASSUME TypeOK, NEW a \in Actors, Exclude(a) \/ Log(a) \/ Stop(a)
  PROVE  TypeOK'
  <1>1. {"log", "stop", "update"} \subseteq Steps
    BY StepNames
  <1>2. pilot \in [excluded : BOOLEAN, logged : BOOLEAN, stopped : BOOLEAN]
    BY DEF TypeOK, EffectsTyped
  <1>3. /\ [pilot EXCEPT !.excluded = TRUE] \in [excluded : BOOLEAN, logged : BOOLEAN, stopped : BOOLEAN]
        /\ [pilot EXCEPT !.logged = TRUE] \in [excluded : BOOLEAN, logged : BOOLEAN, stopped : BOOLEAN]
        /\ [pilot EXCEPT !.stopped = TRUE] \in [excluded : BOOLEAN, logged : BOOLEAN, stopped : BOOLEAN]
    BY <1>2
  <1>4. actor[a].step \notin {"idle", "take"} /\ \E st \in Steps : Then(a, st)
    BY <1>1 DEF Exclude, Log, Stop, ApplyWrongRecipient, At
  <1>5. PICK st \in Steps : Then(a, st)
    BY <1>4
  <1>6. pilot' \in [excluded : BOOLEAN, logged : BOOLEAN, stopped : BOOLEAN]
    BY <1>3 DEF Exclude, Log, Stop, ApplyWrongRecipient
  <1> QED
    BY <1>4, <1>5, <1>6, EffectTyped
       DEF Exclude, Log, Stop, ApplyWrongRecipient, TypeOK, EffectsTyped

LEMMA UpdateTyped ==
  ASSUME TypeOK, NEW a \in Actors, Update(a)
  PROVE  TypeOK'
  <1>1. actor[a].step \notin {"idle", "take"} /\ "review" \in Steps
    BY StepNames DEF Update, At
  <1>2. ActorsTyped' /\ faults' \in Nat
    BY <1>1, ThenTyped, ThrowsTyped DEF TypeOK, Update, NoFault
  <1>3. RepliesTyped'
    BY RenewedTyped DEF TypeOK, Update
  <1>4. case' \in {"sent", "review", "closed"}
        /\ fresh' \in [case : SUBSET Actors, mission : SUBSET Actors]
    BY DEF TypeOK, Update, UpdateCase
  <1> QED
    BY <1>2, <1>3, <1>4 DEF TypeOK, Update, EffectsTyped, effects

LEMMA EndTyped ==
  ASSUME TypeOK, NEW a \in Actors, End(a)
  PROVE  TypeOK'
  <1>1. actor[a].step \notin {"idle", "take"}
    BY DEF End
  <1>2. PICK st \in {"ignored", "review"} :
          IF MayWrite(a) THEN Write(a, st) /\ Return(a, st)
          ELSE NoFault /\ LeaseLost(a) /\ UNCHANGED <<message, acked>>
    BY DEF End
  <1>3. st \in MessageStatuses /\ st \in Results
    BY DEF MessageStatuses, Results, Terminal
  <1>4. ActorsTyped' /\ faults' \in Nat /\ acked' \subseteq Emails
    BY <1>1, <1>2, <1>3, ReturnTyped, LeaseLostTyped DEF TypeOK, NoFault
  <1>5. JobsKept
    BY RenewedKeeps DEF TypeOK, End
  <1>6. RepliesTyped'
    BY <1>2, <1>3, <1>5, WriteTyped, KeptTyped DEF TypeOK, MayWrite
  <1> QED
    BY <1>4, <1>6 DEF TypeOK, End, EffectsTyped, effects

LEMMA NoteTyped ==
  ASSUME TypeOK, NEW d \in Deliveries, Note(d)
  PROVE  TypeOK'
  <1>1. d \in Actors /\ d \notin Workers /\ actor[d].step \notin {"idle", "take"}
        /\ {"closed", "ignore"} \subseteq Steps /\ actor[d].seen \in MessageStatuses
    BY StepNames, StoryAssumption DEF Note, At, Actors, TypeOK, ActorsTyped, ActorStates
  <1>2. ActorsTyped' /\ faults' \in Nat
    BY <1>1, ThenTyped DEF TypeOK, Note
  <1>3. RepliesTyped'
    BY <1>1, SameJobs, WriteTyped DEF TypeOK, Note
  <1> QED
    BY <1>2, <1>3 DEF TypeOK, Note, EffectsTyped, effects

LEMMA QueueTyped ==
  ASSUME TypeOK, NEW d \in Deliveries, Queue(d)
  PROVE  TypeOK'
  <1>1. d \in Actors /\ d \notin Workers /\ actor[d].step \notin {"idle", "take"}
        /\ "enqueue" \in Steps /\ "queued" \in MessageStatuses
    BY StepNames, StoryAssumption DEF Queue, At, Actors, MessageStatuses
  <1>2. ActorsTyped' /\ faults' \in Nat
    BY <1>1, ThenTyped DEF TypeOK, Queue
  <1>3. RepliesTyped'
    BY <1>1, SameJobs, WriteTyped DEF TypeOK, Queue
  <1> QED
    BY <1>2, <1>3 DEF TypeOK, Queue, EffectsTyped, effects

LEMMA EnqueueTyped ==
  ASSUME TypeOK, NEW d \in Deliveries, Enqueue(d)
  PROVE  TypeOK'
  <1>1. d \in Actors /\ actor[d].step \notin {"idle", "take"} /\ "queued" \in JobStatuses
        /\ "queued" \in Results
    BY DEF Enqueue, At, Actors, JobStatuses, Results
  <1>2. ActorsTyped' /\ faults' \in Nat /\ acked' \subseteq Emails
    BY <1>1, ReturnTyped DEF TypeOK, Enqueue
  <1>3. RepliesTyped'
    <2> DEFINE r == [NoJob EXCEPT !.status = "queued", !.due = TRUE]
               e == actor[d].email
    <2>1. r \in Jobs /\ r.attempts = 0 /\ r.status = "queued"
      BY <1>1, Bounds DEF Jobs, NoJob
    <2> HIDE DEF r
    <2>2. CASE UNCHANGED job
      BY <2>2 DEF TypeOK, RepliesTyped, Enqueue
    <2>3. CASE job[e].status = "none" /\ job' = [job EXCEPT ![e] = r]
      BY <2>1, <2>3 DEF TypeOK, RepliesTyped, Enqueue, Jobs
    <2> QED
      BY <2>2, <2>3 DEF Enqueue, r
  <1> QED
    BY <1>2, <1>3 DEF TypeOK, Enqueue, EffectsTyped, effects

-----------------------------------------------------------------------------
\* Typing: the rest of ingestReceivedEmail

Things == [assets : BOOLEAN, candidates : {"none", "pending", "rejected"}]

LEMMA InsertTyped ==
  ASSUME TypeOK, NEW w \in Workers, NEW step \in InTry, NEW next \in Steps, NEW things \in Things,
         Insert(w, step, things, next)
  PROVE  TypeOK'
  <1>1. w \in Actors /\ actor[w].step \notin {"idle", "take"}
    BY DEF Insert, At, Actors, InTry
  <1>2. ActorsTyped' /\ faults' \in Nat
    BY <1>1, ThenTyped, ThrowsTyped DEF TypeOK, Insert, NoFault
  <1>3. RepliesTyped'
    BY <1>1, RenewedTyped DEF TypeOK, Insert
  <1>4. found' \in [Emails -> Things]
    BY DEF TypeOK, EffectsTyped, Insert, Things
  <1> QED
    BY <1>2, <1>3, <1>4 DEF TypeOK, Insert, EffectsTyped, effects, Things

LEMMA AssetsTyped ==
  ASSUME TypeOK, NEW w \in Workers, Assets(w) \/ Body(w)
  PROVE  TypeOK'
  <1>1. actor[w].email \in Emails
    BY DEF TypeOK, ActorsTyped, Assets, Body, Insert, At, Actors
  <1>2. [found[actor[w].email] EXCEPT !.assets = TRUE] \in Things
    BY <1>1 DEF TypeOK, EffectsTyped, Things
  <1>3. {"assets", "body"} \subseteq InTry /\ {"recheck", "reply"} \subseteq Steps
    BY DEF InTry, Steps
  <1> QED
    BY <1>2, <1>3, InsertTyped DEF Assets, Body

LEMMA FactsTyped ==
  ASSUME TypeOK, NEW w \in Workers, Facts(w)
  PROVE  TypeOK'
  <1> DEFINE mine == found[actor[w].email]
             things == [mine EXCEPT !.candidates = IF @ = "none" THEN "pending" ELSE @]
  <1>1. CASE Accepting
    <2>1. At(w, "facts") /\ Insert(w, "facts", things, "body")
      BY <1>1 DEF Facts, Insert
    <2>2. mine \in Things
      BY <2>1 DEF TypeOK, EffectsTyped, ActorsTyped, Actors, At, Things
    <2>3. things \in Things
      BY <2>2 DEF Things
    <2>4. "facts" \in InTry /\ "body" \in Steps
      BY DEF InTry, Steps
    <2> QED
      BY <2>1, <2>3, <2>4, InsertTyped
  <1>2. CASE ~ Accepting
    <2>1. w \in Actors /\ actor[w].step \notin {"idle", "take"} /\ NoFault /\ Throws(w) /\ Renewed(w)
          /\ UNCHANGED <<story, case, message, found, effects, held, fresh, acked, changes>>
      BY <1>2 DEF Facts, At, Actors
    <2>2. ActorsTyped' /\ RepliesTyped'
      BY <2>1, ThrowsTyped, RenewedTyped DEF TypeOK
    <2> QED
      BY <2>1, <2>2 DEF TypeOK, EffectsTyped, effects, NoFault
  <1> QED
    BY <1>1, <1>2

LEMMA RecheckTyped ==
  ASSUME TypeOK, NEW w \in Workers, Recheck(w)
  PROVE  TypeOK'
  <1>1. w \in Actors /\ actor[w].step \notin {"idle", "take"}
        /\ "facts" \in Steps /\ "dismiss" \in Steps
    BY DEF Recheck, At, Actors, Steps, InTry
  <1>2. ActorsTyped' /\ faults' \in Nat
    BY <1>1, ThenTyped, LeaseLostTyped DEF TypeOK, Recheck, NoFault
  <1>3. RepliesTyped'
    BY <1>1, RenewedTyped DEF TypeOK, Recheck
  <1> QED
    BY <1>2, <1>3 DEF TypeOK, Recheck, EffectsTyped, effects

LEMMA ReplyTyped ==
  ASSUME TypeOK, NEW w \in Workers, Reply(w)
  PROVE  TypeOK'
  <1>1. w \in Actors /\ actor[w].step \notin {"idle", "take"}
        /\ "mission" \in Steps /\ "giveup" \in Steps
    BY DEF Reply, At, Actors, Steps, InTry
  <1>2. ActorsTyped' /\ faults' \in Nat
    BY <1>1, ThenTyped, ThrowsTyped DEF TypeOK, Reply, NoFault
  <1>3. RepliesTyped'
    BY <1>1, RenewedTyped DEF TypeOK, Reply
  <1>4. case' \in {"sent", "review", "closed"}
        /\ fresh' \in [case : SUBSET Actors, mission : SUBSET Actors]
    BY DEF TypeOK, Reply, UpdateCase
  <1> QED
    BY <1>2, <1>3, <1>4 DEF TypeOK, Reply, EffectsTyped, effects

LEMMA MissionTyped ==
  ASSUME TypeOK, NEW w \in Workers, Mission(w)
  PROVE  TypeOK'
  <1>1. w \in Actors /\ actor[w].step \notin {"idle", "take"} /\ "final" \in Steps
    BY DEF Mission, At, Actors, Steps, InTry
  <1>2. ActorsTyped' /\ faults' \in Nat
    BY <1>1, ThenTyped, LeaseLostTyped DEF TypeOK, Mission, NoFault
  <1>3. RepliesTyped'
    BY <1>1, RenewedTyped DEF TypeOK, Mission
  <1>4. replied' \in BOOLEAN /\ fresh' \in [case : SUBSET Actors, mission : SUBSET Actors]
    BY DEF TypeOK, EffectsTyped, Mission
  <1> QED
    BY <1>2, <1>3, <1>4 DEF TypeOK, Mission, EffectsTyped

-----------------------------------------------------------------------------
\* Typing: the queue

\* A claim counts an attempt, which becomes the lease of the message.
LEMMA ClaimTyped ==
  ASSUME TypeOK, NEW w \in Workers, Claim(w)
  PROVE  TypeOK'
  <1> DEFINE J(m) ==
          IF m \in Claimable
          THEN [status |-> "processing", attempts |-> job[m].attempts + 1, due |-> FALSE, old |-> FALSE]
          ELSE IF m \in Exhausted THEN [job[m] EXCEPT !.status = "review", !.old = FALSE]
          ELSE job[m]
      R(m) ==
          IF m \in Claimable THEN [message[m] EXCEPT !.lease = job[m].attempts + 1]
          ELSE IF m \in Exhausted THEN [status |-> "review", lease |-> 0]
          ELSE message[m]
  <1>1. job' = [m \in Emails |-> J(m)] /\ message' = [m \in Emails |-> R(m)]
    BY DEF Claim
  <1>2. ASSUME NEW m \in Emails
        PROVE  /\ m \in Claimable => job[m].attempts + 1 \in 0 .. MaxAttempts
               /\ J(m) \in Jobs /\ R(m) \in [status : MessageStatuses, lease : 0 .. MaxAttempts]
               /\ R(m).lease \in {0, J(m).attempts}
               /\ J(m).status = "none" => J(m).attempts = 0
    <2>1. /\ job[m] \in Jobs /\ message[m] \in [status : MessageStatuses, lease : 0 .. MaxAttempts]
          /\ message[m].lease \in {0, job[m].attempts}
          /\ job[m].status = "none" => job[m].attempts = 0
      BY DEF TypeOK, RepliesTyped, Jobs
    <2>2. m \in Claimable => job[m].attempts + 1 \in 0 .. MaxAttempts
      BY <2>1, Bounds DEF Claimable, Jobs
    <2>3. CASE m \in Claimable
      BY <2>1, <2>2, <2>3 DEF Jobs, JobStatuses
    <2>4. CASE m \notin Claimable /\ m \in Exhausted
      <3>1. J(m) = [job[m] EXCEPT !.status = "review", !.old = FALSE]
            /\ R(m) = [status |-> "review", lease |-> 0]
        BY <2>4
      <3>2. J(m) \in Jobs /\ J(m).status = "review"
        BY <2>1, <3>1 DEF Jobs, JobStatuses, Terminal
      <3>3. R(m) \in [status : MessageStatuses, lease : 0 .. MaxAttempts] /\ R(m).lease = 0
        BY <3>1, Bounds DEF MessageStatuses, Terminal
      <3> QED
        BY <2>2, <3>2, <3>3
    <2>5. CASE m \notin Claimable /\ m \notin Exhausted
      BY <2>1, <2>2, <2>5
    <2> QED
      BY <2>3, <2>4, <2>5
  <1> HIDE DEF J, R
  <1>3. RepliesTyped'
    BY <1>1, <1>2 DEF RepliesTyped, Jobs
  <1>4. held' \in [Workers -> SUBSET [email : Emails, lease : 0 .. MaxAttempts]]
    <2> DEFINE H == {[email |-> m, lease |-> job[m].attempts + 1] : m \in Claimable}
    <2>1. H \in SUBSET [email : Emails, lease : 0 .. MaxAttempts]
      BY <1>2 DEF Claimable
    <2>2. held' = [held EXCEPT ![w] = H]
      BY DEF Claim
    <2> HIDE DEF H
    <2> QED
      BY <2>1, <2>2 DEF TypeOK
  <1>5. ActorsTyped'
    <2>1. w \in Actors /\ {"idle", "take"} \subseteq Steps
      BY DEF Actors, Steps
    <2> QED
      BY <2>1, ToTyped DEF TypeOK, Claim
  <1> QED
    BY <1>3, <1>4, <1>5 DEF TypeOK, Claim, EffectsTyped, effects, NoFault

LEMMA TakeTyped ==
  ASSUME TypeOK, NEW w \in Workers, Take(w)
  PROVE  TypeOK'
  <1>1. PICK h \in held[w] :
        /\ held' = [held EXCEPT ![w] = @ \ {h}]
        /\ IF job[h.email].status = "processing" /\ job[h.email].attempts = h.lease
           THEN /\ actor' = [actor EXCEPT ![w] =
                        [Idle EXCEPT !.step = "gate", !.email = h.email, !.lease = h.lease]]
                /\ job' = [job EXCEPT ![h.email].old = FALSE]
           ELSE /\ actor' = [actor EXCEPT ![w] =
                        [Idle EXCEPT !.step = IF held[w] = {h} THEN "idle" ELSE "take"]]
                /\ UNCHANGED job
    BY DEF Take
  <1>2. h \in [email : Emails, lease : 0 .. MaxAttempts] /\ w \in Actors
    BY <1>1 DEF TypeOK, Actors
  <1>3. ActorsTyped'
    <2> DEFINE r == [Idle EXCEPT !.step = "gate", !.email = h.email, !.lease = h.lease]
               s == [Idle EXCEPT !.step = IF held[w] = {h} THEN "idle" ELSE "take"]
    <2>1. r \in ActorStates /\ r.email \in Emails
      BY <1>2 DEF ActorStates, Idle, Steps, MessageStatuses
    <2>2. s \in ActorStates /\ s.step \in {"idle", "take"}
      BY Bounds DEF ActorStates, Idle, Steps, MessageStatuses
    <2>3. actor' = [actor EXCEPT ![w] = r] \/ actor' = [actor EXCEPT ![w] = s]
      BY <1>1
    <2> HIDE DEF r, s
    <2> QED
      BY <1>2, <2>1, <2>2, <2>3, NewTyped DEF TypeOK
  <1>4. RepliesTyped'
    <2>1. UNCHANGED job \/ job' = [job EXCEPT ![h.email].old = FALSE]
      BY <1>1
    <2>2. JobsKept
      <3> DEFINE e == h.email
                 r == [job[e] EXCEPT !.old = FALSE]
      <3>1. e \in Emails /\ job \in [Emails -> Jobs]
        BY <1>2 DEF TypeOK, RepliesTyped, Jobs
      <3>2. r \in Jobs /\ r.status = job[e].status /\ r.attempts = job[e].attempts
        BY <3>1 DEF Jobs
      <3>3. UNCHANGED job \/ job' = [job EXCEPT ![e] = r]
        BY <2>1
      <3> HIDE DEF e, r
      <3> QED
        BY <3>1, <3>2, <3>3 DEF JobsKept
    <2> QED
      BY <2>2, KeptTyped DEF TypeOK, Take
  <1>5. held' \in [Workers -> SUBSET [email : Emails, lease : 0 .. MaxAttempts]]
    BY <1>1 DEF TypeOK
  <1> QED
    BY <1>3, <1>4, <1>5 DEF TypeOK, Take, EffectsTyped, effects, NoFault

LEMMA GateTyped ==
  ASSUME TypeOK, NEW w \in Workers, Gate(w)
  PROVE  TypeOK'
  <1>1. w \in Actors /\ actor[w].step \notin {"idle", "take"} /\ {"read", "ignore"} \subseteq Steps
    BY DEF Gate, At, Actors, Steps
  <1>2. ActorsTyped' /\ faults' \in Nat
    BY <1>1, ThenTyped DEF TypeOK, Gate
  <1> QED
    BY <1>2 DEF TypeOK, Gate, RepliesTyped, EffectsTyped, replies, effects

LEMMA ReleaseTyped ==
  ASSUME TypeOK, NEW w \in Workers, Release(w)
  PROVE  TypeOK'
  <1>1. w \in Actors /\ actor[w].step \notin {"idle", "take"}
        /\ {"close", "drop", "fail"} \subseteq Steps
    BY DEF Release, Actors, Steps
  <1>2. NextJob(w) \/ \E st \in Steps : To(w, st)
    BY <1>1 DEF Release
  <1>3. ActorsTyped'
    BY <1>1, <1>2, ToTyped, NextJobTyped DEF TypeOK
  <1>4. faults' \in Nat
    BY DEF TypeOK, Release, Faulty, NoFault
  <1>5. RepliesTyped'
    <2> DEFINE e == actor[w].email
    <2>1. UNCHANGED message \/ message' = [message EXCEPT ![e].lease = 0]
      BY DEF Release
    <2>2. message' \in [Emails -> [status : MessageStatuses, lease : 0 .. MaxAttempts]]
          /\ \A m \in Emails : message'[m].lease \in {0, message[m].lease}
      <3> DEFINE T == [status : MessageStatuses, lease : 0 .. MaxAttempts]
                 r == [message[e] EXCEPT !.lease = 0]
      <3>1. e \in Emails /\ message \in [Emails -> T]
        BY <1>1 DEF TypeOK, RepliesTyped, ActorsTyped
      <3>2. r \in T /\ r.lease = 0
        BY <3>1, Bounds
      <3>3. UNCHANGED message \/ message' = [message EXCEPT ![e] = r]
        BY <2>1
      <3> HIDE DEF T, r, e
      <3>4. message' \in [Emails -> T] /\ \A m \in Emails : message'[m].lease \in {0, message[m].lease}
        BY <3>1, <3>2, <3>3
      <3> QED
        BY <3>4 DEF T
    <2> QED
      BY <2>2 DEF TypeOK, RepliesTyped, Release
  <1> QED
    BY <1>3, <1>4, <1>5 DEF TypeOK, Release, EffectsTyped, effects

LEMMA CloseTyped ==
  ASSUME TypeOK, NEW w \in Workers, Close(w)
  PROVE  TypeOK'
  <1>1. w \in Actors
    BY DEF Actors
  <1>2. ActorsTyped'
    BY <1>1, NextJobTyped DEF TypeOK, Close
  <1>3. Outcome(w) \in JobStatuses /\ Outcome(w) # "none"
    BY <1>1 DEF TypeOK, ActorsTyped, ActorStates, Outcome, JobStatuses, Terminal
  <1>4. RepliesTyped'
    <2> DEFINE e == actor[w].email
               s == Outcome(w)
    <2>1. e \in Emails
      BY <1>1 DEF TypeOK, ActorsTyped, Close
    <2>2. CASE ~ Holds(w)
      BY <2>2 DEF TypeOK, RepliesTyped, Close
    <2>3. CASE Holds(w)
      <3> DEFINE r == [job[e] EXCEPT !.status = s, !.old = FALSE]
      <3>1. job[e].attempts = actor[w].lease /\ job[e] \in Jobs
        BY <2>1, <2>3 DEF Holds, TypeOK, RepliesTyped, Jobs
      <3>2. r \in Jobs /\ r.attempts = job[e].attempts /\ r.status = s
        BY <1>3, <3>1 DEF Jobs
      <3>3. job' = [job EXCEPT ![e] = r] /\ UNCHANGED message
        BY <2>3 DEF Close
      <3> HIDE DEF r, s
      <3> QED
        BY <1>3, <3>2, <3>3 DEF TypeOK, RepliesTyped, Jobs, s
    <2> QED
      BY <2>2, <2>3
  <1> QED
    BY <1>2, <1>4 DEF TypeOK, Close, EffectsTyped, effects, NoFault

LEMMA CatchTyped ==
  ASSUME TypeOK, NEW w \in Workers, Catch(w)
  PROVE  TypeOK'
  <1>1. w \in Actors /\ actor[w].step \notin {"idle", "take"} /\ "fail" \in Steps
        /\ "failed" \in MessageStatuses
    BY DEF Catch, At, Actors, Steps, MessageStatuses
  <1>2. ActorsTyped'
    BY <1>1, ToTyped DEF TypeOK, Catch
  <1>3. RepliesTyped'
    BY <1>1, SameJobs, WriteTyped, KeptTyped DEF TypeOK, Catch
  <1> QED
    BY <1>2, <1>3 DEF TypeOK, Catch, EffectsTyped, effects, NoFault

-----------------------------------------------------------------------------
\* Typing: what fails, what others do, and time

LEMMA ErrorTyped ==
  ASSUME TypeOK, NEW a \in Actors, Error(a)
  PROVE  TypeOK'
  <1>1. actor[a].step \notin {"idle", "take"} /\ "fail" \in Steps
    BY DEF Error, Steps
  <1>2. ActorsTyped'
    BY <1>1, NextJobTyped, ToTyped, ThrowsTyped DEF TypeOK, Error
  <1> QED
    BY <1>2 DEF TypeOK, Error, Faulty, RepliesTyped, EffectsTyped, replies, effects

LEMMA DieTyped ==
  ASSUME TypeOK, NEW a \in Actors, Die(a)
  PROVE  TypeOK'
  <1>1. ActorsTyped'
    BY RestTyped DEF TypeOK, Die
  <1>2. held' \in [Workers -> SUBSET [email : Emails, lease : 0 .. MaxAttempts]]
    BY DEF TypeOK, Die
  <1> QED
    BY <1>1, <1>2 DEF TypeOK, Die, Faulty, RepliesTyped, EffectsTyped, replies, effects

LEMMA RejectedTyped ==
  ASSUME EffectsTyped
  PROVE  /\ Rejected \in [Emails -> Things]
         /\ \A m \in Emails : Rejected[m].assets = found[m].assets /\ Rejected[m].candidates # "pending"
  <1> DEFINE R(m) == IF found[m].candidates = "pending" THEN [found[m] EXCEPT !.candidates = "rejected"]
                     ELSE found[m]
  <1>1. \A m \in Emails : found[m] \in Things
    BY DEF EffectsTyped, Things
  <1>2. \A m \in Emails : R(m) \in Things /\ R(m).assets = found[m].assets /\ R(m).candidates # "pending"
    BY <1>1 DEF Things
  <1>3. Rejected = [m \in Emails |-> R(m)]
    BY DEF Rejected
  <1> HIDE DEF R
  <1> QED
    BY <1>2, <1>3

LEMMA ChangeTyped ==
  ASSUME TypeOK, Change
  PROVE  TypeOK'
  <1>1. found' \in [Emails -> Things]
    BY RejectedTyped DEF TypeOK, EffectsTyped, Change, Things
  <1>2. case' \in {"sent", "review", "closed"}
        /\ fresh' \in [case : SUBSET Actors, mission : SUBSET Actors]
    BY DEF TypeOK, Change
  <1>3. changes' \in Nat
    BY DEF TypeOK, Change
  <1> QED
    BY <1>1, <1>2, <1>3 DEF TypeOK, Change, RepliesTyped, ActorsTyped, EffectsTyped, effects, Things

LEMMA TimeTyped ==
  ASSUME TypeOK, NEW m \in Emails, Old(m) \/ Due(m)
  PROVE  TypeOK'
  <1>1. job \in [Emails -> Jobs]
    BY DEF TypeOK, RepliesTyped, Jobs
  <1>2. job' = [job EXCEPT ![m] = [job[m] EXCEPT !.old = TRUE]]
        \/ job' = [job EXCEPT ![m] = [job[m] EXCEPT !.due = TRUE]]
    BY DEF Old, Due
  <1>3. JobsKept
    <2> DEFINE r == [job[m] EXCEPT !.old = TRUE]
               s == [job[m] EXCEPT !.due = TRUE]
    <2>1. /\ r \in Jobs /\ r.status = job[m].status /\ r.attempts = job[m].attempts
          /\ s \in Jobs /\ s.status = job[m].status /\ s.attempts = job[m].attempts
      BY <1>1 DEF Jobs
    <2>2. job' = [job EXCEPT ![m] = r] \/ job' = [job EXCEPT ![m] = s]
      BY <1>2
    <2> HIDE DEF r, s
    <2> QED
      BY <1>1, <2>1, <2>2 DEF JobsKept
  <1>4. RepliesTyped'
    BY <1>3, KeptTyped DEF TypeOK, Old, Due
  <1> QED
    BY <1>4 DEF TypeOK, Old, Due, ActorsTyped, EffectsTyped, effects

-----------------------------------------------------------------------------
LEMMA InitTyped == Init => TypeOK
  <1> SUFFICES ASSUME Init PROVE TypeOK
    OBVIOUS
  <1>1. Idle \in ActorStates /\ Idle.step = "idle" /\ Idle.lease = 0
    BY IdleTyped DEF Idle
  <1>2. ActorsTyped
    BY <1>1 DEF Init, ActorsTyped, Actors
  <1>3. RepliesTyped
    BY Bounds DEF Init, RepliesTyped, NoMessage, NoJob, MessageStatuses, JobStatuses
  <1> QED
    BY <1>2, <1>3 DEF Init, TypeOK, EffectsTyped

LEMMA NextTyped == TypeOK /\ [Next]_vars => TypeOK'
  <1> SUFFICES ASSUME TypeOK, [Next]_vars PROVE TypeOK'
    OBVIOUS
  <1>1. CASE UNCHANGED vars
    BY <1>1 DEF vars, replies, effects, TypeOK, RepliesTyped, ActorsTyped, EffectsTyped
  <1>2. ASSUME NEW a \in Actors, Ingest(a) PROVE TypeOK'
    BY <1>2, ReadTyped, CheckTyped, OpposeTyped, KnownTyped, PilotTyped, UpdateTyped, EndTyped
       DEF Ingest
  <1>3. ASSUME NEW d \in Deliveries, Serve(d) PROVE TypeOK'
    BY <1>2, <1>3, ReceiveTyped, NoteTyped, QueueTyped, EnqueueTyped DEF Serve, Actors
  <1>4. ASSUME NEW w \in Workers, Work(w) PROVE TypeOK'
    BY <1>2, <1>4, TakeTyped, GateTyped, LoadTyped, StartTyped, AssetsTyped, RecheckTyped,
       FactsTyped, ReplyTyped, MissionTyped, ReleaseTyped, CloseTyped, CatchTyped DEF Work, Actors
  <1> QED
    BY <1>1, <1>3, <1>4, DeliverTyped, ClaimTyped, ErrorTyped, DieTyped, TimeTyped, ChangeTyped
       DEF Next

\* Type correctness, for any replies, executions and attempts: the lease of a message is always
\* the one that the latest claim of its job has drawn, or none, whoever writes the message, and
\* the attempts of a job never exceed those of the table.
THEOREM Typing == Spec => []TypeOK
  BY InitTyped, NextTyped, PTL DEF Spec

-----------------------------------------------------------------------------
\* Candidates and settled jobs

\* What is found changes by an admitted insertion, or when the case is closed.
LEMMA FoundChanges ==
  ASSUME TypeOK, [Next]_vars
  PROVE  \/ UNCHANGED found
         \/ found' = Rejected /\ case' = "closed"
         \/ \E w \in Workers :
              /\ Holds(w) /\ actor[w].email \in Emails
              /\ \/ found' = [found EXCEPT ![actor[w].email].assets = TRUE]
                 \/ /\ Open
                    /\ found' = [found EXCEPT ![actor[w].email].candidates =
                                    IF @ = "none" THEN "pending" ELSE @]
              /\ UNCHANGED case
  <1>1. CASE UNCHANGED vars
    BY <1>1 DEF vars, replies
  <1>2. ASSUME NEW a \in Actors, Ingest(a) PROVE UNCHANGED found
    BY <1>2 DEF Ingest, Read, Check, Oppose, Known, Exclude, Log, Stop, ApplyWrongRecipient, Update,
       End, replies
  <1>3. ASSUME NEW d \in Deliveries, Serve(d) PROVE UNCHANGED found
    BY <1>2, <1>3 DEF Serve, Actors, Receive, Note, Queue, Enqueue
  <1>4. ASSUME NEW w \in Workers, Assets(w) \/ Facts(w) \/ Body(w)
        PROVE  \/ UNCHANGED found
               \/ /\ Holds(w) /\ actor[w].email \in Emails
                  /\ \/ found' = [found EXCEPT ![actor[w].email].assets = TRUE]
                     \/ /\ Open
                        /\ found' = [found EXCEPT ![actor[w].email].candidates =
                                        IF @ = "none" THEN "pending" ELSE @]
                  /\ UNCHANGED case
    <2>1. actor[w].email \in Emails
      BY <1>4 DEF TypeOK, ActorsTyped, Actors, Assets, Body, Facts, Insert, At
    <2> QED
      BY <1>4, <2>1 DEF Assets, Facts, Body, Insert, Admitted, Fenced, Accepting
  <1>5. ASSUME NEW w \in Workers, Work(w), ~ (Assets(w) \/ Facts(w) \/ Body(w)) PROVE UNCHANGED found
    BY <1>2, <1>5 DEF Work, Actors, Take, Gate, Load, Start, Recheck, Reply, Mission, Release, Close,
       Catch, replies
  <1>6. ASSUME Change PROVE UNCHANGED found \/ (found' = Rejected /\ case' = "closed")
    BY <1>6 DEF Change
  <1>7. ASSUME NEW a \in Actors, Error(a) \/ Die(a) PROVE UNCHANGED found
    BY <1>7 DEF Error, Die, replies
  <1>8. ASSUME NEW m \in Emails, (\E d \in Deliveries : Deliver(d, m)) \/ Old(m) \/ Due(m)
        PROVE  UNCHANGED found
    BY <1>8 DEF Deliver, Old, Due, replies
  <1>9. ASSUME NEW w \in Workers, Claim(w) PROVE UNCHANGED found
    BY <1>9 DEF Claim
  <1> QED
    BY <1>1, <1>3, <1>4, <1>5, <1>6, <1>7, <1>8, <1>9 DEF Next

\* An open case is put in review, or is closed with what is pending; a closed one stays so.
LEMMA CaseChanges ==
  ASSUME TypeOK, [Next]_vars
  PROVE  \/ UNCHANGED case
         \/ Open /\ case' = "review"
         \/ case' = "closed" /\ found' = Rejected
  <1>1. CASE UNCHANGED vars
    BY <1>1 DEF vars, Open
  <1>2. ASSUME NEW a \in Actors, Ingest(a) PROVE UNCHANGED case \/ (Open /\ case' = "review")
    BY <1>2 DEF Ingest, Read, Check, Oppose, Known, Exclude, Log, Stop, ApplyWrongRecipient, Update,
       UpdateCase, End, Matches
  <1>3. ASSUME NEW d \in Deliveries, Serve(d) PROVE UNCHANGED case \/ (Open /\ case' = "review")
    BY <1>2, <1>3 DEF Serve, Actors, Receive, Note, Queue, Enqueue
  <1>4. ASSUME NEW w \in Workers, Work(w) PROVE UNCHANGED case \/ (Open /\ case' = "review")
    BY <1>2, <1>4 DEF Work, Actors, Take, Gate, Load, Start, Assets, Recheck, Facts, Body, Insert,
       Reply, UpdateCase, Matches, Mission, Release, Close, Catch
  <1>5. ASSUME NEW a \in Actors, Error(a) \/ Die(a) PROVE UNCHANGED case
    BY <1>5 DEF Error, Die
  <1>6. ASSUME NEW m \in Emails, (\E d \in Deliveries : Deliver(d, m)) \/ Old(m) \/ Due(m)
        PROVE  UNCHANGED case
    BY <1>6 DEF Deliver, Old, Due
  <1>7. ASSUME NEW w \in Workers, Claim(w) PROVE UNCHANGED case
    BY <1>7 DEF Claim
  <1>8. ASSUME Change
        PROVE  UNCHANGED case \/ (Open /\ case' = "review") \/ (case' = "closed" /\ found' = Rejected)
    BY <1>8 DEF Change
  <1> QED
    BY <1>1, <1>3, <1>4, <1>5, <1>6, <1>7, <1>8 DEF Next

LEMMA PendingKept ==
  ASSUME TypeOK, ClosedHasNoPending, [Next]_vars
  PROVE  ClosedHasNoPending'
  <1> SUFFICES ASSUME ~ Open', NEW m \in Emails PROVE found'[m].candidates # "pending"
    BY DEF ClosedHasNoPending
  <1>1. CASE found' = Rejected
    BY <1>1, RejectedTyped DEF TypeOK
  <1>2. CASE found' # Rejected
    <2>1. ~ Open
      BY <1>2, CaseChanges DEF Open
    <2>2. found[m].candidates # "pending" /\ found \in [Emails -> Things]
      BY <2>1 DEF ClosedHasNoPending, TypeOK, EffectsTyped, Things
    <2>3. UNCHANGED found \/ \E e \in Emails : found' = [found EXCEPT ![e].assets = TRUE]
      BY <1>2, <2>1, FoundChanges
    <2>4. found'[m].candidates = found[m].candidates
      BY <2>2, <2>3 DEF Things
    <2> QED
      BY <2>2, <2>4
  <1> QED
    BY <1>1, <1>2

\* A closed case has no candidate that waits for a review: a worker that was about to add one is
\* refused by the guard, and what was there is rejected in the transaction that closes the case.
THEOREM NoPendingOnClosed == Spec => []ClosedHasNoPending
  <1>1. Init => ClosedHasNoPending
    BY DEF Init, ClosedHasNoPending, Open
  <1>2. TypeOK /\ ClosedHasNoPending /\ [Next]_vars => ClosedHasNoPending'
    BY PendingKept
  <1> QED
    BY <1>1, <1>2, Typing, PTL DEF Spec

LEMMA SettledKept ==
  ASSUME TypeOK, [Next]_vars, NEW m \in Emails, job[m].status \in Terminal
  PROVE  /\ found'[m].assets = found[m].assets
         /\ found'[m].candidates = "pending" => found[m].candidates = "pending"
  <1>1. found \in [Emails -> Things]
    BY DEF TypeOK, EffectsTyped, Things
  <1>2. CASE UNCHANGED found
    BY <1>2
  <1>3. CASE found' = Rejected
    BY <1>3, RejectedTyped DEF TypeOK
  <1>4. ASSUME NEW w \in Workers, Holds(w), NEW b \in Things,
               found' = [found EXCEPT ![actor[w].email] = b]
        PROVE  found'[m] = found[m]
    <2>1. actor[w].email # m
      BY <1>4 DEF Holds, Terminal
    <2> QED
      BY <1>1, <1>4, <2>1
  <1>5. ASSUME NEW w \in Workers, Holds(w), actor[w].email \in Emails,
               \/ found' = [found EXCEPT ![actor[w].email].assets = TRUE]
               \/ found' = [found EXCEPT ![actor[w].email].candidates =
                                    IF @ = "none" THEN "pending" ELSE @]
        PROVE  found'[m] = found[m]
    <2> DEFINE o == found[actor[w].email]
               b == [o EXCEPT !.assets = TRUE]
               c == [o EXCEPT !.candidates = IF @ = "none" THEN "pending" ELSE @]
    <2>1. b \in Things /\ c \in Things
      BY <1>1, <1>5 DEF Things
    <2>2. found' = [found EXCEPT ![actor[w].email] = b] \/ found' = [found EXCEPT ![actor[w].email] = c]
      BY <1>5
    <2> HIDE DEF b, c
    <2> QED
      BY <1>4, <1>5, <2>1, <2>2
  <1>6. CASE \E w \in Workers :
              /\ Holds(w) /\ actor[w].email \in Emails
              /\ \/ found' = [found EXCEPT ![actor[w].email].assets = TRUE]
                 \/ /\ Open
                    /\ found' = [found EXCEPT ![actor[w].email].candidates =
                                    IF @ = "none" THEN "pending" ELSE @]
              /\ UNCHANGED case
    BY <1>5, <1>6
  <1> QED
    BY <1>2, <1>3, <1>6, FoundChanges

-----------------------------------------------------------------------------
\* Moves of a webhook

Moves(d, S) ==
    /\ actor'[d].step \in S
    /\ \/ actor'[d].seen \in {"absent", actor[d].seen}
       \/ actor[d].email \in Emails /\ actor'[d].seen = message[actor[d].email].status
    /\ \A a \in Actors \ {d} : actor'[a] = actor[a]

LEMMA ToMoves ==
  ASSUME ActorsTyped, NEW d \in Deliveries, NEW st, To(d, st) PROVE Moves(d, {st})
  BY DEF ActorsTyped, ActorStates, Actors, To, Moves

LEMMA ThrowsMoves ==
  ASSUME ActorsTyped, NEW d \in Deliveries, Throws(d) PROVE Moves(d, {"idle"})
  BY DEF ActorsTyped, Actors, Throws, Moves, Idle

LEMMA ThenMoves ==
  ASSUME ActorsTyped, NEW d \in Deliveries, NEW st, Then(d, st) PROVE Moves(d, {st, "idle"})
  BY ToMoves, ThrowsMoves DEF Then, Moves

LEMMA ReturnMoves ==
  ASSUME ActorsTyped, NEW d \in Deliveries, NEW res, Return(d, res)
  PROVE  Moves(d, {"idle"}) /\ acked' \subseteq acked \cup {actor[d].email}
  <1>1. CASE UNCHANGED acked /\ Throws(d)
    BY <1>1, ThrowsMoves
  <1>2. CASE actor' = [actor EXCEPT ![d] = Idle] /\ acked' = acked \cup {actor[d].email}
    BY <1>2 DEF ActorsTyped, Actors, Moves, Idle
  <1> QED
    BY <1>1, <1>2 DEF Return

LEMMA SeesMoves ==
  ASSUME ActorsTyped, NEW d \in Deliveries, actor[d].step = "check", Sees(d) PROVE Moves(d, {"note"})
  BY DEF ActorsTyped, ActorStates, Actors, Sees, Moves

LEMMA StoryKept == [Next]_vars => UNCHANGED story
  <1> SUFFICES ASSUME [Next]_vars PROVE UNCHANGED story
    OBVIOUS
  <1>1. ASSUME NEW a \in Actors, Ingest(a) PROVE UNCHANGED story
    BY <1>1 DEF Ingest, Read, Check, Oppose, Known, Exclude, Log, Stop, ApplyWrongRecipient, Update, End
  <1>2. ASSUME NEW d \in Deliveries, Serve(d) PROVE UNCHANGED story
    BY <1>1, <1>2 DEF Serve, Actors, Receive, Note, Queue, Enqueue
  <1>3. ASSUME NEW w \in Workers, Work(w) PROVE UNCHANGED story
    BY <1>1, <1>3 DEF Work, Actors, Take, Gate, Load, Start, Assets, Recheck, Facts, Body, Insert,
       Reply, Mission, Release, Close, Catch
  <1> QED
    BY <1>2, <1>3 DEF Next, vars, Deliver, Claim, Error, Die, Change, Old, Due

-----------------------------------------------------------------------------
\* Oppositions

\* While the webhook takes its replies for oppositions there is no job, and whatever comes after
\* the step that records the opposition comes with the opposition recorded.
Late == {"update", "ignore", "review"}
Heard ==
    story.hook = "optout" =>
        /\ \A m \in Emails : job[m].status = "none"
        /\ \A w \in Workers : At(w, "idle")
        /\ \A d \in Deliveries :
            /\ actor[d].step \in {"idle", "read", "load", "check", "note", "oppose", "closed"} \cup Late
            /\ actor[d].step \in Late \/ actor[d].seen \in Terminal => opposed
        /\ \A m \in Emails : message[m].status \in Terminal => opposed
        /\ acked # {} => opposed

LEMMA HeardStep ==
  ASSUME TypeOK, Heard, story.hook = "optout", UNCHANGED story, NEW d \in Deliveries, UNCHANGED job,
         NEW S \in SUBSET ({"idle", "read", "load", "check", "note", "oppose", "closed"} \cup Late),
         Moves(d, S), opposed => opposed', opposed' \/ S \cap Late = {},
         \A m \in Emails : message'[m].status \in Terminal => opposed',
         acked' # {} => opposed'
  PROVE  Heard'
  <1>1. actor'[d].seen \in Terminal => opposed'
    BY DEF Heard, Moves, Terminal
  <1>2. \A e \in Deliveries \ {d} : actor'[e] = actor[e]
    BY DEF Moves, Actors
  <1>3. \A e \in Deliveries :
          /\ actor'[e].step \in {"idle", "read", "load", "check", "note", "oppose", "closed"} \cup Late
          /\ actor'[e].step \in Late \/ actor'[e].seen \in Terminal => opposed'
    BY <1>1, <1>2 DEF Heard, Moves
  <1>4. \A w \in Workers : At(w, "idle")'
    BY StoryAssumption DEF Heard, Moves, Actors, At
  <1> QED
    BY <1>3, <1>4 DEF Heard

LEMMA HookHeard ==
  ASSUME TypeOK, Heard, story.hook = "optout", NEW d \in Deliveries, Serve(d), UNCHANGED story
  PROVE  Heard'
  <1>1. /\ d \in Actors /\ d \notin Workers /\ ActorsTyped /\ Kind(d) = "optout"
        /\ actor[d].step \in {"idle", "read", "load", "check", "note", "oppose", "closed"} \cup Late
        /\ actor[d].step \in Late \/ actor[d].seen \in Terminal => opposed
        /\ \A m \in Emails : message[m].status \in Terminal => opposed
        /\ acked # {} => opposed
    BY StoryAssumption DEF Actors, TypeOK, Kind, Heard
  <1>2. CASE Read(d)
    <2>1. CASE Open
      <3>1. Moves(d, {"load", "idle"}) /\ UNCHANGED <<opposed, acked, message, job>>
        BY <1>1, <1>2, <2>1, ThenMoves DEF Read, replies
      <3> QED
        BY <1>1, <3>1, HeardStep DEF Late
    <2>2. CASE ~ Open
      <3>1. Moves(d, {"idle"}) /\ UNCHANGED <<message, job>>
        BY <1>1, <1>2, <2>2, ReturnMoves DEF Read, replies
      <3>2. opposed' = (opposed \/ Kind(d) = "optout")
        BY <1>2, <2>2 DEF Read
      <3>3. opposed'
        BY <1>1, <3>2
      <3> QED
        BY <1>1, <3>1, <3>3, HeardStep DEF Late
    <2> QED
      BY <2>1, <2>2
  <1>3. CASE Receive(d)
    <2> DEFINE e == actor[d].email
    <2>1. UNCHANGED <<opposed, job>> /\ e \in Emails /\ message[e].lease = 0
      BY <1>1, <1>3 DEF Receive, effects, At, TypeOK, RepliesTyped, ActorsTyped, Heard
    <2>2. CASE message[e].status = "absent"
      <3>1. Moves(d, {"check", "idle"}) /\ UNCHANGED acked
            /\ message' = [message EXCEPT ![e].status = "queued"]
        BY <1>1, <1>3, <2>2, ThenMoves DEF Receive
      <3>2. \A m \in Emails : message'[m].status \in Terminal => message[m].status \in Terminal
        BY <3>1 DEF TypeOK, RepliesTyped, Terminal
      <3> QED
        BY <1>1, <2>1, <3>1, <3>2, HeardStep DEF Late
    <2>3. CASE message[e].status \in Terminal
      <3>1. Moves(d, {"idle"}) /\ UNCHANGED message /\ opposed
        BY <1>1, <1>3, <2>1, <2>3, ReturnMoves DEF Receive, Terminal
      <3> QED
        BY <1>1, <2>1, <3>1, HeardStep DEF Late
    <2>4. CASE message[e].status \notin Terminal \cup {"absent"}
      <3>1. UNCHANGED <<message, acked>>
            /\ actor' = [actor EXCEPT ![d].step = "check", ![d].dup = TRUE]
        BY <1>3, <2>1, <2>4 DEF Receive
      <3>2. Moves(d, {"check"})
        BY <1>1, <3>1 DEF Moves, ActorsTyped, ActorStates
      <3> QED
        BY <1>1, <2>1, <3>1, <3>2, HeardStep DEF Late
    <2> QED
      BY <2>2, <2>3, <2>4
  <1>4. CASE Check(d)
    <2>1. UNCHANGED <<opposed, acked, message, job>>
      BY <1>1, <1>4 DEF Check, Renewed, effects
    <2>2. Moves(d, {"oppose", "note", "idle"})
      <3>1. CASE LeaseLost(d)
        BY <1>1, <3>1, ThrowsMoves DEF LeaseLost, Moves
      <3>2. CASE Then(d, "oppose")
        BY <1>1, <3>2, ThenMoves DEF Moves
      <3>3. CASE Sees(d)
        BY <1>1, <1>4, <3>3, SeesMoves DEF Moves, Check, At
      <3> QED
        BY <1>1, <1>4, <3>1, <3>2, <3>3 DEF Check, First
    <2> QED
      BY <1>1, <2>1, <2>2, HeardStep DEF Late
  <1>8. CASE Note(d)
    <2>1. UNCHANGED <<opposed, acked, job>> /\ Write(d, actor[d].seen)
      BY <1>8 DEF Note, effects
    <2>2. Moves(d, {"closed", "idle"})
      BY <1>1, <1>8, ThenMoves DEF Note
    <2>3. \A m \in Emails : message'[m].status \in Terminal => opposed'
      BY <1>1, <2>1 DEF Write, TypeOK, RepliesTyped
    <2> QED
      BY <1>1, <2>1, <2>2, <2>3, HeardStep DEF Late
  <1>5. CASE Oppose(d)
    <2>1. opposed' /\ UNCHANGED <<acked, message, job>>
      BY <1>5 DEF Oppose, replies
    <2>2. Moves(d, {"ignore", "update", "idle"})
      BY <1>1, <1>5, ThenMoves DEF Oppose, Moves
    <2> QED
      BY <1>1, <2>1, <2>2, HeardStep DEF Late
  <1>6. CASE Update(d)
    <2>1. UNCHANGED <<opposed, acked, message, job>> /\ opposed
      BY <1>1, <1>6 DEF Update, Renewed, effects, At, Late
    <2>2. Moves(d, {"review", "idle"})
      BY <1>1, <1>6, ThenMoves, ThrowsMoves DEF Update, Moves, Refused
    <2> QED
      BY <1>1, <2>1, <2>2, HeardStep DEF Late
  <1>7. CASE End(d)
    <2>1. UNCHANGED <<opposed, job>> /\ opposed
      BY <1>1, <1>7 DEF End, Renewed, effects, Late
    <2>2. Moves(d, {"idle"})
      BY <1>1, <1>7, ReturnMoves, ThrowsMoves DEF End, LeaseLost
    <2> QED
      BY <1>1, <2>1, <2>2, HeardStep DEF Late
  <1> QED
    BY <1>1, <1>2, <1>3, <1>4, <1>5, <1>6, <1>7, <1>8
       DEF Serve, Ingest, Queue, Enqueue, Known, Exclude, Log, Stop, ApplyWrongRecipient, At, Late

LEMMA HeardKept ==
  ASSUME TypeOK, Heard, [Next]_vars PROVE Heard'
  <1> SUFFICES ASSUME story.hook = "optout" PROVE Heard'
    BY StoryKept DEF Heard
  <1>1. UNCHANGED story
    BY StoryKept
  <1>2. (\A m \in Emails : job[m].status = "none") /\ (\A w \in Workers : At(w, "idle"))
    BY DEF Heard
  <1>3. Exhausted = {} /\ Claimable = {}
    BY <1>2 DEF Exhausted, Claimable, Waiting, Abandoned
  <1>4. CASE UNCHANGED vars
    BY <1>4 DEF vars, replies, effects, Heard, At
  <1>5. ASSUME NEW d \in Deliveries, NEW m \in Emails, Deliver(d, m) PROVE Heard'
    <2>1. Moves(d, {"read"})
      BY <1>5 DEF Deliver, Moves, TypeOK, ActorsTyped, Actors, Idle
    <2>2. UNCHANGED <<opposed, acked, message, job>>
      BY <1>5 DEF Deliver, replies, effects
    <2> QED
      BY <1>1, <2>1, <2>2, HeardStep DEF Late, Heard
  <1>6. ASSUME NEW a \in Actors, Error(a) \/ Die(a) PROVE Heard'
    <2>1. a \in Deliveries /\ a \notin Workers
      BY <1>2, <1>6, StoryAssumption DEF Error, Die, At, Actors
    <2>2. Moves(a, {"idle"})
      <3>1. CASE Die(a)
        BY <2>1, <3>1 DEF Die, Moves, TypeOK, ActorsTyped, Idle
      <3>2. CASE Error(a)
        <4>1. Throws(a)
          BY <2>1, <3>2 DEF Error, Heard, Late, At
        <4> QED
          BY <2>1, <4>1, ThrowsMoves DEF TypeOK
      <3> QED
        BY <1>6, <3>1, <3>2
    <2>3. UNCHANGED <<opposed, acked, message, job>>
      BY <1>6 DEF Error, Die, replies, effects
    <2> QED
      BY <1>1, <2>1, <2>2, <2>3, HeardStep DEF Late, Heard
  <1>7. CASE Change
    BY <1>1, <1>7 DEF Change, effects, Heard, At
  <1>8. ASSUME NEW w \in Workers PROVE ~ Claim(w) /\ ~ Work(w)
    <2>1. ~ Claim(w)
      BY <1>3 DEF Claim
    <2>2. ~ Ingest(w)
      BY <1>2 DEF Ingest, Read, Check, Oppose, Known, Exclude, Log, Stop, ApplyWrongRecipient, Update,
         End, At
    <2> QED
      BY <1>2, <2>1, <2>2 DEF Work, Take, Gate, Load, Start, Assets, Recheck, Facts, Body, Insert, Reply,
         Mission, Release, Close, Catch, At
  <1>9. ASSUME NEW m \in Emails PROVE ~ Old(m) /\ ~ Due(m)
    BY <1>2 DEF Old, Due
  <1> QED
    BY <1>1, <1>4, <1>5, <1>6, <1>7, <1>8, <1>9, HookHeard DEF Next

\* An opposition that Resend saw answered is recorded, for any deliveries, failures and closings.
THEOREM OppositionsHeard == Spec => []OppositionHonoured
  <1>1. Init => Heard
    <2> SUFFICES ASSUME Init PROVE Heard
      OBVIOUS
    <2>1. \A a \in Actors : At(a, "idle") /\ actor[a].seen = "absent"
      BY DEF Init, At, Idle
    <2> QED
      BY <2>1 DEF Init, Heard, NoJob, NoMessage, Terminal, Late, At, Actors
  <1>2. TypeOK /\ Heard /\ [Next]_vars => Heard'
    BY HeardKept
  <1>3. Heard => OppositionHonoured
    BY DEF Heard, OppositionHonoured
  <1> QED
    BY <1>1, <1>2, <1>3, Typing, PTL DEF Spec

-----------------------------------------------------------------------------
\* Replies that were answered

\* What becomes of a job, but for a claim: it goes on, is made, or is closed by the worker that holds it.
LEMMA JobChanges ==
  ASSUME TypeOK, [Next]_vars, \A w \in Workers : ~ Claim(w)
  PROVE  \A m \in Emails :
            /\ job'[m].attempts = job[m].attempts
            /\ \/ job'[m].status = job[m].status
               \/ job[m].status = "none" /\ job'[m].status = "queued"
               \/ \E w \in Workers :
                    /\ actor[w].step \in {"close", "drop"} /\ Holds(w) /\ actor[w].email = m
                    /\ job'[m].status = Outcome(w)
  <1> DEFINE Good ==
        \A m \in Emails :
            /\ job'[m].attempts = job[m].attempts
            /\ \/ job'[m].status = job[m].status
               \/ job[m].status = "none" /\ job'[m].status = "queued"
               \/ \E w \in Workers :
                    /\ actor[w].step \in {"close", "drop"} /\ Holds(w) /\ actor[w].email = m
                    /\ job'[m].status = Outcome(w)
  <1>1. RepliesTyped /\ job \in [Emails -> Jobs]
    BY DEF TypeOK, RepliesTyped, Jobs
  <1>2. UNCHANGED job \/ JobsKept => Good
    BY DEF JobsKept
  <1>3. ASSUME NEW a \in Actors, Ingest(a) PROVE UNCHANGED job \/ JobsKept
    BY <1>1, <1>3, RenewedKeeps DEF Ingest, Read, Check, Oppose, Known, Exclude, Log, Stop,
       ApplyWrongRecipient, Update, End, replies
  <1>4. ASSUME NEW d \in Deliveries, Serve(d) PROVE Good
    <2>1. ASSUME Enqueue(d) PROVE Good
      <3> DEFINE new == [NoJob EXCEPT !.status = "queued", !.due = TRUE]
                 e == actor[d].email
      <3>1. new.status = "queued" /\ new.attempts = 0
        BY DEF NoJob
      <3>2. UNCHANGED job \/ (job[e].status = "none" /\ job' = [job EXCEPT ![e] = new])
        BY <2>1 DEF Enqueue
      <3>3. e \in Emails => (job[e].status = "none" => job[e].attempts = 0)
        BY <1>1 DEF RepliesTyped
      <3> HIDE DEF new, e
      <3> QED
        BY <1>1, <3>1, <3>2, <3>3
    <2> QED
      BY <1>2, <1>3, <1>4, <2>1 DEF Serve, Actors, Receive, Note, Queue
  <1>5. ASSUME NEW w \in Workers, Work(w) PROVE Good
    <2>1. ASSUME Take(w) PROVE Good
      BY <1>1, <2>1 DEF Take, Jobs
    <2>2. ASSUME Close(w) PROVE Good
      <3> DEFINE e == actor[w].email
                 r == [job[e] EXCEPT !.status = Outcome(w), !.old = FALSE]
      <3>1. e \in Emails
        BY <2>2 DEF Close, TypeOK, ActorsTyped, Actors
      <3>2. r.status = Outcome(w) /\ r.attempts = job[e].attempts
        BY <1>1, <3>1 DEF Jobs
      <3>3. actor[w].step \in {"close", "drop"} /\ (UNCHANGED job \/ (Holds(w) /\ job' = [job EXCEPT ![e] = r]))
        BY <2>2 DEF Close
      <3> HIDE DEF r
      <3> QED
        BY <1>1, <3>1, <3>2, <3>3
    <2>3. ASSUME Work(w), ~ Take(w), ~ Close(w), ~ Ingest(w) PROVE UNCHANGED job \/ JobsKept
      BY <1>1, <2>3, RenewedKeeps DEF Work, Actors, Gate, Load, Start, Assets, Recheck, Facts, Body,
         Insert, Reply, Mission, Release, Catch, replies
    <2> QED
      BY <1>2, <1>3, <1>5, <2>1, <2>2, <2>3 DEF Actors
  <1>6. ASSUME NEW m \in Emails, Old(m) \/ Due(m) PROVE Good
    BY <1>1, <1>6 DEF Old, Due, Jobs
  <1>7. ASSUME NEW a \in Actors, Error(a) \/ Die(a) PROVE UNCHANGED job
    BY <1>7 DEF Error, Die, replies
  <1>8. ASSUME NEW d \in Deliveries, NEW m \in Emails, Deliver(d, m) PROVE UNCHANGED job
    BY <1>8 DEF Deliver, replies
  <1>9. CASE Change \/ UNCHANGED vars
    BY <1>2, <1>9 DEF Change, vars, replies
  <1> QED
    BY <1>2, <1>4, <1>5, <1>6, <1>7, <1>8, <1>9 DEF Next

\* A claim counts an attempt of what it takes up, and puts in review what has no attempts left.
LEMMA ClaimChanges ==
  ASSUME TypeOK, NEW w \in Workers, Claim(w), NEW m \in Emails
  PROVE  \/ /\ job'[m].status = "processing" /\ job'[m].attempts = job[m].attempts + 1
            /\ m \in Claimable /\ message'[m].lease = job[m].attempts + 1
         \/ /\ job'[m].status = "review" /\ job'[m].attempts = job[m].attempts
            /\ message'[m].lease = 0
         \/ job'[m] = job[m] /\ message'[m] = message[m]
  <1> DEFINE r == [message[m] EXCEPT !.lease = job[m].attempts + 1]
             j == [job[m] EXCEPT !.status = "review", !.old = FALSE]
  <1>1. r.lease = job[m].attempts + 1 /\ j.status = "review" /\ j.attempts = job[m].attempts
    BY DEF TypeOK, RepliesTyped
  <1>2. CASE m \in Claimable
    <2>1. message'[m] = r /\ job'[m].status = "processing" /\ job'[m].attempts = job[m].attempts + 1
      BY <1>2 DEF Claim
    <2> QED
      BY <1>1, <1>2, <2>1
  <1>3. CASE m \notin Claimable /\ m \in Exhausted
    <2>1. message'[m].lease = 0 /\ job'[m] = j
      BY <1>3 DEF Claim
    <2> QED
      BY <1>1, <2>1
  <1>4. CASE m \notin Claimable /\ m \notin Exhausted
    BY <1>4 DEF Claim
  <1> QED
    BY <1>2, <1>3, <1>4

\* A job never disappears.
LEMMA JobsStay ==
  ASSUME TypeOK, [Next]_vars
  PROVE  \A m \in Emails : job[m].status # "none" => job'[m].status # "none"
  <1>1. ASSUME NEW w \in Workers, actor[w].step \in {"close", "drop"} PROVE Outcome(w) # "none"
    BY <1>1 DEF Outcome, TypeOK, ActorsTyped, ActorStates, Actors, Terminal
  <1>2. CASE \E w \in Workers : Claim(w)
    BY <1>2, ClaimChanges
  <1> QED
    BY <1>1, <1>2, JobChanges

\* An execution that goes on has the reply and the lease that it had.
OnlyMoves(a) ==
    /\ \A b \in Actors \ {a} : actor'[b] = actor[b]
    /\ \/ actor'[a].step \in {"idle", "take"}
       \/ /\ actor[a].step \notin {"idle", "take"}
          /\ actor'[a].email = actor[a].email /\ actor'[a].lease = actor[a].lease

LEMMA ToOnly ==
  ASSUME ActorsTyped, NEW a \in Actors, NEW st, To(a, st),
         actor[a].step \notin {"idle", "take"} \/ st \in {"idle", "take"}
  PROVE  OnlyMoves(a)
  BY DEF ActorsTyped, ActorStates, To, OnlyMoves

LEMMA NextJobOnly ==
  ASSUME ActorsTyped, NEW a \in Actors, NextJob(a) PROVE OnlyMoves(a)
  BY DEF ActorsTyped, NextJob, OnlyMoves, Idle

LEMMA ThrowsOnly ==
  ASSUME ActorsTyped, NEW a \in Actors, actor[a].step \notin {"idle", "take"}, Throws(a) \/ LeaseLost(a)
  PROVE  OnlyMoves(a)
  <1>1. CASE actor' = [actor EXCEPT ![a] = Idle]
    BY <1>1 DEF ActorsTyped, OnlyMoves, Idle
  <1>2. CASE To(a, "catch") \/ To(a, "fail")
    BY <1>2, ToOnly
  <1> QED
    BY <1>1, <1>2 DEF Throws, LeaseLost

LEMMA ThenOnly ==
  ASSUME ActorsTyped, NEW a \in Actors, actor[a].step \notin {"idle", "take"}, NEW st, Then(a, st)
  PROVE  OnlyMoves(a)
  BY ToOnly, ThrowsOnly DEF Then

LEMMA ReturnOnly ==
  ASSUME ActorsTyped, NEW a \in Actors, actor[a].step \notin {"idle", "take"}, NEW res, Return(a, res)
  PROVE  OnlyMoves(a)
  <1>1. CASE Throws(a)
    BY <1>1, ThrowsOnly
  <1>2. CASE actor' = [actor EXCEPT ![a] = Idle]
    BY <1>2 DEF ActorsTyped, OnlyMoves, Idle
  <1>3. CASE actor' = [actor EXCEPT ![a].step = "settle", ![a].result = res]
    BY <1>3 DEF ActorsTyped, ActorStates, OnlyMoves
  <1> QED
    BY <1>1, <1>2, <1>3 DEF Return

LEMMA IngestOnly ==
  ASSUME ActorsTyped, NEW a \in Actors, Ingest(a) PROVE OnlyMoves(a) /\ UNCHANGED held
  <1>1. ASSUME At(a, "check"), Sees(a) PROVE OnlyMoves(a)
    BY <1>1 DEF ActorsTyped, ActorStates, At, Sees, OnlyMoves
  <1> QED
    BY <1>1, ThenOnly, ReturnOnly, ThrowsOnly DEF Ingest, Read, Check, Oppose, Known, Exclude, Log,
       Stop, ApplyWrongRecipient, Update, End, At

LEMMA WorkOnly ==
  ASSUME ActorsTyped, NEW w \in Workers, Work(w), ~ Take(w) PROVE OnlyMoves(w) /\ UNCHANGED held
  <1>1. w \in Actors
    BY DEF Actors
  <1>2. CASE Load(w) \/ Start(w) \/ Gate(w) \/ Recheck(w) \/ Reply(w) \/ Mission(w)
    BY <1>1, <1>2, ThenOnly, ReturnOnly, ThrowsOnly
       DEF Load, Start, Gate, Recheck, Reply, Mission, At
  <1>3. CASE Assets(w) \/ Facts(w) \/ Body(w)
    BY <1>1, <1>3, ThenOnly, ThrowsOnly DEF Assets, Facts, Body, Insert, At
  <1>4. CASE Release(w)
    BY <1>1, <1>4, ToOnly, NextJobOnly DEF Release, At
  <1>5. CASE Close(w) \/ Catch(w)
    BY <1>1, <1>5, ToOnly, NextJobOnly DEF Close, Catch, At
  <1> QED
    BY <1>1, <1>2, <1>3, <1>4, <1>5, IngestOnly DEF Work

LEMMA ServeOnly ==
  ASSUME ActorsTyped, NEW d \in Deliveries, Serve(d) PROVE OnlyMoves(d) /\ UNCHANGED held
  <1>1. d \in Actors
    BY DEF Actors
  <1>2. ASSUME Receive(d) PROVE OnlyMoves(d)
    <2>1. At(d, "load") /\ actor[d].step \notin {"idle", "take"}
      BY <1>2 DEF Receive, At
    <2>2. ASSUME actor' = [actor EXCEPT ![d].step = "check", ![d].dup = TRUE] PROVE OnlyMoves(d)
      BY <1>1, <2>1, <2>2 DEF ActorsTyped, ActorStates, OnlyMoves
    <2> QED
      BY <1>1, <1>2, <2>1, <2>2, ThenOnly, ReturnOnly DEF Receive
  <1>3. Note(d) \/ Queue(d) \/ Enqueue(d) => OnlyMoves(d)
    BY <1>1, ThenOnly, ReturnOnly DEF Note, Queue, Enqueue, At
  <1>4. Receive(d) \/ Note(d) \/ Queue(d) \/ Enqueue(d) => UNCHANGED held
    BY DEF Receive, Note, Queue, Enqueue
  <1> QED
    BY <1>1, <1>2, <1>3, <1>4, IngestOnly DEF Serve

\* A webhook queues only what is to be read, and ignores that only once the case is closed; only then
\* does it write a message back.
Queues ==
    \A d \in Deliveries :
        /\ At(d, "note") => ~ Open
        /\ story.hook # "answer" => ~ At(d, "queue")
        /\ story.hook = "answer" =>
            /\ actor[d].step \in {"idle", "read", "load", "check", "note", "ignore", "queue", "enqueue"}
            /\ At(d, "ignore") => ~ Open

\* What a worker works on, or has claimed, has a job.
Jobbed ==
    \A w \in Workers :
        /\ actor[w].step \notin {"idle", "take"} => job[actor[w].email].status # "none"
        /\ \A h \in held[w] : job[h.email].status # "none"

\* While the case is open, what is to be read reaches its end by a job, and what was answered has
\* one or is at its end.
Followed ==
    Open => \A m \in Emails :
        /\ story.hook = "answer" /\ message[m].status \in Terminal => job[m].status # "none"
        /\ m \in acked => message[m].status \in Terminal \/ job[m].status # "none"

LEMMA JobbedKept ==
  ASSUME TypeOK, Jobbed, [Next]_vars PROVE Jobbed'
  <1>1. ActorsTyped /\ \A m \in Emails : job[m].status # "none" => job'[m].status # "none"
    BY JobsStay DEF TypeOK
  <1>2. \A w \in Workers : actor[w].step \notin {"idle", "take"} => actor[w].email \in Emails
    BY <1>1 DEF ActorsTyped, Actors
  <1>3. \A w \in Workers : \A h \in held[w] : h.email \in Emails
    BY DEF TypeOK
  <1>4. ASSUME NEW a \in Actors, OnlyMoves(a), UNCHANGED held PROVE Jobbed'
    BY <1>1, <1>2, <1>3, <1>4 DEF Jobbed, OnlyMoves, Actors
  <1>5. ASSUME UNCHANGED actor, UNCHANGED held PROVE Jobbed'
    BY <1>1, <1>2, <1>3, <1>5 DEF Jobbed
  <1>6. ASSUME NEW d \in Deliveries, Serve(d) PROVE Jobbed'
    BY <1>1, <1>4, <1>6, ServeOnly DEF Actors
  <1>7. ASSUME NEW w \in Workers, Work(w) PROVE Jobbed'
    <2>1. ASSUME Take(w) PROVE Jobbed'
      <3>1. PICK h \in held[w] :
              /\ held' = [held EXCEPT ![w] = @ \ {h}]
              /\ \/ actor' = [actor EXCEPT ![w] =
                        [Idle EXCEPT !.step = "gate", !.email = h.email, !.lease = h.lease]]
                 \/ actor' = [actor EXCEPT ![w] =
                        [Idle EXCEPT !.step = IF held[w] = {h} THEN "idle" ELSE "take"]]
        BY <2>1 DEF Take
      <3>2. job'[h.email].status # "none"
        BY <1>1, <1>3, <3>1 DEF Jobbed
      <3>3. \A v \in Workers : held'[v] \subseteq held[v]
        BY <3>1 DEF TypeOK
      <3>4. \A v \in Workers : \/ actor'[v] = actor[v]
                               \/ actor'[v].step \in {"idle", "take"}
                               \/ actor'[v].email = h.email
        BY <1>1, <3>1 DEF ActorsTyped, Actors, Idle
      <3> QED
        BY <1>1, <1>2, <1>3, <3>2, <3>3, <3>4 DEF Jobbed
    <2> QED
      BY <1>1, <1>4, <1>7, <2>1, WorkOnly DEF Actors
  <1>8. ASSUME NEW w \in Workers, Claim(w) PROVE Jobbed'
    <2>1. \A v \in Workers : actor'[v] = actor[v] \/ actor'[v].step \in {"idle", "take"}
      BY <1>1, <1>8 DEF Claim, To, ActorsTyped, ActorStates, Actors
    <2>2. \A m \in Claimable : m \in Emails /\ job'[m].status = "processing"
      BY <1>8 DEF Claim, Claimable
    <2>3. \A v \in Workers : held'[v] = held[v] \/ \A h \in held'[v] : h.email \in Claimable
      <3> DEFINE mine == {[email |-> m, lease |-> job[m].attempts + 1] : m \in Claimable}
      <3>1. \A h \in mine : h.email \in Claimable
        OBVIOUS
      <3>2. held' = [held EXCEPT ![w] = mine] /\ DOMAIN held = Workers
        BY <1>8 DEF Claim, TypeOK
      <3> HIDE DEF mine
      <3> QED
        BY <3>1, <3>2
    <2> QED
      BY <1>1, <1>2, <1>3, <2>1, <2>2, <2>3 DEF Jobbed
  <1>9. ASSUME NEW a \in Actors, Error(a) PROVE Jobbed'
    <2>1. OnlyMoves(a) /\ UNCHANGED held
      BY <1>1, <1>9, ToOnly, NextJobOnly, ThrowsOnly DEF Error, At
    <2> QED
      BY <1>4, <2>1
  <1>10. ASSUME NEW a \in Actors, Die(a) PROVE Jobbed'
    <2>1. \A v \in Workers : actor'[v] = actor[v] \/ actor'[v].step = "idle"
      BY <1>1, <1>10 DEF Die, ActorsTyped, Actors, Idle
    <2>2. \A v \in Workers : held'[v] \subseteq held[v]
      BY <1>10 DEF Die, TypeOK
    <2> QED
      BY <1>1, <1>2, <1>3, <2>1, <2>2 DEF Jobbed
  <1>11. ASSUME NEW d \in Deliveries, NEW m \in Emails, Deliver(d, m) PROVE Jobbed'
    <2>1. (\A v \in Workers : actor'[v] = actor[v]) /\ UNCHANGED held
      BY <1>1, <1>11, StoryAssumption DEF Deliver, ActorsTyped, Actors
    <2> QED
      BY <1>1, <1>2, <1>3, <2>1 DEF Jobbed
  <1>12. CASE Change \/ (\E m \in Emails : Old(m) \/ Due(m)) \/ UNCHANGED vars
    BY <1>5, <1>12 DEF Change, Old, Due, vars
  <1> QED
    BY <1>6, <1>7, <1>8, <1>9, <1>10, <1>11, <1>12 DEF Next

\* A step of a worker leaves the webhooks where they are.
LEMMA WorkerLeaves ==
  ASSUME ActorsTyped, NEW w \in Workers, Work(w) \/ Claim(w) \/ Error(w) \/ Die(w)
  PROVE  \A d \in Deliveries : actor'[d] = actor[d]
  <1>1. w \in Actors /\ Deliveries \cap Workers = {} /\ Deliveries \subseteq Actors
    BY StoryAssumption DEF Actors
  <1>2. OnlyMoves(w) => \A d \in Deliveries : actor'[d] = actor[d]
    BY <1>1 DEF OnlyMoves
  <1>3. Take(w) \/ Claim(w) \/ Die(w) => \A d \in Deliveries : actor'[d] = actor[d]
    BY <1>1 DEF Take, Claim, To, Die, ActorsTyped
  <1>4. Error(w) => OnlyMoves(w)
    BY <1>1, ToOnly, NextJobOnly, ThrowsOnly DEF Error, At
  <1> QED
    BY <1>2, <1>3, <1>4, WorkOnly

LEMMA QueuesStep ==
  ASSUME ActorsTyped, Queues, UNCHANGED story, Open' => Open, NEW d \in Deliveries, NEW S, Moves(d, S),
         "note" \in S => ~ Open, story.hook # "answer" => "queue" \notin S,
         story.hook = "answer" =>
            /\ S \subseteq {"idle", "read", "load", "check", "note", "ignore", "queue", "enqueue"}
            /\ "ignore" \in S => ~ Open
  PROVE  Queues'
  BY DEF Queues, Moves, Actors, At

LEMMA QueuesServed ==
  ASSUME TypeOK, Queues, UNCHANGED story, Open' => Open, NEW d \in Deliveries, Serve(d)
  PROVE  Queues'
  <1>1. ActorsTyped /\ d \in Actors /\ d \notin Workers /\ Kind(d) = story.hook /\ story.hook \in Kinds
    BY StoryAssumption DEF TypeOK, Actors, Kind
  <1>2. CASE Read(d)
    <2>1. CASE Then(d, "load")
      <3>1. Moves(d, {"load", "idle"})
        BY <1>1, <2>1, ThenMoves
      <3> QED
        BY <1>1, <3>1, QueuesStep
    <2>2. CASE Return(d, "ignored")
      BY <1>1, <2>2, ReturnMoves, QueuesStep
    <2> QED
      BY <1>2, <2>1, <2>2 DEF Read
  <1>3. CASE Receive(d)
    <2>1. CASE Then(d, "check")
      <3>1. Moves(d, {"check", "idle"})
        BY <1>1, <2>1, ThenMoves
      <3> QED
        BY <1>1, <3>1, QueuesStep
    <2>2. CASE Return(d, "queued")
      BY <1>1, <2>2, ReturnMoves, QueuesStep
    <2>3. CASE actor' = [actor EXCEPT ![d].step = "check", ![d].dup = TRUE]
      <3>1. Moves(d, {"check"})
        BY <1>1, <2>3 DEF Moves, ActorsTyped, ActorStates
      <3> QED
        BY <1>1, <3>1, QueuesStep
    <2> QED
      BY <1>3, <2>1, <2>2, <2>3 DEF Receive
  <1>4. CASE Check(d)
    <2>1. CASE LeaseLost(d)
      BY <1>1, <2>1, ThrowsMoves, QueuesStep DEF LeaseLost
    <2>2. CASE Open /\ Then(d, First(d))
      <3>1. IF story.hook = "answer" THEN First(d) \in {"queue", "enqueue"}
            ELSE First(d) \notin {"queue", "note"}
        BY <1>1 DEF First, Kinds
      <3>2. Moves(d, {First(d), "idle"})
        BY <1>1, <2>2, ThenMoves
      <3> QED
        BY <1>1, <3>1, <3>2, QueuesStep
    <2>3. CASE ~ Open /\ Sees(d)
      BY <1>1, <1>4, <2>3, SeesMoves, QueuesStep DEF Check, At
    <2> QED
      BY <1>1, <1>4, <2>1, <2>2, <2>3 DEF Check
  <1>8. CASE Note(d)
    <2>1. ~ Open
      BY <1>8 DEF Queues, Note, At
    <2>2. Moves(d, {"ignore", "closed", "idle"})
      BY <1>1, <1>8, ThenMoves DEF Note, Moves
    <2>3. story.hook = "answer" => Moves(d, {"ignore", "idle"})
      BY <1>1, <1>8, ThenMoves DEF Note
    <2>4. CASE story.hook = "answer"
      BY <1>1, <2>1, <2>3, <2>4, QueuesStep
    <2>5. CASE story.hook # "answer"
      BY <1>1, <2>2, <2>5, QueuesStep
    <2> QED
      BY <2>4, <2>5
  <1>5. CASE Oppose(d) \/ Known(d) \/ Exclude(d) \/ Log(d) \/ Stop(d) \/ Update(d)
    <2>1. story.hook # "answer"
      BY <1>1, <1>5
         DEF Oppose, Known, Exclude, Log, Stop, ApplyWrongRecipient, Update, At, Queues
    <2>2. Moves(d, {"ignore", "update", "exclude", "log", "stop", "review", "idle"})
      <3>1. \A st \in {"ignore", "update", "exclude", "log", "stop", "review"} :
              Then(d, st) => Moves(d, {"ignore", "update", "exclude", "log", "stop", "review", "idle"})
        BY <1>1, ThenMoves DEF Moves
      <3> QED
        BY <1>1, <1>5, <3>1
           DEF Oppose, Known, Exclude, Log, Stop, ApplyWrongRecipient, Update, Refused
    <2> QED
      BY <1>1, <2>1, <2>2, QueuesStep
  <1>6. CASE End(d) \/ Enqueue(d)
    <2>1. Moves(d, {"idle"})
      BY <1>1, <1>6, ReturnMoves, ThrowsMoves DEF End, Enqueue, LeaseLost
    <2> QED
      BY <1>1, <2>1, QueuesStep
  <1>7. CASE Queue(d)
    <2>1. story.hook = "answer" /\ Moves(d, {"enqueue", "idle"})
      BY <1>1, <1>7, ThenMoves DEF Queue, Queues
    <2> QED
      BY <1>1, <2>1, QueuesStep
  <1> QED
    BY <1>2, <1>3, <1>4, <1>5, <1>6, <1>7, <1>8 DEF Serve, Ingest

LEMMA QueuesKept ==
  ASSUME TypeOK, Queues, [Next]_vars PROVE Queues'
  <1>1. ActorsTyped /\ UNCHANGED story /\ (Open' => Open)
    BY StoryKept, CaseChanges DEF TypeOK, Open
  <1>2. ASSUME \A d \in Deliveries : actor'[d] = actor[d] PROVE Queues'
    BY <1>1, <1>2 DEF Queues, At
  <1>3. ASSUME NEW d \in Deliveries, NEW m \in Emails, Deliver(d, m) PROVE Queues'
    <2>1. Moves(d, {"read"})
      BY <1>1, <1>3 DEF Deliver, Moves, ActorsTyped, Actors, Idle
    <2> QED
      BY <1>1, <2>1, QueuesStep
  <1>4. ASSUME NEW d \in Deliveries, Error(d) \/ Die(d) PROVE Queues'
    <2>1. d \in Actors /\ d \notin Workers
      BY StoryAssumption DEF Actors
    <2>2. ~ (At(d, "fail") \/ At(d, "drop") \/ At(d, "catch")) \/ story.hook # "answer"
      BY DEF Queues, At
    <2>3. Die(d) => Moves(d, {"idle"})
      BY <1>1, <2>1 DEF Die, Moves, ActorsTyped, Idle
    <2>4. Error(d) /\ Throws(d) => Moves(d, {"idle"})
      BY <1>1, ThrowsMoves
    <2>5. Error(d) /\ NextJob(d) => Moves(d, {"idle", "take"})
      BY <1>1, <2>1 DEF NextJob, Moves, ActorsTyped, Idle
    <2>6. Error(d) /\ To(d, "fail") => Moves(d, {"fail"})
      BY <1>1, ToMoves
    <2>7. CASE Moves(d, {"idle"})
      BY <1>1, <2>7, QueuesStep
    <2>8. CASE story.hook # "answer" /\ (Moves(d, {"idle", "take"}) \/ Moves(d, {"fail"}))
      BY <1>1, <2>8, QueuesStep
    <2> QED
      BY <1>4, <2>2, <2>3, <2>4, <2>5, <2>6, <2>7, <2>8 DEF Error, At
  <1>5. ASSUME NEW d \in Deliveries, Serve(d) PROVE Queues'
    BY <1>1, <1>5, QueuesServed
  <1>6. ASSUME NEW w \in Workers, Work(w) \/ Claim(w) \/ Error(w) \/ Die(w) PROVE Queues'
    BY <1>1, <1>2, <1>6, WorkerLeaves
  <1>7. ASSUME Change \/ (\E m \in Emails : Old(m) \/ Due(m)) \/ UNCHANGED vars PROVE Queues'
    BY <1>2, <1>7 DEF Change, Old, Due, vars
  <1> QED
    BY <1>3, <1>4, <1>5, <1>6, <1>7 DEF Next, Actors

\* What is written on a reply of an open case: by a worker, which has its job; by a webhook that ends
\* it; by one that receives it, or queues it.
MessageMoves ==
    Open' => \A m \in Emails :
        \/ message'[m].status = message[m].status
        \/ job'[m].status # "none"
        \/ message'[m].status \in Terminal /\ story.hook # "answer"
        \/ message'[m].status = "queued" /\ (message[m].status = "absent" \/ story.hook = "answer")

LEMMA MessageChanges ==
  ASSUME TypeOK, Queues, Jobbed, [Next]_vars PROVE MessageMoves
  <1>1. \A m \in Emails : job[m].status # "none" => job'[m].status # "none"
    BY JobsStay
  <1>2. /\ message \in [Emails -> [status : MessageStatuses, lease : 0 .. MaxAttempts]]
        /\ \A m \in Emails : message[m].lease # 0 => job[m].status # "none"
    BY StoryAssumption DEF TypeOK, RepliesTyped
  <1>3. CASE UNCHANGED message
    BY <1>3 DEF MessageMoves
  <1>4. ASSUME NEW e \in Emails, job[e].status # "none", NEW r, message' = [message EXCEPT ![e] = r]
        PROVE  MessageMoves
    BY <1>1, <1>2, <1>4 DEF MessageMoves
  <1>5. ASSUME NEW w \in Workers, NEW st, actor[w].step \notin {"idle", "take"}, Write(w, st)
        PROVE  MessageMoves
    <2>1. actor[w].email \in Emails /\ job[actor[w].email].status # "none"
      BY <1>5 DEF TypeOK, ActorsTyped, Actors, Jobbed
    <2> QED
      BY <1>4, <1>5, <2>1 DEF Write
  <1>6. ASSUME NEW a \in Actors, Ingest(a), ~ End(a) PROVE UNCHANGED message
    BY <1>6 DEF Ingest, Read, Check, Oppose, Known, Exclude, Log, Stop, ApplyWrongRecipient, Update,
       replies
  <1>7. ASSUME NEW d \in Deliveries, End(d) PROVE MessageMoves
    <2>1. UNCHANGED case /\ actor[d].step \in {"ignore", "dismiss", "review", "giveup", "final"}
      BY <1>7 DEF End
    <2>2. story.hook = "answer" => ~ Open'
      BY <2>1 DEF Queues, At, Open
    <2>3. PICK st \in {"ignored", "review"} : UNCHANGED message \/ Write(d, st)
      BY <1>7 DEF End
    <2> QED
      BY <1>2, <2>2, <2>3 DEF MessageMoves, Write, Terminal
  <1>8. ASSUME NEW d \in Deliveries, Receive(d) PROVE MessageMoves
    <2> DEFINE e == actor[d].email
    <2>1. \/ UNCHANGED message
          \/ /\ message[e].status = "absent"
             /\ message' = [message EXCEPT ![e].status = "queued"]
      BY <1>8 DEF Receive
    <2> QED
      BY <1>2, <2>1 DEF MessageMoves
  <1>9. ASSUME NEW d \in Deliveries, Queue(d) PROVE MessageMoves
    <2>1. story.hook = "answer" /\ Write(d, "queued")
      BY <1>9 DEF Queue, Queues
    <2> QED
      BY <1>2, <2>1 DEF MessageMoves, Write
  <1>10. ASSUME NEW d \in Deliveries, Serve(d) PROVE MessageMoves
    <2>1. Enqueue(d) => UNCHANGED message
      BY DEF Enqueue
    <2>2. ASSUME Note(d) PROVE ~ Open'
      BY <2>2 DEF Note, Queues, At, Open
    <2>3. Note(d) => MessageMoves
      BY <2>2 DEF MessageMoves
    <2> QED
      BY <1>3, <1>6, <1>7, <1>8, <1>9, <1>10, <2>1, <2>3 DEF Serve, Actors
  <1>11. ASSUME NEW w \in Workers, Work(w) PROVE MessageMoves
    <2>1. CASE Start(w)
      BY <1>3, <1>5, <2>1 DEF Start, At
    <2>2. CASE End(w)
      BY <1>3, <1>5, <2>2 DEF End
    <2>3. CASE Catch(w)
      BY <1>3, <1>5, <2>3 DEF Catch, At
    <2>4. CASE Release(w)
      <3>1. message' = [message EXCEPT ![actor[w].email].lease = 0] \/ UNCHANGED message
        BY <2>4 DEF Release
      <3> QED
        BY <1>2, <3>1 DEF MessageMoves
    <2>5. ASSUME Take(w) \/ Gate(w) \/ Load(w) \/ Assets(w) \/ Recheck(w) \/ Facts(w) \/ Body(w)
                 \/ Reply(w) \/ Mission(w) \/ Close(w)
          PROVE  UNCHANGED message
      BY <2>5 DEF Take, Gate, Load, Assets, Recheck, Facts, Body, Insert, Reply, Mission, Close, replies
    <2> QED
      BY <1>3, <1>6, <1>11, <2>1, <2>2, <2>3, <2>4, <2>5 DEF Work, Actors
  <1>12. ASSUME NEW w \in Workers, Claim(w) PROVE MessageMoves
    <2>1. ASSUME NEW m \in Emails
          PROVE  message'[m].status = message[m].status \/ job[m].status # "none"
      <3>1. CASE m \notin Claimable /\ m \notin Exhausted
        BY <1>12, <3>1 DEF Claim
      <3>2. CASE m \in Claimable \/ m \in Exhausted
        BY <3>2 DEF Claimable, Exhausted, Waiting, Abandoned
      <3> QED
        BY <3>1, <3>2
    <2> QED
      BY <1>1, <2>1 DEF MessageMoves
  <1>13. ASSUME Change \/ UNCHANGED vars \/ (\E m \in Emails : Old(m) \/ Due(m)) PROVE UNCHANGED message
    BY <1>13 DEF Change, Old, Due, vars, replies
  <1>14. ASSUME NEW a \in Actors, Error(a) \/ Die(a) PROVE UNCHANGED message
    BY <1>14 DEF Error, Die, replies
  <1>15. ASSUME NEW d \in Deliveries, NEW m \in Emails, Deliver(d, m) PROVE UNCHANGED message
    BY <1>15 DEF Deliver, replies
  <1> QED
    BY <1>3, <1>10, <1>11, <1>12, <1>13, <1>14, <1>15 DEF Next

\* What is answered is at its end, has a job, or was sent to a case that is closed.
LEMMA AckedChanges ==
  ASSUME TypeOK, [Next]_vars
  PROVE  \A m \in acked' : \/ m \in acked \/ ~ Open'
                           \/ message'[m].status \in Terminal \/ job'[m].status # "none"
  <1> DEFINE Fine == \A m \in acked' : \/ m \in acked \/ ~ Open'
                                       \/ message'[m].status \in Terminal \/ job'[m].status # "none"
  <1>1. UNCHANGED acked => Fine
    OBVIOUS
  <1>2. \A a \in Actors : \A res : Return(a, res) => acked' \subseteq acked \cup {actor[a].email}
    BY DEF Return
  <1>3. \A w \in Workers : \A res : Return(w, res) => UNCHANGED acked
    BY StoryAssumption DEF Return
  <1>4. ASSUME NEW d \in Deliveries, Read(d) PROVE Fine
    <2>1. UNCHANGED case /\ (Open => UNCHANGED acked)
      BY <1>4 DEF Read, replies
    <2> QED
      BY <1>1, <2>1 DEF Open
  <1>5. ASSUME NEW d \in Deliveries, Receive(d) PROVE Fine
    <2> DEFINE e == actor[d].email
    <2>1. e \in Emails /\ d \in Actors
      BY <1>5 DEF Receive, At, TypeOK, ActorsTyped, Actors
    <2>2. \/ UNCHANGED acked
          \/ /\ UNCHANGED <<message, job>> /\ acked' \subseteq acked \cup {e}
             /\ message[e].status \in Terminal \/ message[e].lease # 0
      BY <1>2, <1>5, <2>1 DEF Receive
    <2>3. message[e].lease # 0 => job[e].status # "none"
      BY <2>1 DEF TypeOK, RepliesTyped
    <2> HIDE DEF e
    <2> QED
      BY <1>1, <2>2, <2>3
  <1>6. ASSUME NEW d \in Deliveries, End(d) PROVE Fine
    <2>1. actor[d].email \in Emails /\ d \in Actors
      BY <1>6 DEF End, TypeOK, ActorsTyped, Actors
    <2>2. PICK st \in Terminal : UNCHANGED acked \/ (Write(d, st) /\ Return(d, st))
      BY <1>6 DEF End, Terminal
    <2>3. Write(d, st) => message'[actor[d].email].status = st
      BY <2>1 DEF Write, TypeOK, RepliesTyped
    <2> QED
      BY <1>1, <1>2, <2>1, <2>2, <2>3
  <1>7. ASSUME NEW d \in Deliveries, Enqueue(d) PROVE Fine
    <2>1. actor[d].email \in Emails /\ d \in Actors
      BY <1>7 DEF Enqueue, At, TypeOK, ActorsTyped, Actors
    <2>2. job'[actor[d].email].status # "none"
      <3> DEFINE new == [NoJob EXCEPT !.status = "queued", !.due = TRUE]
      <3>1. new.status = "queued" /\ DOMAIN job = Emails
        BY DEF NoJob, TypeOK, RepliesTyped
      <3>2. \/ UNCHANGED job /\ job[actor[d].email].status # "none"
            \/ job' = [job EXCEPT ![actor[d].email] = new]
        BY <1>7 DEF Enqueue
      <3> HIDE DEF new
      <3> QED
        BY <2>1, <3>1, <3>2
    <2> QED
      BY <1>2, <1>7, <2>1, <2>2 DEF Enqueue
  <1>8. ASSUME NEW a \in Actors, Ingest(a), ~ Read(a), ~ End(a) PROVE UNCHANGED acked
    BY <1>8 DEF Ingest, Check, Oppose, Known, Exclude, Log, Stop, ApplyWrongRecipient, Update
  <1>9. ASSUME NEW d \in Deliveries, Serve(d) PROVE Fine
    <2>1. Note(d) \/ Queue(d) => UNCHANGED acked
      BY DEF Note, Queue
    <2> QED
      BY <1>1, <1>4, <1>5, <1>6, <1>7, <1>8, <1>9, <2>1 DEF Serve, Actors
  <1>10. ASSUME NEW w \in Workers, Work(w) PROVE UNCHANGED acked
    <2>1. w \in Actors
      BY DEF Actors
    <2>2. Read(w) \/ End(w) \/ Load(w) => UNCHANGED acked
      BY <1>3 DEF Read, End, Load
    <2>3. Take(w) \/ Gate(w) \/ Start(w) \/ Assets(w) \/ Recheck(w) \/ Facts(w) \/ Body(w)
          \/ Reply(w) \/ Mission(w) \/ Release(w) \/ Close(w) \/ Catch(w) => UNCHANGED acked
      BY DEF Take, Gate, Start, Assets, Recheck, Facts, Body, Insert, Reply, Mission, Release, Close,
         Catch
    <2> QED
      BY <1>8, <1>10, <2>1, <2>2, <2>3 DEF Work
  <1>11. ASSUME NEW a \in Actors, Error(a) \/ Die(a) PROVE UNCHANGED acked
    BY <1>11 DEF Error, Die
  <1>12. ASSUME NEW w \in Workers, Claim(w) PROVE UNCHANGED acked
    BY <1>12 DEF Claim
  <1>13. ASSUME NEW d \in Deliveries, NEW m \in Emails, Deliver(d, m) PROVE UNCHANGED acked
    BY <1>13 DEF Deliver
  <1>14. ASSUME Change \/ UNCHANGED vars \/ (\E m \in Emails : Old(m) \/ Due(m)) PROVE UNCHANGED acked
    BY <1>14 DEF Change, Old, Due, vars
  <1> QED
    BY <1>1, <1>9, <1>10, <1>11, <1>12, <1>13, <1>14 DEF Next

LEMMA FollowedKept ==
  ASSUME TypeOK, Queues, Jobbed, Followed, [Next]_vars PROVE Followed'
  <1> SUFFICES ASSUME Open', NEW m \in Emails
               PROVE  /\ story.hook = "answer" /\ message'[m].status \in Terminal
                            => job'[m].status # "none"
                      /\ m \in acked' => message'[m].status \in Terminal \/ job'[m].status # "none"
    BY StoryKept DEF Followed
  <1>1. Open
    BY CaseChanges DEF Open
  <1>2. job[m].status # "none" => job'[m].status # "none"
    BY JobsStay
  <1>3. /\ story.hook = "answer" /\ message[m].status \in Terminal => job[m].status # "none"
        /\ m \in acked => message[m].status \in Terminal \/ job[m].status # "none"
    BY <1>1 DEF Followed
  <1>4. \/ message'[m].status = message[m].status
        \/ job'[m].status # "none"
        \/ message'[m].status \in Terminal /\ story.hook # "answer"
        \/ message'[m].status = "queued" /\ (message[m].status = "absent" \/ story.hook = "answer")
    BY MessageChanges DEF MessageMoves
  <1>5. m \in acked' => m \in acked \/ message'[m].status \in Terminal \/ job'[m].status # "none"
    BY AckedChanges
  <1> QED
    BY <1>2, <1>3, <1>4, <1>5 DEF Terminal

-----------------------------------------------------------------------------
\* Where the steps of an execution lead

\* No step but Release leads to the last write of a job.  While the case is open, only what is automatic
\* is ignored, and a worker settles its job with an end that the reply may have.
Onward(a) ==
    /\ actor'[a].step \notin {"close", "drop"}
    /\ Open =>
        /\ actor'[a].step \notin {"note", "closed", "dismiss"}
        /\ actor'[a].step = "ignore" => Kind(a) = "auto"
        /\ actor'[a].step = "settle" => Ended(actor'[a].result)

LEMMA ToOnward ==
  ASSUME ActorsTyped, NEW a \in Actors, NEW st, To(a, st), st \notin {"close", "drop"},
         Open => st \notin {"note", "closed", "dismiss", "settle"} /\ (st = "ignore" => Kind(a) = "auto")
  PROVE  Onward(a)
  <1>1. actor'[a].step = st
    BY DEF ActorsTyped, ActorStates, To
  <1> QED
    BY <1>1 DEF Onward

LEMMA RestOnward ==
  ASSUME ActorsTyped, NEW a \in Actors, NextJob(a) \/ actor' = [actor EXCEPT ![a] = Idle]
  PROVE  Onward(a)
  <1>1. actor'[a].step \in {"idle", "take"}
    BY DEF ActorsTyped, NextJob, Idle
  <1> QED
    BY <1>1 DEF Onward

LEMMA ThrowsOnward ==
  ASSUME ActorsTyped, NEW a \in Actors, Throws(a) \/ LeaseLost(a)
  PROVE  Onward(a)
  BY ToOnward, RestOnward DEF Throws, LeaseLost

LEMMA ThenOnward ==
  ASSUME ActorsTyped, NEW a \in Actors, NEW st, Then(a, st), st \notin {"close", "drop"},
         Open => st \notin {"note", "closed", "dismiss", "settle"} /\ (st = "ignore" => Kind(a) = "auto")
  PROVE  Onward(a)
  BY ToOnward, ThrowsOnward DEF Then

LEMMA ReturnOnward ==
  ASSUME ActorsTyped, NEW a \in Actors, NEW res, Return(a, res), Open /\ a \in Workers => Ended(res)
  PROVE  Onward(a)
  <1>1. CASE Throws(a) \/ actor' = [actor EXCEPT ![a] = Idle]
    BY <1>1, ThrowsOnward, RestOnward
  <1>2. CASE a \in Workers /\ actor' = [actor EXCEPT ![a].step = "settle", ![a].result = res]
    <2>1. actor'[a].step = "settle" /\ actor'[a].result = res
      BY <1>2 DEF ActorsTyped, ActorStates
    <2> QED
      BY <1>2, <2>1 DEF Onward
  <1> QED
    BY <1>1, <1>2, StoryAssumption DEF Return, Actors

\* While the case is open, what has ended has ended well: the message, its job, and what a worker is
\* about to write.
Endings ==
    Open =>
        /\ \A m \in Emails :
            /\ message[m].status \in Terminal => Ended(message[m].status)
            /\ job[m].status \in Terminal => Ended(job[m].status)
        /\ \A a \in Actors :
            /\ actor[a].step \notin {"note", "closed", "dismiss"}
            /\ actor[a].step = "ignore" => Kind(a) = "auto"
        /\ \A w \in Workers : actor[w].step \in {"settle", "close"} => Ended(actor[w].result)

LEMMA IngestOnward ==
  ASSUME TypeOK, Endings, NEW a \in Actors, Ingest(a) PROVE Onward(a)
  <1>1. ActorsTyped /\ Kind(a) \in Kinds
    BY StoryAssumption DEF TypeOK, Kind
  <1>2. CASE Read(a)
    BY <1>1, <1>2, ThenOnward, ReturnOnward DEF Read
  <1>3. CASE Check(a)
    <2>1. First(a) \notin {"close", "drop", "note", "closed", "dismiss", "settle"}
          /\ (First(a) = "ignore" => Kind(a) = "auto")
      BY <1>1 DEF First, Kinds
    <2>2. ASSUME Sees(a), ~ Open PROVE Onward(a)
      <3>1. actor'[a].step = "note"
        BY <1>1, <2>2 DEF Sees, ActorsTyped, ActorStates
      <3> QED
        BY <2>2, <3>1 DEF Onward
    <2> QED
      BY <1>1, <1>3, <2>1, <2>2, ThenOnward, ThrowsOnward DEF Check
  <1>4. CASE Oppose(a)
    <2>1. At(a, "closed") => ~ Open
      BY DEF Endings, At
    <2> QED
      BY <1>1, <1>4, <2>1, ThenOnward DEF Oppose
  <1>5. CASE Known(a) \/ Exclude(a) \/ Log(a) \/ Stop(a) \/ Update(a)
    BY <1>1, <1>5, ThenOnward, ThrowsOnward
       DEF Known, Exclude, Log, Stop, ApplyWrongRecipient, Update
  <1>6. CASE End(a)
    <2> DEFINE status == IF actor[a].step \in {"ignore", "dismiss"} THEN "ignored" ELSE "review"
    <2>1. (MayWrite(a) /\ Return(a, status)) \/ LeaseLost(a)
      BY <1>6 DEF End
    <2>2. Open => Ended(status)
      BY DEF Endings, Ended, Kind
    <2> HIDE DEF status
    <2> QED
      BY <1>1, <2>1, <2>2, ReturnOnward, ThrowsOnward
  <1> QED
    BY <1>2, <1>3, <1>4, <1>5, <1>6 DEF Ingest

LEMMA WorkOnward ==
  ASSUME TypeOK, Endings, NEW w \in Workers, Work(w), ~ Release(w), ~ Take(w) PROVE Onward(w)
  <1>1. ActorsTyped /\ w \in Actors
    BY DEF TypeOK, Actors
  <1>2. CASE Load(w)
    <2>1. Open /\ message[actor[w].email].status \in Terminal => Ended(message[actor[w].email].status)
      BY <1>1, <1>2 DEF Endings, ActorsTyped, Load, At
    <2> QED
      BY <1>1, <1>2, <2>1, ThenOnward, ReturnOnward, ThrowsOnward DEF Load
  <1>3. CASE Gate(w) \/ Start(w) \/ Recheck(w) \/ Reply(w) \/ Mission(w)
    BY <1>1, <1>3, ThenOnward, ThrowsOnward DEF Gate, Start, Recheck, Reply, Mission
  <1>4. CASE Assets(w) \/ Facts(w) \/ Body(w)
    BY <1>1, <1>4, ThenOnward, ThrowsOnward DEF Assets, Facts, Body, Insert
  <1>5. CASE Close(w) \/ Catch(w)
    BY <1>1, <1>5, RestOnward, ToOnward DEF Close, Catch
  <1> QED
    BY <1>1, <1>2, <1>3, <1>4, <1>5, IngestOnward DEF Work

LEMMA ErrorOnward ==
  ASSUME TypeOK, NEW a \in Actors, Error(a) \/ Die(a) PROVE Onward(a)
  BY RestOnward, ToOnward, ThrowsOnward DEF TypeOK, Error, Die

-----------------------------------------------------------------------------
\* How a reply ends

\* The end of what is written.
LEMMA WrittenEnds ==
  ASSUME TypeOK, Endings, Open, NEW e \in Emails, NEW r, message' = [message EXCEPT ![e] = r],
         r.status \in Terminal => Ended(r.status)
  PROVE  \A m \in Emails : message'[m].status \in Terminal => Ended(message'[m].status)
  BY DEF Endings, TypeOK, RepliesTyped

LEMMA MessageEnds ==
  ASSUME TypeOK, Endings, Open, [Next]_vars
  PROVE  \A m \in Emails : message'[m].status \in Terminal => Ended(message'[m].status)
  <1> DEFINE Good == \A m \in Emails : message'[m].status \in Terminal => Ended(message'[m].status)
  <1>1. UNCHANGED message => Good
    BY DEF Endings
  <1>2. ASSUME NEW a \in Actors, actor[a].step \notin {"idle", "take"}, NEW st, Write(a, st),
               st \in Terminal => Ended(st)
        PROVE  Good
    <2> DEFINE r == [status |-> st, lease |-> actor[a].lease]
    <2>1. actor[a].email \in Emails /\ message' = [message EXCEPT ![actor[a].email] = r] /\ r.status = st
      BY <1>2 DEF TypeOK, ActorsTyped, Write
    <2> HIDE DEF r
    <2> QED
      BY <1>2, <2>1, WrittenEnds
  <1>3. "review" \in Terminal /\ Ended("review")
    BY DEF Terminal, Ended
  <1>4. ASSUME NEW a \in Actors, Ingest(a) PROVE Good
    <2>1. CASE End(a)
      <3>1. actor[a].step \notin {"idle", "take"}
            /\ (UNCHANGED message \/ Write(a, "review") \/ (actor[a].step = "ignore" /\ Write(a, "ignored")))
        BY <2>1 DEF End, Endings
      <3>2. actor[a].step = "ignore" => Ended("ignored")
        BY DEF Endings, Ended, Kind
      <3> QED
        BY <1>1, <1>2, <1>3, <3>1, <3>2
    <2>2. CASE ~ End(a)
      BY <1>1, <1>4, <2>2 DEF Ingest, Read, Check, Oppose, Known, Exclude, Log, Stop,
         ApplyWrongRecipient, Update, replies
    <2> QED
      BY <2>1, <2>2
  <1>5. ASSUME NEW d \in Deliveries, Serve(d) PROVE Good
    <2>1. CASE Receive(d)
      <3> DEFINE e == actor[d].email
                 r == [message[e] EXCEPT !.status = "queued"]
      <3>1. e \in Emails
        BY <2>1 DEF Receive, At, TypeOK, ActorsTyped, Actors
      <3>2. r.status = "queued"
        BY <3>1 DEF TypeOK, RepliesTyped
      <3>3. UNCHANGED message \/ message' = [message EXCEPT ![e] = r]
        BY <2>1 DEF Receive
      <3> HIDE DEF e, r
      <3> QED
        BY <1>1, <3>1, <3>2, <3>3, WrittenEnds DEF Terminal
    <2>2. ~ Note(d)
      BY DEF Note, At, Endings, Actors
    <2>3. CASE Queue(d)
      BY <1>2, <2>3 DEF Queue, At, Actors, Terminal
    <2>4. CASE Enqueue(d)
      BY <1>1, <2>4 DEF Enqueue
    <2> QED
      BY <1>4, <1>5, <2>1, <2>2, <2>3, <2>4 DEF Serve, Actors
  <1>6. ASSUME NEW w \in Workers, Work(w) PROVE Good
    <2>1. CASE Start(w) \/ Catch(w)
      BY <1>1, <1>2, <2>1 DEF Start, Catch, At, Actors, Terminal
    <2>2. CASE Release(w)
      <3> DEFINE e == actor[w].email
                 r == [message[e] EXCEPT !.lease = 0]
      <3>1. e \in Emails
        BY <2>2 DEF Release, TypeOK, ActorsTyped, Actors
      <3>2. r.status = message[e].status
        BY <3>1 DEF TypeOK, RepliesTyped
      <3>3. UNCHANGED message \/ message' = [message EXCEPT ![e] = r]
        BY <2>2 DEF Release
      <3> HIDE DEF e, r
      <3> QED
        BY <1>1, <3>1, <3>2, <3>3, WrittenEnds DEF Endings
    <2>3. ASSUME Take(w) \/ Gate(w) \/ Load(w) \/ Assets(w) \/ Recheck(w) \/ Facts(w) \/ Body(w)
                 \/ Reply(w) \/ Mission(w) \/ Close(w)
          PROVE  UNCHANGED message
      BY <2>3 DEF Take, Gate, Load, Assets, Recheck, Facts, Body, Insert, Reply, Mission, Close, replies
    <2> QED
      BY <1>1, <1>4, <1>6, <2>1, <2>2, <2>3 DEF Work, Actors
  <1>7. ASSUME NEW w \in Workers, Claim(w) PROVE Good
    <2>1. ASSUME NEW m \in Emails PROVE message'[m].status \in {"review", message[m].status}
      <3> DEFINE r == [message[m] EXCEPT !.lease = job[m].attempts + 1]
      <3>1. r.status = message[m].status
        BY DEF TypeOK, RepliesTyped
      <3>2. message'[m] \in {r, [status |-> "review", lease |-> 0], message[m]}
        BY <1>7 DEF Claim
      <3> HIDE DEF r
      <3> QED
        BY <3>1, <3>2
    <2> QED
      BY <1>3, <2>1 DEF Endings
  <1>8. ASSUME NEW a \in Actors, Error(a) \/ Die(a) PROVE UNCHANGED message
    BY <1>8 DEF Error, Die, replies
  <1>9. ASSUME NEW d \in Deliveries, NEW m \in Emails, Deliver(d, m) PROVE UNCHANGED message
    BY <1>9 DEF Deliver, replies
  <1>10. CASE Change \/ UNCHANGED vars \/ (\E m \in Emails : Old(m) \/ Due(m))
    BY <1>1, <1>10 DEF Change, Old, Due, vars, replies
  <1> QED
    BY <1>1, <1>5, <1>6, <1>7, <1>8, <1>9, <1>10 DEF Next

LEMMA EndingsKept ==
  ASSUME TypeOK, Endings, [Next]_vars PROVE Endings'
  <1> SUFFICES ASSUME Open' PROVE Endings'
    BY DEF Endings
  <1>1. Open /\ UNCHANGED story /\ ActorsTyped /\ Workers \subseteq Actors
    BY StoryKept, CaseChanges DEF Open, TypeOK, Actors
  <1>3. \A m \in Emails : message'[m].status \in Terminal => Ended(message[m].status)'
    BY <1>1, MessageEnds DEF Ended
  <1>4. \A m \in Emails : job'[m].status \in Terminal => Ended(job[m].status)'
    <2> SUFFICES ASSUME NEW m \in Emails, job'[m].status \in Terminal PROVE Ended(job'[m].status)
      BY <1>1 DEF Ended
    <2>1. job[m].status \in Terminal => Ended(job[m].status)
      BY <1>1 DEF Endings
    <2>2. ASSUME NEW w \in Workers, Claim(w) PROVE Ended(job'[m].status)
      BY <2>1, <2>2, ClaimChanges DEF Ended, Terminal
    <2>3. ASSUME NEW w \in Workers, actor[w].step \in {"close", "drop"}, Outcome(w) \in Terminal
          PROVE  Ended(Outcome(w))
      BY <1>1, <2>3 DEF Endings, Outcome, At, Ended, Terminal
    <2> QED
      BY <2>1, <2>2, <2>3, JobChanges DEF Terminal
  <1>5. ASSUME NEW a \in Actors, Onward(a), \A b \in Actors \ {a} : actor'[b] = actor[b] PROVE Endings'
    <2>1. \A b \in Actors :
            /\ actor'[b].step \notin {"note", "closed", "dismiss"}
            /\ actor'[b].step = "ignore" => Kind(b) = "auto"
      BY <1>1, <1>5 DEF Endings, Onward
    <2>2. \A w \in Workers : actor'[w].step \in {"settle", "close"} => Ended(actor'[w].result)
      BY <1>1, <1>5 DEF Endings, Onward
    <2> QED
      BY <1>1, <1>3, <1>4, <2>1, <2>2 DEF Endings, Kind, Ended
  <1>6. ASSUME \A a \in Actors : actor'[a] = actor[a] \/ actor'[a].step \in {"idle", "take", "read", "gate"}
        PROVE  Endings'
    <2>1. \A b \in Actors :
            /\ actor'[b].step \notin {"note", "closed", "dismiss"}
            /\ actor'[b].step = "ignore" => Kind(b) = "auto"
      BY <1>1, <1>6 DEF Endings
    <2>2. \A w \in Workers : actor'[w].step \in {"settle", "close"} => Ended(actor'[w].result)
      BY <1>1, <1>6 DEF Endings
    <2> QED
      BY <1>1, <1>3, <1>4, <2>1, <2>2 DEF Endings, Kind, Ended
  <1>7. ASSUME NEW a \in Actors, Ingest(a) PROVE Endings'
    BY <1>1, <1>5, <1>7, IngestOnward, IngestOnly DEF OnlyMoves
  <1>8. ASSUME NEW d \in Deliveries, Serve(d) PROVE Endings'
    <2>1. d \in Actors /\ d \notin Workers
      BY StoryAssumption DEF Actors
    <2>2. ASSUME Receive(d) PROVE Moves(d, {"check", "idle"})
      <3>1. ASSUME actor' = [actor EXCEPT ![d].step = "check", ![d].dup = TRUE]
            PROVE  Moves(d, {"check"})
        BY <1>1, <2>1, <3>1 DEF Moves, ActorsTyped, ActorStates
      <3>2. Then(d, "check") => Moves(d, {"check", "idle"})
        BY <1>1, ThenMoves
      <3>3. Return(d, "queued") => Moves(d, {"idle"})
        BY <1>1, ReturnMoves
      <3> QED
        BY <2>2, <3>1, <3>2, <3>3 DEF Receive, Moves
    <2>3. ~ Note(d)
      BY <1>1, <2>1 DEF Note, At, Endings
    <2>4. Queue(d) => Moves(d, {"enqueue", "idle"})
      BY <1>1, ThenMoves DEF Queue
    <2>5. Enqueue(d) => Moves(d, {"idle"})
      BY <1>1, ReturnMoves DEF Enqueue
    <2>6. ASSUME Moves(d, {"check", "idle"}) \/ Moves(d, {"enqueue", "idle"}) \/ Moves(d, {"idle"})
          PROVE  Onward(d) /\ \A b \in Actors \ {d} : actor'[b] = actor[b]
      BY <2>6 DEF Moves, Onward
    <2> QED
      BY <1>5, <1>7, <1>8, <2>1, <2>2, <2>3, <2>4, <2>5, <2>6 DEF Serve
  <1>9. ASSUME NEW w \in Workers, Work(w) PROVE Endings'
    <2>1. w \in Actors
      BY DEF Actors
    <2>2. CASE Take(w)
      <3>1. PICK h \in held[w] :
              \/ actor' = [actor EXCEPT ![w] =
                        [Idle EXCEPT !.step = "gate", !.email = h.email, !.lease = h.lease]]
              \/ actor' = [actor EXCEPT ![w] =
                        [Idle EXCEPT !.step = IF held[w] = {h} THEN "idle" ELSE "take"]]
        BY <2>2 DEF Take
      <3>2. \A a \in Actors : actor'[a] = actor[a] \/ actor'[a].step \in {"idle", "take", "gate"}
        BY <1>1, <3>1 DEF ActorsTyped, Idle
      <3> QED
        BY <1>6, <3>2
    <2>3. CASE Release(w)
      <3>1. \A b \in Actors \ {w} : actor'[b] = actor[b]
        BY <1>1, <2>1, <2>3, ToOnly, NextJobOnly DEF Release, At, OnlyMoves
      <3>2. \/ actor'[w].step \in {"drop", "fail", "idle", "take"}
            \/ actor[w].step = "settle" /\ actor'[w].step = "close" /\ actor'[w].result = actor[w].result
        BY <1>1, <2>1, <2>3 DEF Release, To, NextJob, At, ActorsTyped, ActorStates, Idle
      <3>3. actor[w].step = "settle" => Ended(actor[w].result)
        BY <1>1 DEF Endings
      <3>4. \A v \in Workers : actor'[v].step \in {"settle", "close"} => Ended(actor'[v].result)
        BY <1>1, <2>1, <3>1, <3>2, <3>3 DEF Endings
      <3>5. \A b \in Actors :
              /\ actor'[b].step \notin {"note", "closed", "dismiss"}
              /\ actor'[b].step = "ignore" => Kind(b) = "auto"
        BY <1>1, <3>1, <3>2 DEF Endings
      <3> QED
        BY <1>1, <1>3, <1>4, <3>4, <3>5 DEF Endings, Kind, Ended
    <2>4. CASE ~ Release(w) /\ ~ Take(w)
      BY <1>1, <1>5, <1>9, <2>1, <2>4, WorkOnward, WorkOnly DEF OnlyMoves
    <2> QED
      BY <2>2, <2>3, <2>4
  <1>10. ASSUME NEW w \in Workers, Claim(w) PROVE Endings'
    <2>1. \A a \in Actors : actor'[a] = actor[a] \/ actor'[a].step \in {"idle", "take"}
      BY <1>1, <1>10 DEF Claim, To, ActorsTyped, ActorStates
    <2> QED
      BY <1>6, <2>1
  <1>11. ASSUME NEW a \in Actors, Error(a) \/ Die(a) PROVE Endings'
    <2>1. \A b \in Actors \ {a} : actor'[b] = actor[b]
      BY <1>1, <1>11, ToOnly, NextJobOnly, ThrowsOnly DEF Error, Die, At, OnlyMoves, ActorsTyped
    <2> QED
      BY <1>5, <1>11, <2>1, ErrorOnward
  <1>12. ASSUME NEW d \in Deliveries, NEW m \in Emails, Deliver(d, m) PROVE Endings'
    <2>1. \A a \in Actors : actor'[a] = actor[a] \/ actor'[a].step = "read"
      BY <1>1, <1>12 DEF Deliver, ActorsTyped, Idle
    <2> QED
      BY <1>6, <2>1
  <1>13. CASE Change \/ UNCHANGED vars \/ (\E m \in Emails : Old(m) \/ Due(m))
    BY <1>6, <1>13 DEF Change, Old, Due, vars
  <1> QED
    BY <1>8, <1>9, <1>10, <1>11, <1>12, <1>13 DEF Next

\* A reply whose delivery was answered is not lost while its case is open: what is to be read ends by its
\* job alone and everything else before the answer, and a job that is settled has ended in review, or
\* was ignored because the reply was automatic.  A message that a late webhook puts back in the queue
\* has such a job.
THEOREM NoReplyLost == Spec => []NothingLost
  <1> DEFINE IInv == TypeOK /\ Queues /\ Jobbed /\ Followed /\ Endings
  <1>1. Init => IInv
    <2> SUFFICES ASSUME Init PROVE Queues /\ Jobbed /\ Followed /\ Endings
      BY InitTyped
    <2>1. \A a \in Actors : actor[a].step = "idle"
      BY DEF Init, Idle
    <2> QED
      BY <2>1 DEF Init, Queues, Jobbed, Followed, Endings, At, Actors, NoMessage, NoJob, Terminal
  <1>2. IInv /\ [Next]_vars => IInv'
    BY NextTyped, QueuesKept, JobbedKept, FollowedKept, EndingsKept
  <1>3. IInv => NothingLost
    <2> SUFFICES ASSUME IInv, NEW m \in acked, Open
                 PROVE  \/ Ended(message[m].status) \/ Ended(job[m].status)
                        \/ job[m].status \in {"queued", "processing", "failed"}
      BY DEF NothingLost
    <2>1. m \in Emails /\ job[m].status \in JobStatuses
      BY DEF TypeOK, RepliesTyped
    <2>2. message[m].status \in Terminal \/ job[m].status # "none"
      BY <2>1 DEF Followed
    <2> QED
      BY <2>1, <2>2 DEF Endings, JobStatuses
  <1> QED
    BY <1>1, <1>2, <1>3, PTL DEF Spec

-----------------------------------------------------------------------------
\* Settled jobs

\* A step of a worker whose lease the message no longer carries writes neither the message nor the case
\* nor the mission.
LEMMA WorkerWrites ==
  ASSUME TypeOK, NEW w \in Workers, Work(w) \/ Error(w) \/ Die(w), ~ Marked(w)
  PROVE  UNCHANGED <<message, case, replied>>
  <1>1. ASSUME Ingest(w) PROVE UNCHANGED <<message, case, replied>>
    BY <1>1 DEF Ingest, Read, Check, Oppose, Known, Exclude, Log, Stop, ApplyWrongRecipient, Update,
       Refused, Fenced, End, MayWrite, replies, effects
  <1>2. ASSUME Work(w), ~ Ingest(w) PROVE UNCHANGED <<message, case, replied>>
    BY <1>2 DEF Work, Take, Gate, Load, Start, Assets, Recheck, Facts, Body, Insert, Reply, Refused,
       Mission, Admitted, Fenced, Release, Close, Catch, replies, effects
  <1>3. ASSUME Error(w) \/ Die(w) PROVE UNCHANGED <<message, case, replied>>
    BY <1>3 DEF Error, Die, replies, effects
  <1> QED
    BY <1>1, <1>2, <1>3

\* A settled job has released its message, and so has a worker that is about to settle it; the lease of
\* a worker is one that a claim has given.
Released ==
    /\ \A m \in Emails : job[m].status \in Terminal => message[m].lease = 0
    /\ \A w \in Workers :
        /\ actor[w].step \notin {"idle", "take"} => actor[w].lease \in 1 .. job[actor[w].email].attempts
        /\ actor[w].step \in {"close", "drop"} /\ Holds(w) => message[actor[w].email].lease = 0
        /\ \A h \in held[w] : h.lease \in 1 .. job[h.email].attempts

LeasesGoOn == \A m \in Emails : message'[m].lease \in {0, message[m].lease}

JobsGoOn ==
    \A m \in Emails :
        /\ job'[m].attempts = job[m].attempts
        /\ job'[m].status = "processing" => job[m].status = "processing"
        /\ job'[m].status \in Terminal => job[m].status \in Terminal \/ message[m].lease = 0

WorkersGoOn ==
    \A w \in Workers :
        /\ held'[w] \subseteq held[w]
        /\ actor'[w].step \notin {"idle", "take"} =>
            \/ /\ actor[w].step \notin {"idle", "take"}
               /\ actor'[w].email = actor[w].email /\ actor'[w].lease = actor[w].lease
            \/ \E h \in held[w] : actor'[w].email = h.email /\ actor'[w].lease = h.lease
        /\ actor'[w].step \in {"close", "drop"} =>
            \/ actor'[w] = actor[w]
            \/ message'[actor'[w].email].lease = 0

LEMMA GoesOn ==
  ASSUME TypeOK, Released, LeasesGoOn, JobsGoOn, WorkersGoOn, TypeOK' PROVE Released'
  <1>1. \A w \in Workers :
          /\ actor[w].step \notin {"idle", "take"} => actor[w].email \in Emails
          /\ actor'[w].step \notin {"idle", "take"} => actor'[w].email \in Emails
          /\ \A h \in held[w] : h.email \in Emails
    BY DEF TypeOK, ActorsTyped, Actors
  <1>2. \A m \in Emails : job'[m].status \in Terminal => message'[m].lease = 0
    BY DEF Released, LeasesGoOn, JobsGoOn
  <1>3. \A w \in Workers : actor'[w].step \notin {"idle", "take"} =>
                              actor'[w].lease \in 1 .. job'[actor'[w].email].attempts
    BY <1>1 DEF Released, JobsGoOn, WorkersGoOn
  <1>4. ASSUME NEW w \in Workers, actor'[w].step \in {"close", "drop"}, Holds(w)'
        PROVE  message'[actor'[w].email].lease = 0
    <2>1. CASE actor'[w] = actor[w]
      <3>1. Holds(w) /\ actor[w].email \in Emails
        BY <1>1, <1>4, <2>1 DEF Holds, JobsGoOn
      <3> QED
        BY <1>4, <2>1, <3>1 DEF Released, LeasesGoOn
    <2> QED
      BY <1>4, <2>1 DEF WorkersGoOn
  <1>5. \A w \in Workers : \A h \in held'[w] : h.lease \in 1 .. job'[h.email].attempts
    BY <1>1 DEF Released, JobsGoOn, WorkersGoOn
  <1> QED
    BY <1>2, <1>3, <1>4, <1>5 DEF Released

LEMMA SettledJobs ==
  ASSUME TypeOK, Released, [Next]_vars, \A w \in Workers : ~ Claim(w) PROVE JobsGoOn
  <1> SUFFICES ASSUME NEW m \in Emails
               PROVE  /\ job'[m].attempts = job[m].attempts
                      /\ job'[m].status = "processing" => job[m].status = "processing"
                      /\ job'[m].status \in Terminal => job[m].status \in Terminal \/ message[m].lease = 0
    BY DEF JobsGoOn
  <1>1. ASSUME NEW w \in Workers, actor[w].step \in {"close", "drop"}, Holds(w), actor[w].email = m,
               job'[m].status = Outcome(w)
        PROVE  message[m].lease = 0 /\ job[m].status = "processing"
    BY <1>1 DEF Released, Holds
  <1> QED
    BY <1>1, JobChanges DEF Terminal

LEMMA WriteLeases ==
  ASSUME TypeOK, NEW a \in Actors, actor[a].step \notin {"idle", "take"}, NEW st, Write(a, st),
         a \in Workers => Marked(a)
  PROVE  LeasesGoOn
  <1> DEFINE e == actor[a].email
             r == [status |-> st, lease |-> actor[a].lease]
  <1>1. e \in Emails /\ (r.lease = 0 \/ r.lease = message[e].lease)
    BY DEF TypeOK, ActorsTyped, Actors, Marked
  <1>2. message' = [message EXCEPT ![e] = r]
    BY DEF Write
  <1> HIDE DEF e, r
  <1> QED
    BY <1>1, <1>2 DEF LeasesGoOn, TypeOK, RepliesTyped

LEMMA SettledLeases ==
  ASSUME TypeOK, [Next]_vars, \A w \in Workers : ~ Claim(w) PROVE LeasesGoOn
  <1>1. UNCHANGED message => LeasesGoOn
    BY DEF LeasesGoOn
  <1>2. ASSUME NEW a \in Actors, Ingest(a) PROVE LeasesGoOn
    <2>1. CASE End(a)
      BY <1>1, <2>1, WriteLeases DEF End, MayWrite
    <2>2. CASE ~ End(a)
      BY <1>1, <1>2, <2>2 DEF Ingest, Read, Check, Oppose, Known, Exclude, Log, Stop,
         ApplyWrongRecipient, Update, replies
    <2> QED
      BY <2>1, <2>2
  <1>3. ASSUME NEW d \in Deliveries, Serve(d) PROVE LeasesGoOn
    <2>1. CASE Receive(d)
      <3> DEFINE e == actor[d].email
                 r == [message[e] EXCEPT !.status = "queued"]
      <3>1. e \in Emails
        BY <2>1 DEF Receive, At, TypeOK, ActorsTyped, Actors
      <3>2. r.lease = message[e].lease
        BY <3>1 DEF TypeOK, RepliesTyped
      <3>3. UNCHANGED message \/ message' = [message EXCEPT ![e] = r]
        BY <2>1 DEF Receive
      <3> HIDE DEF e, r
      <3> QED
        BY <1>1, <3>1, <3>2, <3>3 DEF LeasesGoOn, TypeOK, RepliesTyped
    <2>2. CASE Queue(d) \/ Note(d)
      BY <2>2, StoryAssumption, WriteLeases DEF Queue, Note, At, Actors
    <2> QED
      BY <1>1, <1>2, <1>3, <2>1, <2>2 DEF Serve, Actors, Enqueue
  <1>4. ASSUME NEW w \in Workers, Work(w) PROVE LeasesGoOn
    <2>1. CASE Start(w) \/ Catch(w)
      BY <1>1, <2>1, WriteLeases DEF Start, Catch, Fenced, At, Actors
    <2>2. CASE Release(w)
      BY <1>1, <2>2 DEF Release, LeasesGoOn, TypeOK, RepliesTyped
    <2>3. ASSUME Take(w) \/ Gate(w) \/ Load(w) \/ Assets(w) \/ Recheck(w) \/ Facts(w) \/ Body(w)
                 \/ Reply(w) \/ Mission(w) \/ Close(w)
          PROVE  UNCHANGED message
      BY <2>3 DEF Take, Gate, Load, Assets, Recheck, Facts, Body, Insert, Reply, Mission, Close, replies
    <2> QED
      BY <1>1, <1>2, <1>4, <2>1, <2>2, <2>3 DEF Work, Actors
  <1>5. ASSUME NEW a \in Actors, Error(a) \/ Die(a) PROVE UNCHANGED message
    BY <1>5 DEF Error, Die, replies
  <1>6. ASSUME NEW d \in Deliveries, NEW m \in Emails, Deliver(d, m) PROVE UNCHANGED message
    BY <1>6 DEF Deliver, replies
  <1>7. CASE Change \/ UNCHANGED vars \/ (\E m \in Emails : Old(m) \/ Due(m))
    BY <1>1, <1>7 DEF Change, Old, Due, vars, replies
  <1> QED
    BY <1>1, <1>3, <1>4, <1>5, <1>6, <1>7 DEF Next

LEMMA SettledWorkers ==
  ASSUME TypeOK, Endings, Released, [Next]_vars, \A w \in Workers : ~ Claim(w) PROVE WorkersGoOn
  <1>1. ActorsTyped /\ Workers \cap Deliveries = {} /\ Workers \subseteq Actors
    BY StoryAssumption DEF TypeOK, Actors
  <1>2. ASSUME NEW a \in Actors, OnlyMoves(a), UNCHANGED held,
               a \in Workers =>
                  \/ actor'[a].step \notin {"close", "drop"} \/ message'[actor[a].email].lease = 0
        PROVE  WorkersGoOn
    BY <1>1, <1>2 DEF WorkersGoOn, OnlyMoves
  <1>3. ASSUME UNCHANGED held, \A w \in Workers : actor'[w] = actor[w] PROVE WorkersGoOn
    BY <1>3 DEF WorkersGoOn
  <1>4. ASSUME NEW d \in Deliveries, Serve(d) PROVE WorkersGoOn
    BY <1>1, <1>2, <1>4, ServeOnly DEF Actors
  <1>5. ASSUME NEW w \in Workers, Work(w) PROVE WorkersGoOn
    <2>1. CASE Take(w)
      <3>1. PICK h \in held[w] :
              /\ held' = [held EXCEPT ![w] = @ \ {h}]
              /\ \/ actor' = [actor EXCEPT ![w] =
                        [Idle EXCEPT !.step = "gate", !.email = h.email, !.lease = h.lease]]
                 \/ actor' = [actor EXCEPT ![w] =
                        [Idle EXCEPT !.step = IF held[w] = {h} THEN "idle" ELSE "take"]]
        BY <2>1 DEF Take
      <3>2. \A v \in Workers : held'[v] \subseteq held[v]
        BY <3>1 DEF TypeOK
      <3>3. \A v \in Workers : \/ actor'[v] = actor[v]
                               \/ actor'[v].step \in {"idle", "take"}
                               \/ /\ v = w /\ actor'[v].step = "gate"
                                  /\ actor'[v].email = h.email /\ actor'[v].lease = h.lease
        BY <1>1, <3>1 DEF ActorsTyped, Idle
      <3> QED
        BY <3>1, <3>2, <3>3 DEF WorkersGoOn
    <2>2. CASE Release(w)
      <3>1. OnlyMoves(w) /\ UNCHANGED held
        BY <1>1, <2>2, ToOnly, NextJobOnly DEF Release, At
      <3>2. \/ actor'[w].step \notin {"close", "drop"}
            \/ message' = [message EXCEPT ![actor[w].email].lease = 0]
        BY <1>1, <2>2 DEF Release, NextJob, ActorsTyped, Idle
      <3>3. actor[w].email \in Emails
        BY <1>1, <2>2 DEF Release, ActorsTyped
      <3>4. message' = [message EXCEPT ![actor[w].email].lease = 0] => message'[actor[w].email].lease = 0
        BY <3>3 DEF TypeOK, RepliesTyped
      <3> QED
        BY <1>1, <1>2, <3>1, <3>2, <3>4
    <2>3. CASE ~ Take(w) /\ ~ Release(w)
      <3>1. OnlyMoves(w) /\ UNCHANGED held /\ Onward(w)
        BY <1>1, <1>5, <2>3, WorkOnly, WorkOnward
      <3> QED
        BY <1>1, <1>2, <3>1 DEF Onward
    <2> QED
      BY <2>1, <2>2, <2>3
  <1>6. ASSUME NEW a \in Actors, Error(a) PROVE WorkersGoOn
    <2>1. OnlyMoves(a) /\ UNCHANGED held /\ Onward(a)
      BY <1>1, <1>6, ToOnly, NextJobOnly, ThrowsOnly, ErrorOnward DEF Error, At
    <2> QED
      BY <1>2, <2>1 DEF Onward
  <1>7. ASSUME NEW a \in Actors, Die(a) PROVE WorkersGoOn
    <2>1. \A v \in Workers : actor'[v] = actor[v] \/ actor'[v].step = "idle"
      BY <1>1, <1>7 DEF Die, ActorsTyped, Idle
    <2>2. \A v \in Workers : held'[v] \subseteq held[v]
      BY <1>7 DEF Die, TypeOK
    <2> QED
      BY <2>1, <2>2 DEF WorkersGoOn
  <1>8. ASSUME NEW d \in Deliveries, NEW m \in Emails, Deliver(d, m) PROVE WorkersGoOn
    BY <1>1, <1>3, <1>8 DEF Deliver, ActorsTyped, Actors
  <1>9. CASE Change \/ UNCHANGED vars \/ (\E m \in Emails : Old(m) \/ Due(m))
    BY <1>3, <1>9 DEF Change, Old, Due, vars
  <1> QED
    BY <1>4, <1>5, <1>6, <1>7, <1>8, <1>9 DEF Next

\* A claim draws a lease that no worker has.
LEMMA ClaimReleases ==
  ASSUME TypeOK, Released, NEW w \in Workers, Claim(w) PROVE Released'
  <1>1. ActorsTyped /\ Workers \subseteq Actors
    BY DEF TypeOK, Actors
  <1>2. \A v \in Workers :
          /\ actor[v].step \notin {"idle", "take"} => actor[v].email \in Emails
          /\ \A h \in held[v] : h.email \in Emails
    BY <1>1 DEF ActorsTyped, TypeOK
  <1>3. \A m \in Emails : job[m].attempts \in Nat /\ job'[m].attempts \in {job[m].attempts, job[m].attempts + 1}
    BY ClaimChanges DEF TypeOK, RepliesTyped
  <1>4. \A v \in Workers : actor'[v] = actor[v] \/ actor'[v].step \in {"idle", "take"}
    BY <1>1 DEF Claim, To, ActorsTyped, ActorStates
  <1>5. \A m \in Emails : job'[m].status \in Terminal => message'[m].lease = 0
    BY ClaimChanges DEF Released, Terminal
  <1>6. \A v \in Workers : actor'[v].step \notin {"idle", "take"} =>
                              actor'[v].lease \in 1 .. job'[actor'[v].email].attempts
    BY <1>2, <1>3, <1>4 DEF Released
  <1>7. ASSUME NEW v \in Workers, actor'[v].step \in {"close", "drop"}, Holds(v)'
        PROVE  message'[actor'[v].email].lease = 0
    <2>1. actor'[v] = actor[v] /\ actor[v].email \in Emails
      BY <1>2, <1>4, <1>7
    <2> PICK e \in Emails : e = actor[v].email
      BY <2>1
    <2>2. job'[e].status = "processing" /\ job'[e].attempts = actor[v].lease
      BY <1>7, <2>1 DEF Holds
    <2>3. actor[v].lease \in 1 .. job[e].attempts
      BY <1>7, <2>1 DEF Released
    <2>4. job'[e] = job[e] /\ message'[e] = message[e]
      BY <1>3, <2>1, <2>2, <2>3, ClaimChanges
    <2>5. Holds(v)
      BY <2>2, <2>4 DEF Holds
    <2> QED
      BY <1>7, <2>1, <2>4, <2>5 DEF Released
  <1>8. \A v \in Workers : \A h \in held'[v] : h.lease \in 1 .. job'[h.email].attempts
    <2> DEFINE mine == {[email |-> m, lease |-> job[m].attempts + 1] : m \in Claimable}
    <2>1. \A m \in Claimable : m \in Emails /\ job'[m].attempts = job[m].attempts + 1
      BY DEF Claim, Claimable
    <2>2. \A h \in mine : h.lease \in 1 .. job'[h.email].attempts
      BY <1>3, <2>1
    <2>3. held' = [held EXCEPT ![w] = mine] /\ DOMAIN held = Workers
      BY DEF Claim, TypeOK
    <2> HIDE DEF mine
    <2>4. \A v \in Workers : held'[v] = held[v] \/ held'[v] = mine
      BY <2>3
    <2>5. \A v \in Workers : \A h \in held[v] : h.lease \in 1 .. job'[h.email].attempts
      BY <1>2, <1>3 DEF Released
    <2> QED
      BY <2>2, <2>4, <2>5
  <1> QED
    BY <1>5, <1>6, <1>7, <1>8 DEF Released

LEMMA ReleasedKept ==
  ASSUME TypeOK, Endings, Released, [Next]_vars PROVE Released'
  <1>1. CASE \E w \in Workers : Claim(w)
    BY <1>1, ClaimReleases
  <1>2. CASE \A w \in Workers : ~ Claim(w)
    BY <1>2, NextTyped, SettledJobs, SettledLeases, SettledWorkers, GoesOn
  <1> QED
    BY <1>1, <1>2

\* Only its own steps move a worker that works.
LEMMA OwnSteps ==
  ASSUME TypeOK, [Next]_vars, NEW w \in Workers, actor[w].step \notin {"idle", "take"},
         actor'[w] # actor[w]
  PROVE  Work(w) \/ Error(w) \/ Die(w)
  <1>1. ActorsTyped /\ w \in Actors /\ w \notin Deliveries
    BY StoryAssumption DEF TypeOK, Actors
  <1>2. ASSUME NEW a \in Actors \ {w}, OnlyMoves(a) PROVE FALSE
    BY <1>1, <1>2 DEF OnlyMoves
  <1>3. ASSUME NEW d \in Deliveries, Serve(d) PROVE FALSE
    BY <1>1, <1>2, <1>3, ServeOnly DEF Actors
  <1>4. ASSUME NEW v \in Workers \ {w}, Work(v) PROVE FALSE
    <2>1. ~ Take(v)
      BY <1>1, <1>4 DEF Take, ActorsTyped
    <2> QED
      BY <1>1, <1>2, <1>4, <2>1, WorkOnly DEF Actors
  <1>5. ASSUME NEW v \in Workers, Claim(v) PROVE FALSE
    BY <1>1, <1>5 DEF Claim, To, At, ActorsTyped
  <1>6. ASSUME NEW a \in Actors \ {w}, Error(a) \/ Die(a) PROVE FALSE
    <2>1. ~ Die(a)
      BY <1>1, <1>6 DEF Die, ActorsTyped
    <2> QED
      BY <1>1, <1>2, <1>6, <2>1, ToOnly, NextJobOnly, ThrowsOnly DEF Error, At
  <1>7. ASSUME NEW d \in Deliveries, NEW m \in Emails, Deliver(d, m) PROVE FALSE
    BY <1>1, <1>7 DEF Deliver, ActorsTyped, Actors
  <1>8. CASE Change \/ UNCHANGED vars \/ (\E m \in Emails : Old(m) \/ Due(m))
    BY <1>8 DEF Change, Old, Due, vars
  <1> QED
    BY <1>3, <1>4, <1>5, <1>6, <1>7, <1>8 DEF Next

\* Once a job is settled, a worker that had it and has not noticed adds nothing to its reply, and changes
\* neither the message, nor the case, nor the mission.  Its insertions ask for the job; its other writes
\* ask for the lease of the message, which no settled job leaves there.
THEOREM NothingAfterSettled == Spec => SettledIsFinal
  <1> DEFINE IInv == TypeOK /\ Endings /\ Released
  <1>1. Init => IInv
    <2> SUFFICES ASSUME Init PROVE Endings /\ Released
      BY InitTyped
    <2>1. \A a \in Actors : actor[a].step = "idle"
      BY DEF Init, Idle
    <2> QED
      BY <2>1 DEF Init, Endings, Released, Actors, NoMessage, NoJob, Terminal
  <1>2. IInv /\ [Next]_vars => IInv'
    BY NextTyped, EndingsKept, ReleasedKept
  <1>3. IInv /\ [Next]_vars =>
          [\A m \in Emails : job[m].status \in Terminal =>
            /\ found'[m].assets = found[m].assets
            /\ found'[m].candidates = "pending" => found[m].candidates = "pending"
            /\ \A w \in Workers :
                actor[w].step \notin {"idle", "take"} /\ actor[w].email = m /\ actor'[w] # actor[w] =>
                    message'[m] = message[m] /\ UNCHANGED <<case, replied>>]_vars
    <2> SUFFICES ASSUME IInv, [Next]_vars, NEW m \in Emails, job[m].status \in Terminal
                 PROVE  /\ found'[m].assets = found[m].assets
                        /\ found'[m].candidates = "pending" => found[m].candidates = "pending"
                        /\ \A w \in Workers :
                            actor[w].step \notin {"idle", "take"} /\ actor[w].email = m
                              /\ actor'[w] # actor[w] =>
                                message'[m] = message[m] /\ UNCHANGED <<case, replied>>
      OBVIOUS
    <2>1. ASSUME NEW w \in Workers, actor[w].step \notin {"idle", "take"}, actor[w].email = m,
                 actor'[w] # actor[w]
          PROVE  message'[m] = message[m] /\ UNCHANGED <<case, replied>>
      <3>1. message[m].lease = 0 /\ actor[w].lease \in 1 .. job[m].attempts
        BY <2>1 DEF Released
      <3>2. ~ Marked(w)
        BY <2>1, <3>1 DEF Marked
      <3> QED
        BY <2>1, <3>2, OwnSteps, WorkerWrites
    <2> QED
      BY <2>1, SettledKept
  <1> QED
    BY <1>1, <1>2, <1>3, PTL DEF Spec, SettledIsFinal

=============================================================================
