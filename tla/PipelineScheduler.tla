--------------------------- MODULE PipelineScheduler ---------------------------
(***************************************************************************)
(* The scheduler of the data pipeline: the run rows of auction_runs, the   *)
(* claim and the result RPCs, the cron tick that dispatches a run to       *)
(* GitHub Actions over HTTP, the workflows GitHub starts, the worker that  *)
(* executes a run and the finalizer that closes it.                        *)
(*                                                                         *)
(* Both RPCs hold the advisory lock 'immojudis-pipeline-dispatch', so each *)
(* is one action.  Calls and answers are lost, late or repeated; GitHub    *)
(* runs one workflow of the concurrency group at a time and keeps at most  *)
(* one waiting.  Time is relative: dates are the time left until them.     *)
(***************************************************************************)
EXTENDS Integers, FiniteSets

CONSTANTS
    Sources,         \* auction_source_state rows
    Dispatchers,     \* executions of the cron tick that may overlap
    MaxRuns,         \* bound: runs ever created; a run is its creation rank
    MaxAttempts,     \* dispatch attempts of a run
    RetryDelay,      \* 15 minutes, in ticks
    DispatchLease,   \* 60 minutes: how long a queued run may wait
    ExecutionLease,  \* 60 minutes: how long a scheduled run may run
    ManualLease,     \* 190 minutes: how long a manual run may run
    Budget,          \* the budgets of an execution's steps, added up
    ManualBudget,    \* timeout-minutes of the workflow
    Cadence,         \* 12 hours between two collections of a source
    QueueCadence,    \* 30 minutes between two queue runs
    Freshness,       \* 1 hour: a source due for less gives way to the queue
    MaxRetryAfter,   \* bound: the longest Retry-After of GitHub
    LateCalls,       \* whether a PATCH given up by its client may still land
    Manual,          \* whether an operator starts manual runs
    Switches         \* the administrative switches that are thrown

Queue == "enrichment-queue"
Everything == "all"
Lanes == Sources \cup {Queue, Everything}
Runs == 1 .. MaxRuns
MaxOf(a, b) == IF a > b THEN a ELSE b

ASSUME SchedulerSets ==
    /\ Queue \notin Sources /\ Everything \notin Sources
    /\ LateCalls \in BOOLEAN /\ Manual \in BOOLEAN
ASSUME SchedulerNumbers ==
    /\ MaxRuns \in Nat /\ MaxAttempts \in Nat \ {0}
    /\ RetryDelay \in Nat /\ DispatchLease \in Nat /\ ExecutionLease \in Nat
    /\ ManualLease \in Nat /\ Budget \in Nat /\ ManualBudget \in Nat
    /\ Cadence \in Nat \ {0} /\ QueueCadence \in Nat /\ Freshness \in Nat
    /\ MaxRetryAfter \in Nat

VARIABLES
    runs,        \* auction_runs, with the dispatch record of their summary
    source,      \* auction_source_state
    control,     \* auction_pipeline_control
    work,        \* whether the enrichment queue has claimable rows
    dispatcher,  \* the cron ticks
    calls,       \* dispatch POSTs sent and not yet handled by GitHub
    reports,     \* result RPCs sent and not yet executed
    waiting,     \* the workflow that waits for the concurrency group
    job,         \* the workflow that runs
    patches,     \* PATCHes of auction_runs given up by their client
    starts       \* history: workers that took each run

vars == <<runs, source, control, work, dispatcher, calls, reports,
          waiting, job, patches, starts>>
sql == <<runs, source, control>>
github == <<waiting, job, patches, starts>>

-----------------------------------------------------------------------------
(* State                                                                     *)

Attempts == 0 .. MaxAttempts
RunAges == 0 .. MaxOf(ExecutionLease, ManualLease) + 1
Delays == 0 .. MaxOf(RetryDelay, MaxRetryAfter)
Leases == -1 .. MaxOf(RetryDelay, MaxRetryAfter) + DispatchLease
JobAges == 0 .. MaxOf(Budget, ManualBudget)
RunIds == 0 .. MaxRuns          \* 0 for none

\* A run: next is the time left until next_attempt_at, lease until lease_until
\* (-1 once it has passed), age the time since started_at, else created_at.
RunStates ==
    [status : {"absent", "queued", "running", "succeeded", "failed"},
     lane : Lanes, owned : BOOLEAN, age : RunAges,
     state : {"none", "in_flight", "accepted", "retry_wait", "terminal"},
     attempt : Attempts, next : Delays, lease : Leases, expired : BOOLEAN]

\* The row before it is created.  What is said of the dispatch is never read
\* again once the run has left the queue, and is forgotten then.
NoRun == [status |-> "absent", lane |-> Everything, owned |-> FALSE, age |-> 0,
          state |-> "none", attempt |-> 0, next |-> 0, lease |-> 0, expired |-> FALSE]

\* next is the time left until next_inventory_at, last is last_run_id.
SourceStates == [next : -Freshness .. Cadence, last : RunIds, on : BOOLEAN]
\* due is the time left until next_enrichment_at, streak the turns of sources.
ControlStates == [enabled : BOOLEAN, due : 0 .. QueueCadence, drain : BOOLEAN, streak : 0 .. 100]

\* What a dispatch came to; after is the time left of a Retry-After.
Results == [outcome : {"accepted", "rejected", "unknown"},
            retryable : BOOLEAN, after : 0 .. MaxRetryAfter]
Unknown == [outcome |-> "unknown", retryable |-> TRUE, after |-> 0]
Reports == [run : Runs, attempt : Attempts, result : Results]
Posts == [run : Runs, attempt : Attempts]

TickStates == [pc : {"idle", "posted", "observed"}, run : RunIds, attempt : Attempts,
               repeated : BOOLEAN, result : Results]
IdleDispatcher == [pc |-> "idle", run |-> 0, attempt |-> 0, repeated |-> FALSE, result |-> Unknown]

\* Workflows: an automatic one has the run it was dispatched for, a manual one
\* the run it creates, 0 before it does.
Workflows == [auto : BOOLEAN, run : RunIds]
JobStates ==
    [pc : {"none", "starting", "finalizing", "claimed", "working", "collecting", "collected", "closing"},
     auto : BOOLEAN, run : RunIds, registered : BOOLEAN, age : JobAges]
Patches == [run : Runs, status : {"running", "succeeded", "failed"}, age : RunAges]
NoJob == [pc |-> "none", auto |-> TRUE, run |-> 0, registered |-> FALSE, age |-> 0]
Started(w) == [NoJob EXCEPT !.pc = "starting", !.auto = w.auto, !.run = w.run]
Executing == job.pc \in {"claimed", "working", "collecting", "collected", "closing"}

\* (mutant) a queued run does not count.
ActiveRunning(rs) == {r \in Runs : rs[r].status = "running"}

Left(run, status, expired) ==
    [NoRun EXCEPT !.status = status, !.lane = run.lane, !.owned = run.owned, !.expired = expired]

Active(rs) == {r \in Runs : rs[r].status \in {"queued", "running"}}
NextRun(r) == runs[r].status = "absent" /\ \A q \in Runs : q < r => runs[q].status # "absent"

-----------------------------------------------------------------------------
(* claim_autonomous_pipeline_run                                             *)

\* (mutant) an accepted run waits for its worker without limit.
LeaseOverUnlessAccepted(run) ==
    \/ ~run.owned /\ run.status \in {"queued", "running"} /\ run.age > ManualLease
    \/ run.owned /\ run.status = "running" /\ run.age > ExecutionLease
    \/ run.owned /\ run.status = "queued" /\ run.lease < 0 /\ run.state # "accepted"

\* A running row expires after its execution lease, a queued one of the
\* scheduler after the dispatch lease that its summary records.
LeaseOver(run) ==
    \/ ~run.owned /\ run.status \in {"queued", "running"} /\ run.age > ManualLease
    \/ run.owned /\ run.status = "running" /\ run.age > ExecutionLease
    \/ run.owned /\ run.status = "queued" /\ run.lease < 0

Swept == [r \in Runs |-> IF LeaseOver(runs[r])
                           THEN Left(runs[r], "failed", TRUE)
                           ELSE runs[r]]

OldestActive == {r \in Active(Swept) : \A q \in Active(Swept) : r <= q}

\* (mutant) the attempts are not limited.
RedispatchableAlways(run) ==
    /\ run.status = "queued" /\ run.owned
    /\ run.state \in {"in_flight", "retry_wait"}
    /\ run.next = 0

\* Whether the oldest active run is dispatched once more.
Redispatchable(run) ==
    /\ run.status = "queued" /\ run.owned
    /\ run.state \in {"in_flight", "retry_wait"}
    /\ run.attempt < MaxAttempts
    /\ run.next = 0

Redispatched(run) ==
    [run EXCEPT !.attempt = @ + 1, !.state = "in_flight", !.next = RetryDelay,
                !.lease = MaxOf(@, DispatchLease)]

\* The answer of the claim reaches the tick, which sends the dispatch to
\* GitHub, or is lost.
Handed(d, r, attempt) ==
    \/ UNCHANGED <<dispatcher, calls>>
    \/ /\ calls' = calls \cup {[run |-> r, attempt |-> attempt]}
       /\ dispatcher' = [dispatcher EXCEPT ![d] =
             [IdleDispatcher EXCEPT !.pc = "posted", !.run = r, !.attempt = attempt]]

\* The oldest active run is busy, or waits for its next attempt.
ClaimNothing(d) ==
    /\ control.enabled /\ dispatcher[d].pc = "idle"
    /\ Active(Swept) # {}
    /\ \A r \in OldestActive : ~Redispatchable(Swept[r])
    /\ runs' = Swept
    /\ UNCHANGED <<source, control, work, dispatcher, calls, reports, github>>

ClaimAgain(d) ==
    /\ control.enabled /\ dispatcher[d].pc = "idle"
    /\ \E r \in OldestActive :
          /\ Redispatchable(Swept[r])
          /\ runs' = [Swept EXCEPT ![r] = Redispatched(@)]
          /\ Handed(d, r, runs'[r].attempt)
    /\ UNCHANGED <<source, control, work, reports, github>>

\* A source whose last run expired is due at once, not after its cadence.
Readmitted ==
    [s \in Sources |->
       IF source[s].last # 0 /\ Swept[source[s].last].expired /\ source[s].next > 0
         THEN [source[s] EXCEPT !.next = 0] ELSE source[s]]

DueSources == {s \in Sources : Readmitted[s].on /\ Readmitted[s].next <= 0}
EarliestDue == {s \in DueSources : \A t \in DueSources : Readmitted[s].next <= Readmitted[t].next}
QueueDue == work /\ (control.due = 0 \/ control.drain)

\* (mutant) the bound of three collections that a later migration tightened.
PreemptsLate(s) == Readmitted[s].next > -Freshness \/ control.streak >= 3

\* pipeline_queue_should_preempt_source: the queue takes the turn of a source
\* that has been due for less than an hour, and of any source after one turn.
Preempts(s) == Readmitted[s].next > -Freshness \/ control.streak >= 1

Dispatched(lane) ==
    [NoRun EXCEPT !.status = "queued", !.lane = lane, !.owned = TRUE,
                  !.state = "in_flight", !.attempt = 1,
                  !.next = RetryDelay, !.lease = DispatchLease]

\* Nothing is active: a new run for the queue ...
ClaimQueue(d, r) ==
    /\ control.enabled /\ dispatcher[d].pc = "idle"
    /\ Active(Swept) = {}
    /\ QueueDue
    /\ DueSources = {} \/ \E s \in EarliestDue : Preempts(s)
    /\ NextRun(r)
    /\ runs' = [Swept EXCEPT ![r] = Dispatched(Queue)]
    /\ source' = Readmitted
    /\ control' = [control EXCEPT !.due = QueueCadence, !.streak = 0]
    /\ Handed(d, r, 1)
    /\ UNCHANGED <<work, reports, github>>

\* ... or for the source that has been due for longest, ...
ClaimSource(d, r, s) ==
    /\ control.enabled /\ dispatcher[d].pc = "idle"
    /\ Active(Swept) = {}
    /\ s \in EarliestDue
    /\ QueueDue => ~Preempts(s)
    /\ NextRun(r)
    /\ runs' = [Swept EXCEPT ![r] = Dispatched(s)]
    /\ source' = [Readmitted EXCEPT ![s].last = r, ![s].next = Cadence]
    /\ control' = [control EXCEPT !.streak = IF @ < 100 THEN @ + 1 ELSE 100]
    /\ Handed(d, r, 1)
    /\ UNCHANGED <<work, reports, github>>

\* ... or nothing is due (or MaxRuns is reached), and an empty queue waits for
\* its next turn.
ClaimIdle(d) ==
    /\ control.enabled /\ dispatcher[d].pc = "idle"
    /\ Active(Swept) = {}
    /\ (~QueueDue /\ DueSources = {}) \/ (\A r \in Runs : ~NextRun(r))
    /\ runs' = Swept
    /\ source' = Readmitted
    /\ control' = [control EXCEPT !.due = IF @ = 0 THEN QueueCadence ELSE @]
    /\ UNCHANGED <<work, dispatcher, calls, reports, github>>

-----------------------------------------------------------------------------
(* dispatchDuePipeline                                                       *)

\* The answer of GitHub reaches the tick that waits for it, or is lost.
Answer(c, result) ==
    \/ dispatcher' = dispatcher
    \/ \E d \in Dispatchers :
          /\ dispatcher[d].pc = "posted"
          /\ dispatcher[d].run = c.run /\ dispatcher[d].attempt = c.attempt
          /\ dispatcher' = [dispatcher EXCEPT ![d].pc = "observed", ![d].result = result]

\* GitHub takes the dispatch: its workflow replaces one that waits already.
GitHubAccepts(c) ==
    /\ c \in calls
    /\ calls' = calls \ {c}
    /\ waiting' = {[auto |-> TRUE, run |-> c.run]}
    /\ Answer(c, [outcome |-> "accepted", retryable |-> FALSE, after |-> 0])
    /\ UNCHANGED <<sql, work, reports, job, patches, starts>>

GitHubRejects(c, retryable, after) ==
    /\ c \in calls
    /\ calls' = calls \ {c}
    /\ Answer(c, [outcome |-> "rejected", retryable |-> retryable, after |-> after])
    /\ UNCHANGED <<sql, work, reports, github>>

\* The 12 s of the request are over, or its connection broke.
PostTimeout(d) ==
    /\ dispatcher[d].pc = "posted"
    /\ dispatcher' = [dispatcher EXCEPT ![d].pc = "observed", ![d].result = Unknown]
    /\ UNCHANGED <<sql, work, calls, reports, github>>

\* The result is sent: an unknown one once, a known one once more if the first
\* call fails.
Report(d) ==
    /\ dispatcher[d].pc = "observed"
    /\ reports' = reports \cup {[run |-> dispatcher[d].run, attempt |-> dispatcher[d].attempt,
                                 result |-> dispatcher[d].result]}
    /\ dispatcher' = [dispatcher EXCEPT ![d] =
          IF @.result.outcome # "unknown" /\ ~@.repeated
            THEN [@ EXCEPT !.repeated = TRUE] ELSE IdleDispatcher]
    /\ UNCHANGED <<sql, work, calls, github>>

\* The tick ends: recorded, given up or killed.
EndTick(d) ==
    /\ dispatcher[d].pc # "idle"
    /\ dispatcher' = [dispatcher EXCEPT ![d] = IdleDispatcher]
    /\ UNCHANGED <<sql, work, calls, reports, github>>

\* (mutant) any result of the current attempt is taken.
CurrentAnyState(m) == runs[m.run].status = "queued" /\ runs[m.run].attempt = m.attempt

\* record_autonomous_pipeline_dispatch takes a result only for the attempt in
\* flight of a run that no worker has started.
Current(m) ==
    /\ runs[m.run].status = "queued"
    /\ runs[m.run].attempt = m.attempt
    /\ runs[m.run].state = "in_flight"

\* (mutant) the lease is not extended over the Retry-After.
RecordedShort(run, result) ==
    IF result.outcome = "accepted" THEN [run EXCEPT !.state = "accepted", !.next = 0]
    ELSE IF ~result.retryable \/ run.attempt >= MaxAttempts
      THEN [run EXCEPT !.state = "terminal", !.next = 0]
    ELSE [run EXCEPT !.state = "retry_wait", !.next = MaxOf(RetryDelay, result.after)]

Recorded(run, result) ==
    IF result.outcome = "accepted" THEN [run EXCEPT !.state = "accepted", !.next = 0]
    ELSE IF ~result.retryable \/ run.attempt >= MaxAttempts
      THEN [run EXCEPT !.state = "terminal", !.next = 0,
                       !.lease = MaxOf(@, result.after + DispatchLease)]
    ELSE LET retry == MaxOf(RetryDelay, result.after)
         IN  [run EXCEPT !.state = "retry_wait", !.next = retry,
                         !.lease = MaxOf(@, retry + DispatchLease)]

RecordResult(m) ==
    /\ m \in reports
    /\ reports' = reports \ {m}
    /\ runs' = IF Current(m) THEN [runs EXCEPT ![m.run] = Recorded(@, m.result)] ELSE runs
    /\ UNCHANGED <<source, control, work, dispatcher, calls, github>>

Lose ==
    /\ \/ \E c \in calls : calls' = calls \ {c} /\ UNCHANGED reports
       \/ \E m \in reports : reports' = reports \ {m} /\ UNCHANGED calls
    /\ UNCHANGED <<sql, work, dispatcher, github>>

-----------------------------------------------------------------------------
(* The workflow                                                              *)

ManualDispatch ==
    /\ Manual
    /\ waiting' = {[auto |-> FALSE, run |-> 0]}
    /\ UNCHANGED <<sql, work, dispatcher, calls, reports, job, patches, starts>>

StartJob ==
    /\ job.pc = "none"
    /\ \E w \in waiting : job' = Started(w)
    /\ waiting' = {}
    /\ UNCHANGED <<sql, work, dispatcher, calls, reports, patches, starts>>

\* (mutant) the run is read first and updated whatever its status became.
TakeableAnyway(r) == runs[r].owned /\ runs[r].status \in {"queued", "running"}

Takeable(r) == runs[r].owned /\ runs[r].status = "queued"

\* (mutant) started_at is left as it was.
RunningSince(run) == [Left(run, "running", run.expired) EXCEPT !.age = run.age]

Running(run) == Left(run, "running", run.expired)

\* execute: queued -> running, once; a later workflow of the same run has
\* nothing to do.
TakeRun ==
    /\ job.pc = "starting" /\ job.auto
    /\ IF Takeable(job.run)
         THEN /\ runs' = [runs EXCEPT ![job.run] = Running(@)]
              /\ job' = [job EXCEPT !.pc = "claimed"]
              /\ starts' = [starts EXCEPT ![job.run] = @ + 1]
         ELSE /\ job' = [job EXCEPT !.pc = "finalizing"]
              /\ UNCHANGED <<runs, starts>>
    /\ UNCHANGED <<source, control, work, dispatcher, calls, reports, waiting, patches>>

\* The source was withdrawn in the meantime: closed as skipped, whatever its
\* status, and not registered for the finalizer.
SkipWithdrawn ==
    /\ job.pc = "claimed" /\ runs[job.run].lane \in Sources
    /\ runs' = [runs EXCEPT ![job.run] = Left(@, "succeeded", FALSE)]
    /\ job' = [job EXCEPT !.pc = "finalizing"]
    /\ UNCHANGED <<source, control, work, dispatcher, calls, reports, waiting, patches, starts>>

Register ==
    /\ job.pc = "claimed"
    /\ job' = [job EXCEPT !.pc = "working", !.registered = TRUE]
    /\ UNCHANGED <<sql, work, dispatcher, calls, reports, waiting, patches, starts>>

\* A PATCH of the child process: unconditional, and a try that its client gave
\* up for a repeated one may stay behind and land later.
Patched(run, status) ==
    IF status = "running" THEN Running(run) ELSE Left(run, status, FALSE)

Patch(status) ==
    /\ runs' = [runs EXCEPT ![job.run] = Patched(@, status)]
    /\ \/ patches' = patches
       \/ LateCalls /\ patches' = patches \cup {[run |-> job.run, status |-> status, age |-> 0]}

LandLate(p) ==
    /\ p \in patches
    /\ patches' = patches \ {p}
    /\ runs' = [runs EXCEPT ![p.run] = [Patched(@, p.status) EXCEPT
                  !.age = IF p.status = "running" THEN p.age ELSE 0]]
    /\ UNCHANGED <<source, control, work, dispatcher, calls, reports, waiting, job, starts>>

\* src.main --run-id, the child process of a collection.
CollectStart ==
    /\ job.pc = "working" /\ runs[job.run].lane \in Sources
    /\ Patch("running")
    /\ job' = [job EXCEPT !.pc = "collecting"]
    /\ UNCHANGED <<source, control, work, dispatcher, calls, reports, waiting, starts>>

CollectEnd(status) ==
    /\ job.pc = "collecting"
    /\ Patch(status)
    /\ job' = [job EXCEPT !.pc = "collected"]
    /\ UNCHANGED <<source, control, work, dispatcher, calls, reports, waiting, starts>>

\* The parent closes the run if it is still open, and in any case merges its
\* summary, which replaces the completion status.
FinishRun(status) ==
    /\ job.pc \in {"working", "collecting", "collected"} /\ job.auto
    /\ runs' = [runs EXCEPT ![job.run] =
                  Left(@, IF @.status \in {"queued", "running"} THEN status ELSE @.status, FALSE)]
    /\ job' = [job EXCEPT !.pc = "closing"]
    /\ UNCHANGED <<source, control, work, dispatcher, calls, reports, waiting, patches, starts>>

Rescheduled(r, delay) ==
    [s \in Sources |-> IF source[s].last = r THEN [source[s] EXCEPT !.next = delay] ELSE source[s]]

\* finish_source: the next collection, by cadence, evidence or backoff.
FinishSource(delay) ==
    /\ job.pc = "closing"
    /\ source' = Rescheduled(job.run, delay)
    /\ job' = [job EXCEPT !.pc = "finalizing"]
    /\ UNCHANGED <<runs, control, work, dispatcher, calls, reports, waiting, patches, starts>>

\* A manual run: src.main creates its row, already running, and closes it.
ManualStart(r) ==
    /\ job.pc = "starting" /\ ~job.auto
    /\ NextRun(r)
    /\ runs' = [runs EXCEPT ![r] = Left(NoRun, "running", FALSE)]
    /\ job' = [job EXCEPT !.pc = "working", !.run = r, !.registered = TRUE]
    /\ UNCHANGED <<source, control, work, dispatcher, calls, reports, waiting, patches, starts>>

ManualEnd(status) ==
    /\ job.pc = "working" /\ ~job.auto
    /\ Patch(status)
    /\ job' = [job EXCEPT !.pc = "finalizing"]
    /\ UNCHANGED <<source, control, work, dispatcher, calls, reports, waiting, starts>>

\* The step fails or the job is cancelled: the finalizer still runs.
StepFails ==
    /\ job.pc \notin {"none", "finalizing"}
    /\ job' = [job EXCEPT !.pc = "finalizing"]
    /\ UNCHANGED <<sql, work, dispatcher, calls, reports, waiting, patches, starts>>

\* The machine is lost, with whatever it was doing.
JobLost ==
    /\ job.pc # "none"
    /\ job' = NoJob
    /\ UNCHANGED <<sql, work, dispatcher, calls, reports, waiting, patches, starts>>

\* (mutant) the run id of the dispatch stands in for the registered one.
FinalizableAnyway(j) == j.run # 0

\* run_finalizer: a workflow closes the run that it registered, no other.
Finalizable(j) == j.run # 0 /\ j.registered

Finalize ==
    /\ job.pc = "finalizing"
    /\ runs' = IF Finalizable(job) /\ runs[job.run].status \in {"queued", "running"}
                 THEN [runs EXCEPT ![job.run] = Left(@, "failed", FALSE)]
                 ELSE runs
    /\ job' = NoJob
    /\ UNCHANGED <<source, control, work, dispatcher, calls, reports, waiting, patches, starts>>

-----------------------------------------------------------------------------
(* Administration, the queue and the clock                                   *)

SwitchPipeline ==
    /\ "pipeline" \in Switches
    /\ control' = [control EXCEPT !.enabled = ~@]
    /\ UNCHANGED <<runs, source, work, dispatcher, calls, reports, github>>

SwitchDrain ==
    /\ "drain" \in Switches
    /\ control' = [control EXCEPT !.drain = ~@]
    /\ UNCHANGED <<runs, source, work, dispatcher, calls, reports, github>>

SwitchSource(s) ==
    /\ "source" \in Switches
    /\ source' = [source EXCEPT ![s].on = ~@]
    /\ UNCHANGED <<runs, control, work, dispatcher, calls, reports, github>>

QueueChanges ==
    /\ work' = ~work
    /\ UNCHANGED <<sql, dispatcher, calls, reports, github>>

\* A worker of the queue met a long Retry-After of the database's gateway: the
\* next queue run is put off, never brought forward (bound: one cadence).
QueueDeferred ==
    /\ \E due \in control.due .. QueueCadence : control' = [control EXCEPT !.due = due]
    /\ UNCHANGED <<runs, source, work, dispatcher, calls, reports, github>>

Less(n, floor) == IF n > floor THEN n - 1 ELSE floor

Older(age) == IF age <= MaxOf(ExecutionLease, ManualLease) THEN age + 1 ELSE age

AgedRun(run) ==
    IF run.status = "queued"
      THEN [run EXCEPT !.age = Older(@), !.next = Less(@, 0), !.lease = Less(@, -1)]
    ELSE IF run.status = "running" THEN [run EXCEPT !.age = Older(@)]
    ELSE run
AgedResult(result) == [result EXCEPT !.after = Less(@, 0)]

\* The budgets of an execution are enforced: its steps are killed in time.
Timed == Executing \/ (job.pc # "none" /\ ~job.auto)
InTime == Timed => job.age < IF job.auto THEN Budget ELSE ManualBudget

Tick ==
    /\ InTime
    /\ runs' = [r \in Runs |-> AgedRun(runs[r])]
    /\ source' = [s \in Sources |-> [source[s] EXCEPT !.next = Less(@, -Freshness)]]
    /\ control' = [control EXCEPT !.due = Less(@, 0)]
    /\ dispatcher' = [d \in Dispatchers |-> [dispatcher[d] EXCEPT !.result = AgedResult(@)]]
    /\ reports' = {[m EXCEPT !.result = AgedResult(@)] : m \in reports}
    /\ job' = IF Timed THEN [job EXCEPT !.age = @ + 1] ELSE job
    /\ patches' = {[p EXCEPT !.age = Older(@)] : p \in patches}
    /\ UNCHANGED <<work, calls, waiting, starts>>

-----------------------------------------------------------------------------
Init ==
    /\ runs = [r \in Runs |-> NoRun]
    /\ source = [s \in Sources |-> [next |-> 0, last |-> 0, on |-> TRUE]]
    /\ control = [enabled |-> TRUE, due |-> 0, drain |-> FALSE, streak |-> 0]
    /\ work = FALSE
    /\ dispatcher = [d \in Dispatchers |-> IdleDispatcher]
    /\ calls = {} /\ reports = {}
    /\ waiting = {} /\ job = NoJob
    /\ patches = {}
    /\ starts = [r \in Runs |-> 0]

Claim(d) ==
    \/ ClaimNothing(d) \/ ClaimAgain(d) \/ ClaimIdle(d)
    \/ \E r \in Runs : ClaimQueue(d, r) \/ \E s \in Sources : ClaimSource(d, r, s)
DispatchStep ==
    \E d \in Dispatchers : Claim(d) \/ PostTimeout(d) \/ Report(d) \/ EndTick(d)
ServerStep ==
    \/ \E c \in calls :
          \/ GitHubAccepts(c)
          \/ \E retryable \in BOOLEAN, after \in 0 .. MaxRetryAfter : GitHubRejects(c, retryable, after)
    \/ \E m \in reports : RecordResult(m)
    \/ Lose
Endings == {"succeeded", "failed"}
JobStep ==
    \/ StartJob \/ TakeRun \/ SkipWithdrawn \/ Register \/ CollectStart
    \/ \E status \in Endings : CollectEnd(status) \/ FinishRun(status) \/ ManualEnd(status)
    \/ \E delay \in 1 .. Cadence : FinishSource(delay)
    \/ \E r \in Runs : ManualStart(r)
    \/ StepFails \/ JobLost \/ Finalize
    \/ \E p \in patches : LandLate(p)
EnvironmentStep ==
    \/ ManualDispatch
    \/ SwitchPipeline \/ SwitchDrain \/ QueueChanges \/ QueueDeferred
    \/ \E s \in Sources : SwitchSource(s)
    \/ Tick

Next == DispatchStep \/ ServerStep \/ JobStep \/ EnvironmentStep

Spec == Init /\ [][Next]_vars

-----------------------------------------------------------------------------
(* Fairness: time passes, the cron ticks go on and end, GitHub ends its jobs *)
(* (the finalizer included, unless the machine is lost), and the pipeline is *)
(* not left switched off for ever.                                           *)

Fairness ==
    /\ WF_vars(Tick)
    /\ \A d \in Dispatchers : SF_vars(Claim(d)) /\ WF_vars(EndTick(d))
    /\ WF_vars(StepFails \/ JobLost \/ Finalize)
    /\ WF_vars(~control.enabled /\ SwitchPipeline)

FairSpec == Spec /\ Fairness

-----------------------------------------------------------------------------
(* Properties                                                                *)

\* Types, of the rows, the calls in flight and the workflow alike.
TypeOK ==
    /\ runs \in [Runs -> RunStates]
    /\ source \in [Sources -> SourceStates]
    /\ control \in ControlStates
    /\ work \in BOOLEAN
    /\ dispatcher \in [Dispatchers -> TickStates]
    /\ calls \subseteq Posts /\ reports \subseteq Reports
    /\ waiting \subseteq Workflows
    /\ job \in JobStates
    /\ patches \subseteq Patches
    /\ starts \in [Runs -> Nat]

\* However often a run is dispatched (unknown results, retries, workflows that
\* GitHub starts late), one worker takes it.
OneExecution == \A r \in Runs : starts[r] <= 1

\* The scheduler has one run at a time, queued or running: the next is created
\* when the last has ended or its lease is over.
OneScheduledRun ==
    \A q, r \in Runs :
        /\ runs[q].owned /\ runs[q].status \in {"queued", "running"}
        /\ runs[r].owned /\ runs[r].status \in {"queued", "running"}
        => q = r

\* The lease of a run never ends under the worker that executes it, as long as
\* the worker keeps to its budgets.
NoExpiryUnderWorker ==
    [][\A r \in Runs :
         runs[r].status = "running" /\ ~runs[r].expired /\ runs'[r].expired
            => ~(Executing /\ job.run = r)]_vars

\* A queued run is not failed while its next dispatch is still to come: the
\* lease covers any Retry-After.
NoExpiryBeforeRetry ==
    [][\A r \in Runs : runs[r].status = "queued" /\ runs[r].next > 0 => ~runs'[r].expired]_vars

\* The first recorded result of an attempt stands: a repeated or late report
\* neither revises it nor puts off the retry or the end of the lease.
ResultKept ==
    [][\A r \in Runs :
         /\ runs[r].status = "queued" /\ runs[r].state \in {"accepted", "terminal", "retry_wait"}
         /\ runs'[r].status = "queued" /\ runs'[r].attempt = runs[r].attempt
         => /\ runs'[r].state = runs[r].state
            /\ runs'[r].next <= runs[r].next /\ runs'[r].lease <= runs[r].lease]_vars

\* A dispatch that came to nothing costs no run: a queued run of the scheduler
\* ends by its lease only, and else waits for a worker to take it.
QueuedUntilTaken ==
    [][\A r \in Runs :
         runs[r].status = "queued" /\ runs'[r].status # "queued"
            => runs'[r].status = "running" \/ runs'[r].expired]_vars

LastOf(r) == {q \in Runs : q < r /\ runs[q].owned /\ \A p \in Runs : q < p /\ p < r => ~runs[p].owned}

\* Neither the queue nor the collections starve: after a collection a due queue
\* has the next turn, after a queue run a source due for an hour has it.
FairTurns ==
    [][\A r \in Runs : runs[r].status = "absent" /\ runs'[r].status = "queued" =>
         \A q \in LastOf(r) :
            /\ runs[q].lane \in Sources /\ QueueDue => runs'[r].lane = Queue
            /\ /\ runs[q].lane = Queue
               /\ \E s \in Sources : source[s].on /\ source[s].next <= -Freshness
               => runs'[r].lane \in Sources]_vars

\* Whatever is lost (the dispatch, the workflow, the machine, a late PATCH that
\* reopens a row), a run does not stay open for ever.
RunEnds ==
    \A r \in Runs : runs[r].status \in {"queued", "running"}
                        ~> runs[r].status \notin {"queued", "running"}
=============================================================================
