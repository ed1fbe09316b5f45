------------------------ MODULE PipelineSchedulerProofs ------------------------
(***************************************************************************)
(* Theorems about PipelineScheduler, for any sets of sources and ticks and *)
(* any leases, budgets and bounds: type correctness, and one worker for    *)
(* each run whatever becomes of its dispatches.                            *)
(***************************************************************************)
EXTENDS PipelineScheduler, TLAPS

-----------------------------------------------------------------------------
(* The numbers, with the intervals left folded                               *)

LEMMA ClockBounds ==
    /\ 0 \in RunAges /\ \A a \in RunAges : Older(a) \in RunAges
    /\ 0 \in JobAges
    /\ 0 \in Delays /\ RetryDelay \in Delays
    /\ \A n \in Delays : Less(n, 0) \in Delays
    /\ \A n \in 0 .. MaxRetryAfter : MaxOf(RetryDelay, n) \in Delays
    /\ 0 \in Leases /\ DispatchLease \in Leases
    /\ \A l \in Leases : Less(l, -1) \in Leases /\ MaxOf(l, DispatchLease) \in Leases
<1> USE SchedulerNumbers
<1>1. MaxOf(ExecutionLease, ManualLease) \in Nat
  BY DEF MaxOf
<1>2. 0 \in RunAges /\ \A a \in RunAges : Older(a) \in RunAges
  <2> DEFINE top == MaxOf(ExecutionLease, ManualLease)
  <2>1. RunAges = 0 .. top + 1 /\ \A a : Older(a) = IF a <= top THEN a + 1 ELSE a
    BY DEF RunAges, Older
  <2> HIDE DEF top
  <2>2. top \in Nat
    BY <1>1 DEF top
  <2> QED BY <2>1, <2>2
<1>3. MaxOf(RetryDelay, MaxRetryAfter) \in Nat
  BY DEF MaxOf
<1>4. 0 \in JobAges
  BY DEF JobAges, MaxOf
<1>5. /\ 0 \in Delays /\ RetryDelay \in Delays
      /\ \A n \in Delays : Less(n, 0) \in Delays
      /\ \A n \in 0 .. MaxRetryAfter : MaxOf(RetryDelay, n) \in Delays
  BY <1>3 DEF Delays, Less, MaxOf
<1>6. /\ 0 \in Leases /\ DispatchLease \in Leases
      /\ \A l \in Leases : Less(l, -1) \in Leases /\ MaxOf(l, DispatchLease) \in Leases
  BY <1>3 DEF Leases, Less, MaxOf
<1> QED
  BY <1>2, <1>4, <1>5, <1>6

\* A lease extended over a Retry-After.
LEMMA ExtendedLease ==
    ASSUME NEW l \in Leases, NEW n \in 0 .. MaxRetryAfter
    PROVE  /\ MaxOf(l, n + DispatchLease) \in Leases
           /\ MaxOf(l, MaxOf(RetryDelay, n) + DispatchLease) \in Leases
<1> USE SchedulerNumbers
<1>1. MaxOf(RetryDelay, MaxRetryAfter) \in Nat
  BY DEF MaxOf
<1>2. n <= MaxOf(RetryDelay, MaxRetryAfter)
  BY DEF MaxOf
<1>3. /\ MaxOf(RetryDelay, n) \in Nat
      /\ MaxOf(RetryDelay, n) <= MaxOf(RetryDelay, MaxRetryAfter)
  BY DEF MaxOf
<1>4. \A m \in Nat : m <= MaxOf(RetryDelay, MaxRetryAfter) => MaxOf(l, m + DispatchLease) \in Leases
  BY <1>1 DEF Leases, MaxOf
<1> QED
  BY <1>1, <1>2, <1>3, <1>4

LEMMA AttemptBounds ==
    /\ 0 \in Attempts /\ 1 \in Attempts
    /\ \A n \in Attempts : n < MaxAttempts => n + 1 \in Attempts
BY SchedulerNumbers DEF Attempts

-----------------------------------------------------------------------------
(* Types of the row operations                                               *)

Statuses == {"absent", "queued", "running", "succeeded", "failed"}

LEMMA NoRunType == NoRun \in RunStates
BY ClockBounds, AttemptBounds DEF NoRun, RunStates, Lanes

LEMMA LeftType ==
    ASSUME NEW run \in RunStates, NEW status \in Statuses, NEW expired \in BOOLEAN
    PROVE  /\ Left(run, status, expired) \in RunStates
           /\ Left(run, status, expired).status = status
BY ClockBounds, AttemptBounds DEF Left, NoRun, RunStates, Statuses

LEMMA PatchedType ==
    ASSUME NEW run \in RunStates, NEW status \in {"running", "succeeded", "failed"}
    PROVE  /\ Patched(run, status) \in RunStates
           /\ Patched(run, status).status = status
<1>1. run.expired \in BOOLEAN /\ FALSE \in BOOLEAN
  BY DEF RunStates
<1>2. status \in Statuses
  BY DEF Statuses
<1>3. CASE status = "running"
  <2>1. Patched(run, status) = Left(run, status, run.expired)
    BY <1>3 DEF Patched, Running
  <2> QED BY <2>1, <1>1, <1>2, LeftType
<1>4. CASE status # "running"
  <2>1. Patched(run, status) = Left(run, status, FALSE)
    BY <1>4 DEF Patched
  <2> QED BY <2>1, <1>1, <1>2, LeftType
<1> QED
  BY <1>3, <1>4

LEMMA RedispatchedType ==
    ASSUME NEW run \in RunStates, run.attempt < MaxAttempts
    PROVE  /\ Redispatched(run) \in RunStates
           /\ Redispatched(run).status = run.status
           /\ Redispatched(run).attempt \in Attempts
<1>1. run.attempt + 1 \in Attempts /\ MaxOf(run.lease, DispatchLease) \in Leases
  BY ClockBounds, AttemptBounds DEF RunStates
<1> QED
  BY <1>1, ClockBounds DEF Redispatched, RunStates

LEMMA DispatchedType ==
    ASSUME NEW lane \in Lanes
    PROVE  /\ Dispatched(lane) \in RunStates
           /\ Dispatched(lane).status = "queued"
<1>1. RetryDelay \in Delays /\ DispatchLease \in Leases /\ 1 \in Attempts
  BY ClockBounds, AttemptBounds
<1> QED
  BY <1>1, ClockBounds DEF Dispatched, NoRun, RunStates

LEMMA RecordedType ==
    ASSUME NEW run \in RunStates, NEW result \in Results
    PROVE  /\ Recorded(run, result) \in RunStates
           /\ Recorded(run, result).status = run.status
<1>1. result.after \in 0 .. MaxRetryAfter /\ run.lease \in Leases
  BY DEF Results, RunStates
<1>2. /\ MaxOf(run.lease, result.after + DispatchLease) \in Leases
      /\ MaxOf(run.lease, MaxOf(RetryDelay, result.after) + DispatchLease) \in Leases
  BY <1>1, ExtendedLease
<1>3. 0 \in Delays /\ MaxOf(RetryDelay, result.after) \in Delays
  BY <1>1, ClockBounds
<1> QED
  BY <1>2, <1>3 DEF Recorded, RunStates

LEMMA AgedRunType ==
    ASSUME NEW run \in RunStates
    PROVE  /\ AgedRun(run) \in RunStates
           /\ AgedRun(run).status = run.status
<1>1. /\ Older(run.age) \in RunAges
      /\ Less(run.next, 0) \in Delays /\ Less(run.lease, -1) \in Leases
  BY ClockBounds DEF RunStates
<1> QED
  BY <1>1 DEF AgedRun, RunStates

LEMMA SweptType ==
    ASSUME runs \in [Runs -> RunStates]
    PROVE  /\ Swept \in [Runs -> RunStates]
           /\ \A r \in Runs : Swept[r] = runs[r] \/ Swept[r].status = "failed"
<1>1. ASSUME NEW r \in Runs
      PROVE  Left(runs[r], "failed", TRUE) \in RunStates /\ Left(runs[r], "failed", TRUE).status = "failed"
  BY LeftType DEF Statuses
<1> QED
  BY <1>1 DEF Swept

-----------------------------------------------------------------------------
(* Type correctness                                                          *)

\* A tick under way, a dispatched workflow and the job that works on a run all
\* name a run: what TypeOK needs to be inductive.
RunsNamed ==
    /\ \A d \in Dispatchers : dispatcher[d].pc # "idle" => dispatcher[d].run \in Runs
    /\ \A w \in waiting : w.auto => w.run \in Runs
    /\ job.pc # "none" /\ job.auto => job.run \in Runs
    /\ Executing => job.run \in Runs

Typed == TypeOK /\ RunsNamed

LEMMA IdleType == IdleDispatcher \in TickStates /\ IdleDispatcher.pc = "idle"
<1>1. 0 \in RunIds /\ 0 \in 0 .. MaxRetryAfter
  BY SchedulerNumbers DEF RunIds
<1> QED
  BY <1>1, AttemptBounds DEF IdleDispatcher, TickStates, Results, Unknown

LEMMA NoJobType == NoJob \in JobStates
BY ClockBounds, SchedulerNumbers DEF NoJob, JobStates, RunIds

\* The claim hands an attempt of a run to its tick, or does not.
LEMMA HandedType ==
    ASSUME Typed, NEW d \in Dispatchers, NEW r \in Runs, NEW attempt \in Attempts,
           Handed(d, r, attempt)
    PROVE  /\ dispatcher' \in [Dispatchers -> TickStates] /\ calls' \subseteq Posts
           /\ \A e \in Dispatchers : dispatcher'[e].pc # "idle" => dispatcher'[e].run \in Runs
<1>1. CASE UNCHANGED <<dispatcher, calls>>
  BY <1>1 DEF Typed, TypeOK, RunsNamed
<1>2. CASE ~UNCHANGED <<dispatcher, calls>>
  <2> DEFINE t == [IdleDispatcher EXCEPT !.pc = "posted", !.run = r, !.attempt = attempt]
  <2>1. r \in RunIds
    BY SchedulerNumbers DEF Runs, RunIds
  <2>2. t \in TickStates /\ t.run = r
    BY <2>1, IdleType DEF TickStates, IdleDispatcher
  <2>3. /\ calls' = calls \cup {[run |-> r, attempt |-> attempt]}
        /\ dispatcher' = [dispatcher EXCEPT ![d] = t]
    BY <1>2 DEF Handed
  <2> HIDE DEF t
  <2>4. [run |-> r, attempt |-> attempt] \in Posts
    BY DEF Posts
  <2> QED
    BY <2>2, <2>3, <2>4 DEF Typed, TypeOK, RunsNamed
<1> QED
  BY <1>1, <1>2

\* The answer of GitHub to a call reaches its tick, or does not.
LEMMA AnswerType ==
    ASSUME Typed, NEW c \in calls, NEW result \in Results, Answer(c, result)
    PROVE  /\ dispatcher' \in [Dispatchers -> TickStates]
           /\ \A e \in Dispatchers : dispatcher'[e].pc # "idle" => dispatcher'[e].run \in Runs
<1>1. CASE dispatcher' = dispatcher
  BY <1>1 DEF Typed, TypeOK, RunsNamed
<1>2. CASE dispatcher' # dispatcher
  <2>1. PICK d \in Dispatchers :
          /\ dispatcher[d].pc = "posted"
          /\ dispatcher' = [dispatcher EXCEPT ![d].pc = "observed", ![d].result = result]
    BY <1>2 DEF Answer
  <2> DEFINE t == [dispatcher[d] EXCEPT !.pc = "observed", !.result = result]
  <2>2. t \in TickStates /\ t.run = dispatcher[d].run
    BY DEF Typed, TypeOK, TickStates
  <2>3. dispatcher' = [dispatcher EXCEPT ![d] = t]
    BY <2>1
  <2> HIDE DEF t
  <2> QED
    BY <2>1, <2>2, <2>3 DEF Typed, TypeOK, RunsNamed
<1> QED
  BY <1>1, <1>2

LEMMA ReadmittedType ==
    ASSUME TypeOK
    PROVE  Readmitted \in [Sources -> SourceStates]
<1>1. ASSUME NEW s \in Sources PROVE [source[s] EXCEPT !.next = 0] \in SourceStates
  BY SchedulerNumbers DEF TypeOK, SourceStates
<1> QED
  BY <1>1 DEF Readmitted, TypeOK

LEMMA InitTyped == ASSUME Init PROVE Typed
<1>1. runs \in [Runs -> RunStates]
  BY NoRunType DEF Init
<1>2. source \in [Sources -> SourceStates] /\ control \in ControlStates
  BY SchedulerNumbers DEF Init, SourceStates, ControlStates, RunIds
<1>3. dispatcher \in [Dispatchers -> TickStates]
      /\ \A d \in Dispatchers : dispatcher[d].pc = "idle"
  BY IdleType DEF Init
<1>4. job \in JobStates /\ job.pc = "none"
  BY NoJobType DEF Init, NoJob
<1> QED
  BY <1>1, <1>2, <1>3, <1>4 DEF Init, Typed, TypeOK, RunsNamed, Executing

LEMMA DispatchTyped == ASSUME Typed, DispatchStep PROVE Typed'
<1> USE DEF sql, github
<1>1. PICK d \in Dispatchers : Claim(d) \/ PostTimeout(d) \/ Report(d) \/ EndTick(d)
  BY DEF DispatchStep
<1>2. Swept \in [Runs -> RunStates] /\ Readmitted \in [Sources -> SourceStates]
  BY SweptType, ReadmittedType DEF Typed, TypeOK
<1>3. CASE ClaimNothing(d)
  BY <1>2, <1>3 DEF ClaimNothing, Typed, TypeOK, RunsNamed, Executing
<1>4. CASE ClaimAgain(d)
  <2>1. PICK r \in OldestActive :
          /\ Redispatchable(Swept[r])
          /\ runs' = [Swept EXCEPT ![r] = Redispatched(Swept[r])]
          /\ Handed(d, r, runs'[r].attempt)
    BY <1>4 DEF ClaimAgain
  <2>5. r \in Runs
    BY DEF OldestActive, Active
  <2> DEFINE q == Redispatched(Swept[r])
  <2>2. q \in RunStates /\ q.attempt \in Attempts
    <3>1. Swept[r] \in RunStates /\ Swept[r].attempt < MaxAttempts
      BY <1>2, <2>1, <2>5 DEF Redispatchable
    <3> QED BY <3>1, RedispatchedType
  <2> HIDE DEF q
  <2>3. runs' \in [Runs -> RunStates] /\ runs'[r].attempt \in Attempts
    BY <1>2, <2>1, <2>2, <2>5 DEF q
  <2>4. UNCHANGED <<source, control, work, reports, waiting, job, patches, starts>>
    BY <1>4 DEF ClaimAgain
  <2> QED
    BY <2>1, <2>3, <2>4, <2>5, HandedType DEF Typed, TypeOK, RunsNamed, Executing
<1>5. CASE ClaimIdle(d)
  <2>1. control' \in ControlStates
    BY <1>5, SchedulerNumbers DEF ClaimIdle, Typed, TypeOK, ControlStates
  <2> QED
    BY <1>2, <1>5, <2>1 DEF ClaimIdle, Typed, TypeOK, RunsNamed, Executing
<1>6. ASSUME NEW r \in Runs, ClaimQueue(d, r) PROVE Typed'
  <2>1. control' \in ControlStates
    <3>1. QueueCadence \in 0 .. QueueCadence /\ 0 \in 0 .. 100
      BY SchedulerNumbers
    <3> QED BY <1>6, <3>1 DEF ClaimQueue, Typed, TypeOK, ControlStates
  <2>2. runs' \in [Runs -> RunStates]
    <3>1. Dispatched(Queue) \in RunStates
      BY DispatchedType DEF Lanes
    <3> QED BY <1>2, <1>6, <3>1 DEF ClaimQueue
  <2>3. Handed(d, r, 1) /\ source' \in [Sources -> SourceStates]
        /\ UNCHANGED <<work, reports, waiting, job, patches, starts>>
    BY <1>2, <1>6 DEF ClaimQueue
  <2> QED
    BY <2>1, <2>2, <2>3, AttemptBounds, HandedType DEF Typed, TypeOK, RunsNamed, Executing
<1>7. ASSUME NEW r \in Runs, NEW s \in Sources, ClaimSource(d, r, s) PROVE Typed'
  <2>1. control' \in ControlStates
    BY <1>7 DEF ClaimSource, Typed, TypeOK, ControlStates
  <2>2. runs' \in [Runs -> RunStates]
    <3>1. Dispatched(s) \in RunStates
      BY DispatchedType DEF Lanes
    <3> QED BY <1>2, <1>7, <3>1 DEF ClaimSource
  <2>3. source' \in [Sources -> SourceStates]
    <3> DEFINE t == [Readmitted[s] EXCEPT !.last = r, !.next = Cadence]
    <3>3. r \in RunIds /\ Cadence \in -Freshness .. Cadence
      BY SchedulerNumbers DEF RunIds, Runs
    <3>1. t \in SourceStates
      BY <1>2, <3>3 DEF SourceStates
    <3>2. source' = [Readmitted EXCEPT ![s] = t]
      BY <1>7 DEF ClaimSource
    <3> HIDE DEF t
    <3> QED BY <1>2, <3>1, <3>2
  <2>4. Handed(d, r, 1) /\ UNCHANGED <<work, reports, waiting, job, patches, starts>>
    BY <1>7 DEF ClaimSource
  <2> QED
    BY <2>1, <2>2, <2>3, <2>4, AttemptBounds, HandedType DEF Typed, TypeOK, RunsNamed, Executing
<1>8. CASE PostTimeout(d)
  <2> DEFINE t == [dispatcher[d] EXCEPT !.pc = "observed", !.result = Unknown]
  <2>3. Unknown \in Results
    BY SchedulerNumbers DEF Unknown, Results
  <2>1. t \in TickStates /\ t.run = dispatcher[d].run
    BY <2>3 DEF Typed, TypeOK, TickStates
  <2>2. dispatcher' = [dispatcher EXCEPT ![d] = t] /\ dispatcher[d].pc = "posted"
    BY <1>8 DEF PostTimeout
  <2> HIDE DEF t
  <2> QED
    BY <1>8, <2>1, <2>2 DEF PostTimeout, Typed, TypeOK, RunsNamed, Executing
<1>9. CASE Report(d)
  <2> DEFINE t == IF dispatcher[d].result.outcome # "unknown" /\ ~dispatcher[d].repeated
                    THEN [dispatcher[d] EXCEPT !.repeated = TRUE] ELSE IdleDispatcher
  <2>1. /\ t \in TickStates
        /\ t.pc # "idle" => t.run = dispatcher[d].run /\ dispatcher[d].pc # "idle"
    BY <1>9, IdleType DEF Report, Typed, TypeOK, TickStates
  <2>2. dispatcher' = [dispatcher EXCEPT ![d] = t]
    BY <1>9 DEF Report
  <2>3. reports' \subseteq Reports
    BY <1>9 DEF Report, Typed, TypeOK, RunsNamed, Reports, TickStates
  <2> HIDE DEF t
  <2> QED
    BY <1>9, <2>1, <2>2, <2>3 DEF Report, Typed, TypeOK, RunsNamed, Executing
<1>10. CASE EndTick(d)
  BY <1>10, IdleType DEF EndTick, Typed, TypeOK, RunsNamed, Executing
<1> QED
  BY <1>1, <1>3, <1>4, <1>5, <1>6, <1>7, <1>8, <1>9, <1>10 DEF Claim

LEMMA ServerTyped == ASSUME Typed, ServerStep PROVE Typed'
<1> USE DEF sql, github
<1>1. ASSUME NEW c \in calls, GitHubAccepts(c) PROVE Typed'
  <2> DEFINE result == [outcome |-> "accepted", retryable |-> FALSE, after |-> 0]
  <2>1. result \in Results /\ Answer(c, result)
    BY <1>1, SchedulerNumbers DEF Results, GitHubAccepts
  <2> HIDE DEF result
  <2>2. /\ waiting' = {[auto |-> TRUE, run |-> c.run]}
        /\ calls' = calls \ {c}
        /\ UNCHANGED <<runs, source, control, work, reports, job, patches, starts>>
    BY <1>1 DEF GitHubAccepts
  <2>3. c.run \in Runs
    BY DEF Typed, TypeOK, Posts
  <2>4. /\ waiting' \subseteq Workflows
        /\ \A w \in waiting' : w.run \in Runs
    BY <2>2, <2>3, SchedulerNumbers DEF Workflows, RunIds, Runs
  <2> QED
    BY <2>1, <2>2, <2>4, AnswerType DEF Typed, TypeOK, RunsNamed, Executing
<1>2. ASSUME NEW c \in calls, NEW retryable \in BOOLEAN, NEW after \in 0 .. MaxRetryAfter,
             GitHubRejects(c, retryable, after)
      PROVE  Typed'
  <2> DEFINE result == [outcome |-> "rejected", retryable |-> retryable, after |-> after]
  <2>1. result \in Results /\ Answer(c, result)
    BY <1>2 DEF Results, GitHubRejects
  <2> HIDE DEF result
  <2>2. /\ calls' = calls \ {c}
        /\ UNCHANGED <<runs, source, control, work, reports, waiting, job, patches, starts>>
    BY <1>2 DEF GitHubRejects
  <2> QED
    BY <2>1, <2>2, AnswerType DEF Typed, TypeOK, RunsNamed, Executing
<1>3. ASSUME NEW m \in reports, RecordResult(m) PROVE Typed'
  <2>1. m.run \in Runs /\ m.result \in Results
    BY DEF Typed, TypeOK, Reports
  <2>2. Recorded(runs[m.run], m.result) \in RunStates
    BY <2>1, RecordedType DEF Typed, TypeOK
  <2> QED
    BY <1>3, <2>2 DEF RecordResult, Typed, TypeOK, RunsNamed, Executing
<1>4. CASE Lose
  BY <1>4 DEF Lose, Typed, TypeOK, RunsNamed, Executing
<1> QED
  BY <1>1, <1>2, <1>3, <1>4 DEF ServerStep

\* What a PATCH of the child process does to the row and leaves behind.
LEMMA PatchType ==
    ASSUME Typed, job.run \in Runs, NEW status \in {"running", "succeeded", "failed"}, Patch(status)
    PROVE  runs' \in [Runs -> RunStates] /\ patches' \subseteq Patches
<1>1. Patched(runs[job.run], status) \in RunStates
  BY PatchedType DEF Typed, TypeOK
<1>2. [run |-> job.run, status |-> status, age |-> 0] \in Patches
  BY ClockBounds DEF Patches
<1> QED
  BY <1>1, <1>2 DEF Patch, Typed, TypeOK

\* The job moves on, with the run that it names.
LEMMA JobMoves ==
    ASSUME Typed, NEW pc \in {"finalizing", "claimed", "working", "collecting", "collected", "closing"},
           job.pc # "none", pc = "finalizing" \/ job.run \in Runs,
           job' = [job EXCEPT !.pc = pc]
    PROVE  /\ job' \in JobStates
           /\ job'.pc # "none" /\ job'.auto => job'.run \in Runs
           /\ Executing' => job'.run \in Runs
BY DEF Typed, TypeOK, JobStates, RunsNamed, Executing

LEMMA JobTyped == ASSUME Typed, JobStep PROVE Typed'
<1> USE DEF sql, github
<1> DEFINE Named == job'.pc # "none" /\ job'.auto => job'.run \in Runs
           Works == Executing' => job'.run \in Runs
<1>1. CASE StartJob
  <2>1. PICK w \in waiting : job' = Started(w)
    BY <1>1 DEF StartJob
  <2>2. w \in Workflows /\ (w.auto => w.run \in Runs)
    BY DEF Typed, TypeOK, RunsNamed
  <2>3. Started(w) \in JobStates /\ Started(w).pc = "starting"
        /\ Started(w).auto = w.auto /\ Started(w).run = w.run
    BY <2>2, NoJobType DEF Started, NoJob, JobStates, Workflows
  <2>4. Named /\ Works
    BY <2>1, <2>2, <2>3 DEF Executing
  <2> QED
    BY <1>1, <2>1, <2>3, <2>4 DEF StartJob, Typed, TypeOK, RunsNamed
<1>2. CASE TakeRun
  <2>1. job.run \in Runs /\ job.pc # "none"
    BY <1>2 DEF TakeRun, Typed, RunsNamed
  <2>2. Running(runs[job.run]) \in RunStates
    BY <2>1, LeftType DEF Running, Typed, TypeOK, RunStates, Statuses
  <2>3. CASE Takeable(job.run)
    <3>1. /\ runs' = [runs EXCEPT ![job.run] = Running(runs[job.run])]
          /\ job' = [job EXCEPT !.pc = "claimed"]
          /\ starts' = [starts EXCEPT ![job.run] = starts[job.run] + 1]
          /\ UNCHANGED <<source, control, work, dispatcher, calls, reports, waiting, patches>>
      BY <1>2, <2>3 DEF TakeRun
    <3>2. starts' \in [Runs -> Nat] /\ runs' \in [Runs -> RunStates]
      BY <2>1, <2>2, <3>1 DEF Typed, TypeOK
    <3>3. job' \in JobStates /\ Named /\ Works
      BY <2>1, <3>1, JobMoves
    <3> QED BY <3>1, <3>2, <3>3 DEF Typed, TypeOK, RunsNamed
  <2>4. CASE ~Takeable(job.run)
    <3>1. /\ job' = [job EXCEPT !.pc = "finalizing"]
          /\ UNCHANGED <<runs, starts, source, control, work, dispatcher, calls, reports, waiting, patches>>
      BY <1>2, <2>4 DEF TakeRun
    <3>2. job' \in JobStates /\ Named /\ Works
      BY <2>1, <3>1, JobMoves
    <3> QED BY <3>1, <3>2 DEF Typed, TypeOK, RunsNamed
  <2> QED BY <2>3, <2>4
<1>3. CASE SkipWithdrawn
  <2>1. job.run \in Runs /\ job.pc # "none"
    BY <1>3 DEF SkipWithdrawn, Typed, RunsNamed, Executing
  <2>2. Left(runs[job.run], "succeeded", FALSE) \in RunStates
    BY <2>1, LeftType DEF Typed, TypeOK, Statuses
  <2>3. job' \in JobStates /\ Named /\ Works
    BY <1>3, <2>1, JobMoves DEF SkipWithdrawn
  <2> QED
    BY <1>3, <2>2, <2>3 DEF SkipWithdrawn, Typed, TypeOK, RunsNamed
<1>4. CASE Register
  <2>1. job.run \in Runs
    BY <1>4 DEF Register, Typed, RunsNamed, Executing
  <2>2. job' \in JobStates /\ Named /\ Works
    BY <1>4, <2>1 DEF Register, Typed, TypeOK, JobStates, Executing
  <2> QED
    BY <1>4, <2>2 DEF Register, Typed, TypeOK, RunsNamed
<1>5. CASE CollectStart
  <2>1. job.run \in Runs /\ job.pc # "none"
    BY <1>5 DEF CollectStart, Typed, RunsNamed, Executing
  <2>2. runs' \in [Runs -> RunStates] /\ patches' \subseteq Patches
    BY <1>5, <2>1, PatchType DEF CollectStart
  <2>3. job' \in JobStates /\ Named /\ Works
    BY <1>5, <2>1, JobMoves DEF CollectStart
  <2> QED
    BY <1>5, <2>2, <2>3 DEF CollectStart, Typed, TypeOK, RunsNamed
<1>6. ASSUME NEW status \in Endings, CollectEnd(status) PROVE Typed'
  <2>1. job.run \in Runs /\ job.pc # "none"
    BY <1>6 DEF CollectEnd, Typed, RunsNamed, Executing
  <2>2. runs' \in [Runs -> RunStates] /\ patches' \subseteq Patches
    BY <1>6, <2>1, PatchType DEF CollectEnd, Endings
  <2>3. job' \in JobStates /\ Named /\ Works
    BY <1>6, <2>1, JobMoves DEF CollectEnd
  <2> QED
    BY <1>6, <2>2, <2>3 DEF CollectEnd, Typed, TypeOK, RunsNamed
<1>7. ASSUME NEW status \in Endings, FinishRun(status) PROVE Typed'
  <2>1. job.run \in Runs /\ job.pc # "none"
    BY <1>7 DEF FinishRun, Typed, RunsNamed, Executing
  <2> DEFINE closed == IF runs[job.run].status \in {"queued", "running"} THEN status ELSE runs[job.run].status
  <2>2. closed \in Statuses
    BY <2>1 DEF Typed, TypeOK, RunStates, Statuses, Endings
  <2>3. runs' = [runs EXCEPT ![job.run] = Left(runs[job.run], closed, FALSE)]
    BY <1>7 DEF FinishRun
  <2> HIDE DEF closed
  <2>4. runs' \in [Runs -> RunStates]
    BY <2>1, <2>2, <2>3, LeftType DEF Typed, TypeOK
  <2>5. job' \in JobStates /\ Named /\ Works
    BY <1>7, <2>1, JobMoves DEF FinishRun
  <2> QED
    BY <1>7, <2>4, <2>5 DEF FinishRun, Typed, TypeOK, RunsNamed
<1>8. ASSUME NEW status \in Endings, ManualEnd(status) PROVE Typed'
  <2>1. job.run \in Runs /\ job.pc # "none"
    BY <1>8 DEF ManualEnd, Typed, RunsNamed, Executing
  <2>2. runs' \in [Runs -> RunStates] /\ patches' \subseteq Patches
    BY <1>8, <2>1, PatchType DEF ManualEnd, Endings
  <2>3. job' \in JobStates /\ Named /\ Works
    BY <1>8, <2>1, JobMoves DEF ManualEnd
  <2> QED
    BY <1>8, <2>2, <2>3 DEF ManualEnd, Typed, TypeOK, RunsNamed
<1>9. ASSUME NEW delay \in 1 .. Cadence, FinishSource(delay) PROVE Typed'
  <2>1. job.run \in Runs /\ job.pc # "none"
    BY <1>9 DEF FinishSource, Typed, RunsNamed, Executing
  <2>2. source' \in [Sources -> SourceStates]
    <3>1. delay \in -Freshness .. Cadence
      BY SchedulerNumbers
    <3>2. ASSUME NEW s \in Sources PROVE [source[s] EXCEPT !.next = delay] \in SourceStates
      BY <3>1 DEF Typed, TypeOK, SourceStates
    <3> QED BY <1>9, <3>2 DEF FinishSource, Rescheduled, Typed, TypeOK
  <2>3. job' \in JobStates /\ Named /\ Works
    BY <1>9, <2>1, JobMoves DEF FinishSource
  <2> QED
    BY <1>9, <2>2, <2>3 DEF FinishSource, Typed, TypeOK, RunsNamed
<1>10. ASSUME NEW r \in Runs, ManualStart(r) PROVE Typed'
  <2>1. Left(NoRun, "running", FALSE) \in RunStates
    BY NoRunType, LeftType DEF Statuses
  <2>2. r \in RunIds
    BY SchedulerNumbers DEF Runs, RunIds
  <2>3. job' \in JobStates /\ job'.run = r
    BY <1>10, <2>2 DEF ManualStart, Typed, TypeOK, JobStates
  <2> QED
    BY <1>10, <2>1, <2>3 DEF ManualStart, Typed, TypeOK, RunsNamed
<1>11. CASE StepFails
  <2>1. job' \in JobStates /\ Named /\ Works
    BY <1>11, JobMoves DEF StepFails
  <2> QED
    BY <1>11, <2>1 DEF StepFails, Typed, TypeOK, RunsNamed
<1>12. CASE JobLost
  <2>1. job' \in JobStates /\ job'.pc = "none"
    BY <1>12, NoJobType DEF JobLost, NoJob
  <2> QED
    BY <1>12, <2>1 DEF JobLost, Typed, TypeOK, RunsNamed, Executing
<1>13. CASE Finalize
  <2>1. job' \in JobStates /\ job'.pc = "none"
    BY <1>13, NoJobType DEF Finalize, NoJob
  <2>2. ASSUME NEW r \in Runs PROVE Left(runs[r], "failed", FALSE) \in RunStates
    BY LeftType DEF Typed, TypeOK, Statuses
  <2>3. runs' \in [Runs -> RunStates]
    BY <1>13, <2>2 DEF Finalize, Typed, TypeOK
  <2> QED
    BY <1>13, <2>1, <2>3 DEF Finalize, Typed, TypeOK, RunsNamed, Executing
<1>14. ASSUME NEW p \in patches, LandLate(p) PROVE Typed'
  <2> DEFINE q == Patched(runs[p.run], p.status)
             old == IF p.status = "running" THEN p.age ELSE 0
  <2>1. p \in Patches
    BY DEF Typed, TypeOK
  <2>2. q \in RunStates
    BY <2>1, PatchedType DEF Typed, TypeOK, Patches
  <2>3. old \in RunAges
    BY <2>1, ClockBounds DEF Patches
  <2>4. runs' = [runs EXCEPT ![p.run] = [q EXCEPT !.age = old]]
    BY <1>14 DEF LandLate
  <2> HIDE DEF q, old
  <2>5. [q EXCEPT !.age = old] \in RunStates
    BY <2>2, <2>3 DEF RunStates
  <2> QED
    BY <1>14, <2>4, <2>5 DEF LandLate, Typed, TypeOK, RunsNamed, Executing
<1> QED
  BY <1>1, <1>2, <1>3, <1>4, <1>5, <1>6, <1>7, <1>8, <1>9, <1>10, <1>11, <1>12, <1>13, <1>14
  DEF JobStep

LEMMA TickTyped == ASSUME Typed, Tick PROVE Typed'
<1>1. runs' \in [Runs -> RunStates]
  BY AgedRunType DEF Tick, Typed, TypeOK
<1>2. source' \in [Sources -> SourceStates]
  <2>1. ASSUME NEW s \in Sources
        PROVE  [source[s] EXCEPT !.next = Less(@, -Freshness)] \in SourceStates
    <3>1. Less(source[s].next, -Freshness) \in -Freshness .. Cadence
      BY SchedulerNumbers DEF Less, Typed, TypeOK, SourceStates
    <3> QED BY <3>1 DEF Typed, TypeOK, SourceStates
  <2> QED BY <2>1 DEF Tick
<1>3. control' \in ControlStates
  <2>1. Less(control.due, 0) \in 0 .. QueueCadence
    BY SchedulerNumbers DEF Less, Typed, TypeOK, ControlStates
  <2> QED BY <2>1 DEF Tick, Typed, TypeOK, ControlStates
<1>4. ASSUME NEW result \in Results PROVE AgedResult(result) \in Results
  <2>1. Less(result.after, 0) \in 0 .. MaxRetryAfter
    BY SchedulerNumbers DEF Less, Results
  <2> QED BY <2>1 DEF AgedResult, Results
<1>5. /\ dispatcher' \in [Dispatchers -> TickStates]
      /\ \A d \in Dispatchers : dispatcher'[d].pc = dispatcher[d].pc /\ dispatcher'[d].run = dispatcher[d].run
  <2>1. ASSUME NEW d \in Dispatchers
        PROVE  /\ [dispatcher[d] EXCEPT !.result = AgedResult(@)] \in TickStates
               /\ [dispatcher[d] EXCEPT !.result = AgedResult(@)].pc = dispatcher[d].pc
               /\ [dispatcher[d] EXCEPT !.result = AgedResult(@)].run = dispatcher[d].run
    BY <1>4 DEF Typed, TypeOK, TickStates
  <2> QED BY <2>1 DEF Tick
<1>6. reports' \subseteq Reports
  <2>1. ASSUME NEW m \in Reports PROVE [m EXCEPT !.result = AgedResult(@)] \in Reports
    BY <1>4 DEF Reports
  <2> QED BY <2>1 DEF Tick, Typed, TypeOK
<1>7. job' \in JobStates /\ job'.pc = job.pc /\ job'.auto = job.auto /\ job'.run = job.run
  <2>1. CASE Timed
    <3>1. job.age + 1 \in JobAges
      BY <2>1, SchedulerNumbers DEF Tick, InTime, JobAges, JobStates, Typed, TypeOK, MaxOf
    <3> QED BY <2>1, <3>1 DEF Tick, Typed, TypeOK, JobStates
  <2> QED BY <2>1 DEF Tick, Typed, TypeOK
<1>8. patches' \subseteq Patches
  <2>1. ASSUME NEW p \in Patches PROVE [p EXCEPT !.age = Older(@)] \in Patches
    <3>1. Older(p.age) \in RunAges
      BY ClockBounds DEF Patches
    <3> QED BY <3>1 DEF Patches
  <2> QED BY <2>1 DEF Tick, Typed, TypeOK
<1> QED
  BY <1>1, <1>2, <1>3, <1>5, <1>6, <1>7, <1>8 DEF Tick, Typed, TypeOK, RunsNamed, Executing

LEMMA EnvironmentTyped == ASSUME Typed, EnvironmentStep PROVE Typed'
<1> USE DEF sql, github
<1>1. CASE ManualDispatch
  BY <1>1, SchedulerNumbers DEF ManualDispatch, Typed, TypeOK, RunsNamed, Executing, Workflows, RunIds
<1>2. CASE SwitchPipeline
  <2>1. control' \in ControlStates
    BY <1>2 DEF SwitchPipeline, Typed, TypeOK, ControlStates
  <2> QED BY <1>2, <2>1 DEF SwitchPipeline, Typed, TypeOK, RunsNamed, Executing
<1>3. CASE SwitchDrain
  <2>1. control' \in ControlStates
    BY <1>3 DEF SwitchDrain, Typed, TypeOK, ControlStates
  <2> QED BY <1>3, <2>1 DEF SwitchDrain, Typed, TypeOK, RunsNamed, Executing
<1>4. CASE QueueChanges
  BY <1>4 DEF QueueChanges, Typed, TypeOK, RunsNamed, Executing
<1>5. ASSUME NEW s \in Sources, SwitchSource(s) PROVE Typed'
  <2>1. [source[s] EXCEPT !.on = ~@] \in SourceStates
    BY DEF Typed, TypeOK, SourceStates
  <2> QED BY <1>5, <2>1 DEF SwitchSource, Typed, TypeOK, RunsNamed, Executing
<1>6. CASE Tick
  BY <1>6, TickTyped
<1>7. CASE QueueDeferred
  <2>1. control' \in ControlStates
    BY <1>7, SchedulerNumbers DEF QueueDeferred, Typed, TypeOK, ControlStates
  <2> QED BY <1>7, <2>1 DEF QueueDeferred, Typed, TypeOK, RunsNamed, Executing
<1> QED
  BY <1>1, <1>2, <1>3, <1>4, <1>5, <1>6, <1>7 DEF EnvironmentStep

LEMMA StepTyped == ASSUME Typed, [Next]_vars PROVE Typed'
<1>1. CASE UNCHANGED vars
  BY <1>1 DEF vars, Typed, TypeOK, RunsNamed, Executing
<1> QED
  BY <1>1, DispatchTyped, ServerTyped, JobTyped, EnvironmentTyped DEF Next

LEMMA AlwaysTyped == Spec => []Typed
<1>1. Init => Typed
  BY InitTyped
<1>2. Typed /\ [Next]_vars => Typed'
  BY StepTyped
<1> QED
  BY <1>1, <1>2, PTL DEF Spec

\* Type correctness of every reachable state, whatever the number of sources
\* and ticks, the leases and the budgets; the attempts of a run included.
THEOREM Typing == Spec => []TypeOK
<1>1. Typed => TypeOK
  BY DEF Typed
<1> QED
  BY <1>1, AlwaysTyped, PTL

-----------------------------------------------------------------------------
(* One worker for each run                                                   *)

\* A run that is not yet taken has no worker, and a run that has left the queue
\* never comes back to it: what OneExecution needs to be inductive.
Untaken(r) == runs[r].status \in {"absent", "queued"}
TakenOnce == \A r \in Runs : starts[r] <= 1 /\ (Untaken(r) => starts[r] = 0)

\* No step brings a run back into the queue once it has left it.
LEMMA NeverBack ==
    ASSUME Typed, Next, NEW r \in Runs, Untaken(r)'
    PROVE  Untaken(r)
<1> USE DEF sql, github
<1>1. ASSUME NEW q \in Runs, Swept[q].status \in {"absent", "queued"} PROVE Swept[q] = runs[q]
  BY <1>1, SweptType DEF Typed, TypeOK
<1>2. Swept \in [Runs -> RunStates] /\ runs \in [Runs -> RunStates]
  BY SweptType DEF Typed, TypeOK
<1>3. ASSUME NEW d \in Dispatchers, Claim(d) PROVE Untaken(r)
  <2>1. CASE runs' = Swept
    BY <1>1, <2>1 DEF Untaken
  <2>2. CASE ClaimAgain(d)
    <3>1. PICK q \in OldestActive :
            Redispatchable(Swept[q]) /\ runs' = [Swept EXCEPT ![q] = Redispatched(Swept[q])]
      BY <2>2 DEF ClaimAgain
    <3>2. q \in Runs /\ Swept[q].status = "queued"
      BY <3>1 DEF OldestActive, Active, Redispatchable
    <3> QED BY <1>1, <1>2, <3>1, <3>2 DEF Untaken
  <2>3. ASSUME NEW q \in Runs, NextRun(q), NEW lane, runs' = [Swept EXCEPT ![q] = Dispatched(lane)]
        PROVE  Untaken(r)
    BY <1>1, <1>2, <2>3 DEF Untaken, NextRun
  <2> QED
    BY <1>3, <2>1, <2>2, <2>3 DEF Claim, ClaimNothing, ClaimIdle, ClaimQueue, ClaimSource
<1>4. ASSUME NEW m \in reports, RecordResult(m) PROVE Untaken(r)
  <2>1. m.run \in Runs /\ m.result \in Results
    BY DEF Typed, TypeOK, Reports
  <2>2. Recorded(runs[m.run], m.result).status = runs[m.run].status
    BY <1>2, <2>1, RecordedType
  <2> QED BY <1>2, <1>4, <2>1, <2>2 DEF RecordResult, Untaken
<1>5. ASSUME NEW q, NEW status \in Statuses \ {"absent", "queued"}, NEW expired \in BOOLEAN,
             runs' = [runs EXCEPT ![q] = Left(runs[q], status, expired)]
      PROVE  Untaken(r)
  <2>1. ASSUME r = q PROVE Left(runs[q], status, expired).status = status
    BY <1>2, <2>1, LeftType
  <2> QED BY <1>2, <1>5, <2>1 DEF Untaken
<1>6. ASSUME NEW q \in Runs, NEW status \in {"running", "succeeded", "failed"},
             NEW row, row.status = Patched(runs[q], status).status, runs' = [runs EXCEPT ![q] = row]
      PROVE  Untaken(r)
  <2>1. Patched(runs[q], status).status = status
    BY <1>2, PatchedType
  <2> QED BY <1>2, <1>6, <2>1 DEF Untaken
<1>7. CASE TakeRun
  <2>1. job.run \in Runs
    BY <1>7 DEF TakeRun, Typed, RunsNamed
  <2>2. \/ runs' = runs
        \/ runs' = [runs EXCEPT ![job.run] = Left(runs[job.run], "running", runs[job.run].expired)]
    BY <1>7 DEF TakeRun, Running
  <2>3. runs[job.run].expired \in BOOLEAN
    BY <1>2, <2>1 DEF RunStates
  <2> QED BY <1>5, <2>2, <2>3 DEF Untaken, Statuses
<1>8. CASE SkipWithdrawn
  BY <1>5, <1>8 DEF SkipWithdrawn, Statuses
<1>9. ASSUME NEW status \in {"running", "succeeded", "failed"}, Patch(status), job.run \in Runs
      PROVE  Untaken(r)
  BY <1>6, <1>9 DEF Patch
<1>10. ASSUME NEW status \in Endings, FinishRun(status) PROVE Untaken(r)
  <2>1. job.run \in Runs
    BY <1>10 DEF FinishRun, Typed, RunsNamed
  <2> DEFINE open == runs[job.run].status \in {"queued", "running"}
             closed == IF open THEN status ELSE runs[job.run].status
  <2>2. runs' = [runs EXCEPT ![job.run] = Left(runs[job.run], closed, FALSE)]
    BY <1>10 DEF FinishRun
  <2>3. closed \in Statuses /\ (closed \in {"absent", "queued"} => runs[job.run].status = "absent")
    BY <1>2, <2>1 DEF RunStates, Statuses, Endings
  <2> HIDE DEF closed
  <2>4. Left(runs[job.run], closed, FALSE).status = closed
    BY <1>2, <2>1, <2>3, LeftType
  <2> QED BY <1>2, <2>1, <2>2, <2>3, <2>4 DEF Untaken
<1>11. ASSUME NEW q \in Runs, ManualStart(q) PROVE Untaken(r)
  <2>1. runs[q].status = "absent" /\ runs' = [runs EXCEPT ![q] = Left(NoRun, "running", FALSE)]
    BY <1>11 DEF ManualStart, NextRun
  <2> QED BY <1>2, <2>1 DEF Untaken
<1>12. CASE Finalize
  <2>1. runs' = runs \/ runs' = [runs EXCEPT ![job.run] = Left(runs[job.run], "failed", FALSE)]
    BY <1>12 DEF Finalize
  <2> QED BY <1>5, <2>1 DEF Untaken, Statuses
<1>13. ASSUME NEW p \in patches, LandLate(p) PROVE Untaken(r)
  <2>1. p \in Patches
    BY DEF Typed, TypeOK
  <2> DEFINE q == Patched(runs[p.run], p.status)
             row == [q EXCEPT !.age = IF p.status = "running" THEN p.age ELSE 0]
  <2>2. runs' = [runs EXCEPT ![p.run] = row]
    BY <1>13 DEF LandLate
  <2>3. q \in RunStates
    BY <1>2, <2>1, PatchedType DEF Patches
  <2>4. row.status = q.status
    BY <2>3 DEF RunStates
  <2> HIDE DEF row
  <2> QED BY <1>6, <2>1, <2>2, <2>4 DEF Patches
<1>14. CASE Tick
  BY <1>2, <1>14, AgedRunType DEF Tick, Untaken
<1>15. CASE UNCHANGED runs
  BY <1>15 DEF Untaken
<1>16. ASSUME DispatchStep PROVE Untaken(r)
  BY <1>3, <1>15, <1>16 DEF DispatchStep, PostTimeout, Report, EndTick
<1>17. ASSUME ServerStep PROVE Untaken(r)
  BY <1>4, <1>15, <1>17 DEF ServerStep, GitHubAccepts, GitHubRejects, Lose
<1>18. ASSUME JobStep PROVE Untaken(r)
  <2>1. CASE CollectStart \/ \E status \in Endings : CollectEnd(status) \/ ManualEnd(status)
    <3>1. job.run \in Runs
      BY <2>1 DEF CollectStart, CollectEnd, ManualEnd, Typed, RunsNamed, Executing
    <3> QED BY <1>9, <2>1, <3>1 DEF CollectStart, CollectEnd, ManualEnd, Endings
  <2>2. CASE StartJob \/ Register \/ StepFails \/ JobLost \/ \E delay \in 1 .. Cadence : FinishSource(delay)
    BY <1>15, <2>2 DEF StartJob, Register, StepFails, JobLost, FinishSource
  <2> QED
    BY <1>7, <1>8, <1>10, <1>11, <1>12, <1>13, <1>18, <2>1, <2>2 DEF JobStep
<1>19. ASSUME EnvironmentStep PROVE Untaken(r)
  BY <1>14, <1>15, <1>19
  DEF EnvironmentStep, ManualDispatch, SwitchPipeline, SwitchDrain, SwitchSource, QueueChanges, QueueDeferred
<1> QED
  BY <1>16, <1>17, <1>18, <1>19 DEF Next

\* A worker is counted for a run only when it takes the run from the queue.
LEMMA CountedOnTake ==
    ASSUME Typed, Next, NEW r \in Runs, starts'[r] # starts[r]
    PROVE  runs[r].status = "queued" /\ starts'[r] = starts[r] + 1 /\ ~Untaken(r)'
<1> USE DEF sql, github
<1>1. CASE TakeRun
  <2>1. /\ job.run = r /\ Takeable(r)
        /\ runs' = [runs EXCEPT ![r] = Left(runs[r], "running", runs[r].expired)]
        /\ starts' = [starts EXCEPT ![r] = starts[r] + 1]
    BY <1>1 DEF TakeRun, Running, Typed, TypeOK
  <2>2. Left(runs[r], "running", runs[r].expired).status = "running"
    BY LeftType DEF Typed, TypeOK, RunStates, Statuses
  <2> QED
    BY <2>1, <2>2 DEF Takeable, Untaken, Typed, TypeOK
<1>2. CASE ~TakeRun
  <2>1. ~DispatchStep
    BY DEF DispatchStep, Claim, ClaimNothing, ClaimAgain, ClaimIdle, ClaimQueue, ClaimSource,
           PostTimeout, Report, EndTick
  <2>2. ~ServerStep
    BY DEF ServerStep, GitHubAccepts, GitHubRejects, RecordResult, Lose
  <2>3. ~JobStep
    BY <1>2 DEF JobStep, StartJob, SkipWithdrawn, Register, CollectStart, CollectEnd, FinishRun,
           ManualEnd, FinishSource, ManualStart, StepFails, JobLost, Finalize, LandLate
  <2>4. ~EnvironmentStep
    BY DEF EnvironmentStep, ManualDispatch, SwitchPipeline, SwitchDrain, SwitchSource, QueueChanges,
           QueueDeferred, Tick
  <2> QED
    BY <2>1, <2>2, <2>3, <2>4 DEF Next
<1> QED
  BY <1>1, <1>2

\* However often a run is dispatched (unknown results, retries, workflows that
\* GitHub starts late), at most one worker takes it: the compare-and-set of
\* autonomous_runner on a status that nothing sets back to queued.
THEOREM TakenByOne == Spec => []OneExecution
<1>1. Init => TakenOnce
  BY DEF Init, TakenOnce
<1>2. Typed /\ TakenOnce /\ [Next]_vars => TakenOnce'
  <2> SUFFICES ASSUME Typed, TakenOnce, Next, NEW r \in Runs
               PROVE  starts'[r] <= 1 /\ (Untaken(r)' => starts'[r] = 0)
    BY DEF TakenOnce, Untaken, vars
  <2>1. CASE starts'[r] = starts[r]
    BY <2>1, NeverBack DEF TakenOnce
  <2>2. CASE starts'[r] # starts[r]
    <3>1. runs[r].status = "queued" /\ starts'[r] = starts[r] + 1 /\ ~Untaken(r)'
      BY <2>2, CountedOnTake
    <3>2. starts[r] = 0
      BY <3>1 DEF TakenOnce, Untaken
    <3> QED BY <3>1, <3>2
  <2> QED BY <2>1, <2>2
<1>3. TakenOnce => OneExecution
  BY DEF TakenOnce, OneExecution
<1> QED
  BY <1>1, <1>2, <1>3, AlwaysTyped, PTL DEF Spec
=============================================================================
