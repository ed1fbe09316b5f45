--------------------- MODULE PipelineSchedulerWorkerProofs ---------------------
(* What is proved of the runs and their workers: a queued run waits for its  *)
(* worker, a lease does not end under a worker, one scheduled run is active  *)
(* at a time, and the queue and the collections take turns.  The second and  *)
(* the third hold while the budgets of an execution fit in its lease and no  *)
(* PATCH lands late.                                                         *)
EXTENDS PipelineSchedulerProofs

-----------------------------------------------------------------------------
(* A queued run waits for its worker                                         *)

\* The workflow that executes a run or has registered it for the finalizer, and
\* a PATCH of it that may land late: all come after the run was taken.
HasTaken(r) == job.run = r /\ (Executing \/ job.registered)
Patching(r) == \E p \in patches : p.run = r
Served == \A r \in Runs : HasTaken(r) \/ Patching(r) => ~Untaken(r)

\* The workflow and the PATCHes in flight are as they were, or come from a run
\* that the step takes.
LEMMA TakenBefore ==
    ASSUME Typed, Next, NEW r \in Runs, HasTaken(r)' \/ Patching(r)'
    PROVE  HasTaken(r) \/ Patching(r) \/ runs'[r].status = "running"
<1> USE DEF sql, github
<1>1. job \in JobStates /\ runs \in [Runs -> RunStates]
  BY DEF Typed, TypeOK
<1>2. CASE job' = job /\ patches' \subseteq patches
  BY <1>2 DEF HasTaken, Patching, Executing
<1>3. CASE TakeRun
  <2>1. CASE Takeable(job.run)
    <3>1. job.run \in Runs /\ runs' = [runs EXCEPT ![job.run] = Left(runs[job.run], "running", runs[job.run].expired)]
      BY <1>3, <2>1 DEF TakeRun, Running, Typed, RunsNamed
    <3>2. Left(runs[job.run], "running", runs[job.run].expired).status = "running"
      BY <1>1, <3>1, LeftType DEF RunStates, Statuses
    <3>3. patches' = patches /\ job'.run = job.run
      BY <1>1, <1>3, <2>1 DEF TakeRun, JobStates
    <3> QED BY <1>1, <3>1, <3>2, <3>3 DEF HasTaken, Patching
  <2>2. CASE ~Takeable(job.run)
    BY <1>1, <1>3, <2>2 DEF TakeRun, HasTaken, Patching, Executing, JobStates
  <2> QED BY <2>1, <2>2
<1>4. ASSUME NEW q \in Runs, ManualStart(q)
      PROVE  HasTaken(r) \/ Patching(r) \/ runs'[r].status = "running"
  <2>1. Left(NoRun, "running", FALSE).status = "running"
    BY NoRunType, LeftType DEF Statuses
  <2>2. /\ job'.run = q /\ patches' = patches
        /\ runs' = [runs EXCEPT ![q] = Left(NoRun, "running", FALSE)]
    BY <1>1, <1>4 DEF ManualStart, JobStates
  <2> QED BY <1>1, <2>1, <2>2 DEF HasTaken, Patching
<1>5. ASSUME NEW status, Patch(status), Executing, job'.run = job.run
      PROVE  HasTaken(r) \/ Patching(r)
  BY <1>5 DEF Patch, HasTaken, Patching
<1>6. CASE CollectStart \/ \E status \in Endings : CollectEnd(status) \/ ManualEnd(status)
  BY <1>1, <1>5, <1>6 DEF CollectStart, CollectEnd, ManualEnd, Executing, JobStates
<1>7. CASE StartJob
  BY <1>1, <1>7 DEF StartJob, Started, NoJob, HasTaken, Patching, Executing
<1>8. CASE Finalize \/ JobLost
  <2>1. job' = NoJob /\ patches' = patches
    BY <1>8 DEF Finalize, JobLost
  <2>2. ~HasTaken(r)'
    BY <2>1 DEF NoJob, HasTaken, Executing
  <2> QED BY <2>1, <2>2 DEF Patching
<1>9. CASE \/ SkipWithdrawn \/ Register \/ StepFails
           \/ \E status \in Endings : FinishRun(status)
           \/ \E delay \in 1 .. Cadence : FinishSource(delay)
  <2>1. job'.run = job.run /\ patches' = patches /\ (job'.registered => job.registered \/ Executing)
    BY <1>1, <1>9 DEF SkipWithdrawn, Register, StepFails, FinishRun, FinishSource, Executing, JobStates
  <2>2. Executing' => Executing
    BY <1>1, <1>9 DEF SkipWithdrawn, Register, StepFails, FinishRun, FinishSource, Executing, JobStates
  <2> QED BY <2>1, <2>2 DEF HasTaken, Patching
<1>10. CASE \E p \in patches : LandLate(p)
  BY <1>2, <1>10 DEF LandLate
<1>11. CASE DispatchStep \/ ServerStep \/ (EnvironmentStep /\ ~Tick)
  BY <1>2, <1>11 DEF DispatchStep, Claim, ClaimNothing, ClaimAgain, ClaimIdle, ClaimQueue, ClaimSource,
     PostTimeout, Report, EndTick, ServerStep, GitHubAccepts, GitHubRejects, RecordResult, Lose,
     EnvironmentStep, ManualDispatch, SwitchPipeline, SwitchDrain, SwitchSource, QueueChanges, QueueDeferred
<1>12. CASE Tick
  <2>1. job'.run = job.run /\ job'.registered = job.registered /\ job'.pc = job.pc
    BY <1>1, <1>12 DEF Tick, JobStates
  <2>2. ASSUME NEW p \in patches PROVE [p EXCEPT !.age = Older(p.age)].run = p.run
    BY DEF Typed, TypeOK, Patches
  <2>3. patches' = {[p EXCEPT !.age = Older(p.age)] : p \in patches}
    BY <1>12 DEF Tick
  <2>4. HasTaken(r)' => HasTaken(r)
    BY <2>1 DEF HasTaken, Executing
  <2>5. Patching(r)' => Patching(r)
    BY <2>2, <2>3 DEF Patching
  <2> QED BY <2>4, <2>5
<1> QED
  BY <1>3, <1>4, <1>6, <1>7, <1>8, <1>9, <1>10, <1>11, <1>12 DEF Next, JobStep

LEMMA AlwaysServed == Spec => []Served
<1>1. Init => Served
  BY DEF Init, Served, HasTaken, Patching, Executing, NoJob
<1>2. Typed /\ Served /\ [Next]_vars => Served'
  <2>1. ASSUME Typed, Served, Next, NEW r \in Runs, HasTaken(r)' \/ Patching(r)' PROVE ~Untaken(r)'
    BY <2>1, TakenBefore, NeverBack DEF Served, Untaken
  <2>2. ASSUME Served, UNCHANGED vars PROVE Served'
    BY <2>2 DEF vars, Served, HasTaken, Patching, Executing, Untaken
  <2> QED BY <2>1, <2>2 DEF Served
<1> QED
  BY <1>1, <1>2, AlwaysTyped, PTL DEF Spec

\* What a claim does to the runs: leases that are over end, then at most one
\* queued run is dispatched again, or one new run when nothing is active.
LEMMA ClaimedRuns ==
    ASSUME NEW d \in Dispatchers, Claim(d)
    PROVE  \/ runs' = Swept
           \/ \E q \in Runs : /\ Redispatchable(Swept[q])
                             /\ runs' = [Swept EXCEPT ![q] = Redispatched(Swept[q])]
           \/ \E q \in Runs, lane \in Lanes :
                  /\ Active(Swept) = {} /\ NextRun(q)
                  /\ runs' = [Swept EXCEPT ![q] = Dispatched(lane)]
<1>1. CASE ClaimNothing(d) \/ ClaimIdle(d)
  BY <1>1 DEF ClaimNothing, ClaimIdle
<1>2. CASE ClaimAgain(d)
  BY <1>2 DEF ClaimAgain, OldestActive, Active
<1>3. ASSUME NEW q \in Runs, ClaimQueue(d, q)
      PROVE  Active(Swept) = {} /\ NextRun(q) /\ runs' = [Swept EXCEPT ![q] = Dispatched(Queue)]
  BY <1>3 DEF ClaimQueue
<1>4. ASSUME NEW q \in Runs, NEW s \in Sources, ClaimSource(d, q, s)
      PROVE  Active(Swept) = {} /\ NextRun(q) /\ runs' = [Swept EXCEPT ![q] = Dispatched(s)]
  BY <1>4 DEF ClaimSource
<1>5. Queue \in Lanes /\ Sources \subseteq Lanes
  BY DEF Lanes
<1> QED
  BY <1>1, <1>2, <1>3, <1>4, <1>5 DEF Claim

\* The sweep ends a run as failed and expired, or leaves it.
LEMMA SweptRuns ==
    ASSUME Typed, NEW r \in Runs
    PROVE  /\ ~LeaseOver(runs[r]) => Swept[r] = runs[r]
           /\ LeaseOver(runs[r]) => /\ Swept[r].status = "failed" /\ Swept[r].expired
                                    /\ Swept[r].owned = runs[r].owned
<1>1. runs[r] \in RunStates
  BY DEF Typed, TypeOK
<1>2. /\ Left(runs[r], "failed", TRUE).status = "failed"
      /\ Left(runs[r], "failed", TRUE).expired
      /\ Left(runs[r], "failed", TRUE).owned = runs[r].owned
  BY DEF Left, NoRun
<1> QED
  BY <1>2 DEF Swept

\* A queued run leaves the queue because its worker takes it or its lease ends.
LEMMA LeavesQueue ==
    ASSUME Typed, Served, Next, NEW r \in Runs, runs[r].status = "queued"
    PROVE  runs'[r].status \in {"queued", "running"} \/ runs'[r].expired
<1> USE DEF sql, github
<1> DEFINE Goal == runs'[r].status \in {"queued", "running"} \/ runs'[r].expired
<1>1. ~HasTaken(r) /\ ~Patching(r)
  BY DEF Served, Untaken
<1>2. runs \in [Runs -> RunStates] /\ Swept \in [Runs -> RunStates]
  BY SweptType DEF Typed, TypeOK
<1>3. CASE runs'[r] = runs[r]
  BY <1>3
<1>4. ASSUME NEW d \in Dispatchers, Claim(d) PROVE Goal
  <2>1. Swept[r].status = "queued" \/ Swept[r].expired
    BY SweptRuns
  <2>2. CASE runs' = Swept
    BY <2>1, <2>2
  <2>3. ASSUME NEW q \in Runs, Redispatchable(Swept[q]),
               runs' = [Swept EXCEPT ![q] = Redispatched(Swept[q])]
        PROVE  Goal
    <3>1. Redispatched(Swept[q]).status = "queued"
      BY <1>2, <2>3, RedispatchedType DEF Redispatchable
    <3> QED BY <1>2, <2>1, <2>3, <3>1
  <2>4. ASSUME NEW q \in Runs, NEW lane, NextRun(q), runs' = [Swept EXCEPT ![q] = Dispatched(lane)]
        PROVE  Goal
    BY <1>2, <2>1, <2>4 DEF NextRun
  <2> QED BY <1>4, <2>2, <2>3, <2>4, ClaimedRuns
<1>5. ASSUME NEW m \in reports, RecordResult(m) PROVE Goal
  <2>1. m.run \in Runs /\ m.result \in Results
    BY DEF Typed, TypeOK, Reports
  <2>2. Recorded(runs[m.run], m.result).status = runs[m.run].status
    BY <1>2, <2>1, RecordedType
  <2> QED BY <1>2, <1>5, <2>1, <2>2 DEF RecordResult
<1>6. CASE TakeRun
  <2>1. CASE Takeable(job.run)
    <3>1. job.run \in Runs /\ runs' = [runs EXCEPT ![job.run] = Left(runs[job.run], "running", runs[job.run].expired)]
      BY <1>6, <2>1 DEF TakeRun, Running, Typed, RunsNamed
    <3>2. Left(runs[job.run], "running", runs[job.run].expired).status = "running"
      BY <1>2, <3>1, LeftType DEF RunStates, Statuses
    <3> QED BY <1>2, <3>1, <3>2
  <2>2. CASE ~Takeable(job.run)
    BY <1>3, <1>6, <2>2 DEF TakeRun
  <2> QED BY <2>1, <2>2
<1>7. ASSUME NEW row, Executing \/ job.registered, runs' = [runs EXCEPT ![job.run] = row] PROVE Goal
  BY <1>1, <1>2, <1>7 DEF HasTaken
<1>8. CASE SkipWithdrawn \/ \E status \in Endings : FinishRun(status)
  <2>1. Executing
    BY <1>8 DEF SkipWithdrawn, FinishRun, Executing
  <2> QED BY <1>7, <1>8, <2>1 DEF SkipWithdrawn, FinishRun
<1>9. CASE CollectStart \/ \E status \in Endings : CollectEnd(status) \/ ManualEnd(status)
  <2>1. Executing /\ \E status : Patch(status)
    BY <1>9 DEF CollectStart, CollectEnd, ManualEnd, Executing
  <2> QED BY <1>7, <2>1 DEF Patch
<1>10. ASSUME NEW q \in Runs, ManualStart(q) PROVE Goal
  BY <1>2, <1>10 DEF ManualStart, NextRun
<1>11. CASE Finalize
  BY <1>3, <1>7, <1>11 DEF Finalize, Finalizable
<1>12. ASSUME NEW p \in patches, LandLate(p) PROVE Goal
  BY <1>1, <1>2, <1>12 DEF LandLate, Patching
<1>13. CASE StartJob \/ Register \/ StepFails \/ JobLost \/ \E delay \in 1 .. Cadence : FinishSource(delay)
  BY <1>3, <1>13 DEF StartJob, Register, StepFails, JobLost, FinishSource
<1>14. CASE Tick
  BY <1>2, <1>14, AgedRunType DEF Tick
<1>15. CASE EnvironmentStep /\ ~Tick
  BY <1>3, <1>15 DEF EnvironmentStep, ManualDispatch, SwitchPipeline, SwitchDrain, SwitchSource,
     QueueChanges, QueueDeferred
<1>16. CASE DispatchStep
  BY <1>3, <1>4, <1>16 DEF DispatchStep, PostTimeout, Report, EndTick
<1>17. CASE ServerStep
  BY <1>3, <1>5, <1>17 DEF ServerStep, GitHubAccepts, GitHubRejects, Lose
<1> QED
  BY <1>6, <1>8, <1>9, <1>10, <1>11, <1>12, <1>13, <1>14, <1>15, <1>16, <1>17 DEF Next, JobStep

\* No dispatch that fails, no finalizer of another workflow and no late PATCH
\* ends a run that waits for its worker: the lease does, or the worker takes it.
THEOREM WaitsForWorker == Spec => QueuedUntilTaken
<1>1. Typed /\ Served /\ [Next]_vars
        => [\A r \in Runs : runs[r].status = "queued" /\ runs'[r].status # "queued"
                => runs'[r].status = "running" \/ runs'[r].expired]_vars
  BY LeavesQueue
<1> QED
  BY <1>1, AlwaysTyped, AlwaysServed, PTL DEF Spec, QueuedUntilTaken

-----------------------------------------------------------------------------
(* A worker within its lease                                                 *)

\* What the code relies on: no PATCH lands late, and the budgets of an execution
\* (of a manual workflow) fit in the lease of its run.
LeasesCover ==
    LateCalls = FALSE /\ Budget <= ExecutionLease /\ ManualBudget <= ManualLease

Ended == {"succeeded", "failed"}

\* While it works, the run of the workflow is running and its clock does not go
\* ahead of the workflow's; once the run is collected, it has ended.
InBudget ==
    /\ patches = {}
    /\ job.age <= IF job.auto THEN Budget ELSE ManualBudget
    /\ job.pc \in {"claimed", "working", "collecting"} =>
          /\ runs[job.run].status = "running" /\ runs[job.run].owned = job.auto
          /\ runs[job.run].age <= job.age
    /\ job.pc \in {"collected", "closing"} => runs[job.run].status \in Ended

\* The lease of the run that a workflow executes is not over.
LEMMA LeaseCovers ==
    ASSUME LeasesCover, Typed, InBudget, Executing
    PROVE  ~LeaseOver(runs[job.run])
<1>1. job.run \in Runs /\ runs[job.run] \in RunStates /\ job \in JobStates
  BY DEF Typed, TypeOK, RunsNamed
<1>2. CASE job.pc \in {"claimed", "working", "collecting"}
  <2>1. runs[job.run].age \in Int /\ job.age \in Int
    BY <1>1, SchedulerNumbers DEF RunStates, RunAges, JobStates, JobAges
  <2> QED BY <1>1, <1>2, <2>1, SchedulerNumbers DEF LeasesCover, InBudget, LeaseOver, JobStates
<1>3. CASE job.pc \in {"collected", "closing"}
  BY <1>3 DEF InBudget, LeaseOver, Ended
<1> QED
  BY <1>2, <1>3 DEF Executing

\* Neither a claim nor the result of a dispatch touches the run of a worker.
LEMMA Undisturbed ==
    ASSUME LeasesCover, Typed, InBudget, Executing,
           \/ \E d \in Dispatchers : Claim(d)
           \/ \E m \in reports : RecordResult(m)
    PROVE  runs'[job.run] = runs[job.run]
<1>1. job.run \in Runs /\ runs[job.run].status \notin {"absent", "queued"}
  BY DEF Executing, InBudget, Ended, Typed, RunsNamed
<1>2. runs \in [Runs -> RunStates] /\ Swept \in [Runs -> RunStates]
  BY SweptType DEF Typed, TypeOK
<1>3. ASSUME NEW d \in Dispatchers, Claim(d) PROVE runs'[job.run] = runs[job.run]
  <2>1. Swept[job.run] = runs[job.run]
    BY <1>1, LeaseCovers, SweptRuns
  <2> QED
    BY <1>1, <1>2, <1>3, <2>1, ClaimedRuns DEF Redispatchable, NextRun
<1>4. ASSUME NEW m \in reports, RecordResult(m) PROVE runs'[job.run] = runs[job.run]
  BY <1>1, <1>2, <1>4 DEF RecordResult, Current
<1> QED
  BY <1>3, <1>4

LEMMA SameJob ==
    ASSUME InBudget, job' = job, patches' = patches, Executing => runs'[job.run] = runs[job.run]
    PROVE  InBudget'
BY DEF InBudget, Executing

\* The row that TakeRun, the PATCHes and the end of a run leave.
LEMMA LeftRow ==
    ASSUME NEW run, NEW status, NEW expired
    PROVE  /\ Left(run, status, expired).status = status /\ Left(run, status, expired).age = 0
           /\ Left(run, status, expired).owned = run.owned
           /\ Left(run, status, expired).expired = expired
BY DEF Left, NoRun

LEMMA BudgetKept ==
    ASSUME LeasesCover, Typed, InBudget, Next
    PROVE  InBudget'
<1> USE DEF sql, github
<1>1. job \in JobStates /\ runs \in [Runs -> RunStates]
  BY DEF Typed, TypeOK
<1>2. job.age \in Nat
  BY <1>1, SchedulerNumbers DEF JobStates, JobAges
<1>3. Executing => job.run \in Runs
  BY DEF Typed, RunsNamed
<1>4. ASSUME NEW pc, job' = [job EXCEPT !.pc = pc], patches' = patches,
             pc \in {"finalizing", "starting"}
      PROVE  InBudget'
  BY <1>1, <1>4 DEF InBudget, JobStates
<1>5. ASSUME NEW status, NEW expired, NEW pc \in {"collected", "closing"}, status \in Ended, Executing,
             runs' = [runs EXCEPT ![job.run] = Left(runs[job.run], status, expired)],
             job' = [job EXCEPT !.pc = pc], patches' = patches
      PROVE  InBudget'
  <2>1. runs'[job.run].status = status
    BY <1>1, <1>3, <1>5, LeftRow
  <2> QED BY <1>1, <1>5, <2>1 DEF InBudget, JobStates
<1>6. ASSUME NEW status, Patch(status) PROVE patches' = patches
  BY <1>6 DEF Patch, LeasesCover
<1>7. ASSUME NEW expired, NEW pc \in {"claimed", "collecting"}, job.auto = runs[job.run].owned,
             job.run \in Runs,
             runs' = [runs EXCEPT ![job.run] = Left(runs[job.run], "running", expired)],
             job' = [job EXCEPT !.pc = pc], patches' = patches
      PROVE  InBudget'
  <2>1. runs'[job.run].status = "running" /\ runs'[job.run].age = 0 /\ runs'[job.run].owned = job.auto
    BY <1>1, <1>7, LeftRow
  <2> QED BY <1>1, <1>2, <1>7, <2>1 DEF InBudget, JobStates
<1>8. CASE TakeRun
  <2>1. CASE Takeable(job.run)
    <3>1. job.run \in Runs /\ job.auto = runs[job.run].owned
      BY <1>1, <1>8, <2>1 DEF TakeRun, Takeable, Typed, RunsNamed, RunStates, JobStates
    <3> QED BY <1>7, <1>8, <2>1, <3>1 DEF TakeRun, Running
  <2>2. CASE ~Takeable(job.run)
    BY <1>4, <1>8, <2>2 DEF TakeRun
  <2> QED BY <2>1, <2>2
<1>9. CASE SkipWithdrawn \/ StepFails \/ \E delay \in 1 .. Cadence : FinishSource(delay)
  BY <1>4, <1>9 DEF SkipWithdrawn, StepFails, FinishSource
<1>10. CASE \E status \in Endings : ManualEnd(status)
  BY <1>4, <1>6, <1>10 DEF ManualEnd
<1>11. CASE Register
  BY <1>1, <1>11 DEF Register, InBudget, JobStates
<1>12. CASE CollectStart
  <2>1. /\ job.auto = runs[job.run].owned /\ job.run \in Runs /\ patches' = patches
        /\ runs' = [runs EXCEPT ![job.run] = Left(runs[job.run], "running", runs[job.run].expired)]
        /\ job' = [job EXCEPT !.pc = "collecting"]
    BY <1>3, <1>6, <1>12 DEF CollectStart, Patch, Patched, Running, InBudget, Executing
  <2> QED BY <1>7, <2>1
<1>13. ASSUME NEW status \in Endings, CollectEnd(status) PROVE InBudget'
  <2>1. /\ Executing /\ status \in Ended /\ patches' = patches
        /\ runs' = [runs EXCEPT ![job.run] = Left(runs[job.run], status, FALSE)]
        /\ job' = [job EXCEPT !.pc = "collected"]
    BY <1>6, <1>13 DEF CollectEnd, Patch, Patched, Executing, Endings, Ended
  <2> QED BY <1>5, <2>1
<1>14. ASSUME NEW status \in Endings, FinishRun(status) PROVE InBudget'
  <2> DEFINE open == runs[job.run].status \in {"queued", "running"}
             closed == IF open THEN status ELSE runs[job.run].status
  <2>1. /\ Executing /\ patches' = patches /\ job' = [job EXCEPT !.pc = "closing"]
        /\ runs' = [runs EXCEPT ![job.run] = Left(runs[job.run], closed, FALSE)]
    BY <1>14 DEF FinishRun, Executing
  <2>2. closed \in Ended
    BY <1>14 DEF FinishRun, InBudget, Endings, Ended
  <2> HIDE DEF closed
  <2> QED BY <1>5, <2>1, <2>2
<1>15. ASSUME NEW q \in Runs, ManualStart(q) PROVE InBudget'
  <2>1. runs'[q] = Left(NoRun, "running", FALSE)
    BY <1>1, <1>15 DEF ManualStart
  <2>2. runs'[q].status = "running" /\ runs'[q].age = 0 /\ runs'[q].owned = FALSE
    <3>1. /\ Left(NoRun, "running", FALSE).status = "running"
          /\ Left(NoRun, "running", FALSE).age = 0
          /\ Left(NoRun, "running", FALSE).owned = FALSE
      BY DEF Left, NoRun
    <3> QED BY <2>1, <3>1
  <2>3. /\ job'.pc = "working" /\ job'.run = q /\ job'.auto = FALSE /\ job'.age = job.age
        /\ job.auto = FALSE /\ patches' = patches
    BY <1>1, <1>15 DEF ManualStart, JobStates
  <2>4. 0 <= job.age
    BY <1>2
  <2>5. (job'.pc \in {"collected", "closing"}) = FALSE
    BY <2>3
  <2> QED BY <2>2, <2>3, <2>4, <2>5 DEF InBudget
<1>16. ASSUME NEW j, job' = j, j.pc \in {"none", "starting"}, j.age = 0, j.auto \in BOOLEAN,
              patches' = patches
       PROVE  InBudget'
  BY <1>16, SchedulerNumbers DEF InBudget
<1>17. CASE Finalize \/ JobLost
  <2>1. job' = NoJob /\ patches' = patches
    BY <1>17 DEF Finalize, JobLost
  <2>2. NoJob.pc = "none" /\ NoJob.age = 0 /\ NoJob.auto \in BOOLEAN
    BY DEF NoJob
  <2> QED BY <1>16, <2>1, <2>2
<1>18. CASE StartJob
  <2>1. PICK w \in waiting : job' = Started(w) /\ patches' = patches
    BY <1>18 DEF StartJob
  <2>2. w.auto \in BOOLEAN
    BY DEF Typed, TypeOK, Workflows
  <2>3. Started(w).pc = "starting" /\ Started(w).age = 0 /\ Started(w).auto = w.auto
    BY DEF Started, NoJob
  <2> QED BY <1>16, <2>1, <2>2, <2>3
<1>19. CASE \E p \in patches : LandLate(p)
  BY <1>19 DEF InBudget
<1>20. CASE Tick
  <2>1. patches' = {}
    BY <1>20 DEF Tick, InBudget
  <2>2. CASE Timed
    <3>1. /\ job'.pc = job.pc /\ job'.run = job.run /\ job'.auto = job.auto /\ job'.age = job.age + 1
          /\ job.age < IF job.auto THEN Budget ELSE ManualBudget
      BY <1>1, <1>20, <2>2 DEF Tick, InTime, JobStates
    <3>2. job'.age <= IF job.auto THEN Budget ELSE ManualBudget
      BY <1>2, <3>1, SchedulerNumbers
    <3>3. ASSUME Executing
          PROVE  /\ runs'[job.run].status = runs[job.run].status /\ runs'[job.run].owned = runs[job.run].owned
                 /\ runs[job.run].age <= job.age => runs'[job.run].age <= job.age + 1
      <4>1. runs[job.run] \in RunStates /\ runs'[job.run] = AgedRun(runs[job.run])
        BY <1>1, <1>3, <1>20, <3>3 DEF Tick
      <4>2. runs[job.run].age \in Int
        BY <4>1, SchedulerNumbers DEF RunStates, RunAges
      <4>3. runs[job.run].status # "queued"
        BY <3>3 DEF Executing, InBudget, Ended
      <4> QED BY <1>2, <4>1, <4>2, <4>3 DEF AgedRun, Older, RunStates
    <3> QED BY <2>1, <3>1, <3>2, <3>3 DEF InBudget, Executing
  <2>3. CASE ~Timed
    <3>1. job' = job /\ ~Executing
      BY <1>20, <2>3 DEF Tick, Timed
    <3> QED BY <2>1, <3>1, SameJob DEF InBudget
  <2> QED BY <2>2, <2>3
<1>21. CASE EnvironmentStep /\ ~Tick
  BY <1>21, SameJob DEF EnvironmentStep, ManualDispatch, SwitchPipeline, SwitchDrain, SwitchSource,
     QueueChanges, QueueDeferred
<1>22. ASSUME NEW d \in Dispatchers, Claim(d) PROVE InBudget'
  <2>1. job' = job /\ patches' = patches
    BY <1>22 DEF Claim, ClaimNothing, ClaimAgain, ClaimIdle, ClaimQueue, ClaimSource
  <2> QED BY <1>22, <2>1, Undisturbed, SameJob
<1>23. ASSUME NEW m \in reports, RecordResult(m) PROVE InBudget'
  BY <1>23, Undisturbed, SameJob DEF RecordResult
<1>24. CASE DispatchStep
  BY <1>22, <1>24, SameJob DEF DispatchStep, PostTimeout, Report, EndTick
<1>25. CASE ServerStep
  BY <1>23, <1>25, SameJob DEF ServerStep, GitHubAccepts, GitHubRejects, Lose
<1> QED
  BY <1>8, <1>9, <1>10, <1>11, <1>12, <1>13, <1>14, <1>15, <1>17, <1>18, <1>19, <1>20, <1>21,
     <1>24, <1>25 DEF Next, JobStep

LEMMA AlwaysInBudget == ASSUME LeasesCover PROVE Spec => []InBudget
<1>1. Init => InBudget
  BY SchedulerNumbers DEF Init, InBudget, NoJob
<1>2. Typed /\ InBudget /\ [Next]_vars => InBudget'
  <2>1. ASSUME InBudget, UNCHANGED vars PROVE InBudget'
    BY <2>1 DEF vars, InBudget
  <2> QED BY <2>1, BudgetKept
<1> QED
  BY <1>1, <1>2, AlwaysTyped, PTL DEF Spec

\* Only a lease that is over makes a run expire.
LEMMA ExpiresByLease ==
    ASSUME Typed, Next, NEW r \in Runs, ~runs[r].expired, ~LeaseOver(runs[r])
    PROVE  ~runs'[r].expired
<1> USE DEF sql, github
<1>1. runs \in [Runs -> RunStates] /\ Swept \in [Runs -> RunStates]
  BY SweptType DEF Typed, TypeOK
<1>2. CASE runs'[r] = runs[r]
  BY <1>2
<1>3. ASSUME NEW q, NEW status, NEW expired \in {FALSE, runs[q].expired},
             runs' = [runs EXCEPT ![q] = Left(runs[q], status, expired)]
      PROVE  ~runs'[r].expired
  <2>1. CASE q = r
    <3>1. runs'[r] = Left(runs[r], status, expired)
      BY <1>1, <1>3, <2>1
    <3>2. Left(runs[r], status, expired).expired = expired
      BY LeftRow
    <3>3. expired = FALSE \/ expired = runs[r].expired
      BY <1>3, <2>1
    <3> QED BY <3>1, <3>2, <3>3, Zenon
  <2>2. CASE q # r
    BY <1>1, <1>2, <1>3, <2>2
  <2> QED BY <2>1, <2>2
<1>4. ASSUME NEW q \in Runs, NEW status \in {"running", "succeeded", "failed"}
      PROVE  \E expired \in {FALSE, runs[q].expired} :
                Patched(runs[q], status) = Left(runs[q], status, expired)
  BY DEF Patched, Running
<1>5. ASSUME NEW d \in Dispatchers, Claim(d) PROVE ~runs'[r].expired
  <2>1. Swept[r] = runs[r]
    BY SweptRuns
  <2>2. ASSUME NEW q \in Runs, NEW row, runs' = [Swept EXCEPT ![q] = row], ~row.expired \/ q # r
        PROVE  ~runs'[r].expired
    BY <1>1, <2>1, <2>2
  <2>3. Redispatched(runs[r]).expired = runs[r].expired
    BY <1>1 DEF Redispatched, RunStates
  <2>4. ASSUME NEW lane PROVE ~Dispatched(lane).expired
    BY DEF Dispatched, NoRun
  <2> QED BY <1>5, <2>1, <2>2, <2>3, <2>4, ClaimedRuns
<1>6. ASSUME NEW m \in reports, RecordResult(m) PROVE ~runs'[r].expired
  <2>1. m.run \in Runs /\ runs[m.run] \in RunStates
    BY <1>1 DEF Typed, TypeOK, Reports
  <2>2. Recorded(runs[m.run], m.result).expired = runs[m.run].expired
    BY <2>1 DEF Recorded, RunStates
  <2> QED BY <1>1, <1>6, <2>1, <2>2 DEF RecordResult
<1>7. CASE TakeRun
  <2>1. \/ runs' = runs
        \/ runs' = [runs EXCEPT ![job.run] = Left(runs[job.run], "running", runs[job.run].expired)]
    BY <1>7 DEF TakeRun, Running
  <2> QED BY <1>2, <1>3, <2>1
<1>8. CASE SkipWithdrawn \/ Finalize \/ \E status \in Endings : FinishRun(status)
  <2>1. runs' = runs \/ \E status : runs' = [runs EXCEPT ![job.run] = Left(runs[job.run], status, FALSE)]
    BY <1>8 DEF SkipWithdrawn, Finalize, FinishRun
  <2> QED BY <1>2, <1>3, <2>1
<1>9. CASE CollectStart \/ \E status \in Endings : CollectEnd(status) \/ ManualEnd(status)
  <2>1. PICK status \in {"running", "succeeded", "failed"} : Patch(status)
    BY <1>9 DEF CollectStart, CollectEnd, ManualEnd, Endings
  <2>2. job.run \in Runs
    BY <1>9 DEF CollectStart, CollectEnd, ManualEnd, Executing, Typed, RunsNamed
  <2>3. PICK expired \in {FALSE, runs[job.run].expired} :
            Patched(runs[job.run], status) = Left(runs[job.run], status, expired)
    BY <1>4, <2>2
  <2>4. runs' = [runs EXCEPT ![job.run] = Left(runs[job.run], status, expired)]
    BY <2>1, <2>3 DEF Patch
  <2> QED BY <1>3, <2>4
<1>10. ASSUME NEW q \in Runs, ManualStart(q) PROVE ~runs'[r].expired
  <2>1. Left(NoRun, "running", FALSE).expired = FALSE
    BY DEF Left, NoRun
  <2> QED BY <1>1, <1>10, <2>1 DEF ManualStart
<1>11. CASE StartJob \/ Register \/ StepFails \/ JobLost \/ \E delay \in 1 .. Cadence : FinishSource(delay)
  BY <1>2, <1>11 DEF StartJob, Register, StepFails, JobLost, FinishSource
<1>12. ASSUME NEW p \in patches, LandLate(p) PROVE ~runs'[r].expired
  <2>1. p.run \in Runs /\ p.status \in {"running", "succeeded", "failed"}
    BY DEF Typed, TypeOK, Patches
  <2> DEFINE row == [Patched(runs[p.run], p.status) EXCEPT
                       !.age = IF p.status = "running" THEN p.age ELSE 0]
  <2>2. row.expired = Patched(runs[p.run], p.status).expired
    BY <1>1, <2>1, PatchedType DEF RunStates
  <2>3. ASSUME p.run = r PROVE ~Patched(runs[r], p.status).expired
    <3>1. PICK expired \in {FALSE, runs[r].expired} :
              Patched(runs[r], p.status) = Left(runs[r], p.status, expired)
      BY <1>4, <2>1
    <3>2. Left(runs[r], p.status, expired).expired = expired
      BY LeftRow
    <3>3. expired = FALSE \/ expired = runs[r].expired
      BY <3>1
    <3> QED BY <3>1, <3>2, <3>3, Zenon
  <2>4. runs' = [runs EXCEPT ![p.run] = row]
    BY <1>12 DEF LandLate
  <2> HIDE DEF row
  <2> QED BY <1>1, <2>1, <2>2, <2>3, <2>4
<1>13. CASE Tick
  <2>1. runs'[r] = AgedRun(runs[r]) /\ runs[r] \in RunStates
    BY <1>1, <1>13 DEF Tick
  <2>2. AgedRun(runs[r]).expired = runs[r].expired
    BY <2>1 DEF AgedRun, RunStates
  <2> QED BY <2>1, <2>2
<1>14. CASE EnvironmentStep /\ ~Tick
  BY <1>2, <1>14 DEF EnvironmentStep, ManualDispatch, SwitchPipeline, SwitchDrain, SwitchSource,
     QueueChanges, QueueDeferred
<1>15. CASE DispatchStep
  BY <1>2, <1>5, <1>15 DEF DispatchStep, PostTimeout, Report, EndTick
<1>16. CASE ServerStep
  BY <1>2, <1>6, <1>16 DEF ServerStep, GitHubAccepts, GitHubRejects, Lose
<1> QED
  BY <1>7, <1>8, <1>9, <1>10, <1>11, <1>12, <1>13, <1>14, <1>15, <1>16 DEF Next, JobStep

\* A run does not expire under the worker that executes it, be it a scheduled
\* run or a manual one, as long as the budgets fit in the leases.
THEOREM KeptUnderWorker == ASSUME LeasesCover PROVE Spec => NoExpiryUnderWorker
<1>1. Typed /\ InBudget /\ [Next]_vars
        => [\A r \in Runs : runs[r].status = "running" /\ ~runs[r].expired /\ runs'[r].expired
                => ~(Executing /\ job.run = r)]_vars
  BY ExpiresByLease, LeaseCovers
<1> QED
  BY <1>1, AlwaysTyped, AlwaysInBudget, PTL DEF Spec, NoExpiryUnderWorker

-----------------------------------------------------------------------------
(* One scheduled run at a time                                               *)

Scheduled(r) == runs[r].owned /\ runs[r].status \in {"queued", "running"}

\* A claim leaves no scheduled run beside one that it creates, and opens none
\* otherwise.
LEMMA ClaimOpensOne ==
    ASSUME Typed, NEW d \in Dispatchers, Claim(d)
    PROVE  \/ \A r \in Runs : Scheduled(r)' => Scheduled(r)
           \/ \E q \in Runs : \A r \in Runs : Scheduled(r)' => r = q
<1>1. runs \in [Runs -> RunStates] /\ Swept \in [Runs -> RunStates]
  BY SweptType DEF Typed, TypeOK
<1>2. ASSUME NEW r \in Runs, Swept[r].status \in {"queued", "running"} PROVE Swept[r] = runs[r]
  BY <1>2, SweptRuns
<1>3. CASE runs' = Swept
  BY <1>2, <1>3 DEF Scheduled
<1>4. ASSUME NEW q \in Runs, Redispatchable(Swept[q]),
             runs' = [Swept EXCEPT ![q] = Redispatched(Swept[q])]
      PROVE  \A r \in Runs : Scheduled(r)' => Scheduled(r)
  BY <1>1, <1>2, <1>4 DEF Scheduled, Redispatchable
<1>5. ASSUME NEW q \in Runs, NEW lane, Active(Swept) = {}, runs' = [Swept EXCEPT ![q] = Dispatched(lane)]
      PROVE  \A r \in Runs : Scheduled(r)' => r = q
  BY <1>1, <1>5 DEF Scheduled, Active
<1> QED
  BY <1>3, <1>4, <1>5, ClaimedRuns

\* No other step opens a scheduled run.
LEMMA OthersOpenNone ==
    ASSUME Typed, InBudget, Next, \A d \in Dispatchers : ~Claim(d), NEW r \in Runs, Scheduled(r)'
    PROVE  Scheduled(r)
<1> USE DEF sql, github
<1>1. job \in JobStates /\ runs \in [Runs -> RunStates]
  BY DEF Typed, TypeOK
<1>2. CASE runs'[r] = runs[r]
  BY <1>2 DEF Scheduled
<1>3. ASSUME NEW q, NEW status, NEW expired,
             runs' = [runs EXCEPT ![q] = Left(runs[q], status, expired)],
             status \in {"queued", "running"} => runs[q].status \in {"queued", "running"}
      PROVE  Scheduled(r)
  BY <1>1, <1>3, LeftRow DEF Scheduled
<1>4. ASSUME NEW m \in reports, RecordResult(m) PROVE Scheduled(r)
  <2>1. m.run \in Runs /\ runs[m.run] \in RunStates
    BY <1>1 DEF Typed, TypeOK, Reports
  <2>2. /\ Recorded(runs[m.run], m.result).owned = runs[m.run].owned
        /\ Recorded(runs[m.run], m.result).status = runs[m.run].status
    BY <2>1 DEF Recorded, RunStates
  <2> QED BY <1>1, <1>4, <2>1, <2>2 DEF RecordResult, Scheduled
<1>5. CASE TakeRun
  <2>1. CASE Takeable(job.run)
    <3>1. /\ runs[job.run].status = "queued"
          /\ runs' = [runs EXCEPT ![job.run] = Left(runs[job.run], "running", runs[job.run].expired)]
      BY <1>5, <2>1 DEF TakeRun, Takeable, Running
    <3> QED BY <1>3, <3>1
  <2>2. CASE ~Takeable(job.run)
    BY <1>2, <1>5, <2>2 DEF TakeRun
  <2> QED BY <2>1, <2>2
<1>6. CASE SkipWithdrawn \/ Finalize
  <2>1. \/ runs' = runs
        \/ \E status \in Ended : runs' = [runs EXCEPT ![job.run] = Left(runs[job.run], status, FALSE)]
    BY <1>6 DEF SkipWithdrawn, Finalize, Ended
  <2>2. ASSUME NEW status \in Ended, runs' = [runs EXCEPT ![job.run] = Left(runs[job.run], status, FALSE)]
        PROVE  Scheduled(r)
    BY <1>3, <2>2 DEF Ended
  <2> QED BY <1>2, <2>1, <2>2
<1>7. CASE CollectStart
  <2>1. runs[job.run].status = "running"
    BY <1>7 DEF CollectStart, InBudget
  <2> QED BY <1>3, <1>7, <2>1 DEF CollectStart, Patch, Patched, Running
<1>8. CASE \E status \in Endings : CollectEnd(status) \/ ManualEnd(status)
  <2>1. PICK status \in Endings : Patch(status)
    BY <1>8 DEF CollectEnd, ManualEnd
  <2>2. runs' = [runs EXCEPT ![job.run] = Left(runs[job.run], status, FALSE)]
    BY <2>1 DEF Patch, Patched, Endings
  <2>3. status \notin {"queued", "running"}
    BY <2>1 DEF Endings
  <2> QED BY <1>3, <2>2, <2>3
<1>9. ASSUME NEW status \in Endings, FinishRun(status) PROVE Scheduled(r)
  <2> DEFINE open == runs[job.run].status \in {"queued", "running"}
             closed == IF open THEN status ELSE runs[job.run].status
  <2>1. runs' = [runs EXCEPT ![job.run] = Left(runs[job.run], closed, FALSE)]
    BY <1>9 DEF FinishRun
  <2>2. closed \in {"queued", "running"} => runs[job.run].status \in {"queued", "running"}
    BY <1>9 DEF Endings
  <2> HIDE DEF closed
  <2> QED BY <1>3, <2>1, <2>2
<1>10. ASSUME NEW q \in Runs, ManualStart(q) PROVE Scheduled(r)
  <2>1. Left(NoRun, "running", FALSE).owned = FALSE
    BY DEF Left, NoRun
  <2> QED BY <1>1, <1>2, <1>10, <2>1 DEF ManualStart, Scheduled
<1>11. CASE StartJob \/ Register \/ StepFails \/ JobLost \/ \E delay \in 1 .. Cadence : FinishSource(delay)
  BY <1>2, <1>11 DEF StartJob, Register, StepFails, JobLost, FinishSource
<1>12. CASE \E p \in patches : LandLate(p)
  BY <1>12 DEF InBudget
<1>13. CASE Tick
  <2>1. runs'[r] = AgedRun(runs[r]) /\ runs[r] \in RunStates
    BY <1>1, <1>13 DEF Tick
  <2>2. AgedRun(runs[r]).owned = runs[r].owned /\ AgedRun(runs[r]).status = runs[r].status
    BY <2>1 DEF AgedRun, RunStates
  <2> QED BY <2>1, <2>2 DEF Scheduled
<1>14. CASE EnvironmentStep /\ ~Tick
  BY <1>2, <1>14 DEF EnvironmentStep, ManualDispatch, SwitchPipeline, SwitchDrain, SwitchSource,
     QueueChanges, QueueDeferred
<1>15. CASE DispatchStep
  BY <1>2, <1>15 DEF DispatchStep, PostTimeout, Report, EndTick
<1>16. CASE ServerStep
  BY <1>2, <1>4, <1>16 DEF ServerStep, GitHubAccepts, GitHubRejects, Lose
<1> QED
  BY <1>5, <1>6, <1>7, <1>8, <1>9, <1>10, <1>11, <1>12, <1>13, <1>14, <1>15, <1>16 DEF Next, JobStep

\* One run of the scheduler at a time is queued or running: a claim creates the
\* next when none is active, and nothing reopens a run that has ended.
THEOREM OneAtATime == ASSUME LeasesCover PROVE Spec => []OneScheduledRun
<1>1. Init => OneScheduledRun
  BY DEF Init, OneScheduledRun, NoRun
<1>2. Typed /\ InBudget /\ OneScheduledRun /\ [Next]_vars => OneScheduledRun'
  <2>1. OneScheduledRun <=> \A q, r \in Runs : Scheduled(q) /\ Scheduled(r) => q = r
    BY DEF OneScheduledRun, Scheduled
  <2>2. OneScheduledRun' <=> \A q, r \in Runs : Scheduled(q)' /\ Scheduled(r)' => q = r
    BY DEF OneScheduledRun, Scheduled
  <2>3. ASSUME Typed, InBudget, OneScheduledRun, Next PROVE OneScheduledRun'
    BY <2>1, <2>2, <2>3, ClaimOpensOne, OthersOpenNone
  <2>4. ASSUME OneScheduledRun, UNCHANGED vars PROVE OneScheduledRun'
    BY <2>4 DEF vars, OneScheduledRun
  <2> QED BY <2>3, <2>4
<1> QED
  BY <1>1, <1>2, AlwaysTyped, AlwaysInBudget, PTL DEF Spec

-----------------------------------------------------------------------------
(* Dispatch attempts                                                         *)

\* A dispatch that may be repeated is repeated within the lease that it was
\* given: 15 minutes against 60.
RetryCovered == RetryDelay <= DispatchLease

\* Only the scheduler queues runs; their lease lasts until the next attempt and
\* has not expired before.
LeaseOutlivesWait ==
    \A r \in Runs : runs[r].status = "queued" =>
        /\ runs[r].owned /\ ~runs[r].expired
        /\ runs[r].next > 0 => runs[r].next <= runs[r].lease

\* What any step leaves of a run that is queued after it.
QueuedBefore(r) ==
    \/ runs[r].status = "queued" /\ runs'[r] = runs[r]
    \/ /\ runs[r].status = "queued"
       /\ runs[r].attempt < MaxAttempts /\ runs'[r] = Redispatched(runs[r])
    \/ runs[r].status = "absent" /\ \E lane \in Lanes : runs'[r] = Dispatched(lane)
    \/ /\ runs[r].status = "queued" /\ runs[r].state = "in_flight"
       /\ \E result \in Results : runs'[r] = Recorded(runs[r], result)
    \/ runs[r].status = "queued" /\ runs'[r] = AgedRun(runs[r])

LEMMA QueuedRows ==
    ASSUME Typed, Next, NEW r \in Runs, runs'[r].status = "queued"
    PROVE  QueuedBefore(r)
<1> USE DEF sql, github
<1>1. runs \in [Runs -> RunStates] /\ Swept \in [Runs -> RunStates] /\ job \in JobStates
  BY SweptType DEF Typed, TypeOK
<1>2. CASE runs'[r] = runs[r]
  BY <1>2 DEF QueuedBefore
<1>3. ASSUME NEW q, NEW status, NEW expired, status # "queued",
             runs' = [runs EXCEPT ![q] = Left(runs[q], status, expired)]
      PROVE  QueuedBefore(r)
  <2>1. CASE q = r
    BY <1>1, <1>3, <2>1, LeftRow
  <2>2. CASE q # r
    BY <1>1, <1>2, <1>3, <2>2
  <2> QED BY <2>1, <2>2
<1>4. ASSUME NEW status \in {"running", "succeeded", "failed"}, Patch(status) PROVE QueuedBefore(r)
  <2>1. \E expired : Patched(runs[job.run], status) = Left(runs[job.run], status, expired)
    BY DEF Patched, Running
  <2> QED BY <1>3, <1>4, <2>1 DEF Patch
<1>5. ASSUME NEW d \in Dispatchers, Claim(d) PROVE QueuedBefore(r)
  <2>1. ASSUME NEW q \in Runs, Swept[q].status = "queued" PROVE Swept[q] = runs[q]
    BY <2>1, SweptRuns
  <2>2. CASE runs' = Swept
    BY <1>2, <2>1, <2>2
  <2>3. ASSUME NEW q \in Runs, Redispatchable(Swept[q]),
               runs' = [Swept EXCEPT ![q] = Redispatched(Swept[q])]
        PROVE  QueuedBefore(r)
    BY <1>1, <1>2, <2>1, <2>3 DEF QueuedBefore, Redispatchable
  <2>4. ASSUME NEW q \in Runs, NEW lane \in Lanes, NextRun(q),
               runs' = [Swept EXCEPT ![q] = Dispatched(lane)]
        PROVE  QueuedBefore(r)
    BY <1>1, <1>2, <2>1, <2>4 DEF QueuedBefore, NextRun
  <2> QED BY <1>5, <2>2, <2>3, <2>4, ClaimedRuns
<1>6. ASSUME NEW m \in reports, RecordResult(m) PROVE QueuedBefore(r)
  <2>1. m.run \in Runs /\ m.result \in Results
    BY DEF Typed, TypeOK, Reports
  <2> QED BY <1>1, <1>2, <1>6, <2>1 DEF RecordResult, Current, QueuedBefore
<1>7. CASE TakeRun
  <2>1. \/ runs' = runs
        \/ runs' = [runs EXCEPT ![job.run] = Left(runs[job.run], "running", runs[job.run].expired)]
    BY <1>7 DEF TakeRun, Running
  <2> QED BY <1>2, <1>3, <2>1
<1>8. CASE SkipWithdrawn \/ Finalize
  <2>1. \/ runs' = runs
        \/ \E status \in Ended : runs' = [runs EXCEPT ![job.run] = Left(runs[job.run], status, FALSE)]
    BY <1>8 DEF SkipWithdrawn, Finalize, Ended
  <2>2. \A status \in Ended : status # "queued"
    BY DEF Ended
  <2> QED BY <1>2, <1>3, <2>1, <2>2
<1>9. CASE CollectStart \/ \E status \in Endings : CollectEnd(status) \/ ManualEnd(status)
  BY <1>4, <1>9 DEF CollectStart, CollectEnd, ManualEnd, Endings
<1>10. ASSUME NEW status \in Endings, FinishRun(status) PROVE QueuedBefore(r)
  <2> DEFINE open == runs[job.run].status \in {"queued", "running"}
             closed == IF open THEN status ELSE runs[job.run].status
  <2>1. runs' = [runs EXCEPT ![job.run] = Left(runs[job.run], closed, FALSE)]
    BY <1>10 DEF FinishRun
  <2>2. closed # "queued"
    BY <1>10 DEF Endings
  <2> HIDE DEF closed
  <2> QED BY <1>3, <2>1, <2>2
<1>11. ASSUME NEW q \in Runs, ManualStart(q) PROVE QueuedBefore(r)
  <2>1. Left(NoRun, "running", FALSE).status = "running"
    BY DEF Left, NoRun
  <2> QED BY <1>1, <1>2, <1>11, <2>1 DEF ManualStart
<1>12. CASE StartJob \/ Register \/ StepFails \/ JobLost \/ \E delay \in 1 .. Cadence : FinishSource(delay)
  BY <1>2, <1>12 DEF StartJob, Register, StepFails, JobLost, FinishSource
<1>13. ASSUME NEW p \in patches, LandLate(p) PROVE QueuedBefore(r)
  <2>1. p.run \in Runs /\ p.status \in {"running", "succeeded", "failed"}
    BY DEF Typed, TypeOK, Patches
  <2>2. Patched(runs[p.run], p.status) \in RunStates /\ Patched(runs[p.run], p.status).status # "queued"
    BY <1>1, <2>1, PatchedType
  <2>3. [Patched(runs[p.run], p.status) EXCEPT
           !.age = IF p.status = "running" THEN p.age ELSE 0].status # "queued"
    BY <2>2 DEF RunStates
  <2> QED BY <1>1, <1>2, <1>13, <2>1, <2>3 DEF LandLate
<1>14. CASE Tick
  <2>1. runs'[r] = AgedRun(runs[r])
    BY <1>14 DEF Tick
  <2> QED BY <1>1, <2>1, AgedRunType DEF QueuedBefore
<1>15. CASE EnvironmentStep /\ ~Tick
  BY <1>2, <1>15 DEF EnvironmentStep, ManualDispatch, SwitchPipeline, SwitchDrain, SwitchSource,
     QueueChanges, QueueDeferred
<1>16. CASE DispatchStep
  BY <1>2, <1>5, <1>16 DEF DispatchStep, PostTimeout, Report, EndTick
<1>17. CASE ServerStep
  BY <1>2, <1>6, <1>17 DEF ServerStep, GitHubAccepts, GitHubRejects, Lose
<1> QED
  BY <1>7, <1>8, <1>9, <1>10, <1>11, <1>12, <1>13, <1>14, <1>15, <1>16, <1>17 DEF Next, JobStep

\* Time shortens the wait and the lease, and changes nothing else of the dispatch.
LEMMA AgedQueued ==
    ASSUME NEW run \in RunStates, run.status = "queued"
    PROVE  /\ AgedRun(run).state = run.state /\ AgedRun(run).owned = run.owned
           /\ AgedRun(run).expired = run.expired
           /\ AgedRun(run).next = Less(run.next, 0) /\ AgedRun(run).lease = Less(run.lease, -1)
           /\ run.next \in Nat /\ run.lease \in Int /\ run.lease >= -1
<1>1. Delays \subseteq Nat /\ \A l \in Leases : l \in Int /\ l >= -1
  BY DEF Delays, Leases
<1> QED
  BY <1>1 DEF AgedRun, RunStates

\* The first recorded result of an attempt stands, until the next attempt or
\* the end of the run.
THEOREM FirstResultStands == Spec => ResultKept
<1> DEFINE Settled(r) ==
             /\ runs[r].status = "queued" /\ runs[r].state \in {"accepted", "terminal", "retry_wait"}
             /\ runs'[r].status = "queued" /\ runs'[r].attempt = runs[r].attempt
           Kept(r) ==
             /\ runs'[r].state = runs[r].state
             /\ runs'[r].next <= runs[r].next /\ runs'[r].lease <= runs[r].lease
<1>1. ASSUME Typed, Next, NEW r \in Runs, Settled(r) PROVE Kept(r)
  <2>1. runs[r] \in RunStates
    BY <1>1 DEF Typed, TypeOK
  <2>2. runs[r].next \in Nat /\ runs[r].lease \in Int
    BY <1>1, <2>1, AgedQueued
  <2>3. CASE runs'[r] = runs[r]
    BY <2>2, <2>3
  <2>4. runs'[r] # Redispatched(runs[r])
    <3>1. runs[r].attempt \in Attempts
      BY <2>1 DEF RunStates
    <3>2. runs[r].attempt \in Nat
      BY <3>1 DEF Attempts
    <3>3. Redispatched(runs[r]).attempt = runs[r].attempt + 1
      BY <2>1 DEF Redispatched, RunStates
    <3> QED BY <1>1, <3>2, <3>3
  <2>5. CASE runs'[r] = AgedRun(runs[r])
    BY <1>1, <2>1, <2>5, AgedQueued DEF Less
  <2> QED
    BY <1>1, <2>3, <2>4, <2>5, QueuedRows DEF QueuedBefore
<1>2. Typed /\ [Next]_vars => [\A r \in Runs : Settled(r) => Kept(r)]_vars
  BY <1>1
<1> QED
  BY <1>2, AlwaysTyped, PTL DEF Spec, ResultKept

LEMMA LeaseOutlivesWaitKept ==
    ASSUME RetryCovered, Typed, LeaseOutlivesWait, Next
    PROVE  LeaseOutlivesWait'
<1> SUFFICES ASSUME NEW r \in Runs, runs'[r].status = "queued"
             PROVE  /\ runs'[r].owned /\ ~runs'[r].expired
                    /\ runs'[r].next > 0 => runs'[r].next <= runs'[r].lease
  BY DEF LeaseOutlivesWait
<1>1. runs[r] \in RunStates
  BY DEF Typed, TypeOK
<1>2. RetryDelay \in Nat /\ DispatchLease \in Nat /\ RetryDelay <= DispatchLease
  BY SchedulerNumbers DEF RetryCovered
<1>3. CASE runs[r].status = "queued" /\ runs'[r] = runs[r]
  BY <1>3 DEF LeaseOutlivesWait
<1>4. CASE runs[r].status = "queued" /\ runs'[r] = Redispatched(runs[r])
  <2>1. /\ Redispatched(runs[r]).owned = runs[r].owned
        /\ Redispatched(runs[r]).expired = runs[r].expired
        /\ Redispatched(runs[r]).next = RetryDelay
        /\ Redispatched(runs[r]).lease = MaxOf(runs[r].lease, DispatchLease)
    BY <1>1 DEF Redispatched, RunStates
  <2>2. runs[r].lease \in Int
    BY <1>1, <1>4, AgedQueued
  <2>3. RetryDelay <= MaxOf(runs[r].lease, DispatchLease)
    BY <1>2, <2>2 DEF MaxOf
  <2>4. runs[r].owned /\ ~runs[r].expired
    BY <1>4 DEF LeaseOutlivesWait
  <2> QED BY <1>4, <2>1, <2>3, <2>4
<1>5. ASSUME NEW lane, runs'[r] = Dispatched(lane)
      PROVE  runs'[r].owned /\ ~runs'[r].expired /\ runs'[r].next <= runs'[r].lease
  <2>1. /\ Dispatched(lane).owned /\ ~Dispatched(lane).expired
        /\ Dispatched(lane).next = RetryDelay /\ Dispatched(lane).lease = DispatchLease
    BY DEF Dispatched, NoRun
  <2> QED BY <1>2, <1>5, <2>1
<1>6. ASSUME NEW result \in Results, runs[r].status = "queued", runs'[r] = Recorded(runs[r], result)
      PROVE  /\ runs'[r].owned /\ ~runs'[r].expired
             /\ runs'[r].next > 0 => runs'[r].next <= runs'[r].lease
  <2>1. runs[r].lease \in Int /\ runs[r].owned /\ ~runs[r].expired
    BY <1>1, <1>6, AgedQueued DEF LeaseOutlivesWait
  <2>2. /\ Recorded(runs[r], result).owned = runs[r].owned
        /\ Recorded(runs[r], result).expired = runs[r].expired
    BY <1>1 DEF Recorded, RunStates
  <2> DEFINE retry == MaxOf(RetryDelay, result.after)
  <2>3. \/ Recorded(runs[r], result).next = 0
        \/ /\ Recorded(runs[r], result).next = retry
           /\ Recorded(runs[r], result).lease = MaxOf(runs[r].lease, retry + DispatchLease)
    BY <1>1 DEF Recorded, RunStates
  <2>4. retry \in Nat
    BY <1>2, SchedulerNumbers DEF MaxOf, Results
  <2> HIDE DEF retry
  <2>5. retry <= MaxOf(runs[r].lease, retry + DispatchLease)
    BY <1>2, <2>1, <2>4 DEF MaxOf
  <2> QED BY <1>6, <2>1, <2>2, <2>3, <2>5
<1>7. CASE runs[r].status = "queued" /\ runs'[r] = AgedRun(runs[r])
  <2>1. /\ runs[r].owned /\ ~runs[r].expired
        /\ runs[r].next > 0 => runs[r].next <= runs[r].lease
    BY <1>7 DEF LeaseOutlivesWait
  <2> QED BY <1>1, <1>7, <2>1, AgedQueued DEF Less
<1> QED
  BY <1>3, <1>4, <1>5, <1>6, <1>7, QueuedRows DEF QueuedBefore

LEMMA AlwaysLeaseOutlivesWait == ASSUME RetryCovered PROVE Spec => []LeaseOutlivesWait
<1>1. Init => LeaseOutlivesWait
  BY DEF Init, LeaseOutlivesWait, NoRun
<1>2. Typed /\ LeaseOutlivesWait /\ [Next]_vars => LeaseOutlivesWait'
  <2>1. ASSUME LeaseOutlivesWait, UNCHANGED vars PROVE LeaseOutlivesWait'
    BY <2>1 DEF vars, LeaseOutlivesWait
  <2> QED BY <2>1, LeaseOutlivesWaitKept
<1> QED
  BY <1>1, <1>2, AlwaysTyped, PTL DEF Spec

\* A run that waits for its next dispatch is not failed before it: its lease
\* covers the delay of the retry and any Retry-After.
THEOREM RetriedBeforeExpiry == ASSUME RetryCovered PROVE Spec => NoExpiryBeforeRetry
<1>1. ASSUME Typed, LeaseOutlivesWait, NEW r \in Runs, runs[r].status = "queued", runs[r].next > 0
      PROVE  ~runs[r].expired /\ ~LeaseOver(runs[r])
  <2>1. runs[r] \in RunStates
    BY <1>1 DEF Typed, TypeOK
  <2>2. /\ runs[r].owned /\ ~runs[r].expired /\ runs[r].next <= runs[r].lease
        /\ runs[r].next \in Nat /\ runs[r].lease \in Int
    BY <1>1, <2>1, AgedQueued DEF LeaseOutlivesWait
  <2> QED BY <1>1, <2>2 DEF LeaseOver
<1>2. Typed /\ LeaseOutlivesWait /\ [Next]_vars
        => [\A r \in Runs : runs[r].status = "queued" /\ runs[r].next > 0 => ~runs'[r].expired]_vars
  BY <1>1, ExpiresByLease
<1> QED
  BY <1>2, AlwaysTyped, AlwaysLeaseOutlivesWait, PTL DEF Spec, NoExpiryBeforeRetry

-----------------------------------------------------------------------------
(* The turns of the queue and of the collections                             *)

\* Runs are created in their order, the scheduler owns none before it creates
\* it, and the streak tells whose turn the last run of the scheduler was.
InOrder ==
    \A p, q \in Runs : p < q /\ runs[q].status # "absent" => runs[p].status # "absent"
OwnedExist == \A r \in Runs : runs[r].owned => runs[r].status # "absent"
LastOwned(q) == runs[q].owned /\ \A p \in Runs : q < p => ~runs[p].owned
StreakTells ==
    \A q \in Runs : LastOwned(q) =>
        \/ runs[q].lane = Queue /\ control.streak = 0
        \/ runs[q].lane \in Sources /\ control.streak >= 1
TurnsInv == InOrder /\ OwnedExist /\ StreakTells

\* k is the same run as j: neither created nor given to another lane.
SameRun(j, k) ==
    k.owned = j.owned /\ k.lane = j.lane /\ (k.status = "absent" <=> j.status = "absent")
SameTurns == control'.streak = control.streak /\ \A r \in Runs : SameRun(runs[r], runs'[r])

LEMMA LeftSame ==
    ASSUME NEW j \in RunStates, j.status # "absent", NEW status, status # "absent", NEW expired
    PROVE  SameRun(j, Left(j, status, expired))
BY DEF SameRun, Left, NoRun

LEMMA PatchedSame ==
    ASSUME NEW j \in RunStates, j.status # "absent", NEW status \in {"running", "succeeded", "failed"},
           NEW age
    PROVE  SameRun(j, Patched(j, status)) /\ SameRun(j, [Patched(j, status) EXCEPT !.age = age])
<1>1. Patched(j, status) \in RunStates /\ SameRun(j, Patched(j, status))
  BY PatchedType, LeftSame DEF Patched, Running
<1> DEFINE k == Patched(j, status)
<1> HIDE DEF k
<1>2. k \in RunStates /\ SameRun(j, k) => SameRun(j, [k EXCEPT !.age = age])
  BY DEF SameRun, RunStates
<1> QED BY <1>1, <1>2 DEF k

LEMMA SweptSame ==
    ASSUME Typed, NEW r \in Runs PROVE SameRun(runs[r], Swept[r])
<1>1. runs[r] \in RunStates
  BY DEF Typed, TypeOK
<1>2. CASE LeaseOver(runs[r])
  <2>1. runs[r].status # "absent"
    BY <1>2 DEF LeaseOver
  <2> QED BY <1>1, <1>2, <2>1, LeftSame DEF Swept
<1>3. CASE ~LeaseOver(runs[r])
  BY <1>3 DEF Swept, SameRun
<1> QED BY <1>2, <1>3

\* One row that stays the same run, the others unchanged.
LEMMA OneSame ==
    ASSUME Typed, control' = control, NEW q \in Runs, NEW k, SameRun(runs[q], k),
           runs' = [runs EXCEPT ![q] = k]
    PROVE  SameTurns
<1>1. runs \in [Runs -> RunStates]
  BY DEF Typed, TypeOK
<1> QED BY <1>1 DEF SameTurns, SameRun

LEMMA NoneSame == ASSUME runs' = runs, control'.streak = control.streak PROVE SameTurns
BY DEF SameTurns, SameRun

LEMMA JobTurns ==
    ASSUME Typed, Served, JobStep, \A q \in Runs : ~ManualStart(q)
    PROVE  SameTurns
<1> USE DEF sql, github
<1>1. runs \in [Runs -> RunStates]
  BY DEF Typed, TypeOK
<1>2. Executing => job.run \in Runs /\ runs[job.run].status # "absent"
  BY DEF Typed, RunsNamed, Served, HasTaken, Untaken
<1>3. CASE TakeRun
  <2>1. CASE Takeable(job.run)
    <3>1. job.run \in Runs /\ runs[job.run].status = "queued"
      BY <1>3, <2>1 DEF TakeRun, Takeable, Typed, RunsNamed
    <3>2. SameRun(runs[job.run], Running(runs[job.run]))
      BY <1>1, <3>1, LeftSame DEF Running
    <3> QED BY <1>3, <2>1, <3>1, <3>2, OneSame DEF TakeRun
  <2>2. CASE ~Takeable(job.run)
    BY <1>3, <2>2, NoneSame DEF TakeRun
  <2> QED BY <2>1, <2>2
<1>4. CASE SkipWithdrawn
  <2>1. job.run \in Runs /\ runs[job.run].status # "absent"
    BY <1>2, <1>4 DEF SkipWithdrawn, Executing
  <2>2. SameRun(runs[job.run], Left(runs[job.run], "succeeded", FALSE))
    BY <1>1, <2>1, LeftSame
  <2> QED BY <1>4, <2>1, <2>2, OneSame DEF SkipWithdrawn
<1>5. ASSUME NEW status \in {"running", "succeeded", "failed"}, Patch(status), Executing,
             control' = control
      PROVE  SameTurns
  <2>1. SameRun(runs[job.run], Patched(runs[job.run], status))
    BY <1>1, <1>2, <1>5, PatchedSame
  <2> QED BY <1>2, <1>5, <2>1, OneSame DEF Patch
<1>6. CASE CollectStart \/ \E status \in Endings : CollectEnd(status) \/ ManualEnd(status)
  BY <1>5, <1>6 DEF CollectStart, CollectEnd, ManualEnd, Executing, Endings
<1>7. ASSUME NEW status \in Endings, FinishRun(status) PROVE SameTurns
  <2> DEFINE closed == IF runs[job.run].status \in {"queued", "running"} THEN status
                       ELSE runs[job.run].status
  <2>1. job.run \in Runs /\ runs[job.run].status # "absent"
    BY <1>2, <1>7 DEF FinishRun, Executing
  <2>2. closed # "absent"
    BY <2>1 DEF Endings
  <2>3. runs' = [runs EXCEPT ![job.run] = Left(runs[job.run], closed, FALSE)] /\ control' = control
    BY <1>7 DEF FinishRun
  <2> HIDE DEF closed
  <2>4. SameRun(runs[job.run], Left(runs[job.run], closed, FALSE))
    BY <1>1, <2>1, <2>2, LeftSame
  <2> QED BY <2>1, <2>3, <2>4, OneSame
<1>8. CASE Finalize
  <2>1. CASE Finalizable(job) /\ runs[job.run].status \in {"queued", "running"}
    <3>1. job.run \in Runs /\ runs[job.run].status # "absent"
      BY <2>1 DEF Finalizable, Typed, TypeOK, JobStates, RunIds, Runs
    <3>2. SameRun(runs[job.run], Left(runs[job.run], "failed", FALSE))
      BY <1>1, <3>1, LeftSame
    <3> QED BY <1>8, <2>1, <3>1, <3>2, OneSame DEF Finalize
  <2>2. CASE ~(Finalizable(job) /\ runs[job.run].status \in {"queued", "running"})
    BY <1>8, <2>2, NoneSame DEF Finalize
  <2> QED BY <2>1, <2>2
<1>9. ASSUME NEW p \in patches, LandLate(p) PROVE SameTurns
  <2> DEFINE age == IF p.status = "running" THEN p.age ELSE 0
  <2>1. p.run \in Runs /\ p.status \in {"running", "succeeded", "failed"}
    BY DEF Typed, TypeOK, Patches
  <2>2. runs[p.run].status # "absent"
    BY <2>1 DEF Served, Patching, Untaken
  <2>3. SameRun(runs[p.run], [Patched(runs[p.run], p.status) EXCEPT !.age = age])
    BY <1>1, <2>1, <2>2, PatchedSame
  <2>4. /\ runs' = [runs EXCEPT ![p.run] = [Patched(runs[p.run], p.status) EXCEPT !.age = age]]
        /\ control' = control
    BY <1>9 DEF LandLate
  <2> HIDE DEF age
  <2> QED BY <2>1, <2>3, <2>4, OneSame
<1>10. CASE StartJob \/ Register \/ StepFails \/ JobLost \/ \E delay \in 1 .. Cadence : FinishSource(delay)
  BY <1>10, NoneSame DEF StartJob, Register, StepFails, JobLost, FinishSource
<1> QED BY <1>3, <1>4, <1>6, <1>7, <1>8, <1>9, <1>10 DEF JobStep

\* Only the two claims and the start of a manual run create a run.
LEMMA StepTurns ==
    ASSUME Typed, Served, Next
    PROVE  \/ SameTurns
           \/ \E q \in Runs : ManualStart(q)
           \/ \E d \in Dispatchers, q \in Runs :
                 ClaimQueue(d, q) \/ \E s \in Sources : ClaimSource(d, q, s)
<1> USE DEF sql, github
<1>1. runs \in [Runs -> RunStates] /\ control \in ControlStates
  BY DEF Typed, TypeOK
<1>2. ASSUME NEW d \in Dispatchers, ClaimNothing(d) \/ ClaimIdle(d) PROVE SameTurns
  <2>1. runs' = Swept /\ control'.streak = control.streak
    BY <1>1, <1>2 DEF ClaimNothing, ClaimIdle, ControlStates
  <2> QED BY <2>1, SweptSame DEF SameTurns
<1>3. ASSUME NEW d \in Dispatchers, ClaimAgain(d) PROVE SameTurns
  <2>1. PICK q \in OldestActive :
          Redispatchable(Swept[q]) /\ runs' = [Swept EXCEPT ![q] = Redispatched(Swept[q])]
    BY <1>3 DEF ClaimAgain
  <2>2. q \in Runs /\ Swept \in [Runs -> RunStates]
    BY <1>1, <2>1, SweptType DEF OldestActive, Active
  <2>3. SameRun(Swept[q], Redispatched(Swept[q]))
    BY <2>2 DEF SameRun, Redispatched, RunStates
  <2>4. control' = control
    BY <1>3 DEF ClaimAgain
  <2> QED BY <2>1, <2>2, <2>3, <2>4, SweptSame DEF SameTurns, SameRun
<1>4. CASE DispatchStep
  BY <1>2, <1>3, <1>4, NoneSame DEF DispatchStep, Claim, PostTimeout, Report, EndTick
<1>5. CASE ServerStep
  <2>1. ASSUME NEW m \in reports, RecordResult(m) PROVE SameTurns
    <3>1. m.run \in Runs
      BY DEF Typed, TypeOK, Reports
    <3>2. SameRun(runs[m.run], Recorded(runs[m.run], m.result))
      BY <1>1, <3>1 DEF SameRun, Recorded, RunStates
    <3> QED BY <2>1, <3>1, <3>2, OneSame, NoneSame DEF RecordResult
  <2> QED BY <1>5, <2>1, NoneSame DEF ServerStep, GitHubAccepts, GitHubRejects, Lose
<1>6. CASE JobStep
  BY <1>6, JobTurns
<1>7. CASE EnvironmentStep
  <2>1. CASE Tick
    <3>1. ASSUME NEW r \in Runs PROVE SameRun(runs[r], runs'[r])
      <4>1. runs'[r] = AgedRun(runs[r]) /\ runs[r] \in RunStates
        BY <1>1, <2>1 DEF Tick
      <4> QED BY <4>1 DEF SameRun, AgedRun, RunStates
    <3>2. control'.streak = control.streak
      BY <1>1, <2>1 DEF Tick, ControlStates
    <3> QED BY <3>1, <3>2 DEF SameTurns
  <2>2. CASE SwitchPipeline \/ SwitchDrain \/ QueueDeferred
    BY <1>1, <2>2, NoneSame DEF SwitchPipeline, SwitchDrain, QueueDeferred, ControlStates
  <2> QED
    BY <1>7, <2>1, <2>2, NoneSame DEF EnvironmentStep, ManualDispatch, SwitchSource, QueueChanges
<1> QED BY <1>4, <1>5, <1>6, <1>7 DEF Next

\* The run that a claim creates is the last, and its lane sets the streak.
LEMMA ClaimTurns ==
    ASSUME Typed, NEW r \in Runs,
           \E d \in Dispatchers : ClaimQueue(d, r) \/ \E s \in Sources : ClaimSource(d, r, s)
    PROVE  /\ NextRun(r)
           /\ \A q \in Runs \ {r} : SameRun(runs[q], runs'[q])
           /\ runs'[r].owned /\ runs'[r].status # "absent"
           /\ \/ runs'[r].lane = Queue /\ control'.streak = 0
              \/ runs'[r].lane \in Sources /\ control'.streak >= 1
<1>1. control \in ControlStates /\ Swept \in [Runs -> RunStates]
  BY SweptType DEF Typed, TypeOK
<1>2. ASSUME NEW lane, runs' = [Swept EXCEPT ![r] = Dispatched(lane)]
      PROVE  /\ \A q \in Runs \ {r} : SameRun(runs[q], runs'[q])
             /\ runs'[r].owned /\ runs'[r].status # "absent" /\ runs'[r].lane = lane
  <2>1. \A q \in Runs \ {r} : runs'[q] = Swept[q]
    BY <1>1, <1>2
  <2>2. runs'[r] = Dispatched(lane)
    BY <1>1, <1>2
  <2> QED BY <2>1, <2>2, SweptSame DEF Dispatched, NoRun
<1>3. ASSUME NEW d, ClaimQueue(d, r)
      PROVE  /\ NextRun(r) /\ runs' = [Swept EXCEPT ![r] = Dispatched(Queue)]
             /\ control'.streak = 0
  BY <1>1, <1>3 DEF ClaimQueue, ControlStates
<1>4. ASSUME NEW d, NEW s \in Sources, ClaimSource(d, r, s)
      PROVE  /\ NextRun(r) /\ runs' = [Swept EXCEPT ![r] = Dispatched(s)]
             /\ control'.streak >= 1
  BY <1>1, <1>4 DEF ClaimSource, ControlStates
<1> QED BY <1>2, <1>3, <1>4

LEMMA TurnsKept ==
    ASSUME Typed, Served, TurnsInv, Next PROVE TurnsInv'
<1>1. Runs \subseteq Int
  BY DEF Runs
<1>2. CASE SameTurns
  BY <1>2 DEF SameTurns, SameRun, TurnsInv, InOrder, OwnedExist, StreakTells, LastOwned
<1>3. ASSUME NEW r \in Runs, NextRun(r), \A q \in Runs \ {r} : SameRun(runs[q], runs'[q]),
             runs'[r].status # "absent"
      PROVE  /\ InOrder' /\ OwnedExist'
             /\ \A p \in Runs : r < p => ~runs[p].owned /\ ~runs'[p].owned
  <2>1. runs[r].status = "absent" /\ \A q \in Runs : q < r => runs[q].status # "absent"
    BY <1>3 DEF NextRun
  <2>2. ASSUME NEW p \in Runs, r < p PROVE runs[p].status = "absent" /\ p # r
    BY <1>1, <2>1, <2>2 DEF TurnsInv, InOrder
  <2>3. InOrder'
    BY <1>1, <1>3, <2>1, <2>2 DEF InOrder, TurnsInv, SameRun
  <2>4. OwnedExist'
    BY <1>3 DEF OwnedExist, TurnsInv, SameRun
  <2>5. \A p \in Runs : r < p => ~runs[p].owned /\ ~runs'[p].owned
    BY <1>3, <2>2 DEF OwnedExist, TurnsInv, SameRun
  <2> QED BY <2>3, <2>4, <2>5
<1>4. ASSUME NEW r \in Runs, ManualStart(r) PROVE TurnsInv'
  <2>1. runs' = [runs EXCEPT ![r] = Left(NoRun, "running", FALSE)] /\ NextRun(r) /\ control' = control
    BY <1>4 DEF ManualStart
  <2>2. /\ runs'[r].status = "running" /\ ~runs'[r].owned /\ ~runs[r].owned
        /\ \A q \in Runs \ {r} : runs'[q] = runs[q]
    BY <2>1 DEF Left, NoRun, Typed, TypeOK, TurnsInv, OwnedExist, NextRun
  <2>3. InOrder' /\ OwnedExist'
    BY <1>3, <2>1, <2>2 DEF SameRun
  <2>4. ASSUME NEW q \in Runs, LastOwned(q)' PROVE LastOwned(q) /\ q # r
    BY <2>2, <2>4 DEF LastOwned
  <2>5. StreakTells'
    BY <2>1, <2>2, <2>4 DEF StreakTells, TurnsInv
  <2> QED BY <2>3, <2>5 DEF TurnsInv
<1>5. ASSUME NEW d \in Dispatchers, NEW r \in Runs,
             ClaimQueue(d, r) \/ \E s \in Sources : ClaimSource(d, r, s)
      PROVE  TurnsInv'
  <2>1. /\ NextRun(r)
        /\ \A q \in Runs \ {r} : SameRun(runs[q], runs'[q])
        /\ runs'[r].owned /\ runs'[r].status # "absent"
        /\ \/ runs'[r].lane = Queue /\ control'.streak = 0
           \/ runs'[r].lane \in Sources /\ control'.streak >= 1
    BY <1>5, ClaimTurns
  <2>2. /\ InOrder' /\ OwnedExist'
        /\ \A p \in Runs : r < p => ~runs'[p].owned
    BY <1>3, <2>1
  <2>3. ASSUME NEW q \in Runs, LastOwned(q)' PROVE q = r
    BY <1>1, <2>1, <2>2, <2>3 DEF LastOwned
  <2>4. StreakTells'
    BY <2>1, <2>3 DEF StreakTells
  <2> QED BY <2>2, <2>4 DEF TurnsInv
<1> QED BY <1>2, <1>4, <1>5, StepTurns

LEMMA AlwaysTurns == Spec => []TurnsInv
<1>1. Init => TurnsInv
  BY DEF Init, NoRun, TurnsInv, InOrder, OwnedExist, StreakTells, LastOwned
<1>2. Typed /\ Served /\ TurnsInv /\ [Next]_vars => TurnsInv'
  <2>1. ASSUME TurnsInv, UNCHANGED vars PROVE TurnsInv'
    BY <2>1 DEF vars, TurnsInv, InOrder, OwnedExist, StreakTells, LastOwned
  <2> QED BY <2>1, TurnsKept
<1> QED BY <1>1, <1>2, AlwaysTyped, AlwaysServed, PTL DEF Spec

\* A run of the queue leaves no source behind that is due for its freshness: it
\* follows a collection, or no such source is due.
LEMMA QueueTurn ==
    ASSUME Typed, NEW d, NEW r, ClaimQueue(d, r), control.streak = 0, NEW s \in Sources,
           source[s].on, source[s].next <= -Freshness
    PROVE  FALSE
<1>1. source \in [Sources -> SourceStates] /\ Readmitted \in [Sources -> SourceStates]
  BY ReadmittedType DEF Typed, TypeOK
<1>2. -Freshness \in Int /\ -Freshness <= 0 /\ Cadence \in Int
  BY SchedulerNumbers
<1>3. source[s].next \in Int
  BY <1>1, <1>2 DEF SourceStates
<1>4. Readmitted[s] = source[s]
  BY <1>2, <1>3 DEF Readmitted
<1>5. s \in DueSources
  BY <1>2, <1>3, <1>4 DEF DueSources
<1>6. PICK t \in EarliestDue : Preempts(t)
  BY <1>5 DEF ClaimQueue
<1>7. t \in Sources /\ Readmitted[t].next <= Readmitted[s].next
  BY <1>5, <1>6 DEF EarliestDue, DueSources
<1>8. Readmitted[t].next \in Int
  BY <1>1, <1>2, <1>7 DEF SourceStates
<1> QED BY <1>2, <1>3, <1>4, <1>6, <1>7, <1>8 DEF Preempts

\* Neither the queue nor the collections starve: the streak always tells whose
\* turn the last scheduled run was, whatever manual runs came in between, and a
\* claim reads nothing else to share the turns.
THEOREM TurnsAreFair == Spec => FairTurns
<1> DEFINE Fair ==
      \A r \in Runs : runs[r].status = "absent" /\ runs'[r].status = "queued" =>
         \A q \in LastOf(r) :
            /\ runs[q].lane \in Sources /\ QueueDue => runs'[r].lane = Queue
            /\ /\ runs[q].lane = Queue
               /\ \E s \in Sources : source[s].on /\ source[s].next <= -Freshness
               => runs'[r].lane \in Sources
<1>1. ASSUME Typed, Served, TurnsInv, Next PROVE Fair
  <2> SUFFICES ASSUME NEW r \in Runs, runs[r].status = "absent", runs'[r].status = "queued",
                      NEW q \in LastOf(r)
               PROVE  /\ runs[q].lane \in Sources /\ QueueDue => runs'[r].lane = Queue
                      /\ /\ runs[q].lane = Queue
                         /\ \E s \in Sources : source[s].on /\ source[s].next <= -Freshness
                         => runs'[r].lane \in Sources
    OBVIOUS
  <2>0. Runs \subseteq Int /\ Queue \notin Sources /\ runs \in [Runs -> RunStates]
    BY <1>1, SchedulerSets DEF Runs, Typed, TypeOK
  <2>1. q \in Runs /\ q < r /\ runs[q].owned /\ \A p \in Runs : q < p /\ p < r => ~runs[p].owned
    BY DEF LastOf
  <2>2. LastOwned(q)
    <3>1. ASSUME NEW p \in Runs, p = r \/ r < p PROVE ~runs[p].owned
      BY <1>1, <2>0, <3>1 DEF TurnsInv, InOrder, OwnedExist
    <3> QED BY <2>0, <2>1, <3>1 DEF LastOwned
  <2>3. \/ runs[q].lane = Queue /\ control.streak = 0
        \/ runs[q].lane \in Sources /\ control.streak >= 1
    BY <1>1, <2>1, <2>2 DEF TurnsInv, StreakTells
  <2>4. ASSUME NEW d \in Dispatchers, NEW p \in Runs, ClaimQueue(d, p) PROVE p = r /\ runs'[r].lane = Queue
    <3>1. /\ runs' = [Swept EXCEPT ![p] = Dispatched(Queue)] /\ Swept \in [Runs -> RunStates]
          /\ SameRun(runs[r], Swept[r])
      BY <1>1, <2>0, <2>4, SweptType, SweptSame DEF ClaimQueue
    <3>2. p = r
      BY <3>1 DEF SameRun
    <3> QED BY <3>1, <3>2 DEF Dispatched, NoRun
  <2>5. ASSUME NEW d \in Dispatchers, NEW p \in Runs, NEW s \in Sources, ClaimSource(d, p, s)
        PROVE  p = r /\ runs'[r].lane = s /\ (QueueDue => ~Preempts(s))
    <3>1. /\ runs' = [Swept EXCEPT ![p] = Dispatched(s)] /\ Swept \in [Runs -> RunStates]
          /\ SameRun(runs[r], Swept[r]) /\ (QueueDue => ~Preempts(s))
      BY <1>1, <2>0, <2>5, SweptType, SweptSame DEF ClaimSource
    <3>2. p = r
      BY <3>1 DEF SameRun
    <3> QED BY <3>1, <3>2 DEF Dispatched, NoRun
  <2>6. ASSUME NEW p \in Runs, ManualStart(p) PROVE FALSE
    <3>1. runs' = [runs EXCEPT ![p] = Left(NoRun, "running", FALSE)]
      BY <2>6 DEF ManualStart
    <3> QED BY <2>0, <3>1 DEF Left, NoRun
  <2>7. ~SameTurns
    BY DEF SameTurns, SameRun
  <2>8. CASE \E d \in Dispatchers, p \in Runs : ClaimQueue(d, p)
    BY <1>1, <2>0, <2>3, <2>4, <2>8, QueueTurn
  <2>9. CASE \E d \in Dispatchers, p \in Runs, s \in Sources : ClaimSource(d, p, s)
    BY <2>0, <2>3, <2>5, <2>9 DEF Preempts
  <2> QED BY <1>1, <2>6, <2>7, <2>8, <2>9, StepTurns
<1>2. Typed /\ Served /\ TurnsInv /\ [Next]_vars => [Fair]_vars
  BY <1>1
<1> QED BY <1>2, AlwaysTyped, AlwaysServed, AlwaysTurns, PTL DEF Spec, FairTurns
=============================================================================
