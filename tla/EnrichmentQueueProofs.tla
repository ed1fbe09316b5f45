------------------------ MODULE EnrichmentQueueProofs ------------------------
(***************************************************************************)
(* Theorems about EnrichmentQueue, for any sets of sales, workers,         *)
(* requests and revisions and any bounds: type correctness, the exclusion  *)
(* between the processes that hold leases, the exclusion between the       *)
(* leases of a sale, and that the queue implements SaleLease.              *)
(***************************************************************************)
EXTENDS EnrichmentQueue, TLAPS, FiniteSetTheorems

-----------------------------------------------------------------------------
(* Types of the row operations                                               *)

\* The bounds that the row operations need, with the intervals left folded.
LEMMA Bounds ==
    /\ 0 \in Ages /\ 0 \in Waits /\ 0 \in Attempts
    /\ NoStamp \in Stamps
    /\ \A n \in Attempts : n < MaxAttempts => n + 1 \in Attempts
    /\ \A n \in Attempts : n > 0 => n - 1 \in Attempts
    /\ \A n \in Waits : n > 0 => n - 1 \in Waits
    /\ \A n \in Ages : n <= Lease => n + 1 \in Ages
<1>1. NoStamp \in Stamps
  BY DEF NoStamp, Stamps
<1> QED
  BY <1>1, NumbersAssumption DEF Ages, Waits, Attempts

LEMMA UnlockedType ==
    ASSUME NEW j \in RowStates, NEW status \in Statuses
    PROVE  Unlocked(j, status) \in RowStates
BY Bounds DEF Unlocked, RowStates

LEMMA RestoredType ==
    ASSUME NEW j \in RowStates, NEW d \in Waits
    PROVE  Restored(j, d) \in RowStates
<1> DEFINE k == Unlocked(j, "queued")
<1>1. k \in RowStates
  BY UnlockedType DEF Statuses
<1>2. k.attempts \in Attempts
  BY <1>1 DEF RowStates
<1>3. (IF k.attempts > 0 THEN k.attempts - 1 ELSE 0) \in Attempts
  BY <1>2, Bounds
<1>4. Restored(j, d) = [k EXCEPT !.attempts = IF k.attempts > 0 THEN k.attempts - 1 ELSE 0, !.wait = d]
  BY DEF Restored
<1> HIDE DEF k
<1> QED
  BY <1>1, <1>3, <1>4 DEF RowStates

LEMMA ClaimedType ==
    ASSUME NEW j \in RowStates, j.attempts < MaxAttempts, NEW stamp \in Stamps
    PROVE  Claimed(j, stamp) \in RowStates
<1>1. j.attempts + 1 \in Attempts
  BY Bounds DEF RowStates
<1> QED
  BY <1>1, Bounds DEF Claimed, RowStates, Statuses

LEMMA NewRowType ==
    ASSUME NEW h \in Revisions, NEW n \in Nat
    PROVE  NewRow(h, n) \in RowStates
BY Bounds DEF NewRow, RowStates, Statuses

LEMMA AbsentRowType == AbsentRow \in RowStates
<1>1. (CHOOSE h \in Revisions : TRUE) \in Revisions
  BY SetsAssumption
<1>2. NewRow(CHOOSE h \in Revisions : TRUE, 0) \in RowStates
  BY <1>1, NewRowType
<1> QED
  BY <1>2 DEF AbsentRow, RowStates, Statuses

LEMMA CountType ==
    ASSUME NEW s, NEW t PROVE Cardinality(RowsOf(s, t)) \in Nat
<1>1. IsFiniteSet(1 .. MaxRows)
  BY FS_Interval, NumbersAssumption
<1>2. RowsOf(s, t) \subseteq 1 .. MaxRows
  BY DEF RowsOf
<1> QED
  BY <1>1, <1>2, FS_Subset, FS_CardinalityType

\* Housekeeping keeps the types, and leaves every live row as it is.
LEMMA HousekeptType ==
    ASSUME NEW jb \in [Rows -> RowStates]
    PROVE  /\ Housekept(jb) \in [Rows -> RowStates]
           /\ \A x \in Rows : Live(Housekept(jb)[x]) => Housekept(jb)[x] = jb[x]
<1> DEFINE a == WithoutObsolete(jb)
           b == WithoutSuperseded(a)
           c == WithoutExhausted(b)
<1>1. /\ a \in [Rows -> RowStates]
      /\ \A x \in Rows : Live(a[x]) => a[x] = jb[x]
  <2>1. ASSUME NEW x \in Rows
        PROVE  a[x] = jb[x] \/ a[x] = Unlocked(jb[x], "cancelled")
    BY DEF WithoutObsolete
  <2>2. \A x \in Rows : a[x] \in RowStates
    BY <2>1, UnlockedType DEF Statuses
  <2>3. ASSUME NEW x \in Rows, Live(a[x]) PROVE a[x] = jb[x]
    BY <2>1, <2>3 DEF Live, Unlocked, RowStates
  <2> QED BY <2>2, <2>3 DEF WithoutObsolete
<1> HIDE DEF a
<1>2. /\ b \in [Rows -> RowStates]
      /\ \A x \in Rows : Live(b[x]) => b[x] = a[x]
  <2>1. ASSUME NEW x \in Rows
        PROVE  b[x] = a[x] \/ b[x] = Unlocked(a[x], "cancelled")
    BY DEF WithoutSuperseded
  <2>2. \A x \in Rows : b[x] \in RowStates
    BY <1>1, <2>1, UnlockedType DEF Statuses
  <2>3. ASSUME NEW x \in Rows, Live(b[x]) PROVE b[x] = a[x]
    BY <1>1, <2>1, <2>3 DEF Live, Unlocked, RowStates
  <2> QED BY <2>2, <2>3 DEF WithoutSuperseded
<1> HIDE DEF b
<1>3. /\ c \in [Rows -> RowStates]
      /\ \A x \in Rows : Live(c[x]) => c[x] = b[x]
  <2>1. ASSUME NEW x \in Rows
        PROVE  c[x] = b[x] \/ c[x] = Unlocked(b[x], "failed")
    BY DEF WithoutExhausted
  <2>2. \A x \in Rows : c[x] \in RowStates
    BY <1>2, <2>1, UnlockedType DEF Statuses
  <2>3. ASSUME NEW x \in Rows, Live(c[x]) PROVE c[x] = b[x]
    BY <1>2, <2>1, <2>3 DEF Live, Unlocked, RowStates
  <2> QED BY <2>2, <2>3 DEF WithoutExhausted
<1>4. Housekept(jb) = c
  BY DEF Housekept, a, b, c
<1> QED
  BY <1>1, <1>2, <1>3, <1>4

-----------------------------------------------------------------------------
(* Types of the other operations                                             *)

LEMMA LeaseOnType ==
    ASSUME NEW jb \in [Rows -> RowStates], NEW x \in Rows
    PROVE  LeaseOn(jb, x) \in Leases
BY DEF LeaseOn, Leases, RowStates

LEMMA IdleType == Idle \in ProcessStates
BY NumbersAssumption DEF Idle, ProcessStates, Families

LEMMA WorkingType ==
    ASSUME NEW r \in Requests, NEW held \in SUBSET Leases
    PROVE  Working(r, held) \in ProcessStates
BY IdleType, SetsAssumption DEF Working, ProcessStates, Idle

LEMMA DropType ==
    ASSUME TypeOK, NEW w \in Processes, NEW D, Drop(w, D)
    PROVE  worker' \in [Processes -> ProcessStates]
<1>1. worker[w] \in ProcessStates
  BY DEF TypeOK
<1>2. [worker[w] EXCEPT !.leases = @ \ D] \in ProcessStates
  BY <1>1 DEF ProcessStates
<1> QED
  BY <1>2, IdleType DEF Drop, TypeOK

LEMMA RespondType ==
    ASSUME TypeOK, NEW m \in Messages, NEW held \in SUBSET Leases, Respond(m, held)
    PROVE  worker' \in [Processes -> ProcessStates]
<1>1. m.req \in Requests
  BY DEF Messages
<1>2. CASE worker' = worker
  BY <1>2 DEF TypeOK
<1>3. CASE worker' # worker
  <2>1. PICK w \in Workers :
          worker' = [worker EXCEPT ![w] = IF held = {} THEN Idle ELSE Working(m.req, held)]
    BY <1>3 DEF Respond
  <2>2. (IF held = {} THEN Idle ELSE Working(m.req, held)) \in ProcessStates
    BY <1>1, IdleType, WorkingType
  <2> QED BY <2>1, <2>2 DEF TypeOK
<1> QED BY <1>2, <1>3

LEMMA SendType ==
    ASSUME TypeOK, NEW w, NEW r \in Requests, NEW k \in 1 .. RpcTries, NEW f \in Families,
           Send(w, r, k, f)
    PROVE  wire' \subseteq Messages
BY DEF TypeOK, Send, Messages

LEMMA NewRequestType ==
    ASSUME TypeOK, NEW r \in Requests, NEW n \in Nat,
           receipt' = [receipt EXCEPT ![r] = [found |-> FALSE, leases |-> {}]],
           grants' = [grants EXCEPT ![r] = n]
    PROVE  receipt' \in [Requests -> Receipts] /\ grants' \in [Requests -> Nat]
BY DEF TypeOK, Receipts

LEMMA ReplayedType ==
    ASSUME TypeOK, NEW r \in Requests PROVE Replayed(r) \in SUBSET Leases
BY DEF TypeOK, Replayed, Receipts

-----------------------------------------------------------------------------
(* Type correctness, action by action                                        *)

LEMMA InitType == Init => TypeOK
<1> SUFFICES ASSUME Init PROVE TypeOK
  OBVIOUS
<1>1. jobs \in [Rows -> RowStates]
  BY AbsentRowType DEF Init
<1>2. sale \in [Sales -> AllSaleStates]
  BY DEF Init, AllSaleStates
<1>3. receipt \in [Requests -> Receipts]
  BY DEF Init, Receipts
<1>4. worker \in [Processes -> ProcessStates]
  BY IdleType DEF Init
<1>5. gate \in 0 .. MaxGate
  BY NumbersAssumption DEF Init
<1> QED
  BY <1>1, <1>2, <1>3, <1>4, <1>5 DEF Init, TypeOK

\* The leases that a claim hands out are typed, and carry its stamp.
LEMMA GrantType ==
    ASSUME TypeOK, NEW m \in wire, NEW S \in SUBSET Rows, GrantClaim(m, S)
    PROVE  TypeOK'
<1> DEFINE kept == Housekept(jobs)
           stamp == <<m.req, grants[m.req] + 1>>
           after == [x \in Rows |-> IF x \in S THEN Claimed(kept[x], stamp) ELSE kept[x]]
           held == {LeaseOn(after, x) : x \in S}
<1>1. m \in Messages /\ m.req \in Requests
  BY DEF TypeOK, Messages
<1>2. stamp \in Stamps
  BY <1>1 DEF TypeOK, Stamps
<1>3. kept \in [Rows -> RowStates]
  BY HousekeptType DEF TypeOK
<1>4. \A x \in S : kept[x].attempts < MaxAttempts
  BY DEF GrantClaim, Eligible
<1> HIDE DEF kept, stamp
<1>5. after \in [Rows -> RowStates]
  <2>1. \A x \in S : Claimed(kept[x], stamp) \in RowStates
    BY <1>2, <1>3, <1>4, ClaimedType
  <2> QED BY <2>1, <1>3
<1> HIDE DEF after
<1>6. held \in SUBSET Leases
  BY <1>5, LeaseOnType
<1>7. /\ jobs' = after
      /\ receipt' = [receipt EXCEPT ![m.req] = [found |-> TRUE, leases |-> held]]
      /\ Respond(m, held)
  BY DEF GrantClaim, after, kept, stamp
<1> HIDE DEF held
<1>8. worker' \in [Processes -> ProcessStates]
  BY <1>1, <1>6, <1>7, RespondType
<1>9. receipt' \in [Requests -> Receipts]
  BY <1>6, <1>7 DEF TypeOK, Receipts
<1>10. /\ grants' \in [Requests -> Nat] /\ wire' \subseteq Messages
       /\ UNCHANGED envVars
  BY <1>1 DEF GrantClaim, TypeOK
<1> QED
  BY <1>5, <1>7, <1>8, <1>9, <1>10 DEF TypeOK, envVars

LEMMA ServerType == TypeOK /\ ServerStep => TypeOK'
<1> SUFFICES ASSUME TypeOK, NEW m \in wire,
                    \/ ReplayClaim(m) \/ RefuseClaim(m) \/ LoseCall(m)
                    \/ \E S \in SUBSET Rows : GrantClaim(m, S)
             PROVE  TypeOK'
  BY DEF ServerStep
<1>1. m \in Messages /\ m.req \in Requests
  BY DEF TypeOK, Messages
<1>2. CASE ReplayClaim(m)
  <2>1. worker' \in [Processes -> ProcessStates]
    BY <1>1, <1>2, RespondType, ReplayedType DEF ReplayClaim
  <2> QED BY <1>2, <2>1 DEF ReplayClaim, TypeOK, envVars
<1>3. CASE RefuseClaim(m)
  <2>1. worker' \in [Processes -> ProcessStates]
    BY <1>1, <1>3, RespondType DEF RefuseClaim
  <2> QED BY <1>3, <2>1 DEF RefuseClaim, TypeOK, envVars
<1>4. CASE LoseCall(m)
  BY <1>4 DEF LoseCall, TypeOK, envVars
<1>5. CASE \E S \in SUBSET Rows : GrantClaim(m, S)
  BY <1>5, GrantType
<1> QED BY <1>2, <1>3, <1>4, <1>5

LEMMA ClientType == TypeOK /\ ClientStep => TypeOK'
<1> SUFFICES ASSUME TypeOK, NEW w \in Workers,
                    \/ \E r \in Requests, f \in Families : BeginCall(w, r, f)
                    \/ CallTimeout(w)
                    \/ \E d \in 1 .. MaxGate : PersistBackoff(w, d)
             PROVE  TypeOK'
  BY DEF ClientStep
<1>1. w \in Processes /\ worker[w] \in ProcessStates
  BY DEF TypeOK, Processes
<1>2. ASSUME NEW r \in Requests, NEW f \in Families, BeginCall(w, r, f) PROVE TypeOK'
  <2>0. 1 \in 0 .. RpcTries /\ 1 \in 1 .. RpcTries
    BY NumbersAssumption
  <2>1. Calling(r, f) \in ProcessStates
    BY <2>0, SetsAssumption DEF Calling, ProcessStates
  <2>2. worker' \in [Processes -> ProcessStates]
    BY <1>1, <1>2, <2>1 DEF BeginCall, TypeOK
  <2>3. wire' \subseteq Messages
    BY <1>2, <2>0, SendType DEF BeginCall
  <2>4. receipt' \in [Requests -> Receipts] /\ grants' \in [Requests -> Nat]
    BY <1>2, NewRequestType DEF BeginCall
  <2> QED BY <1>2, <2>2, <2>3, <2>4 DEF BeginCall, TypeOK, envVars
<1>3. CASE CallTimeout(w)
  <2>1. CASE worker[w].try < RpcTries
    <3>0. worker[w].req \in Requests
      BY <1>1, <1>3 DEF CallTimeout, ProcessStates
    <3>1. worker[w].try + 1 \in 0 .. RpcTries /\ worker[w].try + 1 \in 1 .. RpcTries
      BY <1>1, <2>1, NumbersAssumption DEF ProcessStates
    <3>2. worker' \in [Processes -> ProcessStates]
      BY <1>1, <1>3, <2>1, <3>1 DEF CallTimeout, TypeOK, ProcessStates
    <3>3. wire' \subseteq Messages
      BY <1>1, <1>3, <2>1, <3>0, <3>1, SendType DEF CallTimeout, ProcessStates
    <3> QED BY <1>3, <3>2, <3>3 DEF CallTimeout, TypeOK, envVars
  <2>2. CASE ~(worker[w].try < RpcTries)
    BY <1>3, <2>2, IdleType DEF CallTimeout, TypeOK, envVars
  <2> QED BY <2>1, <2>2
<1>4. ASSUME NEW d \in 1 .. MaxGate, PersistBackoff(w, d) PROVE TypeOK'
  <2>1. gate' \in 0 .. MaxGate
    BY <1>4, NumbersAssumption DEF PersistBackoff, TypeOK
  <2> QED BY <1>4, <2>1, IdleType DEF PersistBackoff, TypeOK
<1> QED BY <1>2, <1>3, <1>4

\* What a checkpoint does to the table: nothing, or it retires one running row, or it gives it a
\* hash that no row of its key has.
CheckpointOf(x, h) ==
    /\ jobs[x].status = "running"
    /\ \/ jobs' = [jobs EXCEPT ![x] = Unlocked(@, "cancelled")]
       \/ jobs' = [jobs EXCEPT ![x].hash = h] /\ ~HashUsed(x, h)

LEMMA Checkpoints ==
    ASSUME TypeOK, NEW w \in Processes,
           \/ \E l \in worker[w].leases, h \in Revisions : LookForGeneration(w, l, h)
           \/ MoveKey(w)
    PROVE  /\ UNCHANGED <<queueVars, kinds, sale, detailsOn, gate, worker>>
           /\ look' \in [Processes -> SUBSET (Leases \X Revisions)]
           /\ jobs' = jobs \/ \E x \in Rows, h \in Revisions : CheckpointOf(x, h)
<1>1. ASSUME NEW l \in Leases
      PROVE  l.row \in Rows /\ (StillKeyed(l) => jobs[l.row].status = "running")
  BY DEF Leases, StillKeyed, Owns
<1>2. ASSUME NEW l \in worker[w].leases, NEW h \in Revisions, LookForGeneration(w, l, h)
      PROVE  /\ look' \in [Processes -> SUBSET (Leases \X Revisions)]
             /\ jobs' = jobs \/ \E x \in Rows, g \in Revisions : CheckpointOf(x, g)
  <2>1. l \in Leases
    BY DEF TypeOK, ProcessStates
  <2>2. look' \in [Processes -> SUBSET (Leases \X Revisions)]
    BY <1>2, <2>1 DEF LookForGeneration, TypeOK
  <2>3. jobs' = jobs \/ CheckpointOf(l.row, h)
    BY <1>1, <1>2, <2>1 DEF LookForGeneration, Retired, CheckpointOf
  <2> QED BY <1>1, <2>1, <2>2, <2>3
<1>3. ASSUME MoveKey(w)
      PROVE  /\ look' \in [Processes -> SUBSET (Leases \X Revisions)]
             /\ jobs' = jobs \/ \E x \in Rows, g \in Revisions : CheckpointOf(x, g)
  <2>1. PICK q \in look[w] :
          jobs' = IF HashUsed(q[1].row, q[2]) THEN Retired(q[1])
                  ELSE IF StillKeyed(q[1]) THEN [jobs EXCEPT ![q[1].row].hash = q[2]]
                  ELSE jobs
    BY <1>3 DEF MoveKey
  <2>2. q[1] \in Leases /\ q[2] \in Revisions
    BY DEF TypeOK
  <2>3. jobs' = jobs \/ CheckpointOf(q[1].row, q[2])
    BY <1>1, <2>1, <2>2 DEF Retired, CheckpointOf
  <2>4. look' \in [Processes -> SUBSET (Leases \X Revisions)]
    BY <1>3 DEF MoveKey, TypeOK
  <2> QED BY <1>1, <2>2, <2>3, <2>4
<1> QED BY <1>2, <1>3 DEF LookForGeneration, MoveKey

\* The rows after the write of a checkpoint.
LEMMA CheckpointRow ==
    ASSUME NEW jb \in [Rows -> RowStates], jb = jobs,
           NEW x \in Rows, NEW h \in Revisions, CheckpointOf(x, h)
    PROVE  /\ jobs' \in [Rows -> RowStates]
           /\ \A y \in Rows \ {x} : jobs'[y] = jobs[y]
           /\ \/ jobs'[x] = Unlocked(jobs[x], "cancelled")
              \/ jobs'[x] = [jobs[x] EXCEPT !.hash = h]
<1>1. Unlocked(jobs[x], "cancelled") \in RowStates
  BY UnlockedType DEF Statuses
<1>2. [jobs[x] EXCEPT !.hash = h] \in RowStates
  BY DEF RowStates
<1>3. \/ jobs' = [jobs EXCEPT ![x] = Unlocked(jobs[x], "cancelled")]
      \/ jobs' = [jobs EXCEPT ![x] = [jobs[x] EXCEPT !.hash = h]]
  BY DEF CheckpointOf
<1> QED BY <1>1, <1>2, <1>3

\* The steps of a process on its leases write the table, drop leases, look and forget only.
LEMMA WorkType == TypeOK /\ WorkStep => TypeOK'
<1> SUFFICES ASSUME TypeOK, NEW w \in Processes,
                    \/ \E l \in worker[w].leases :
                          \/ FinishJob(w, l, "completed", 0)
                          \/ FinishJob(w, l, "cancelled", 0)
                          \/ \E d \in RetryDelay .. MaxWait : FinishJob(w, l, "failed", d)
                          \/ PublishDetail(w, l)
                          \/ ReuseDetail(w, l)
                          \/ \E h \in Revisions : LookForGeneration(w, l, h)
                    \/ \E D \in SUBSET worker[w].leases, d \in 0 .. MaxWait : Defer(w, D, d)
                    \/ MoveKey(w)
                    \/ Crash(w)
             PROVE  TypeOK'
  BY DEF WorkStep
<1>1. \A l \in worker[w].leases : l.row \in Rows
  BY DEF TypeOK, ProcessStates, Leases
<1>2. ASSUME jobs' \in [Rows -> RowStates], NEW D, Drop(w, D), UNCHANGED <<queueVars, envVars>>
      PROVE  TypeOK'
  BY <1>2, DropType DEF TypeOK, queueVars, envVars
<1>3. ASSUME NEW l \in worker[w].leases, NEW status \in {"completed", "cancelled", "failed"},
             NEW d \in Waits, FinishJob(w, l, status, d)
      PROVE  TypeOK'
  <2>1. jobs[l.row] \in RowStates
    BY <1>1 DEF TypeOK
  <2>2. Unlocked(jobs[l.row], status) \in RowStates
    BY <2>1, UnlockedType DEF Statuses
  <2>3. [Unlocked(jobs[l.row], status) EXCEPT !.wait = d] \in RowStates
    BY <2>2 DEF RowStates
  <2>4. jobs' \in [Rows -> RowStates]
    BY <1>3, <2>2, <2>3 DEF FinishJob, TypeOK
  <2> QED BY <1>2, <1>3, <2>4 DEF FinishJob
<1>4. 0 \in Waits /\ RetryDelay .. MaxWait \subseteq Waits
  BY NumbersAssumption DEF Waits
<1>5. ASSUME NEW l \in worker[w].leases, PublishDetail(w, l) PROVE TypeOK'
  <2>1. Unlocked(jobs[l.row], "completed") \in RowStates
    BY <1>1, UnlockedType DEF TypeOK, Statuses
  <2>2. jobs' \in [Rows -> RowStates]
    BY <1>5, <2>1 DEF PublishDetail, TypeOK
  <2> QED BY <1>2, <1>5, <2>2 DEF PublishDetail
<1>6. ASSUME NEW l \in worker[w].leases, ReuseDetail(w, l) PROVE TypeOK'
  <2> DEFINE k == Restored(jobs[l.row], jobs[l.row].wait)
  <2>1. k \in RowStates
    BY <1>1, RestoredType DEF TypeOK, RowStates
  <2> HIDE DEF k
  <2>2. [k EXCEPT !.status = "completed"] \in RowStates
    BY <2>1 DEF RowStates, Statuses
  <2>3. jobs' = IF Owns(l) /\ Live(jobs[l.row])
                  THEN [jobs EXCEPT ![l.row] = [k EXCEPT !.status = "completed"]] ELSE jobs
    BY <1>6 DEF ReuseDetail, k
  <2>4. jobs' \in [Rows -> RowStates]
    BY <2>2, <2>3 DEF TypeOK
  <2> QED BY <1>2, <1>6, <2>4 DEF ReuseDetail
<1>7. ASSUME \/ \E l \in worker[w].leases, h \in Revisions : LookForGeneration(w, l, h)
             \/ MoveKey(w)
      PROVE  TypeOK'
  <2>1. jobs' \in [Rows -> RowStates]
    BY <1>7, Checkpoints, CheckpointRow DEF TypeOK
  <2> QED BY <1>7, <2>1, Checkpoints DEF TypeOK, queueVars
<1>8. ASSUME NEW D, NEW d \in Waits, Defer(w, D, d) PROVE TypeOK'
  <2>1. \A x \in Rows : Restored(jobs[x], d) \in RowStates
    BY RestoredType DEF TypeOK
  <2>2. jobs' \in [Rows -> RowStates]
    BY <1>8, <2>1 DEF Defer, TypeOK
  <2> QED BY <1>2, <1>8, <2>2 DEF Defer
<1>9. CASE Crash(w)
  BY <1>9, IdleType DEF Crash, TypeOK, queueVars
<1> QED
  BY <1>3, <1>4, <1>5, <1>6, <1>7, <1>8, <1>9 DEF Waits

LEMMA EnqueuedType ==
    ASSUME TypeOK, NEW x \in Rows, NEW h \in Revisions
    PROVE  Enqueued(x, h) \in RowStates
<1>1. jobs[x] \in RowStates
  BY DEF TypeOK
<1>2. [jobs[x] EXCEPT !.hash = h, !.attempts = 0, !.wait = 0] \in RowStates
  BY <1>1, Bounds DEF RowStates
<1>3. NewRow(h, Cardinality(RowsOf(SaleOf(x), TypeOf(x))) + 1) \in RowStates
  BY CountType, NewRowType
<1> QED
  BY <1>1, <1>2, <1>3 DEF Enqueued

LEMMA RenewedType ==
    ASSUME TypeOK, NEW x \in Rows
    PROVE  Renewed(x) \in [Rows -> RowStates]
<1> DEFINE settled == jobs[x].status \in {"completed", "cancelled"}
           tries == IF settled \/ jobs[x].attempts >= MaxAttempts THEN 0 ELSE jobs[x].attempts
           requeued == [jobs[x] EXCEPT !.status = "queued", !.wait = 0, !.attempts = tries]
           n == Cardinality(RowsOf(SaleOf(x), TypeOf(x)))
<1>1. jobs[x] \in RowStates /\ tries \in Attempts /\ "queued" \in Statuses
  BY Bounds DEF TypeOK, RowStates, Statuses
<1> HIDE DEF tries
<1>2. requeued \in RowStates
  BY <1>1, Bounds DEF RowStates
<1> HIDE DEF requeued
<1>3. [requeued EXCEPT !.born = n] \in RowStates
  BY <1>2, CountType DEF RowStates
<1> HIDE DEF n
<1>4. ASSUME NEW y \in Rows, jobs[y].born > jobs[x].born
      PROVE  [jobs[y] EXCEPT !.born = @ - 1] \in RowStates
  <2>1. jobs[y] \in RowStates /\ jobs[y].born - 1 \in Nat
    BY <1>4 DEF TypeOK, RowStates
  <2> QED BY <2>1 DEF RowStates
<1>5. Renewed(x) = IF ~settled THEN [jobs EXCEPT ![x] = requeued]
                   ELSE [y \in Rows |->
                           IF y = x THEN [requeued EXCEPT !.born = n]
                           ELSE IF SameKey(x, y) /\ jobs[y].born > jobs[x].born
                             THEN [jobs[y] EXCEPT !.born = @ - 1]
                           ELSE jobs[y]]
  BY DEF Renewed, requeued, tries, n
<1> QED
  BY <1>2, <1>3, <1>4, <1>5 DEF TypeOK

LEMMA ProducerType == TypeOK /\ ProducerStep => TypeOK'
<1> SUFFICES ASSUME TypeOK, ProducerStep PROVE TypeOK'
  OBVIOUS
<1>1. ASSUME jobs' \in [Rows -> RowStates], UNCHANGED <<queueVars, envVars, worker>>
      PROVE  TypeOK'
  BY <1>1 DEF TypeOK, queueVars, envVars
<1>2. ASSUME NEW s \in Sales, NEW K,
             NEW hash \in [K -> Revisions], Enqueue(s, hash)
      PROVE  TypeOK'
  <2>1. ASSUME NEW x \in Rows, TypeOf(x) \in DOMAIN hash
        PROVE  Enqueued(x, hash[TypeOf(x)]) \in RowStates
    BY <2>1, EnqueuedType
  <2>2. jobs' \in [Rows -> RowStates]
    BY <1>2, <2>1 DEF Enqueue, TypeOK
  <2> QED BY <1>1, <1>2, <2>2 DEF Enqueue
<1>3. ASSUME NEW x \in Rows, NEW h \in Revisions
      PROVE  [jobs EXCEPT ![x] = NewRow(h, Cardinality(RowsOf(SaleOf(x), TypeOf(x))) + 1)]
               \in [Rows -> RowStates]
  BY CountType, NewRowType DEF TypeOK
<1>4. ASSUME NEW x \in Rows, NEW h \in Revisions, EnqueueDetail(x, h) PROVE TypeOK'
  BY <1>1, <1>3, <1>4 DEF EnqueueDetail
<1>5. ASSUME NEW x \in Rows, NEW h \in Revisions, BacklogEnsure(x, h) PROVE TypeOK'
  BY <1>1, <1>3, <1>5, RenewedType DEF BacklogEnsure
<1>6. ASSUME NEW b \in BacklogWorkers, NEW r \in Requests, NEW x \in Rows, BacklogClaim(b, r, x)
      PROVE  TypeOK'
  <2>1. <<r, 1>> \in Stamps
    BY DEF Stamps
  <2>2. Claimed(jobs[x], <<r, 1>>) \in RowStates
    BY <1>6, <2>1, ClaimedType DEF BacklogClaim, TypeOK
  <2>3. jobs' \in [Rows -> RowStates]
    BY <1>6, <2>2 DEF BacklogClaim, TypeOK
  <2>4. Working(r, {LeaseOn(jobs', x)}) \in ProcessStates
    BY <2>3, LeaseOnType, WorkingType
  <2>5. worker' \in [Processes -> ProcessStates]
    BY <1>6, <2>4 DEF BacklogClaim, TypeOK
  <2>6. receipt' \in [Requests -> Receipts] /\ grants' \in [Requests -> Nat]
    BY <1>6, NewRequestType DEF BacklogClaim
  <2> QED BY <1>6, <2>3, <2>5, <2>6 DEF BacklogClaim, TypeOK, envVars
<1>7. ASSUME NEW s \in Sales, NEW K \in SUBSET (kinds \ {"source_detail"}),
             NEW text \in Revisions, NEW pdf \in Revisions
      PROVE  [t \in K |-> IF t = "pdf" THEN pdf ELSE text] \in [K -> Revisions]
  OBVIOUS
<1> QED
  BY <1>2, <1>4, <1>5, <1>6, <1>7 DEF ProducerStep

LEMMA EnvironmentType == TypeOK /\ EnvironmentStep => TypeOK'
<1> SUFFICES ASSUME TypeOK, EnvironmentStep PROVE TypeOK'
  OBVIOUS
<1>1. ASSUME NEW s \in Sales, NEW from, NEW to \in AllSaleStates, SetSale(s, from, to)
      PROVE  TypeOK'
  BY <1>1 DEF SetSale, TypeOK, queueVars
<1>2. ASSUME NEW s \in Sales, DeleteSale(s) PROVE TypeOK'
  <2>1. jobs' \in [Rows -> RowStates]
    BY <1>2, AbsentRowType DEF DeleteSale, TypeOK
  <2> QED BY <1>2, <2>1 DEF DeleteSale, TypeOK, queueVars, AllSaleStates
<1>3. CASE ToggleDetails
  BY <1>3 DEF ToggleDetails, TypeOK, queueVars
<1>4. CASE Tick
  <2> DEFINE aged(x) ==
               [jobs[x] EXCEPT !.wait = IF @ > 0 THEN @ - 1 ELSE 0,
                               !.age = IF Live(jobs[x]) THEN @ + 1 ELSE @]
  <2>1. ASSUME NEW x \in Rows PROVE aged(x) \in RowStates
    <3> DEFINE w == IF jobs[x].wait > 0 THEN jobs[x].wait - 1 ELSE 0
               a == IF Live(jobs[x]) THEN jobs[x].age + 1 ELSE jobs[x].age
    <3>1. jobs[x] \in RowStates /\ w \in Waits /\ a \in Ages
      BY Bounds DEF TypeOK, RowStates, Live
    <3>2. aged(x) = [jobs[x] EXCEPT !.wait = w, !.age = a]
      OBVIOUS
    <3> HIDE DEF w, a, aged
    <3> QED BY <3>1, <3>2 DEF RowStates
  <2>2. jobs' = [x \in Rows |-> aged(x)]
    BY <1>4 DEF Tick
  <2> HIDE DEF aged
  <2>3. jobs' \in [Rows -> RowStates]
    BY <2>1, <2>2
  <2>4. gate' \in 0 .. MaxGate
    <3>1. gate \in 0 .. MaxGate /\ gate' = (IF gate > 0 THEN gate - 1 ELSE 0)
      BY <1>4 DEF Tick, TypeOK
    <3> QED BY <3>1, NumbersAssumption
  <2> QED BY <1>4, <2>3, <2>4 DEF Tick, TypeOK, queueVars
<1> QED
  BY <1>1, <1>2, <1>3, <1>4
  DEF EnvironmentStep, CloseSale, UnreadySale, OpenSale, AllSaleStates

LEMMA StepType == TypeOK /\ [Next]_vars => TypeOK'
<1>1. TypeOK /\ UNCHANGED vars => TypeOK'
  BY DEF TypeOK, vars
<1> QED
  BY <1>1, ServerType, ClientType, WorkType, ProducerType, EnvironmentType DEF Next

\* Every state of the queue is well typed: whatever the interleaving, a row has
\* at most max_attempts attempts and a process that is not idle has a request.
THEOREM Typing == Spec => []TypeOK
<1> QED
  BY InitType, StepType, PTL DEF Spec

-----------------------------------------------------------------------------
(* One holder: the leases of a process carry its request, and no two         *)
(* processes work under the same request.                                    *)

LeasesOfRequest ==
    /\ \A p \in Processes : \A l \in worker[p].leases :
          worker[p].req # NoRequest /\ l.stamp[1] = worker[p].req
    /\ \A r \in Requests : \A l \in receipt[r].leases : l.stamp[1] = r
RequestsApart ==
    \A p, q \in Processes : p # q /\ worker[p].req # NoRequest => worker[p].req # worker[q].req
HolderInv == TypeOK /\ LeasesOfRequest /\ RequestsApart

\* What a step does to the processes when none begins a claim.
LEMMA SameRequests ==
    ASSUME HolderInv, TypeOK', UNCHANGED receipt,
           \A p \in Processes :
              \/ worker'[p] = Idle
              \/ /\ worker'[p].req = worker[p].req
                 /\ worker'[p].leases \subseteq worker[p].leases
    PROVE  HolderInv'
BY DEF HolderInv, LeasesOfRequest, RequestsApart, Idle

LEMMA DropHolders ==
    ASSUME HolderInv, TypeOK', UNCHANGED receipt, NEW w \in Processes, NEW D, Drop(w, D)
    PROVE  HolderInv'
<1>1. ASSUME NEW p \in Processes
      PROVE  \/ worker'[p] = Idle
             \/ /\ worker'[p].req = worker[p].req
                /\ worker'[p].leases \subseteq worker[p].leases
  <2>1. worker \in [Processes -> ProcessStates]
    BY DEF HolderInv, TypeOK
  <2>2. worker'[p] = IF p # w THEN worker[p]
                     ELSE IF worker[w].leases = D THEN Idle
                     ELSE [worker[w] EXCEPT !.leases = @ \ D]
    BY <2>1 DEF Drop
  <2>3. worker[w] \in ProcessStates
    BY <2>1
  <2> QED BY <2>2, <2>3 DEF ProcessStates
<1> QED BY <1>1, SameRequests

\* The answer to a request brings leases of that request only.
LEMMA RespondHolders ==
    ASSUME HolderInv, TypeOK', NEW m \in Messages, NEW held \in SUBSET Leases,
           \A l \in held : l.stamp[1] = m.req,
           \/ receipt' = receipt
           \/ receipt' = [receipt EXCEPT ![m.req] = [found |-> TRUE, leases |-> held]],
           Respond(m, held)
    PROVE  HolderInv'
<1>1. m.req \in Requests /\ m.req # NoRequest
  BY SetsAssumption DEF Messages
<1>2. \A r \in Requests : \A l \in receipt'[r].leases : l.stamp[1] = r
  BY <1>1 DEF HolderInv, TypeOK, LeasesOfRequest
<1>3. CASE worker' = worker
  BY <1>2, <1>3 DEF HolderInv, LeasesOfRequest, RequestsApart
<1>4. CASE worker' # worker
  <2>1. PICK w \in Workers :
          /\ worker[w].req = m.req
          /\ worker' = [worker EXCEPT ![w] = IF held = {} THEN Idle ELSE Working(m.req, held)]
    BY <1>4 DEF Respond
  <2>2. w \in Processes /\ worker \in [Processes -> ProcessStates]
    BY DEF Processes, HolderInv, TypeOK
  <2>3. \A p \in Processes :
          worker'[p] = IF p # w THEN worker[p]
                       ELSE IF held = {} THEN Idle ELSE Working(m.req, held)
    BY <2>1, <2>2
  <2>4. /\ Working(m.req, held).req = m.req /\ Working(m.req, held).leases = held
        /\ Idle.req = NoRequest /\ Idle.leases = {}
    BY DEF Working, Idle
  <2>5. LeasesOfRequest'
    BY <1>1, <1>2, <2>3, <2>4 DEF HolderInv, LeasesOfRequest
  <2>6. RequestsApart'
    BY <2>1, <2>2, <2>3, <2>4 DEF HolderInv, RequestsApart
  <2> QED BY <2>5, <2>6 DEF HolderInv
<1> QED BY <1>3, <1>4

\* The leases of a claim carry the stamp that the claim wrote.
LEMMA GrantHolders ==
    ASSUME HolderInv, TypeOK', NEW m \in wire, NEW S \in SUBSET Rows, GrantClaim(m, S)
    PROVE  HolderInv'
<1> DEFINE kept == Housekept(jobs)
           stamp == <<m.req, grants[m.req] + 1>>
           after == [x \in Rows |-> IF x \in S THEN Claimed(kept[x], stamp) ELSE kept[x]]
           held == {LeaseOn(after, x) : x \in S}
<1>1. m \in Messages
  BY DEF HolderInv, TypeOK
<1>2. kept \in [Rows -> RowStates]
  BY HousekeptType DEF HolderInv, TypeOK
<1>3. /\ jobs' = after /\ Respond(m, held)
      /\ receipt' = [receipt EXCEPT ![m.req] = [found |-> TRUE, leases |-> held]]
  BY DEF GrantClaim
<1> HIDE DEF kept
<1>4. \A x \in S : after[x].stamp = stamp
  BY <1>2 DEF Claimed, RowStates
<1> HIDE DEF after
<1>5. \A l \in held : l.stamp = stamp
  BY <1>4 DEF LeaseOn
<1>6. held \in SUBSET Leases
  BY <1>3, LeaseOnType DEF TypeOK
<1> HIDE DEF held
<1>7. \A l \in held : l.stamp[1] = m.req
  BY <1>5
<1> QED BY <1>1, <1>3, <1>6, <1>7, RespondHolders

\* A fresh request enters the system with the process that draws it.
LEMMA FreshHolders ==
    ASSUME HolderInv, TypeOK', NEW p \in Processes, NEW r \in Requests, NEW w,
           Fresh(r), w.req = r, \A l \in w.leases : l.stamp[1] = r,
           worker' = [worker EXCEPT ![p] = w],
           receipt' = [receipt EXCEPT ![r] = [found |-> FALSE, leases |-> {}]]
    PROVE  HolderInv'
<1>1. \A q \in Processes : worker'[q] = IF q = p THEN w ELSE worker[q]
  BY DEF HolderInv, TypeOK
<1>2. \A q \in Requests : receipt'[q].leases = IF q = r THEN {} ELSE receipt[q].leases
  BY DEF HolderInv, TypeOK
<1>3. r # NoRequest
  BY SetsAssumption
<1>4. LeasesOfRequest'
  BY <1>1, <1>2, <1>3 DEF HolderInv, LeasesOfRequest
<1>5. RequestsApart'
  BY <1>1 DEF HolderInv, RequestsApart, Fresh
<1> QED BY <1>4, <1>5 DEF HolderInv

LEMMA ServerHolders == HolderInv /\ TypeOK' /\ ServerStep => HolderInv'
<1> SUFFICES ASSUME HolderInv, TypeOK', NEW m \in wire,
                    \/ ReplayClaim(m) \/ RefuseClaim(m) \/ LoseCall(m)
                    \/ \E S \in SUBSET Rows : GrantClaim(m, S)
             PROVE  HolderInv'
  BY DEF ServerStep
<1>1. m \in Messages /\ m.req \in Requests
  BY DEF HolderInv, TypeOK, Messages
<1>2. CASE ReplayClaim(m)
  <2>1. Replayed(m.req) \in SUBSET Leases
    BY <1>1, ReplayedType DEF HolderInv
  <2>2. \A l \in Replayed(m.req) : l.stamp[1] = m.req
    BY <1>1 DEF Replayed, HolderInv, LeasesOfRequest
  <2> QED BY <1>1, <1>2, <2>1, <2>2, RespondHolders DEF ReplayClaim
<1>3. CASE RefuseClaim(m)
  BY <1>1, <1>3, RespondHolders DEF RefuseClaim
<1>4. CASE LoseCall(m)
  BY <1>4 DEF LoseCall, HolderInv, LeasesOfRequest, RequestsApart
<1> QED BY <1>2, <1>3, <1>4, GrantHolders

LEMMA ClientHolders == HolderInv /\ TypeOK' /\ ClientStep => HolderInv'
<1> SUFFICES ASSUME HolderInv, TypeOK', NEW w \in Workers,
                    \/ \E r \in Requests, f \in Families : BeginCall(w, r, f)
                    \/ CallTimeout(w)
                    \/ \E d \in 1 .. MaxGate : PersistBackoff(w, d)
             PROVE  HolderInv'
  BY DEF ClientStep
<1>1. w \in Processes /\ worker \in [Processes -> ProcessStates]
  BY DEF HolderInv, TypeOK, Processes
<1>2. ASSUME NEW r \in Requests, NEW f \in Families, BeginCall(w, r, f) PROVE HolderInv'
  <2>1. Calling(r, f).req = r /\ Calling(r, f).leases = {}
    BY DEF Calling
  <2> QED BY <1>1, <1>2, <2>1, FreshHolders DEF BeginCall
<1>3. CASE CallTimeout(w)
  <2>1. \A p \in Processes : \/ worker'[p] = Idle
                             \/ /\ worker'[p].req = worker[p].req
                                /\ worker'[p].leases \subseteq worker[p].leases
    <3>1. CASE worker[w].try < RpcTries
      <4>1. worker' = [worker EXCEPT ![w].try = @ + 1]
        BY <1>3, <3>1 DEF CallTimeout
      <4>2. worker[w] \in ProcessStates
        BY <1>1
      <4> QED BY <1>1, <4>1, <4>2 DEF ProcessStates
    <3>2. CASE ~(worker[w].try < RpcTries)
      BY <1>1, <1>3, <3>2 DEF CallTimeout
    <3> QED BY <3>1, <3>2
  <2> QED BY <1>3, <2>1, SameRequests DEF CallTimeout
<1>4. ASSUME NEW d \in 1 .. MaxGate, PersistBackoff(w, d) PROVE HolderInv'
  <2>1. \A p \in Processes : worker'[p] = Idle \/ worker'[p] = worker[p]
    BY <1>1, <1>4 DEF PersistBackoff
  <2> QED BY <1>4, <2>1, SameRequests DEF PersistBackoff
<1> QED BY <1>2, <1>3, <1>4

LEMMA WorkHolders == HolderInv /\ TypeOK' /\ WorkStep => HolderInv'
<1> SUFFICES ASSUME HolderInv, TypeOK', WorkStep PROVE HolderInv'
  OBVIOUS
<1>1. ASSUME NEW w \in Processes, NEW l, NEW status, NEW d, FinishJob(w, l, status, d)
      PROVE  HolderInv'
  BY <1>1, DropHolders DEF FinishJob, queueVars
<1>2. ASSUME NEW w \in Processes, NEW l, PublishDetail(w, l) \/ ReuseDetail(w, l)
      PROVE  HolderInv'
  BY <1>2, DropHolders DEF PublishDetail, ReuseDetail, queueVars
<1>3. ASSUME NEW w \in Processes, NEW D, NEW d, Defer(w, D, d) PROVE HolderInv'
  BY <1>3, DropHolders DEF Defer, queueVars
<1>4. ASSUME NEW w, NEW l, NEW h, LookForGeneration(w, l, h) \/ MoveKey(w) PROVE HolderInv'
  BY <1>4 DEF LookForGeneration, MoveKey, queueVars, HolderInv, LeasesOfRequest, RequestsApart
<1>5. ASSUME NEW w \in Processes, Crash(w) PROVE HolderInv'
  <2>1. \A p \in Processes : worker'[p] = Idle \/ worker'[p] = worker[p]
    BY <1>5 DEF Crash, HolderInv, TypeOK
  <2> QED BY <1>5, <2>1, SameRequests DEF Crash, queueVars
<1> QED BY <1>1, <1>2, <1>3, <1>4, <1>5 DEF WorkStep

LEMMA ProducerHolders == HolderInv /\ TypeOK' /\ ProducerStep => HolderInv'
<1> SUFFICES ASSUME HolderInv, TypeOK', ProducerStep PROVE HolderInv'
  OBVIOUS
<1>1. ASSUME UNCHANGED <<receipt, worker>> PROVE HolderInv'
  BY <1>1 DEF HolderInv, LeasesOfRequest, RequestsApart
<1>2. ASSUME NEW b \in BacklogWorkers, NEW r \in Requests, NEW x \in Rows, BacklogClaim(b, r, x)
      PROVE  HolderInv'
  <2>1. jobs'[x] = Claimed(jobs[x], <<r, 1>>) /\ jobs[x] \in RowStates
    BY <1>2 DEF BacklogClaim, HolderInv, TypeOK
  <2>2. jobs'[x].stamp[1] = r
    BY <2>1 DEF Claimed, RowStates
  <2> DEFINE w == Working(r, {LeaseOn(jobs', x)})
  <2>3. w.req = r /\ \A l \in w.leases : l.stamp[1] = r
    BY <2>2 DEF Working, Idle, LeaseOn
  <2>4. b \in Processes
    BY DEF Processes
  <2> HIDE DEF w
  <2>5. /\ worker' = [worker EXCEPT ![b] = w] /\ Fresh(r)
        /\ receipt' = [receipt EXCEPT ![r] = [found |-> FALSE, leases |-> {}]]
    BY <1>2 DEF BacklogClaim, w
  <2> QED BY <2>3, <2>4, <2>5, FreshHolders
<1>3. ASSUME NEW s, NEW hash, Enqueue(s, hash) PROVE HolderInv'
  BY <1>1, <1>3 DEF Enqueue, queueVars
<1>4. ASSUME NEW x, NEW h, EnqueueDetail(x, h) \/ BacklogEnsure(x, h) PROVE HolderInv'
  BY <1>1, <1>4 DEF EnqueueDetail, BacklogEnsure, queueVars
<1> QED BY <1>2, <1>3, <1>4 DEF ProducerStep

LEMMA StepHolders == HolderInv /\ [Next]_vars => HolderInv'
<1> SUFFICES ASSUME HolderInv, [Next]_vars PROVE HolderInv'
  OBVIOUS
<1>1. TypeOK'
  BY StepType DEF HolderInv
<1>2. ASSUME UNCHANGED <<receipt, worker>> PROVE HolderInv'
  BY <1>1, <1>2 DEF HolderInv, LeasesOfRequest, RequestsApart
<1>3. CASE EnvironmentStep
  BY <1>2, <1>3 DEF EnvironmentStep, CloseSale, UnreadySale, OpenSale, SetSale, DeleteSale,
                    ToggleDetails, Tick, queueVars
<1>4. CASE UNCHANGED vars
  BY <1>2, <1>4 DEF vars
<1> QED
  BY <1>1, <1>3, <1>4, ServerHolders, ClientHolders, WorkHolders, ProducerHolders DEF Next

LEMMA InitHolders == Init => HolderInv
BY InitType DEF Init, HolderInv, LeasesOfRequest, RequestsApart, Idle

\* A worker whose lease expired cannot settle the attempt of the worker that
\* came after it: two processes never both pass the compare-and-set of a row.
THEOREM HoldersApart == Spec => []OneHolder
<1>1. HolderInv => OneHolder
  <2> SUFFICES ASSUME HolderInv,
                      NEW w \in Processes, NEW v \in Processes, w # v,
                      NEW l \in worker[w].leases, NEW m \in worker[v].leases,
                      l.row = m.row, Owns(l), Owns(m)
               PROVE  FALSE
    BY DEF OneHolder
  <2>1. l.stamp = m.stamp
    BY DEF Owns
  <2> QED BY <2>1 DEF HolderInv, LeasesOfRequest, RequestsApart
<1> QED
  BY <1>1, InitHolders, StepHolders, PTL DEF Spec

-----------------------------------------------------------------------------
(* The leases of a sale.  Only a claim makes a row live; a claim looks at    *)
(* every live row of the sale, so both exclusions are inductive together     *)
(* with the types.                                                           *)

SaleInv == TypeOK /\ SaleExclusive /\ PdfTextApart

Quiet == \A x \in Rows : Live(jobs'[x]) => Live(jobs[x]) /\ jobs'[x].stamp = jobs[x].stamp

LEMMA QuietSales == SaleInv /\ TypeOK' /\ Quiet => SaleInv'
BY DEF SaleInv, SaleExclusive, PdfTextApart, Quiet

LEMMA UnlockedNotLive ==
    ASSUME NEW j \in RowStates, NEW status \in Statuses \ {"running"}
    PROVE  ~Live(Unlocked(j, status))
BY DEF Unlocked, Live, RowStates

LEMMA RestoredNotLive ==
    ASSUME NEW j \in RowStates, NEW d PROVE ~Live(Restored(j, d))
BY DEF Restored, Unlocked, Live, RowStates

LEMMA NewRowNotLive == ASSUME NEW h, NEW n PROVE ~Live(NewRow(h, n))
BY DEF NewRow, Live

LEMMA AbsentRowNotLive == ~Live(AbsentRow)
BY DEF AbsentRow, NewRow, Live

LEMMA GrantSales ==
    ASSUME SaleInv, TypeOK', NEW m \in wire, NEW S \in SUBSET Rows, GrantClaim(m, S)
    PROVE  SaleInv'
<1> DEFINE kept == Housekept(jobs)
           stamp == <<m.req, grants[m.req] + 1>>
           after == [x \in Rows |-> IF x \in S THEN Claimed(kept[x], stamp) ELSE kept[x]]
<1>1. /\ kept \in [Rows -> RowStates]
      /\ \A x \in Rows : Live(kept[x]) => kept[x] = jobs[x]
  BY HousekeptType DEF SaleInv, TypeOK
<1>2. jobs' = after
  BY DEF GrantClaim
<1>3. \A x \in S : Eligible(kept, x, m.family)
  BY DEF GrantClaim
<1> HIDE DEF kept
<1>4. ASSUME NEW x \in S PROVE jobs'[x].stamp = stamp
  BY <1>1, <1>2 DEF Claimed, RowStates
<1>5. ASSUME NEW x \in Rows \ S, Live(jobs'[x])
      PROVE  Live(kept[x]) /\ jobs'[x] = jobs[x] /\ Live(jobs[x])
  BY <1>1, <1>2, <1>5
<1> HIDE DEF stamp, after
<1>6. ASSUME NEW x \in S, NEW y \in Rows \ S, SaleOf(x) = SaleOf(y) PROVE ~Live(jobs'[y])
  BY <1>3, <1>5, <1>6 DEF Eligible, SaleFree
<1>7. SaleExclusive'
  BY <1>4, <1>5, <1>6 DEF SaleInv, SaleExclusive
<1>8. ASSUME NEW x \in S, NEW y \in S, SaleOf(x) = SaleOf(y), TypeOf(x) = "pdf",
             TypeOf(y) \in TextTypes
      PROVE  FALSE
  <2>1. ~PdfPending(kept, y)
    BY <1>3, <1>8 DEF Eligible
  <2>2. /\ kept[x].status \in {"queued", "running", "failed"}
        /\ kept[x].attempts < MaxAttempts
    BY <1>3 DEF Eligible, Waiting, Expired
  <2> QED BY <1>8, <2>1, <2>2 DEF PdfPending
<1>9. PdfTextApart'
  BY <1>5, <1>6, <1>8 DEF SaleInv, PdfTextApart
<1> QED BY <1>7, <1>9 DEF SaleInv

LEMMA BacklogSales ==
    ASSUME SaleInv, TypeOK', NEW b, NEW r, NEW x \in Rows, BacklogClaim(b, r, x)
    PROVE  SaleInv'
<1>1. \A y \in Rows : y # x => jobs'[y] = jobs[y]
  BY DEF BacklogClaim, SaleInv, TypeOK
<1>2. \A y \in Rows : y # x /\ SaleOf(y) = SaleOf(x) => ~Live(jobs'[y])
  BY <1>1 DEF BacklogClaim
<1>3. TypeOf(x) = "pdf"
  BY DEF BacklogClaim
<1>4. SaleExclusive'
  BY <1>1, <1>2 DEF SaleInv, SaleExclusive
<1>5. PdfTextApart'
  <2> SUFFICES ASSUME NEW y \in Rows, NEW z \in Rows,
                      SaleOf(y) = SaleOf(z), TypeOf(y) = "pdf", TypeOf(z) \in TextTypes,
                      Live(jobs'[y]), Live(jobs'[z])
               PROVE  FALSE
    BY DEF PdfTextApart
  <2>1. z # x
    BY <1>3 DEF TextTypes
  <2>2. y # x
    BY <1>2, <2>1
  <2> QED BY <1>1, <2>1, <2>2 DEF SaleInv, PdfTextApart
<1> QED BY <1>4, <1>5 DEF SaleInv

LEMMA WorkQuiet == TypeOK /\ WorkStep => Quiet
<1> SUFFICES ASSUME TypeOK, WorkStep PROVE Quiet
  OBVIOUS
<1>0. /\ jobs \in [Rows -> RowStates]
      /\ {"completed", "cancelled", "failed"} \subseteq Statuses \ {"running"}
  BY DEF TypeOK, Statuses
<1>1. ASSUME NEW w, NEW l, NEW status \in {"completed", "cancelled", "failed"}, NEW d,
             FinishJob(w, l, status, d)
      PROVE  Quiet
  <2>1. ASSUME NEW j \in RowStates PROVE ~Live([Unlocked(j, status) EXCEPT !.wait = d])
    BY <1>0 DEF Unlocked, Live, RowStates
  <2>2. ASSUME NEW x \in Rows, jobs'[x] # jobs[x] PROVE ~Live(jobs'[x])
    BY <1>0, <1>1, <2>1, <2>2, UnlockedNotLive DEF FinishJob
  <2> QED BY <2>2 DEF Quiet
<1>2. ASSUME NEW w, NEW l, PublishDetail(w, l) PROVE Quiet
  <2>1. ASSUME NEW x \in Rows, jobs'[x] # jobs[x] PROVE ~Live(jobs'[x])
    BY <1>0, <1>2, <2>1, UnlockedNotLive DEF PublishDetail
  <2> QED BY <2>1 DEF Quiet
<1>3. ASSUME NEW w, NEW l, ReuseDetail(w, l) PROVE Quiet
  <2>1. ASSUME NEW x \in Rows, jobs'[x] # jobs[x] PROVE ~Live(jobs'[x])
    <3> DEFINE k == Restored(jobs[x], jobs[x].wait)
    <3>1. x = l.row /\ jobs'[x] = [k EXCEPT !.status = "completed"]
      BY <1>0, <1>3, <2>1 DEF ReuseDetail
    <3>2. k \in RowStates
      BY <1>0, RestoredType DEF RowStates
    <3> HIDE DEF k
    <3> QED BY <3>1, <3>2 DEF Live, RowStates
  <2> QED BY <2>1 DEF Quiet
<1>4. ASSUME NEW w \in Processes,
             \/ \E l \in worker[w].leases, h \in Revisions : LookForGeneration(w, l, h)
             \/ MoveKey(w)
      PROVE  Quiet
  <2>1. CASE jobs' = jobs
    BY <2>1 DEF Quiet
  <2>2. ASSUME NEW x \in Rows, NEW h \in Revisions, CheckpointOf(x, h) PROVE Quiet
    <3>1. /\ \A y \in Rows \ {x} : jobs'[y] = jobs[y]
          /\ ~Live(jobs'[x]) \/ jobs'[x] = [jobs[x] EXCEPT !.hash = h]
      BY <1>0, <2>2, CheckpointRow, UnlockedNotLive
    <3> QED BY <1>0, <3>1 DEF Quiet, Live, RowStates
  <2> QED BY <1>4, <2>1, <2>2, Checkpoints
<1>5. ASSUME NEW w, NEW D, NEW d, Defer(w, D, d) PROVE Quiet
  <2>1. ASSUME NEW x \in Rows, jobs'[x] # jobs[x] PROVE ~Live(jobs'[x])
    BY <1>0, <1>5, <2>1, RestoredNotLive DEF Defer
  <2> QED BY <2>1 DEF Quiet
<1>6. ASSUME NEW w, Crash(w) PROVE Quiet
  BY <1>6 DEF Crash, Quiet
<1> QED BY <1>1, <1>2, <1>3, <1>4, <1>5, <1>6 DEF WorkStep

LEMMA ProducerQuiet ==
    ASSUME TypeOK, ProducerStep
    PROVE  \/ Quiet
           \/ \E b \in BacklogWorkers, r \in Requests, x \in Rows : BacklogClaim(b, r, x)
<1>0. jobs \in [Rows -> RowStates]
  BY DEF TypeOK
<1>1. ASSUME NEW s, NEW hash, Enqueue(s, hash) PROVE Quiet
  <2>1. ASSUME NEW x \in Rows, NEW h PROVE Enqueued(x, h) = jobs[x] \/ ~Live(Enqueued(x, h))
    <3>1. CASE Rekeyable(x, h)
      <4>1. Enqueued(x, h) = [jobs[x] EXCEPT !.hash = h, !.attempts = 0, !.wait = 0]
        BY <3>1 DEF Enqueued
      <4>2. jobs[x].status = "queued" /\ jobs[x] \in RowStates
        BY <1>0, <3>1 DEF Rekeyable
      <4>3. Enqueued(x, h).status = "queued"
        BY <4>1, <4>2 DEF RowStates
      <4> QED BY <4>3 DEF Live
    <3>2. CASE ~Rekeyable(x, h)
      BY <3>2, NewRowNotLive DEF Enqueued
    <3> QED BY <3>1, <3>2
  <2>2. ASSUME NEW x \in Rows PROVE jobs'[x] = jobs[x] \/ ~Live(jobs'[x])
    BY <1>1, <2>1 DEF Enqueue
  <2> QED BY <2>2 DEF Quiet
<1>2. ASSUME NEW x \in Rows, NEW h,
             jobs' = [jobs EXCEPT ![x] = NewRow(h, Cardinality(RowsOf(SaleOf(x), TypeOf(x))) + 1)]
      PROVE  Quiet
  BY <1>0, <1>2, NewRowNotLive DEF Quiet
<1>3. ASSUME NEW x \in Rows, jobs' = Renewed(x) PROVE Quiet
  <2> DEFINE settled == jobs[x].status \in {"completed", "cancelled"}
             tries == IF settled \/ jobs[x].attempts >= MaxAttempts THEN 0 ELSE jobs[x].attempts
             requeued == [jobs[x] EXCEPT !.status = "queued", !.wait = 0, !.attempts = tries]
             n == Cardinality(RowsOf(SaleOf(x), TypeOf(x)))
  <2>1. requeued.status = "queued" /\ [requeued EXCEPT !.born = n].status = "queued"
    BY <1>0 DEF RowStates
  <2>2. Renewed(x) = IF ~settled THEN [jobs EXCEPT ![x] = requeued]
                     ELSE [y \in Rows |->
                             IF y = x THEN [requeued EXCEPT !.born = n]
                             ELSE IF SameKey(x, y) /\ jobs[y].born > jobs[x].born
                               THEN [jobs[y] EXCEPT !.born = @ - 1]
                             ELSE jobs[y]]
    BY DEF Renewed
  <2> HIDE DEF requeued
  <2>3. jobs'[x].status = "queued"
    BY <1>0, <1>3, <2>1, <2>2
  <2>4. ASSUME NEW y \in Rows, y # x
        PROVE  jobs'[y] = jobs[y] \/ jobs'[y] = [jobs[y] EXCEPT !.born = @ - 1]
    BY <1>0, <1>3, <2>2, <2>4
  <2> QED BY <1>0, <2>3, <2>4 DEF Quiet, Live, RowStates
<1>4. ASSUME NEW x \in Rows, NEW h, EnqueueDetail(x, h) \/ BacklogEnsure(x, h) PROVE Quiet
  BY <1>2, <1>3, <1>4 DEF EnqueueDetail, BacklogEnsure
<1> QED BY <1>1, <1>4 DEF ProducerStep

LEMMA ProducerSales == SaleInv /\ TypeOK' /\ ProducerStep => SaleInv'
BY ProducerQuiet, BacklogSales, QuietSales DEF SaleInv

LEMMA EnvironmentQuiet == TypeOK /\ EnvironmentStep => Quiet
<1> SUFFICES ASSUME TypeOK, EnvironmentStep PROVE Quiet
  OBVIOUS
<1>0. jobs \in [Rows -> RowStates]
  BY DEF TypeOK
<1>1. CASE UNCHANGED jobs
  BY <1>1 DEF Quiet
<1>2. ASSUME NEW s, DeleteSale(s) PROVE Quiet
  BY <1>0, <1>2, AbsentRowNotLive DEF DeleteSale, Quiet
<1>3. CASE Tick
  <2>1. ASSUME NEW x \in Rows
        PROVE  /\ jobs'[x].status = jobs[x].status /\ jobs'[x].stamp = jobs[x].stamp
               /\ jobs'[x].age >= jobs[x].age /\ jobs[x].age \in Int /\ jobs'[x].age \in Int
    <3> DEFINE w == IF jobs[x].wait > 0 THEN jobs[x].wait - 1 ELSE 0
               a == IF Live(jobs[x]) THEN jobs[x].age + 1 ELSE jobs[x].age
    <3>1. jobs'[x] = [jobs[x] EXCEPT !.wait = w, !.age = a]
      BY <1>3 DEF Tick
    <3>2. jobs[x].age \in Int /\ a \in Int /\ a >= jobs[x].age
      BY <1>0, NumbersAssumption DEF RowStates, Ages
    <3> HIDE DEF w, a
    <3> QED BY <1>0, <3>1, <3>2 DEF RowStates
  <2>2. Lease \in Int
    BY NumbersAssumption
  <2> QED BY <2>1, <2>2 DEF Quiet, Live
<1> QED
  BY <1>1, <1>2, <1>3 DEF EnvironmentStep, CloseSale, UnreadySale, OpenSale, SetSale, ToggleDetails

LEMMA StepSales == SaleInv /\ [Next]_vars => SaleInv'
<1> SUFFICES ASSUME SaleInv, [Next]_vars PROVE SaleInv'
  OBVIOUS
<1>1. TypeOK /\ TypeOK'
  BY StepType DEF SaleInv
<1>2. ASSUME UNCHANGED jobs PROVE SaleInv'
  BY <1>1, <1>2 DEF SaleInv, SaleExclusive, PdfTextApart
<1>3. CASE ServerStep
  <2>1. ASSUME NEW m \in wire, NEW S \in SUBSET Rows, GrantClaim(m, S) PROVE SaleInv'
    BY <1>1, <2>1, GrantSales
  <2>2. ASSUME NEW m, ReplayClaim(m) \/ RefuseClaim(m) \/ LoseCall(m) PROVE SaleInv'
    BY <1>2, <2>2 DEF ReplayClaim, RefuseClaim, LoseCall
  <2> QED BY <1>3, <2>1, <2>2 DEF ServerStep
<1>4. CASE ClientStep
  BY <1>2, <1>4 DEF ClientStep, BeginCall, CallTimeout, PersistBackoff
<1>5. CASE WorkStep
  BY <1>1, <1>5, WorkQuiet, QuietSales
<1>6. CASE EnvironmentStep
  BY <1>1, <1>6, EnvironmentQuiet, QuietSales
<1>7. CASE UNCHANGED vars
  BY <1>2, <1>7 DEF vars
<1> QED BY <1>1, <1>3, <1>4, <1>5, <1>6, <1>7, ProducerSales DEF Next

LEMMA InitSales == Init => SaleInv
BY InitType, AbsentRowNotLive DEF Init, SaleInv, SaleExclusive, PdfTextApart

\* Two claims never work on one sale at the same time, whichever path made them.
THEOREM SalesExclusive == Spec => []SaleExclusive
<1>1. SaleInv => SaleExclusive
  BY DEF SaleInv
<1> QED BY <1>1, InitSales, StepSales, PTL DEF Spec

\* A description or a fact pass never runs beside the PDF reading of its sale.
THEOREM PdfBeforeText == Spec => []PdfTextApart
<1>1. SaleInv => PdfTextApart
  BY DEF SaleInv
<1> QED BY <1>1, InitSales, StepSales, PTL DEF Spec

-----------------------------------------------------------------------------
(* One reservation per request: as long as a call of a request may still be  *)
(* executed or repeated, the request has its receipt or no reservation.      *)

Unclaimed(r) == ~receipt[r].found => grants[r] = 0
CallsUnclaimed ==
    /\ \A m \in wire : Unclaimed(m.req)
    /\ \A p \in Processes : worker[p].pc = "calling" => Unclaimed(worker[p].req)
RequestInv == TypeOK /\ CallsUnclaimed /\ OneReservationPerRequest

\* What no step but a grant and a new request does.
LEMMA SameReceipts ==
    ASSUME RequestInv, TypeOK', UNCHANGED <<receipt, grants>>,
           \A m \in wire' : m \in wire \/ Unclaimed(m.req),
           \A p \in Processes : worker'[p].pc = "calling" =>
              worker[p].pc = "calling" /\ worker'[p].req = worker[p].req
    PROVE  RequestInv'
BY DEF RequestInv, CallsUnclaimed, OneReservationPerRequest, Unclaimed

LEMMA DropCalls ==
    ASSUME TypeOK, NEW w \in Processes, NEW D, Drop(w, D)
    PROVE  \A p \in Processes : worker'[p].pc = "calling" =>
              worker[p].pc = "calling" /\ worker'[p].req = worker[p].req
<1>1. worker \in [Processes -> ProcessStates]
  BY DEF TypeOK
<1>2. \A p \in Processes :
        worker'[p] = IF p # w THEN worker[p]
                     ELSE IF worker[w].leases = D THEN Idle
                     ELSE [worker[w] EXCEPT !.leases = @ \ D]
  BY <1>1 DEF Drop
<1>3. worker[w] \in ProcessStates /\ Idle.pc = "idle"
  BY <1>1 DEF Idle
<1> QED BY <1>2, <1>3 DEF ProcessStates

LEMMA RespondCalls ==
    ASSUME TypeOK, NEW m, NEW held, Respond(m, held)
    PROVE  \A p \in Processes : worker'[p].pc = "calling" =>
              worker[p].pc = "calling" /\ worker'[p].req = worker[p].req
<1>1. CASE worker' = worker
  BY <1>1
<1>2. CASE worker' # worker
  <2>1. PICK w \in Workers :
          worker' = [worker EXCEPT ![w] = IF held = {} THEN Idle ELSE Working(m.req, held)]
    BY <1>2 DEF Respond
  <2>2. Idle.pc = "idle" /\ Working(m.req, held).pc = "working"
    BY DEF Idle, Working
  <2> QED BY <2>1, <2>2 DEF TypeOK
<1> QED BY <1>1, <1>2

LEMMA FreshRequest ==
    ASSUME RequestInv, TypeOK', NEW p \in Processes, NEW r \in Requests, NEW w, NEW n \in {0, 1},
           Fresh(r), w.pc = "calling" => w.req = r /\ n = 0,
           worker' = [worker EXCEPT ![p] = w],
           receipt' = [receipt EXCEPT ![r] = [found |-> FALSE, leases |-> {}]],
           grants' = [grants EXCEPT ![r] = n],
           \A m \in wire' : m \in wire \/ (m.req = r /\ n = 0)
    PROVE  RequestInv'
<1>1. \A q \in Processes : worker'[q] = IF q = p THEN w ELSE worker[q]
  BY DEF RequestInv, TypeOK
<1>2. \A q \in Requests :
        /\ q # r => receipt'[q] = receipt[q] /\ grants'[q] = grants[q]
        /\ q = r => grants'[q] = n
  BY DEF RequestInv, TypeOK
<1>3. \A m \in wire' : Unclaimed(m.req)'
  <2>1. ASSUME NEW m \in wire, m \in wire' PROVE Unclaimed(m.req)'
    BY <1>2 DEF Fresh, RequestInv, CallsUnclaimed, Unclaimed, TypeOK, Messages
  <2>2. ASSUME NEW m \in wire', m.req = r, n = 0 PROVE Unclaimed(m.req)'
    BY <1>2, <2>2 DEF Unclaimed
  <2> QED BY <2>1, <2>2
<1>4. ASSUME NEW q \in Processes, worker'[q].pc = "calling" PROVE Unclaimed(worker[q].req)'
  <2>1. CASE q = p
    BY <1>1, <1>2, <1>4, <2>1 DEF Unclaimed
  <2>2. CASE q # p
    <3>1. worker[q].pc = "calling" /\ worker[q].req # r /\ worker'[q] = worker[q]
      BY <1>1, <1>4, <2>2 DEF Fresh
    <3>2. worker[q].req \in Requests
      BY <3>1 DEF RequestInv, TypeOK, ProcessStates
    <3> QED BY <1>2, <3>1, <3>2 DEF RequestInv, CallsUnclaimed, Unclaimed
  <2> QED BY <2>1, <2>2
<1>5. OneReservationPerRequest'
  BY <1>2 DEF RequestInv, OneReservationPerRequest
<1> QED BY <1>3, <1>4, <1>5 DEF RequestInv, CallsUnclaimed

LEMMA ServerRequests == RequestInv /\ TypeOK' /\ ServerStep => RequestInv'
<1> SUFFICES ASSUME RequestInv, TypeOK', NEW m \in wire,
                    \/ ReplayClaim(m) \/ RefuseClaim(m) \/ LoseCall(m)
                    \/ \E S \in SUBSET Rows : GrantClaim(m, S)
             PROVE  RequestInv'
  BY DEF ServerStep
<1>1. m.req \in Requests /\ TypeOK
  BY DEF RequestInv, TypeOK, Messages
<1>2. CASE ReplayClaim(m)
  BY <1>1, <1>2, RespondCalls, SameReceipts DEF ReplayClaim
<1>3. CASE RefuseClaim(m)
  BY <1>1, <1>3, RespondCalls, SameReceipts DEF RefuseClaim
<1>4. CASE LoseCall(m)
  BY <1>4, SameReceipts DEF LoseCall
<1>5. ASSUME NEW S \in SUBSET Rows, GrantClaim(m, S) PROVE RequestInv'
  <2> DEFINE stamp == <<m.req, grants[m.req] + 1>>
             after == [x \in Rows |-> IF x \in S THEN Claimed(Housekept(jobs)[x], stamp)
                                                ELSE Housekept(jobs)[x]]
             held == {LeaseOn(after, x) : x \in S}
  <2>1. /\ ~HasReceipt(m.req) /\ Respond(m, held) /\ wire' = wire \ {m}
        /\ receipt' = [receipt EXCEPT ![m.req] = [found |-> TRUE, leases |-> held]]
        /\ grants' = [grants EXCEPT ![m.req] = @ + 1]
    BY <1>5 DEF GrantClaim
  <2> HIDE DEF held
  <2>2. grants[m.req] = 0
    BY <2>1 DEF HasReceipt, RequestInv, CallsUnclaimed, Unclaimed
  <2>3. \A r \in Requests :
          /\ r # m.req => receipt'[r] = receipt[r] /\ grants'[r] = grants[r]
          /\ r = m.req => receipt'[r].found /\ grants'[r] = 1
    BY <1>1, <2>1, <2>2 DEF TypeOK
  <2>4. \A r \in Requests : Unclaimed(r) => Unclaimed(r)'
    BY <2>3 DEF Unclaimed
  <2>5. \A p \in Processes : worker'[p].pc = "calling" =>
           worker[p].pc = "calling" /\ worker'[p].req = worker[p].req
    BY <1>1, <2>1, RespondCalls
  <2>6. \A p \in Processes : worker[p].pc = "calling" => worker[p].req \in Requests
    BY <1>1 DEF TypeOK, ProcessStates
  <2>7. CallsUnclaimed'
    <3>1. \A n \in wire' : Unclaimed(n.req)'
      BY <1>1, <2>1, <2>4 DEF RequestInv, CallsUnclaimed, TypeOK, Messages
    <3>2. ASSUME NEW p \in Processes, worker'[p].pc = "calling" PROVE Unclaimed(worker[p].req)'
      BY <2>4, <2>5, <2>6, <3>2 DEF RequestInv, CallsUnclaimed, Unclaimed
    <3> QED BY <3>1, <3>2 DEF CallsUnclaimed
  <2>8. OneReservationPerRequest'
    BY <2>3 DEF RequestInv, OneReservationPerRequest
  <2> QED BY <2>7, <2>8 DEF RequestInv
<1> QED BY <1>2, <1>3, <1>4, <1>5

LEMMA ClientRequests == RequestInv /\ TypeOK' /\ ClientStep => RequestInv'
<1> SUFFICES ASSUME RequestInv, TypeOK', NEW w \in Workers,
                    \/ \E r \in Requests, f \in Families : BeginCall(w, r, f)
                    \/ CallTimeout(w)
                    \/ \E d \in 1 .. MaxGate : PersistBackoff(w, d)
             PROVE  RequestInv'
  BY DEF ClientStep
<1>1. w \in Processes /\ worker \in [Processes -> ProcessStates] /\ Idle.pc = "idle"
  BY DEF RequestInv, TypeOK, Processes, Idle
<1>2. ASSUME NEW r \in Requests, NEW f \in Families, BeginCall(w, r, f) PROVE RequestInv'
  <2>1. Calling(r, f).req = r
    BY DEF Calling
  <2>2. \A m \in wire' : m \in wire \/ m.req = r
    BY <1>2 DEF BeginCall, Send
  <2> QED BY <1>1, <1>2, <2>1, <2>2, FreshRequest DEF BeginCall
<1>3. CASE CallTimeout(w)
  <2>1. \A p \in Processes : worker'[p].pc = "calling" =>
           worker[p].pc = "calling" /\ worker'[p].req = worker[p].req
    <3>1. CASE worker[w].try < RpcTries
      <4>1. worker' = [worker EXCEPT ![w].try = @ + 1]
        BY <1>3, <3>1 DEF CallTimeout
      <4>2. worker[w] \in ProcessStates
        BY <1>1
      <4> QED BY <1>1, <4>1, <4>2 DEF ProcessStates
    <3>2. CASE ~(worker[w].try < RpcTries)
      BY <1>1, <1>3, <3>2 DEF CallTimeout
    <3> QED BY <3>1, <3>2
  <2>2. \A m \in wire' : m \in wire \/ m.req = worker[w].req
    BY <1>3 DEF CallTimeout, Send
  <2>3. Unclaimed(worker[w].req)
    BY <1>1, <1>3 DEF CallTimeout, RequestInv, CallsUnclaimed
  <2> QED BY <1>3, <2>1, <2>2, <2>3, SameReceipts DEF CallTimeout
<1>4. ASSUME NEW d \in 1 .. MaxGate, PersistBackoff(w, d) PROVE RequestInv'
  <2>1. \A p \in Processes : worker'[p] = Idle \/ worker'[p] = worker[p]
    BY <1>1, <1>4 DEF PersistBackoff
  <2>2. wire' \subseteq wire
    BY <1>4 DEF PersistBackoff
  <2> QED BY <1>1, <1>4, <2>1, <2>2, SameReceipts DEF PersistBackoff
<1> QED BY <1>2, <1>3, <1>4

LEMMA StepRequests == RequestInv /\ [Next]_vars => RequestInv'
<1> SUFFICES ASSUME RequestInv, [Next]_vars PROVE RequestInv'
  OBVIOUS
<1>1. TypeOK /\ TypeOK'
  BY StepType DEF RequestInv
<1>2. ASSUME UNCHANGED <<receipt, grants, wire>>,
             \A p \in Processes : worker'[p].pc = "calling" =>
                worker[p].pc = "calling" /\ worker'[p].req = worker[p].req
      PROVE  RequestInv'
  BY <1>1, <1>2, SameReceipts
<1>3. ASSUME UNCHANGED <<receipt, grants, wire, worker>> PROVE RequestInv'
  BY <1>2, <1>3
<1>4. CASE WorkStep
  <2>1. ASSUME NEW w \in Processes, NEW l, NEW status, NEW d, FinishJob(w, l, status, d)
        PROVE  RequestInv'
    BY <1>1, <1>2, <2>1, DropCalls DEF FinishJob, queueVars
  <2>2. ASSUME NEW w \in Processes, NEW l, PublishDetail(w, l) \/ ReuseDetail(w, l)
        PROVE  RequestInv'
    BY <1>1, <1>2, <2>2, DropCalls DEF PublishDetail, ReuseDetail, queueVars
  <2>3. ASSUME NEW w \in Processes, NEW D, NEW d, Defer(w, D, d) PROVE RequestInv'
    BY <1>1, <1>2, <2>3, DropCalls DEF Defer, queueVars
  <2>4. ASSUME NEW w, NEW l, NEW h, LookForGeneration(w, l, h) \/ MoveKey(w) PROVE RequestInv'
    BY <1>3, <2>4 DEF LookForGeneration, MoveKey, queueVars
  <2>5. ASSUME NEW w \in Processes, Crash(w) PROVE RequestInv'
    <3>1. \A p \in Processes : worker'[p] = Idle \/ worker'[p] = worker[p]
      BY <1>1, <2>5 DEF Crash, TypeOK
    <3>2. Idle.pc = "idle"
      BY DEF Idle
    <3> QED BY <1>2, <2>5, <3>1, <3>2 DEF Crash, queueVars
  <2> QED BY <1>4, <2>1, <2>2, <2>3, <2>4, <2>5 DEF WorkStep
<1>5. CASE ProducerStep
  <2>1. ASSUME NEW s, NEW hash, Enqueue(s, hash) PROVE RequestInv'
    BY <1>3, <2>1 DEF Enqueue, queueVars
  <2>2. ASSUME NEW x, NEW h, EnqueueDetail(x, h) \/ BacklogEnsure(x, h) PROVE RequestInv'
    BY <1>3, <2>2 DEF EnqueueDetail, BacklogEnsure, queueVars
  <2>3. ASSUME NEW b \in BacklogWorkers, NEW r \in Requests, NEW x, BacklogClaim(b, r, x)
        PROVE  RequestInv'
    <3> DEFINE w == Working(r, {LeaseOn(jobs', x)})
    <3>1. w.pc = "working" /\ b \in Processes
      BY DEF Working, Idle, Processes
    <3> HIDE DEF w
    <3>2. /\ worker' = [worker EXCEPT ![b] = w] /\ Fresh(r) /\ wire' = wire
          /\ receipt' = [receipt EXCEPT ![r] = [found |-> FALSE, leases |-> {}]]
          /\ grants' = [grants EXCEPT ![r] = 1]
      BY <2>3 DEF BacklogClaim, w
    <3> QED BY <1>1, <3>1, <3>2, FreshRequest
  <2> QED BY <1>5, <2>1, <2>2, <2>3 DEF ProducerStep
<1>6. CASE EnvironmentStep
  BY <1>3, <1>6 DEF EnvironmentStep, CloseSale, UnreadySale, OpenSale, SetSale, DeleteSale,
                    ToggleDetails, Tick, queueVars
<1>7. CASE UNCHANGED vars
  BY <1>3, <1>7 DEF vars
<1> QED BY <1>1, <1>4, <1>5, <1>6, <1>7, ServerRequests, ClientRequests DEF Next

LEMMA InitRequests == Init => RequestInv
BY InitType DEF Init, RequestInv, CallsUnclaimed, OneReservationPerRequest, Idle

\* However often a claim call is repeated, delayed or executed late, its request
\* reserves rows at most once.
THEOREM ReservedOnce == Spec => []OneReservationPerRequest
<1>1. RequestInv => OneReservationPerRequest
  BY DEF RequestInv
<1> QED BY <1>1, InitRequests, StepRequests, PTL DEF Spec

-----------------------------------------------------------------------------
(* The queue implements SaleLease.  The invariant adds to the exclusions and *)
(* to the single reservation that a row is stamped only by a request with a  *)
(* reservation: the lease of a claim is then one that no sale holds yet.     *)

Stamped == \A x \in Rows : jobs[x].stamp[1] # NoRequest => grants[jobs[x].stamp[1]] # 0
LeaseInv == SaleInv /\ RequestInv /\ Stamped

\* A step that stamps no row.
StampsKept == grants' = grants /\ \A x \in Rows : jobs'[x].stamp \in {jobs[x].stamp, NoStamp}

LEMMA KeptStamped == Stamped /\ StampsKept => Stamped'
BY DEF Stamped, StampsKept, NoStamp

LEMMA FreedStamps ==
    ASSUME NEW j \in RowStates, NEW status, NEW d
    PROVE  /\ Unlocked(j, status).stamp = NoStamp
           /\ [Unlocked(j, status) EXCEPT !.wait = d].stamp = NoStamp
           /\ Restored(j, d).stamp = NoStamp
           /\ [Restored(j, d) EXCEPT !.status = status].stamp = NoStamp
BY DEF Unlocked, Restored, RowStates

\* Housekeeping stamps no row, and touches no live one.
LEMMA HousekeptStamps ==
    ASSUME NEW jb \in [Rows -> RowStates], NEW x \in Rows
    PROVE  /\ Housekept(jb)[x].stamp \in {jb[x].stamp, NoStamp}
           /\ Live(jb[x]) => Housekept(jb)[x] = jb[x]
<1> DEFINE a == WithoutObsolete(jb)
           b == WithoutSuperseded(a)
           c == WithoutExhausted(b)
<1>0. ASSUME NEW j \in RowStates, Live(j) PROVE ~Waiting(j) /\ ~Expired(j)
  <2>1. j.age \in Int /\ Lease \in Int
    BY NumbersAssumption DEF RowStates, Ages
  <2> QED BY <1>0, <2>1 DEF Live, Waiting, Expired
<1>1. /\ a[x] \in RowStates /\ a[x].stamp \in {jb[x].stamp, NoStamp}
      /\ Live(jb[x]) => a[x] = jb[x]
  <2>1. a[x] = jb[x] \/ (a[x] = Unlocked(jb[x], "cancelled") /\ Waiting(jb[x]))
    BY DEF WithoutObsolete
  <2> QED BY <1>0, <2>1, UnlockedType, FreedStamps DEF Statuses
<1> HIDE DEF a
<1>2. /\ b[x] \in RowStates /\ b[x].stamp \in {a[x].stamp, NoStamp}
      /\ Live(a[x]) => b[x] = a[x]
  <2>1. b[x] = a[x] \/ (b[x] = Unlocked(a[x], "cancelled") /\ Waiting(a[x]))
    BY DEF WithoutSuperseded
  <2> QED BY <1>0, <1>1, <2>1, UnlockedType, FreedStamps DEF Statuses
<1> HIDE DEF b
<1>3. c[x].stamp \in {b[x].stamp, NoStamp} /\ (Live(b[x]) => c[x] = b[x])
  <2>1. c[x] = b[x] \/ (c[x] = Unlocked(b[x], "failed") /\ Expired(b[x]))
    BY DEF WithoutExhausted
  <2> QED BY <1>0, <1>2, <2>1, FreedStamps
<1>4. Housekept(jb) = c
  BY DEF Housekept, a, b, c
<1> QED BY <1>1, <1>2, <1>3, <1>4

LEMMA WorkStamps == TypeOK /\ WorkStep => StampsKept
<1> SUFFICES ASSUME TypeOK, WorkStep PROVE StampsKept
  OBVIOUS
<1>0. jobs \in [Rows -> RowStates]
  BY DEF TypeOK
<1>1. grants' = grants
  <2>1. ASSUME NEW w, NEW l, NEW status, NEW d,
               FinishJob(w, l, status, d) \/ PublishDetail(w, l) \/ ReuseDetail(w, l)
        PROVE  grants' = grants
    BY <2>1 DEF FinishJob, PublishDetail, ReuseDetail, queueVars
  <2>2. ASSUME NEW w, NEW D, NEW d, Defer(w, D, d) \/ Crash(w) PROVE grants' = grants
    BY <2>2 DEF Defer, Crash, queueVars
  <2>3. ASSUME NEW w, NEW l, NEW h, LookForGeneration(w, l, h) \/ MoveKey(w)
        PROVE  grants' = grants
    BY <2>3 DEF LookForGeneration, MoveKey, queueVars
  <2> QED BY <2>1, <2>2, <2>3 DEF WorkStep
<1>2. ASSUME NEW w, NEW l, NEW status, NEW d, FinishJob(w, l, status, d) PROVE StampsKept
  BY <1>0, <1>1, <1>2, FreedStamps DEF FinishJob, StampsKept
<1>3. ASSUME NEW w, NEW l, PublishDetail(w, l) PROVE StampsKept
  BY <1>0, <1>1, <1>3, FreedStamps DEF PublishDetail, StampsKept
<1>4. ASSUME NEW w, NEW l, ReuseDetail(w, l) PROVE StampsKept
  <2>1. ASSUME NEW x \in Rows, jobs'[x] # jobs[x]
        PROVE  jobs'[x] = [Restored(jobs[x], jobs[x].wait) EXCEPT !.status = "completed"]
    BY <1>0, <1>4, <2>1 DEF ReuseDetail
  <2>2. \A x \in Rows :
           [Restored(jobs[x], jobs[x].wait) EXCEPT !.status = "completed"].stamp = NoStamp
    BY <1>0, FreedStamps
  <2>3. \A x \in Rows : jobs'[x].stamp \in {jobs[x].stamp, NoStamp}
    BY <2>1, <2>2
  <2> QED BY <1>1, <2>3 DEF StampsKept
<1>5. ASSUME NEW w \in Processes,
             \/ \E l \in worker[w].leases, h \in Revisions : LookForGeneration(w, l, h)
             \/ MoveKey(w)
      PROVE  StampsKept
  <2>1. CASE jobs' = jobs
    BY <1>1, <2>1 DEF StampsKept
  <2>2. ASSUME NEW x \in Rows, NEW h \in Revisions, CheckpointOf(x, h) PROVE StampsKept
    <3>1. /\ \A y \in Rows \ {x} : jobs'[y] = jobs[y]
          /\ jobs'[x] \in {Unlocked(jobs[x], "cancelled"), [jobs[x] EXCEPT !.hash = h]}
      BY <1>0, <2>2, CheckpointRow
    <3>2. Unlocked(jobs[x], "cancelled").stamp = NoStamp
      BY <1>0, FreedStamps
    <3>3. [jobs[x] EXCEPT !.hash = h].stamp = jobs[x].stamp
      BY <1>0 DEF RowStates
    <3> QED BY <1>1, <3>1, <3>2, <3>3 DEF StampsKept
  <2> QED BY <1>5, <2>1, <2>2, Checkpoints
<1>6. ASSUME NEW w, NEW D, NEW d, Defer(w, D, d) PROVE StampsKept
  BY <1>0, <1>1, <1>6, FreedStamps DEF Defer, StampsKept
<1>7. ASSUME NEW w, Crash(w) PROVE StampsKept
  BY <1>1, <1>7 DEF Crash, StampsKept
<1> QED BY <1>2, <1>3, <1>4, <1>5, <1>6, <1>7 DEF WorkStep

LEMMA ProducerStamps ==
    ASSUME TypeOK, ProducerStep
    PROVE  \/ StampsKept
           \/ \E b \in BacklogWorkers, r \in Requests, x \in Rows : BacklogClaim(b, r, x)
<1>0. jobs \in [Rows -> RowStates]
  BY DEF TypeOK
<1>1. \A h, n : NewRow(h, n).stamp = NoStamp
  BY DEF NewRow
<1>2. ASSUME NEW s, NEW hash, Enqueue(s, hash) PROVE StampsKept
  <2>1. ASSUME NEW x \in Rows, NEW h PROVE Enqueued(x, h).stamp \in {jobs[x].stamp, NoStamp}
    <3>1. [jobs[x] EXCEPT !.hash = h, !.attempts = 0, !.wait = 0].stamp = jobs[x].stamp
      BY <1>0 DEF RowStates
    <3> QED BY <1>1, <3>1 DEF Enqueued
  <2>2. \A x \in Rows : jobs'[x] = jobs[x] \/ jobs'[x] = Enqueued(x, hash[TypeOf(x)])
    BY <1>2 DEF Enqueue
  <2> QED BY <1>2, <2>1, <2>2 DEF Enqueue, StampsKept, queueVars
<1>3. ASSUME NEW y, NEW h, NEW n, jobs' = [jobs EXCEPT ![y] = NewRow(h, n)], grants' = grants
      PROVE  StampsKept
  BY <1>0, <1>1, <1>3 DEF StampsKept
<1>4. ASSUME NEW y \in Rows, jobs' = Renewed(y), grants' = grants PROVE StampsKept
  <2> DEFINE a == IF jobs[y].status \in {"completed", "cancelled"} \/ jobs[y].attempts >= MaxAttempts
                    THEN 0 ELSE jobs[y].attempts
             q == [jobs[y] EXCEPT !.status = "queued", !.wait = 0, !.attempts = a]
             n == Cardinality(RowsOf(SaleOf(y), TypeOf(y)))
  <2>1. q.stamp = jobs[y].stamp /\ [q EXCEPT !.born = n].stamp = jobs[y].stamp
    BY <1>0 DEF RowStates
  <2>2. \A z \in Rows : \A k : [jobs[z] EXCEPT !.born = k].stamp = jobs[z].stamp
    BY <1>0 DEF RowStates
  <2>3. ASSUME NEW z \in Rows
        PROVE  \/ z = y /\ (jobs'[z] = q \/ jobs'[z] = [q EXCEPT !.born = n])
               \/ jobs'[z] = [jobs[z] EXCEPT !.born = @ - 1] \/ jobs'[z] = jobs[z]
    BY <1>0, <1>4 DEF Renewed
  <2> HIDE DEF q
  <2> QED BY <1>4, <2>1, <2>2, <2>3 DEF StampsKept
<1>5. ASSUME NEW y \in Rows, NEW h, EnqueueDetail(y, h) \/ BacklogEnsure(y, h) PROVE StampsKept
  BY <1>3, <1>4, <1>5 DEF EnqueueDetail, BacklogEnsure, queueVars
<1> QED BY <1>2, <1>5 DEF ProducerStep

LEMMA EnvironmentStamps == TypeOK /\ EnvironmentStep => StampsKept
<1> SUFFICES ASSUME TypeOK, EnvironmentStep PROVE StampsKept
  OBVIOUS
<1>0. jobs \in [Rows -> RowStates]
  BY DEF TypeOK
<1>1. grants' = grants
  BY DEF EnvironmentStep, CloseSale, UnreadySale, OpenSale, SetSale, DeleteSale, ToggleDetails,
         Tick, queueVars
<1>2. CASE UNCHANGED jobs
  BY <1>1, <1>2 DEF StampsKept
<1>3. ASSUME NEW s, DeleteSale(s) PROVE StampsKept
  BY <1>0, <1>1, <1>3 DEF DeleteSale, StampsKept, AbsentRow, NewRow
<1>4. CASE Tick
  <2>1. ASSUME NEW x \in Rows PROVE jobs'[x].stamp = jobs[x].stamp
    <3> DEFINE w == IF jobs[x].wait > 0 THEN jobs[x].wait - 1 ELSE 0
               a == IF Live(jobs[x]) THEN jobs[x].age + 1 ELSE jobs[x].age
    <3>1. jobs'[x] = [jobs[x] EXCEPT !.wait = w, !.age = a]
      BY <1>4 DEF Tick
    <3> HIDE DEF w, a
    <3> QED BY <1>0, <3>1 DEF RowStates
  <2> QED BY <1>1, <2>1 DEF StampsKept
<1> QED
  BY <1>2, <1>3, <1>4 DEF EnvironmentStep, CloseSale, UnreadySale, OpenSale, SetSale, ToggleDetails

\* A grant stamps the rows it reserves and no other, and leaves the live rows.
LEMMA GrantRows ==
    ASSUME LeaseInv, NEW m \in wire, NEW S \in SUBSET Rows, GrantClaim(m, S)
    PROVE  /\ m.req \in Requests
           /\ grants[m.req] = 0 /\ grants' = [grants EXCEPT ![m.req] = 1]
           /\ \A x \in S : /\ Live(jobs'[x]) /\ jobs'[x].stamp = <<m.req, 1>>
                           /\ \A y \in Rows : SaleOf(y) = SaleOf(x) => ~Live(jobs[y])
           /\ \A x \in Rows \ S : /\ jobs'[x].stamp \in {jobs[x].stamp, NoStamp}
                                  /\ Live(jobs'[x]) => jobs'[x] = jobs[x]
                                  /\ Live(jobs[x]) => jobs'[x] = jobs[x]
<1> DEFINE kept == Housekept(jobs)
           stamp == <<m.req, grants[m.req] + 1>>
           after == [x \in Rows |-> IF x \in S THEN Claimed(kept[x], stamp) ELSE kept[x]]
<1>1. TypeOK /\ jobs \in [Rows -> RowStates]
  BY DEF LeaseInv, SaleInv, TypeOK
<1>2. m.req \in Requests
  BY <1>1 DEF TypeOK, Messages
<1>3. grants[m.req] = 0
  BY DEF GrantClaim, HasReceipt, LeaseInv, RequestInv, CallsUnclaimed, Unclaimed
<1>4. grants' = [grants EXCEPT ![m.req] = 1]
  BY <1>1, <1>2, <1>3 DEF GrantClaim, TypeOK
<1>5. jobs' = after /\ \A x \in S : Eligible(kept, x, m.family)
  BY DEF GrantClaim
<1>6. /\ kept \in [Rows -> RowStates]
      /\ \A x \in Rows : /\ kept[x].stamp \in {jobs[x].stamp, NoStamp}
                         /\ Live(kept[x]) => kept[x] = jobs[x]
                         /\ Live(jobs[x]) => kept[x] = jobs[x]
  BY <1>1, HousekeptType, HousekeptStamps
<1> HIDE DEF kept
<1>7. ASSUME NEW x \in S
      PROVE  /\ Live(jobs'[x]) /\ jobs'[x].stamp = <<m.req, 1>>
             /\ \A y \in Rows : SaleOf(y) = SaleOf(x) => ~Live(jobs[y])
  <2>1. Live(jobs'[x]) /\ jobs'[x].stamp = stamp
    <3> HIDE DEF stamp
    <3>1. jobs'[x] = Claimed(kept[x], stamp) /\ kept[x] \in RowStates
      BY <1>5, <1>6
    <3> QED BY <3>1, NumbersAssumption DEF Live, Claimed, RowStates
  <2>2. \A y \in Rows : SaleOf(y) = SaleOf(x) => ~Live(kept[y])
    BY <1>5 DEF Eligible, SaleFree
  <2> QED BY <1>3, <1>6, <2>1, <2>2
<1>8. ASSUME NEW x \in Rows \ S PROVE jobs'[x] = kept[x]
  BY <1>5
<1> QED BY <1>2, <1>3, <1>4, <1>6, <1>7, <1>8

LEMMA BacklogRows ==
    ASSUME LeaseInv, NEW b \in BacklogWorkers, NEW r \in Requests, NEW x \in Rows,
           BacklogClaim(b, r, x)
    PROVE  /\ grants' = [grants EXCEPT ![r] = 1]
           /\ \A y \in Rows : jobs[y].stamp[1] # r
           /\ Live(jobs'[x]) /\ jobs'[x].stamp = <<r, 1>>
           /\ \A y \in Rows : SaleOf(y) = SaleOf(x) => ~Live(jobs[y])
           /\ \A y \in Rows \ {x} : jobs'[y] = jobs[y]
<1>1. jobs \in [Rows -> RowStates]
  BY DEF LeaseInv, SaleInv, TypeOK
<1>2. jobs' = [jobs EXCEPT ![x] = Claimed(jobs[x], <<r, 1>>)]
  BY DEF BacklogClaim
<1>3. Live(jobs'[x]) /\ jobs'[x].stamp = <<r, 1>>
  BY <1>1, <1>2, NumbersAssumption DEF Live, Claimed, RowStates
<1>4. ~Live(jobs[x])
  <2>1. jobs[x].age \in Int /\ Lease \in Int
    BY <1>1, NumbersAssumption DEF RowStates, Ages
  <2> QED BY <2>1 DEF BacklogClaim, Live, Waiting, Expired
<1> QED BY <1>1, <1>2, <1>3, <1>4 DEF BacklogClaim, Fresh

LEMMA StepLeases == LeaseInv /\ [Next]_vars => LeaseInv'
<1> SUFFICES ASSUME LeaseInv, [Next]_vars PROVE Stamped'
  BY StepSales, StepRequests DEF LeaseInv
<1>1. TypeOK /\ Stamped /\ grants \in [Requests -> Nat] /\ NoRequest \notin Requests
  BY SetsAssumption DEF LeaseInv, SaleInv, TypeOK
<1>2. \A x \in Rows : jobs[x].stamp[1] \in Requests \cup {NoRequest}
  BY <1>1 DEF TypeOK, RowStates, Stamps
<1>3. ASSUME UNCHANGED <<jobs, grants>> PROVE Stamped'
  BY <1>1, <1>3 DEF Stamped
<1>4. CASE ServerStep
  <2>1. ASSUME NEW m, ReplayClaim(m) \/ RefuseClaim(m) \/ LoseCall(m) PROVE Stamped'
    BY <1>3, <2>1 DEF ReplayClaim, RefuseClaim, LoseCall
  <2>2. ASSUME NEW m \in wire, NEW S \in SUBSET Rows, GrantClaim(m, S) PROVE Stamped'
    <3>1. /\ m.req \in Requests
          /\ grants[m.req] = 0 /\ grants' = [grants EXCEPT ![m.req] = 1]
          /\ \A x \in S : jobs'[x].stamp = <<m.req, 1>>
          /\ \A x \in Rows \ S : jobs'[x].stamp \in {jobs[x].stamp, NoStamp}
      BY <2>2, GrantRows
    <3> QED BY <1>1, <1>2, <3>1 DEF Stamped, NoStamp
  <2> QED BY <1>4, <2>1, <2>2 DEF ServerStep
<1>5. CASE ClientStep
  <2>1. ASSUME NEW w, NEW r \in Requests, NEW f, BeginCall(w, r, f) PROVE Stamped'
    <3>1. /\ jobs' = jobs /\ grants' = [grants EXCEPT ![r] = 0]
          /\ \A x \in Rows : jobs[x].stamp[1] # r
      BY <2>1 DEF BeginCall, Fresh
    <3> QED BY <1>1, <1>2, <3>1 DEF Stamped
  <2>2. ASSUME NEW w, NEW d, CallTimeout(w) \/ PersistBackoff(w, d) PROVE Stamped'
    BY <1>3, <2>2 DEF CallTimeout, PersistBackoff
  <2> QED BY <1>5, <2>1, <2>2 DEF ClientStep
<1>6. CASE ProducerStep
  <2>1. ASSUME NEW b \in BacklogWorkers, NEW r \in Requests, NEW x \in Rows,
               BacklogClaim(b, r, x)
        PROVE  Stamped'
    <3>1. /\ grants' = [grants EXCEPT ![r] = 1]
          /\ jobs'[x].stamp = <<r, 1>> /\ \A y \in Rows \ {x} : jobs'[y] = jobs[y]
      BY <2>1, BacklogRows
    <3> QED BY <1>1, <1>2, <3>1 DEF Stamped
  <2> QED BY <1>1, <1>6, <2>1, ProducerStamps, KeptStamped
<1>7. CASE UNCHANGED vars
  BY <1>3, <1>7 DEF vars
<1> QED BY <1>1, <1>4, <1>5, <1>6, <1>7, WorkStamps, EnvironmentStamps, KeptStamped DEF Next

LEMMA InitLeases == Init => LeaseInv
<1> SUFFICES ASSUME Init PROVE LeaseInv
  OBVIOUS
<1>1. AbsentRow.stamp[1] = NoRequest
  BY DEF AbsentRow, NewRow, NoStamp
<1>2. Stamped
  BY <1>1 DEF Init, Stamped
<1> QED BY <1>2, InitSales, InitRequests DEF LeaseInv

\* The holder of a sale in any table whose live leases of the sale agree.
HolderIn(jb, s) ==
    LET live == {x \in Rows : SaleOf(x) = s /\ Live(jb[x])}
    IN  IF live = {} THEN NoStamp ELSE jb[CHOOSE x \in live : TRUE].stamp

LEMMA HolderFree ==
    ASSUME NEW jb, NEW s, \A x \in Rows : SaleOf(x) = s => ~Live(jb[x])
    PROVE  HolderIn(jb, s) = NoStamp
<1> DEFINE live == {x \in Rows : SaleOf(x) = s /\ Live(jb[x])}
<1>1. live = {}
  OBVIOUS
<1> QED BY <1>1 DEF HolderIn

LEMMA HolderLive ==
    ASSUME NEW jb, NEW x \in Rows, Live(jb[x]),
           \A y \in Rows : SaleOf(y) = SaleOf(x) /\ Live(jb[y]) => jb[y].stamp = jb[x].stamp
    PROVE  HolderIn(jb, SaleOf(x)) = jb[x].stamp
<1> DEFINE live == {y \in Rows : SaleOf(y) = SaleOf(x) /\ Live(jb[y])}
           chosen == CHOOSE y \in live : TRUE
<1>1. x \in live
  OBVIOUS
<1>2. chosen \in live
  BY <1>1
<1>3. HolderIn(jb, SaleOf(x)) = jb[chosen].stamp
  BY <1>1 DEF HolderIn
<1> HIDE DEF chosen
<1> QED BY <1>2, <1>3

LEMMA Holders ==
    /\ SaleHolder = [s \in Sales |-> HolderIn(jobs, s)]
    /\ SaleHolder' = [s \in Sales |-> HolderIn(jobs', s)]
BY DEF SaleHolder, LiveRows, HolderIn

\* Steps that make no row live end the leases of some sales.
LEMMA QuietEnds ==
    ASSUME SaleExclusive, SaleExclusive', Quiet PROVE Abstract!Next
<1> DEFINE free == {s \in Sales : \A x \in Rows : SaleOf(x) = s => ~Live(jobs'[x])}
<1>1. ASSUME NEW s \in free PROVE HolderIn(jobs', s) = NoStamp
  BY <1>1, HolderFree
<1>2. ASSUME NEW s \in Sales \ free PROVE HolderIn(jobs', s) = HolderIn(jobs, s)
  <2>1. PICK x \in Rows : SaleOf(x) = s /\ Live(jobs'[x])
    OBVIOUS
  <2>2. Live(jobs[x]) /\ jobs'[x].stamp = jobs[x].stamp
    BY <2>1 DEF Quiet
  <2>3. HolderIn(jobs', s) = jobs'[x].stamp
    BY <2>1, HolderLive DEF SaleExclusive
  <2>4. HolderIn(jobs, s) = jobs[x].stamp
    BY <2>1, <2>2, HolderLive DEF SaleExclusive
  <2> QED BY <2>2, <2>3, <2>4
<1>3. free \in SUBSET Sales
  OBVIOUS
<1> HIDE DEF free
<1>4. Abstract!End(free)
  BY <1>1, <1>2, Holders DEF Abstract!End
<1> QED BY <1>3, <1>4 DEF Abstract!Next

\* A step that reserves the rows in S, of free sales, under a new stamp claims
\* these sales.
LEMMA ReservationClaims ==
    ASSUME SaleExclusive, SaleExclusive', NEW r \in Requests, NEW S \in SUBSET Rows,
           \A x \in S : /\ Live(jobs'[x]) /\ jobs'[x].stamp = <<r, 1>>
                        /\ \A y \in Rows : SaleOf(y) = SaleOf(x) => ~Live(jobs[y]),
           \A x \in Rows \ S : /\ Live(jobs'[x]) <=> Live(jobs[x])
                               /\ Live(jobs[x]) => jobs'[x].stamp = jobs[x].stamp,
           \A x \in Rows : jobs[x].stamp # <<r, 1>>
    PROVE  Abstract!Next
<1> DEFINE taken == {SaleOf(x) : x \in S}
<1>1. taken \in SUBSET Sales
  <2>1. \A x \in Rows : SaleOf(x) \in Sales
    BY DEF Rows, SaleOf
  <2> QED BY <2>1
<1>2. <<r, 1>> \in (Requests \X {1}) \ {NoStamp}
  BY SetsAssumption DEF NoStamp
<1>3. ASSUME NEW s \in Sales PROVE HolderIn(jobs, s) # <<r, 1>>
  <2>1. CASE \E x \in Rows : SaleOf(x) = s /\ Live(jobs[x])
    <3>1. PICK x \in Rows : SaleOf(x) = s /\ Live(jobs[x])
      BY <2>1
    <3>2. HolderIn(jobs, s) = jobs[x].stamp
      BY <3>1, HolderLive DEF SaleExclusive
    <3> QED BY <3>2
  <2>2. CASE ~\E x \in Rows : SaleOf(x) = s /\ Live(jobs[x])
    BY <1>2, <2>2, HolderFree
  <2> QED BY <2>1, <2>2
<1>4. ASSUME NEW s \in taken PROVE HolderIn(jobs, s) = NoStamp /\ HolderIn(jobs', s) = <<r, 1>>
  <2>1. PICK x \in S : s = SaleOf(x)
    OBVIOUS
  <2>2. HolderIn(jobs', s) = jobs'[x].stamp
    BY <2>1, HolderLive DEF SaleExclusive
  <2> QED BY <2>1, <2>2, HolderFree
<1>5. ASSUME NEW s \in Sales \ taken PROVE HolderIn(jobs', s) = HolderIn(jobs, s)
  <2>1. \A x \in Rows : SaleOf(x) = s => x \in Rows \ S
    OBVIOUS
  <2>2. CASE \E x \in Rows : SaleOf(x) = s /\ Live(jobs[x])
    <3>1. PICK x \in Rows : SaleOf(x) = s /\ Live(jobs[x])
      BY <2>2
    <3>2. Live(jobs'[x]) /\ jobs'[x].stamp = jobs[x].stamp
      BY <2>1, <3>1
    <3>3. HolderIn(jobs, s) = jobs[x].stamp
      BY <3>1, HolderLive DEF SaleExclusive
    <3>4. HolderIn(jobs', s) = jobs'[x].stamp
      BY <3>1, <3>2, HolderLive DEF SaleExclusive
    <3> QED BY <3>2, <3>3, <3>4
  <2>3. CASE ~\E x \in Rows : SaleOf(x) = s /\ Live(jobs[x])
    BY <2>1, <2>3, HolderFree
  <2> QED BY <2>2, <2>3
<1> HIDE DEF taken
<1>6. Abstract!Claim(taken, <<r, 1>>)
  BY <1>1, <1>3, <1>4, <1>5, Holders DEF Abstract!Claim
<1> QED BY <1>1, <1>2, <1>6 DEF Abstract!Next

LEMMA StepImplements ==
    ASSUME LeaseInv, LeaseInv', [Next]_vars PROVE [Abstract!Next]_SaleHolder
<1>1. /\ TypeOK /\ TypeOK' /\ SaleInv /\ Stamped
      /\ SaleExclusive /\ SaleExclusive'
  BY DEF LeaseInv, SaleInv
<1>2. ASSUME NEW r \in Requests, grants[r] = 0, NEW x \in Rows PROVE jobs[x].stamp # <<r, 1>>
  BY <1>1, <1>2, SetsAssumption DEF Stamped
<1>3. ASSUME Quiet PROVE Abstract!Next
  BY <1>1, <1>3, QuietEnds
<1>4. ASSUME UNCHANGED jobs PROVE Quiet
  BY <1>4 DEF Quiet
<1>5. CASE ServerStep
  <2>1. ASSUME NEW m, ReplayClaim(m) \/ RefuseClaim(m) \/ LoseCall(m) PROVE Quiet
    BY <1>4, <2>1 DEF ReplayClaim, RefuseClaim, LoseCall
  <2>2. ASSUME NEW m \in wire, NEW S \in SUBSET Rows, GrantClaim(m, S) PROVE Abstract!Next
    <3>1. /\ m.req \in Requests /\ grants[m.req] = 0
          /\ \A x \in S : /\ Live(jobs'[x]) /\ jobs'[x].stamp = <<m.req, 1>>
                          /\ \A y \in Rows : SaleOf(y) = SaleOf(x) => ~Live(jobs[y])
          /\ \A x \in Rows \ S : /\ Live(jobs'[x]) => jobs'[x] = jobs[x]
                                 /\ Live(jobs[x]) => jobs'[x] = jobs[x]
      BY <2>2, GrantRows
    <3>2. \A x \in Rows \ S : /\ Live(jobs'[x]) <=> Live(jobs[x])
                              /\ Live(jobs[x]) => jobs'[x].stamp = jobs[x].stamp
      BY <3>1
    <3> QED BY <1>1, <1>2, <3>1, <3>2, ReservationClaims
  <2> QED BY <1>3, <1>5, <2>1, <2>2 DEF ServerStep
<1>6. CASE ProducerStep
  <2>1. ASSUME NEW b \in BacklogWorkers, NEW r \in Requests, NEW x \in Rows,
               BacklogClaim(b, r, x)
        PROVE  Abstract!Next
    <3>1. /\ \A y \in Rows : jobs[y].stamp[1] # r
          /\ Live(jobs'[x]) /\ jobs'[x].stamp = <<r, 1>>
          /\ \A y \in Rows : SaleOf(y) = SaleOf(x) => ~Live(jobs[y])
          /\ \A y \in Rows \ {x} : jobs'[y] = jobs[y]
      BY <2>1, BacklogRows
    <3>2. \A y \in Rows : jobs[y].stamp # <<r, 1>>
      BY <3>1
    <3> DEFINE S == {x}
    <3>3. /\ S \in SUBSET Rows
          /\ \A z \in S : /\ Live(jobs'[z]) /\ jobs'[z].stamp = <<r, 1>>
                          /\ \A y \in Rows : SaleOf(y) = SaleOf(z) => ~Live(jobs[y])
          /\ \A z \in Rows \ S : /\ Live(jobs'[z]) <=> Live(jobs[z])
                                 /\ Live(jobs[z]) => jobs'[z].stamp = jobs[z].stamp
      BY <3>1
    <3> HIDE DEF S
    <3> QED BY <1>1, <3>2, <3>3, ReservationClaims
  <2>2. (\E b \in BacklogWorkers, r \in Requests, x \in Rows : BacklogClaim(b, r, x)) \/ Quiet
    BY <1>1, <1>6, ProducerQuiet
  <2> QED BY <1>3, <2>1, <2>2
<1>7. CASE WorkStep \/ EnvironmentStep
  BY <1>1, <1>3, <1>7, WorkQuiet, EnvironmentQuiet
<1>8. CASE ClientStep \/ UNCHANGED vars
  BY <1>3, <1>4, <1>8 DEF ClientStep, BeginCall, CallTimeout, PersistBackoff, vars
<1> QED BY <1>5, <1>6, <1>7, <1>8 DEF Next

\* Whatever the two claim paths, the workers and the network do, the sales see
\* leases that begin on free sales, end sale by sale and never pass from one
\* claim to the next directly: the queue implements SaleLease.
THEOREM LeaseRefinement == Spec => ImplementsSaleLease
<1>1. Init => Abstract!Init
  <2> SUFFICES ASSUME Init PROVE Abstract!Init
    OBVIOUS
  <2>1. \A s \in Sales : HolderIn(jobs, s) = NoStamp
    BY AbsentRowNotLive, HolderFree DEF Init
  <2> QED BY <2>1, Holders DEF Abstract!Init
<1>2. LeaseInv /\ LeaseInv' /\ [Next]_vars => [Abstract!Next]_SaleHolder
  BY StepImplements
<1> QED BY <1>1, <1>2, InitLeases, StepLeases, PTL DEF Spec, ImplementsSaleLease, Abstract!Spec
=============================================================================
