---------------------- MODULE EnrichmentQueueKeysProofs ----------------------
(***************************************************************************)
(* Theorems about the keys of EnrichmentQueue, for any sets and bounds:    *)
(* one row per revision of a (sale, job type), one detail row that can     *)
(* still run, and new content only on the newest text row.  Most steps     *)
(* only work on rows that exist (Worked): what remains are the insertions, *)
(* the two re-keyings, the renewal by the document backlog and the         *)
(* deletion of a sale.                                                     *)
(***************************************************************************)
EXTENDS EnrichmentQueueProofs

\* The rows of a key have different ranks, none beyond their number: only so
\* does the producer re-key one row and not two.
Ranked ==
    /\ \A x \in Rows : Exists(x) => jobs[x].born <= Cardinality(RowsOf(SaleOf(x), TypeOf(x)))
    /\ \A x, y \in Rows :
          x # y /\ SameKey(x, y) /\ Exists(x) /\ Exists(y) => jobs[x].born # jobs[y].born

KeysInv == TypeOK /\ Ranked /\ UniqueRevision /\ OneOpenDetail

\* Only PDF rows are in a checkpoint.
PdfLooks == \A w \in Processes : \A q \in look[w] : TypeOf(q[1].row) = "pdf"

-----------------------------------------------------------------------------
(* Steps that only work on rows                                              *)

\* A row that a claim may still take, or has taken.
Open == {"queued", "running", "failed"}

\* k is the same row as j, at the same revision and rank, no more able to run
\* than it was, and settled otherwise than by a cancellation only if it ran.
Worked(j, k) ==
    /\ k.hash = j.hash /\ k.born = j.born
    /\ k.status = "absent" <=> j.status = "absent"
    /\ CanRun(k) => CanRun(j)
    /\ k.status \in Open => j.status \in Open
    /\ j.status = "cancelled" => k.status = "cancelled"
    /\ j.status = "queued" => k.status \in {"queued", "running", "cancelled"}

AllWorked == \A x \in Rows : Worked(jobs[x], jobs'[x])

LEMMA WorkedTwice ==
    ASSUME NEW i, NEW j, NEW k, Worked(i, j), j.status = "running" => i.status = "running",
           Worked(j, k)
    PROVE  Worked(i, k)
BY DEF Worked

LEMMA SameWorked == ASSUME NEW j PROVE Worked(j, j)
BY DEF Worked

\* Leaving the running state or the queue: only a failure with attempts left
\* can run again, and only what was running fails so.
LEMMA UnlockedWorked ==
    ASSUME NEW j \in RowStates, j.status \in Open,
           NEW status \in {"completed", "cancelled", "failed"},
           status # "cancelled" => j.status = "running"
    PROVE  Worked(j, Unlocked(j, status))
BY DEF Worked, Unlocked, CanRun, RowStates, Open

LEMMA DelayedWorked ==
    ASSUME NEW j \in RowStates, j.status = "running", NEW d
    PROVE  Worked(j, [Unlocked(j, "failed") EXCEPT !.wait = d])
BY DEF Worked, Unlocked, CanRun, RowStates, Open

LEMMA RestoredWorked ==
    ASSUME NEW j \in RowStates, j.status = "running", NEW d
    PROVE  /\ Worked(j, Restored(j, d))
           /\ Worked(j, [Restored(j, d) EXCEPT !.status = "completed"])
BY DEF Worked, Restored, Unlocked, CanRun, RowStates, Open

LEMMA ClaimedWorked ==
    ASSUME NEW j \in RowStates, Waiting(j), j.attempts < MaxAttempts, NEW stamp
    PROVE  Worked(j, Claimed(j, stamp))
BY DEF Worked, Claimed, Waiting, Expired, CanRun, RowStates, Open

LEMMA HousekeptWorked ==
    ASSUME NEW jb \in [Rows -> RowStates], NEW x \in Rows
    PROVE  /\ Worked(jb[x], Housekept(jb)[x])
           /\ Housekept(jb)[x].status = "running" => jb[x].status = "running"
<1> DEFINE a == WithoutObsolete(jb)
           b == WithoutSuperseded(a)
           c == WithoutExhausted(b)
<1>0. ASSUME NEW j \in RowStates, NEW status PROVE Unlocked(j, status).status = status
  BY DEF Unlocked, RowStates
<1>1. ASSUME NEW j \in RowStates, Waiting(j) PROVE Worked(j, Unlocked(j, "cancelled"))
  BY <1>1, UnlockedWorked DEF Waiting, Expired, Open
<1>2. ASSUME NEW j \in RowStates, Expired(j) PROVE Worked(j, Unlocked(j, "failed"))
  BY <1>2, UnlockedWorked DEF Expired, Open
<1>3. ASSUME NEW y \in Rows
      PROVE  /\ a[y] \in RowStates /\ Worked(jb[y], a[y])
             /\ a[y].status = "running" => jb[y].status = "running"
  <2>1. a[y] = jb[y] \/ (Waiting(jb[y]) /\ a[y] = Unlocked(jb[y], "cancelled"))
    BY DEF WithoutObsolete
  <2> QED BY <1>0, <1>1, <2>1, SameWorked, UnlockedType DEF Statuses
<1>4. b = [y \in Rows |-> IF Waiting(a[y]) /\ Superseded(a, y)
                            THEN Unlocked(a[y], "cancelled") ELSE a[y]]
  BY DEF WithoutSuperseded
<1> HIDE DEF a
<1>5. ASSUME NEW y \in Rows
      PROVE  /\ b[y] \in RowStates /\ Worked(a[y], b[y])
             /\ b[y].status = "running" => a[y].status = "running"
  <2>1. b[y] = a[y] \/ (Waiting(a[y]) /\ b[y] = Unlocked(a[y], "cancelled"))
    BY <1>4
  <2> QED BY <1>0, <1>1, <1>3, <2>1, SameWorked, UnlockedType DEF Statuses
<1>6. c = [y \in Rows |-> IF Expired(b[y]) /\ b[y].attempts >= MaxAttempts
                            THEN Unlocked(b[y], "failed") ELSE b[y]]
  BY DEF WithoutExhausted
<1> HIDE DEF b
<1>7. Worked(b[x], c[x]) /\ (c[x].status = "running" => b[x].status = "running")
  BY <1>0, <1>2, <1>5, <1>6, SameWorked
<1>8. Housekept(jb) = c
  BY DEF Housekept, a, b, c
<1>9. Worked(jb[x], b[x])
  BY <1>3, <1>5, WorkedTwice
<1> QED
  BY <1>3, <1>5, <1>7, <1>8, <1>9, WorkedTwice

LEMMA GrantWorked ==
    ASSUME TypeOK, NEW m, NEW S \in SUBSET Rows, GrantClaim(m, S) PROVE AllWorked
<1> DEFINE kept == Housekept(jobs)
           stamp == <<m.req, grants[m.req] + 1>>
<1>1. /\ kept \in [Rows -> RowStates]
      /\ \A x \in Rows : /\ Worked(jobs[x], kept[x])
                         /\ kept[x].status = "running" => jobs[x].status = "running"
  BY HousekeptType, HousekeptWorked DEF TypeOK
<1>2. /\ jobs' = [x \in Rows |-> IF x \in S THEN Claimed(kept[x], stamp) ELSE kept[x]]
      /\ \A x \in S : Eligible(kept, x, m.family)
  BY DEF GrantClaim
<1> HIDE DEF kept, stamp
<1>3. \A x \in S : Worked(kept[x], Claimed(kept[x], stamp))
  BY <1>1, <1>2, ClaimedWorked DEF Eligible
<1> QED
  BY <1>1, <1>2, <1>3, WorkedTwice DEF AllWorked

-----------------------------------------------------------------------------
(* The other steps                                                           *)

\* A PDF row takes the hash of the content that its checkpoint has written.
Rekeyed(x, h) ==
    /\ Exists(x) /\ ~HashUsed(x, h) /\ TypeOf(x) = "pdf"
    /\ jobs' = [jobs EXCEPT ![x] = [@ EXCEPT !.hash = h]]

\* A new row, the only one of its alias that can run if it is a detail row.
Inserted(x, h) ==
    /\ Insertable(x, h) /\ TypeOf(x) \notin TextTypes
    /\ TypeOf(x) = "source_detail" =>
          \A y \in Rows : SameKey(x, y) => ~CanRun(jobs[y])
    /\ jobs' = [jobs EXCEPT ![x] = NewRow(h, Cardinality(RowsOf(SaleOf(x), TypeOf(x))) + 1)]

Revived(x) == Exists(x) /\ TypeOf(x) = "pdf" /\ jobs' = Renewed(x)

Kinds == {K \in SUBSET JobTypes : "source_detail" \notin K}

LEMMA WorkShape ==
    ASSUME TypeOK, PdfLooks, WorkStep
    PROVE  AllWorked \/ \E x \in Rows, h \in Revisions : Rekeyed(x, h)
<1>1. jobs \in [Rows -> RowStates]
  BY DEF TypeOK
<1>2. ASSUME NEW w \in Processes, NEW l \in worker[w].leases, Owns(l)
      PROVE  l.row \in Rows /\ jobs[l.row] \in RowStates /\ jobs[l.row].status = "running"
             /\ jobs[l.row].status \in Open
  BY <1>2 DEF TypeOK, ProcessStates, Leases, Owns, Open
<1>3. ASSUME NEW y \in Rows, NEW k, Worked(jobs[y], k), jobs' = [jobs EXCEPT ![y] = k]
      PROVE  AllWorked
  BY <1>1, <1>3, SameWorked DEF AllWorked
<1>4. ASSUME jobs' = jobs PROVE AllWorked
  BY <1>4, SameWorked DEF AllWorked
<1>5. ASSUME NEW w \in Processes, NEW l \in worker[w].leases,
             NEW status \in {"completed", "cancelled", "failed"}, NEW d,
             FinishJob(w, l, status, d)
      PROVE  AllWorked
  <2>1. CASE ~Owns(l)
    BY <1>4, <1>5, <2>1 DEF FinishJob
  <2>2. CASE Owns(l) /\ status # "failed"
    <3>1. Worked(jobs[l.row], Unlocked(jobs[l.row], status))
      BY <1>2, <2>2, UnlockedWorked
    <3>2. jobs' = [jobs EXCEPT ![l.row] = Unlocked(jobs[l.row], status)]
      BY <1>5, <2>2 DEF FinishJob
    <3> QED BY <1>2, <1>3, <2>2, <3>1, <3>2
  <2>3. CASE Owns(l) /\ status = "failed"
    <3> DEFINE k == [Unlocked(jobs[l.row], "failed") EXCEPT !.wait = d]
    <3>1. Worked(jobs[l.row], k)
      BY <1>2, <2>3, DelayedWorked
    <3>2. jobs' = [jobs EXCEPT ![l.row] = k]
      BY <1>5, <2>3 DEF FinishJob
    <3> HIDE DEF k
    <3> QED BY <1>2, <1>3, <2>3, <3>1, <3>2
  <2> QED BY <2>1, <2>2, <2>3
<1>6. ASSUME NEW w \in Processes, NEW l \in worker[w].leases, PublishDetail(w, l)
      PROVE  AllWorked
  <2>1. CASE Owns(l) /\ Live(jobs[l.row])
    <3>1. Worked(jobs[l.row], Unlocked(jobs[l.row], "completed"))
      BY <1>2, <2>1, UnlockedWorked
    <3>2. jobs' = [jobs EXCEPT ![l.row] = Unlocked(jobs[l.row], "completed")]
      BY <1>6, <2>1 DEF PublishDetail
    <3> QED BY <1>2, <1>3, <2>1, <3>1, <3>2
  <2> QED BY <1>4, <1>6, <2>1 DEF PublishDetail
<1>7. ASSUME NEW w \in Processes, NEW l \in worker[w].leases, ReuseDetail(w, l)
      PROVE  AllWorked
  <2>1. CASE Owns(l) /\ Live(jobs[l.row])
    <3> DEFINE k == [Restored(jobs[l.row], jobs[l.row].wait) EXCEPT !.status = "completed"]
    <3>1. Worked(jobs[l.row], k)
      BY <1>2, <2>1, RestoredWorked
    <3>2. jobs' = [jobs EXCEPT ![l.row] = k]
      BY <1>7, <2>1 DEF ReuseDetail
    <3> HIDE DEF k
    <3> QED BY <1>2, <1>3, <2>1, <3>1, <3>2
  <2> QED BY <1>4, <1>7, <2>1 DEF ReuseDetail
<1>8. ASSUME NEW w \in Processes,
             \/ \E l \in worker[w].leases, h \in Revisions : LookForGeneration(w, l, h)
             \/ MoveKey(w)
      PROVE  AllWorked \/ \E x \in Rows, g \in Revisions : Rekeyed(x, g)
  <2>1. ASSUME NEW l \in Leases, jobs' = Retired(l) PROVE AllWorked
    <3>1. CASE StillKeyed(l)
      <4>1. l.row \in Rows /\ jobs[l.row] \in RowStates /\ jobs[l.row].status = "running"
        BY <1>1, <3>1 DEF StillKeyed, Owns, Leases
      <4>2. Worked(jobs[l.row], Unlocked(jobs[l.row], "cancelled"))
        BY <4>1, UnlockedWorked DEF Open
      <4> QED BY <1>3, <2>1, <3>1, <4>1, <4>2 DEF Retired
    <3> QED BY <1>4, <2>1, <3>1 DEF Retired
  <2>2. ASSUME NEW l \in worker[w].leases, NEW h \in Revisions, LookForGeneration(w, l, h)
        PROVE  AllWorked
    <3>1. l \in Leases
      BY DEF TypeOK, ProcessStates
    <3> QED BY <1>4, <2>1, <2>2, <3>1 DEF LookForGeneration
  <2>3. ASSUME MoveKey(w) PROVE AllWorked \/ \E x \in Rows, g \in Revisions : Rekeyed(x, g)
    <3>1. PICK q \in look[w] :
            jobs' = IF HashUsed(q[1].row, q[2]) THEN Retired(q[1])
                    ELSE IF StillKeyed(q[1]) THEN [jobs EXCEPT ![q[1].row].hash = q[2]]
                    ELSE jobs
      BY <2>3 DEF MoveKey
    <3>2. /\ q[1] \in Leases /\ q[1].row \in Rows /\ q[2] \in Revisions
          /\ TypeOf(q[1].row) = "pdf"
      BY DEF TypeOK, Leases, PdfLooks
    <3>3. CASE ~HashUsed(q[1].row, q[2]) /\ StillKeyed(q[1])
      <4>1. Exists(q[1].row)
        BY <3>3 DEF StillKeyed, Owns, Exists
      <4> QED BY <3>1, <3>2, <3>3, <4>1 DEF Rekeyed
    <3> QED BY <1>4, <2>1, <3>1, <3>2, <3>3
  <2> QED BY <1>8, <2>2, <2>3
<1>9. ASSUME NEW w \in Processes, NEW D \in SUBSET worker[w].leases, NEW d, Defer(w, D, d)
      PROVE  AllWorked
  <2>1. ASSUME NEW x \in Rows PROVE Worked(jobs[x], jobs'[x])
    <3>1. CASE \E l \in D : l.row = x /\ Owns(l)
      BY <1>2, <1>9, <3>1, RestoredWorked DEF Defer
    <3>2. CASE ~\E l \in D : l.row = x /\ Owns(l)
      BY <1>9, <3>2, SameWorked DEF Defer
    <3> QED BY <3>1, <3>2
  <2> QED BY <2>1 DEF AllWorked
<1>10. ASSUME NEW w \in Processes, Crash(w) PROVE AllWorked
  BY <1>4, <1>10 DEF Crash
<1> QED
  BY <1>5, <1>6, <1>7, <1>8, <1>9, <1>10 DEF WorkStep

LEMMA StepShape ==
    ASSUME TypeOK, PdfLooks, [Next]_vars
    PROVE  \/ AllWorked
           \/ \E x \in Rows, h \in Revisions : Rekeyed(x, h) \/ Inserted(x, h)
           \/ \E x \in Rows : Revived(x)
           \/ \E s \in Sales, K \in Kinds : \E hash \in [K -> Revisions] : Enqueue(s, hash)
           \/ \E s \in Sales : DeleteSale(s)
<1>1. jobs \in [Rows -> RowStates]
  BY DEF TypeOK
<1>2. ASSUME jobs' = jobs PROVE AllWorked
  BY <1>2, SameWorked DEF AllWorked
<1>3. CASE ServerStep
  <2>1. ASSUME NEW m, ReplayClaim(m) \/ RefuseClaim(m) \/ LoseCall(m) PROVE AllWorked
    BY <1>2, <2>1 DEF ReplayClaim, RefuseClaim, LoseCall
  <2> QED BY <1>3, <2>1, GrantWorked DEF ServerStep
<1>4. CASE ClientStep
  BY <1>2, <1>4 DEF ClientStep, BeginCall, CallTimeout, PersistBackoff
<1>5. CASE ProducerStep
  <2>1. ASSUME NEW s \in Sales, NEW K \in SUBSET (kinds \ {"source_detail"}),
               NEW text \in Revisions, NEW pdf \in Revisions,
               Enqueue(s, [t \in K |-> IF t = "pdf" THEN pdf ELSE text])
        PROVE  \E L \in Kinds : \E hash \in [L -> Revisions] : Enqueue(s, hash)
    <3> DEFINE hash == [t \in K |-> IF t = "pdf" THEN pdf ELSE text]
    <3>1. K \in Kinds /\ hash \in [K -> Revisions]
      BY SetsAssumption DEF Kinds, TypeOK
    <3>2. Enqueue(s, hash)
      BY <2>1
    <3> HIDE DEF hash
    <3> QED BY <3>1, <3>2
  <2>2. ASSUME NEW x \in Rows, NEW h \in Revisions, EnqueueDetail(x, h) PROVE Inserted(x, h)
    <3>1. ASSUME NEW y \in Rows, SameKey(x, y) PROVE ~CanRun(jobs[y])
      <4>1. /\ jobs[y].status \notin {"queued", "running"}
            /\ jobs[y].status = "failed" => jobs[y].attempts >= MaxAttempts
        BY <2>2, <3>1 DEF EnqueueDetail
      <4>2. jobs[y].attempts \in Nat /\ MaxAttempts \in Nat
        BY <1>1, NumbersAssumption DEF RowStates, Attempts
      <4> QED BY <4>1, <4>2 DEF CanRun
    <3> QED BY <2>2, <3>1 DEF EnqueueDetail, Inserted, TextTypes
  <2>3. ASSUME NEW x \in Rows, NEW h \in Revisions, BacklogEnsure(x, h)
        PROVE  Inserted(x, h) \/ Revived(x)
    BY <2>3 DEF BacklogEnsure, Inserted, Revived, TextTypes
  <2>4. ASSUME NEW b, NEW r, NEW x \in Rows, BacklogClaim(b, r, x) PROVE AllWorked
    <3>1. jobs' = [jobs EXCEPT ![x] = Claimed(jobs[x], <<r, 1>>)]
      BY <2>4 DEF BacklogClaim
    <3>2. Worked(jobs[x], Claimed(jobs[x], <<r, 1>>))
      BY <1>1, <2>4, ClaimedWorked DEF BacklogClaim
    <3> QED BY <1>1, <3>1, <3>2, SameWorked DEF AllWorked
  <2>5. ASSUME NEW s \in Sales, NEW K \in SUBSET (kinds \ {"source_detail"}),
               NEW text \in Revisions, NEW pdf \in Revisions,
               Enqueue(s, [t \in K |-> IF t = "pdf" THEN pdf ELSE text])
        PROVE  \E r \in Sales, L \in Kinds : \E hash \in [L -> Revisions] : Enqueue(r, hash)
    BY <2>1, <2>5
  <2> QED
    <3> HIDE DEF Kinds
    <3>1. CASE \E s \in Sales, K \in SUBSET (kinds \ {"source_detail"}),
                 text \in Revisions, pdf \in Revisions :
                 K # {} /\ Enqueue(s, [t \in K |-> IF t = "pdf" THEN pdf ELSE text])
      BY <2>5, <3>1
    <3>2. CASE \E x \in Rows, h \in Revisions : EnqueueDetail(x, h) \/ BacklogEnsure(x, h)
      BY <2>2, <2>3, <3>2
    <3>3. CASE \E b \in BacklogWorkers, r \in Requests, x \in Rows : BacklogClaim(b, r, x)
      BY <2>4, <3>3
    <3> QED BY <1>5, <3>1, <3>2, <3>3 DEF ProducerStep
<1>6. CASE EnvironmentStep
  <2>1. CASE Tick
    <3>1. ASSUME NEW x \in Rows PROVE Worked(jobs[x], jobs'[x])
      <4> DEFINE w == IF jobs[x].wait > 0 THEN jobs[x].wait - 1 ELSE 0
                 a == IF Live(jobs[x]) THEN jobs[x].age + 1 ELSE jobs[x].age
      <4>1. jobs'[x] = [jobs[x] EXCEPT !.wait = w, !.age = a]
        BY <2>1 DEF Tick
      <4> HIDE DEF w, a
      <4>2. /\ jobs'[x].hash = jobs[x].hash /\ jobs'[x].born = jobs[x].born
            /\ jobs'[x].status = jobs[x].status /\ jobs'[x].attempts = jobs[x].attempts
        BY <1>1, <4>1 DEF RowStates
      <4> QED BY <4>2 DEF Worked, CanRun
    <3> QED BY <3>1 DEF AllWorked
  <2> QED
    BY <1>2, <1>6, <2>1
    DEF EnvironmentStep, CloseSale, UnreadySale, OpenSale, SetSale, ToggleDetails
<1>7. CASE UNCHANGED vars
  BY <1>2, <1>7 DEF vars
<1> QED
  BY <1>3, <1>4, <1>5, <1>6, <1>7, WorkShape DEF Next

-----------------------------------------------------------------------------
(* Each of these steps keeps the keys                                        *)

LEMMA CountGrows ==
    ASSUME NEW A, NEW B \in SUBSET (1 .. MaxRows), A \subseteq B
    PROVE  /\ Cardinality(A) \in Nat /\ Cardinality(B) \in Nat
           /\ Cardinality(A) <= Cardinality(B)
           /\ \A k \in B \ A : Cardinality(A) + 1 <= Cardinality(B)
<1>0. IsFiniteSet(1 .. MaxRows)
  BY FS_Interval, NumbersAssumption
<1>1. IsFiniteSet(B)
  BY <1>0, FS_Subset
<1>2. IsFiniteSet(A)
  BY <1>1, FS_Subset
<1>3. /\ Cardinality(A) \in Nat /\ Cardinality(B) \in Nat
      /\ Cardinality(A) <= Cardinality(B)
  BY <1>1, <1>2, FS_Subset, FS_CardinalityType
<1>4. ASSUME NEW k \in B \ A PROVE Cardinality(A) + 1 <= Cardinality(B)
  <2>1. IsFiniteSet(A \cup {k}) /\ Cardinality(A \cup {k}) = Cardinality(A) + 1
    BY <1>2, <1>4, FS_AddElement
  <2>2. A \cup {k} \subseteq B
    BY <1>4
  <2> QED BY <1>1, <2>1, <2>2, FS_Subset
<1> QED BY <1>3, <1>4

LEMMA RowsOfExist ==
    ASSUME NEW x \in Rows
    PROVE  /\ x = <<SaleOf(x), TypeOf(x), x[3]>> /\ x[3] \in 1 .. MaxRows
           /\ x[3] \in RowsOf(SaleOf(x), TypeOf(x)) <=> Exists(x)
<1>1. PICK s \in Sales, t \in JobTypes, k \in 1 .. MaxRows : x = <<s, t, k>>
  BY DEF Rows
<1>2. SaleOf(x) = s /\ TypeOf(x) = t /\ x[3] = k
  BY <1>1 DEF SaleOf, TypeOf
<1> QED BY <1>1, <1>2 DEF RowsOf

\* A step that keeps the rows of a key, their hashes and their ranks.
LEMMA SameRowsOf ==
    ASSUME \A x \in Rows : Exists(x)' <=> Exists(x), NEW s \in Sales, NEW t \in JobTypes
    PROVE  RowsOf(s, t)' = RowsOf(s, t)
<1>1. \A k \in 1 .. MaxRows : <<s, t, k>> \in Rows
  BY DEF Rows
<1> QED BY <1>1 DEF RowsOf

LEMMA RowParts == ASSUME NEW x \in Rows PROVE SaleOf(x) \in Sales /\ TypeOf(x) \in JobTypes
BY DEF Rows, SaleOf, TypeOf

LEMMA WorkedKeys == KeysInv /\ TypeOK' /\ AllWorked => KeysInv'
<1> SUFFICES ASSUME KeysInv, TypeOK', AllWorked PROVE KeysInv'
  OBVIOUS
<1>1. ASSUME NEW x \in Rows
      PROVE  /\ jobs'[x].hash = jobs[x].hash /\ jobs'[x].born = jobs[x].born
             /\ Exists(x)' <=> Exists(x)
             /\ CanRun(jobs'[x]) => CanRun(jobs[x])
  BY DEF AllWorked, Worked, Exists
<1>2. \A x \in Rows : RowsOf(SaleOf(x), TypeOf(x))' = RowsOf(SaleOf(x), TypeOf(x))
  BY <1>1, SameRowsOf, RowParts
<1>3. Ranked'
  BY <1>1, <1>2 DEF KeysInv, Ranked
<1>4. UniqueRevision'
  BY <1>1 DEF KeysInv, UniqueRevision
<1>5. OneOpenDetail'
  BY <1>1 DEF KeysInv, OneOpenDetail
<1> QED BY <1>3, <1>4, <1>5 DEF KeysInv

LEMMA RekeyedKeys ==
    ASSUME KeysInv, TypeOK', NEW x \in Rows, NEW h \in Revisions, Rekeyed(x, h) PROVE KeysInv'
<1>1. /\ jobs'[x] = [jobs[x] EXCEPT !.hash = h]
      /\ \A y \in Rows : y # x => jobs'[y] = jobs[y]
  BY DEF Rekeyed, KeysInv, TypeOK
<1>2. /\ jobs'[x].hash = h /\ jobs'[x].born = jobs[x].born
      /\ jobs'[x].status = jobs[x].status /\ jobs'[x].attempts = jobs[x].attempts
  BY <1>1 DEF KeysInv, TypeOK, RowStates
<1>3. \A y \in Rows : /\ jobs'[y].born = jobs[y].born /\ (Exists(y)' <=> Exists(y))
                      /\ CanRun(jobs'[y]) <=> CanRun(jobs[y])
  BY <1>1, <1>2 DEF Exists, CanRun
<1>4. \A y \in Rows : RowsOf(SaleOf(y), TypeOf(y))' = RowsOf(SaleOf(y), TypeOf(y))
  BY <1>3, SameRowsOf, RowParts
<1>5. Ranked'
  BY <1>3, <1>4 DEF KeysInv, Ranked
<1>6. \A y \in Rows : SameKey(x, y) /\ Exists(y) => jobs[y].hash # h
  BY DEF Rekeyed, HashUsed
<1>7. UniqueRevision'
  <2> SUFFICES ASSUME NEW y \in Rows, NEW z \in Rows, y # z, SameKey(y, z), Exists(y)', Exists(z)'
               PROVE  jobs'[y].hash # jobs'[z].hash
    BY DEF UniqueRevision
  <2>1. Exists(y) /\ Exists(z) /\ SameKey(z, y)
    BY <1>3 DEF SameKey
  <2>2. CASE y = x
    BY <1>1, <1>2, <1>6, <2>1, <2>2
  <2>3. CASE z = x
    BY <1>1, <1>2, <1>6, <2>1, <2>3
  <2>4. CASE y # x /\ z # x
    BY <1>1, <2>1, <2>4 DEF KeysInv, UniqueRevision
  <2> QED BY <2>2, <2>3, <2>4
<1>8. OneOpenDetail'
  BY <1>3 DEF KeysInv, OneOpenDetail
<1> QED BY <1>5, <1>7, <1>8 DEF KeysInv

LEMMA InsertedKeys ==
    ASSUME KeysInv, TypeOK', NEW x \in Rows, NEW h \in Revisions, Inserted(x, h) PROVE KeysInv'
<1> DEFINE n == Cardinality(RowsOf(SaleOf(x), TypeOf(x)))
<1>1. /\ jobs'[x] = NewRow(h, n + 1)
      /\ \A y \in Rows : y # x => jobs'[y] = jobs[y]
  BY DEF Inserted, KeysInv, TypeOK
<1>2. jobs'[x].hash = h /\ jobs'[x].born = n + 1 /\ jobs'[x].status = "queued"
  BY <1>1 DEF NewRow
<1>3. /\ ~Exists(x) /\ Exists(x)'
      /\ \A y \in Rows : y # x => (Exists(y)' <=> Exists(y))
      /\ \A y \in Rows : SameKey(x, y) /\ Exists(y) => jobs[y].hash # h
  BY <1>1, <1>2 DEF Inserted, Insertable, FirstFree, HashUsed, Exists
<1>4. ASSUME NEW y \in Rows
      PROVE  /\ RowsOf(SaleOf(y), TypeOf(y)) \subseteq RowsOf(SaleOf(y), TypeOf(y))'
             /\ RowsOf(SaleOf(y), TypeOf(y))' \in SUBSET (1 .. MaxRows)
  <2>1. \A k \in 1 .. MaxRows : <<SaleOf(y), TypeOf(y), k>> \in Rows
    BY RowParts DEF Rows
  <2> QED BY <1>3, <2>1 DEF RowsOf
<1>5. x[3] \in RowsOf(SaleOf(x), TypeOf(x))' \ RowsOf(SaleOf(x), TypeOf(x))
  <2>1. x = <<SaleOf(x), TypeOf(x), x[3]>> /\ x[3] \in 1 .. MaxRows
    BY RowsOfExist
  <2> QED BY <1>3, <2>1 DEF RowsOf
<1>6. /\ n \in Nat /\ Cardinality(RowsOf(SaleOf(x), TypeOf(x))') \in Nat
      /\ n + 1 <= Cardinality(RowsOf(SaleOf(x), TypeOf(x))')
  BY <1>4, <1>5, CountGrows
<1>7. ASSUME NEW y \in Rows, y # x, Exists(y)
      PROVE  jobs'[y].born <= Cardinality(RowsOf(SaleOf(y), TypeOf(y))')
  <2>1. jobs[y].born \in Nat /\ jobs[y].born <= Cardinality(RowsOf(SaleOf(y), TypeOf(y)))
    BY <1>7 DEF KeysInv, Ranked, TypeOK, RowStates
  <2>2. /\ Cardinality(RowsOf(SaleOf(y), TypeOf(y))) <= Cardinality(RowsOf(SaleOf(y), TypeOf(y))')
        /\ Cardinality(RowsOf(SaleOf(y), TypeOf(y))) \in Nat
        /\ Cardinality(RowsOf(SaleOf(y), TypeOf(y))') \in Nat
    BY <1>4, CountGrows
  <2> QED BY <1>1, <1>7, <2>1, <2>2
<1>8. ASSUME NEW y \in Rows, SameKey(x, y), Exists(y) PROVE jobs[y].born # n + 1
  <2>1. jobs[y].born \in Nat /\ jobs[y].born <= n
    BY <1>8 DEF KeysInv, Ranked, TypeOK, RowStates, SameKey
  <2> QED BY <1>6, <2>1
<1> HIDE DEF n
<1>9. Ranked'
  <2>1. ASSUME NEW y \in Rows, Exists(y)'
        PROVE  jobs'[y].born <= Cardinality(RowsOf(SaleOf(y), TypeOf(y))')
    BY <1>2, <1>3, <1>6, <1>7, <2>1
  <2>2. ASSUME NEW y \in Rows, NEW z \in Rows, y # z, SameKey(y, z), Exists(y)', Exists(z)'
        PROVE  jobs'[y].born # jobs'[z].born
    <3>1. CASE y = x
      BY <1>1, <1>2, <1>3, <1>8, <2>2, <3>1
    <3>2. CASE z = x
      BY <1>1, <1>2, <1>3, <1>8, <2>2, <3>2 DEF SameKey
    <3>3. CASE y # x /\ z # x
      BY <1>1, <1>3, <2>2, <3>3 DEF KeysInv, Ranked
    <3> QED BY <3>1, <3>2, <3>3
  <2> QED BY <2>1, <2>2 DEF Ranked
<1>10. UniqueRevision'
  <2> SUFFICES ASSUME NEW y \in Rows, NEW z \in Rows, y # z, SameKey(y, z), Exists(y)', Exists(z)'
               PROVE  jobs'[y].hash # jobs'[z].hash
    BY DEF UniqueRevision
  <2>1. CASE y = x
    BY <1>1, <1>2, <1>3, <2>1
  <2>2. CASE z = x
    BY <1>1, <1>2, <1>3, <2>2 DEF SameKey
  <2>3. CASE y # x /\ z # x
    BY <1>1, <1>3, <2>3 DEF KeysInv, UniqueRevision
  <2> QED BY <2>1, <2>2, <2>3
<1>11. OneOpenDetail'
  <2> SUFFICES ASSUME NEW y \in Rows, NEW z \in Rows, SameKey(y, z), TypeOf(y) = "source_detail",
                      CanRun(jobs'[y]), CanRun(jobs'[z]), y # z
               PROVE  FALSE
    BY DEF OneOpenDetail
  <2>1. CASE y = x
    BY <1>1, <2>1 DEF Inserted
  <2>2. CASE z = x
    BY <1>1, <2>2 DEF Inserted, SameKey
  <2>3. CASE y # x /\ z # x
    BY <1>1, <2>3 DEF KeysInv, OneOpenDetail
  <2> QED BY <2>1, <2>2, <2>3
<1> QED BY <1>9, <1>10, <1>11 DEF KeysInv

LEMMA RevivedKeys == ASSUME KeysInv, TypeOK', NEW x \in Rows, Revived(x) PROVE KeysInv'
<1> DEFINE settled == jobs[x].status \in {"completed", "cancelled"}
           tries == IF settled \/ jobs[x].attempts >= MaxAttempts THEN 0 ELSE jobs[x].attempts
           requeued == [jobs[x] EXCEPT !.status = "queued", !.wait = 0, !.attempts = tries]
           n == Cardinality(RowsOf(SaleOf(x), TypeOf(x)))
           Falls(y) == SameKey(x, y) /\ jobs[y].born > jobs[x].born
<1>1. jobs \in [Rows -> RowStates] /\ Exists(x) /\ TypeOf(x) = "pdf"
  BY DEF Revived, KeysInv, TypeOK
<1>2. /\ requeued.status = "queued" /\ requeued.hash = jobs[x].hash
      /\ requeued.born = jobs[x].born
      /\ [requeued EXCEPT !.born = n].status = "queued"
      /\ [requeued EXCEPT !.born = n].hash = jobs[x].hash
      /\ [requeued EXCEPT !.born = n].born = n
  BY <1>1 DEF RowStates
<1>3. Renewed(x) = IF ~settled THEN [jobs EXCEPT ![x] = requeued]
                   ELSE [y \in Rows |->
                           IF y = x THEN [requeued EXCEPT !.born = n]
                           ELSE IF Falls(y) THEN [jobs[y] EXCEPT !.born = @ - 1]
                           ELSE jobs[y]]
  BY DEF Renewed
<1> HIDE DEF requeued
<1>4. /\ jobs'[x].status = "queued" /\ jobs'[x].hash = jobs[x].hash
      /\ jobs'[x].born = IF settled THEN n ELSE jobs[x].born
  BY <1>1, <1>2, <1>3 DEF Revived
<1>5. ASSUME NEW y \in Rows, y # x
      PROVE  /\ jobs'[y].status = jobs[y].status /\ jobs'[y].hash = jobs[y].hash
             /\ jobs'[y].attempts = jobs[y].attempts
             /\ jobs'[y].born = IF settled /\ Falls(y) THEN jobs[y].born - 1 ELSE jobs[y].born
             /\ TypeOf(y) # "pdf" => jobs'[y] = jobs[y]
  <2>1. jobs'[y] = IF settled /\ Falls(y) THEN [jobs[y] EXCEPT !.born = @ - 1] ELSE jobs[y]
    BY <1>1, <1>3, <1>5 DEF Revived
  <2> QED BY <1>1, <2>1 DEF RowStates, SameKey
<1>6. \A y \in Rows : Exists(y)' <=> Exists(y)
  BY <1>1, <1>4, <1>5 DEF Exists
<1>7. \A y \in Rows : RowsOf(SaleOf(y), TypeOf(y))' = RowsOf(SaleOf(y), TypeOf(y))
  BY <1>6, SameRowsOf, RowParts
<1>8. ASSUME NEW y \in Rows, Exists(y)
      PROVE  /\ jobs[y].born \in Nat /\ Cardinality(RowsOf(SaleOf(y), TypeOf(y))) \in Nat
             /\ jobs[y].born <= Cardinality(RowsOf(SaleOf(y), TypeOf(y)))
  BY <1>1, <1>8, CountType DEF KeysInv, Ranked, RowStates
<1>9. n \in Nat /\ jobs[x].born \in Nat /\ jobs[x].born <= n
  BY <1>1, <1>8
<1>10. ASSUME NEW y \in Rows, SameKey(x, y), Exists(y), y # x
       PROVE  jobs[y].born \in Nat /\ jobs[y].born <= n /\ jobs[y].born # jobs[x].born
  BY <1>1, <1>8, <1>10 DEF KeysInv, Ranked, SameKey
<1> HIDE DEF n
<1>11. ASSUME NEW y \in Rows, Exists(y)'
       PROVE  jobs'[y].born <= Cardinality(RowsOf(SaleOf(y), TypeOf(y))')
  <2>1. CASE y = x
    BY <1>4, <1>7, <1>9, <2>1 DEF n
  <2>2. CASE y # x
    BY <1>5, <1>6, <1>7, <1>8, <1>11, <2>2
  <2> QED BY <2>1, <2>2
<1>12. ASSUME NEW y \in Rows, NEW z \in Rows, y # z, SameKey(y, z), Exists(y), Exists(z), z # x
       PROVE  jobs'[y].born # jobs'[z].born
  <2>0. jobs[y].born # jobs[z].born /\ jobs[y].born \in Nat /\ jobs[z].born \in Nat
    BY <1>8, <1>12 DEF KeysInv, Ranked
  <2>1. CASE y = x
    <3>1. SameKey(x, z) /\ jobs[z].born <= n /\ jobs[z].born # jobs[x].born
      BY <1>10, <1>12, <2>1
    <3>2. CASE settled
      <4>1. jobs'[y].born = n
        BY <1>4, <2>1, <3>2
      <4>2. jobs'[z].born < n
        BY <1>5, <1>9, <1>12, <2>0, <3>1, <3>2
      <4> QED BY <1>9, <4>1, <4>2
    <3>3. CASE ~settled
      BY <1>4, <1>5, <1>12, <2>0, <2>1, <3>3
    <3> QED BY <3>2, <3>3
  <2>2. CASE y # x /\ ~SameKey(x, y)
    <3>1. ~SameKey(x, z)
      BY <1>12, <2>2 DEF SameKey
    <3> QED BY <1>5, <1>12, <2>0, <2>2, <3>1
  <2>3. CASE y # x /\ SameKey(x, y)
    <3>1. SameKey(x, z)
      BY <1>12, <2>3 DEF SameKey
    <3>2. jobs[y].born # jobs[x].born /\ jobs[z].born # jobs[x].born
      BY <1>10, <1>12, <2>3, <3>1
    <3> QED BY <1>5, <1>9, <1>12, <2>0, <2>3, <3>1, <3>2
  <2> QED BY <2>1, <2>2, <2>3
<1>13. Ranked'
  <2>1. ASSUME NEW y \in Rows, NEW z \in Rows, y # z, SameKey(y, z), Exists(y)', Exists(z)'
        PROVE  jobs'[y].born # jobs'[z].born
    <3>1. Exists(y) /\ Exists(z) /\ SameKey(z, y)
      BY <1>6, <2>1 DEF SameKey
    <3>2. CASE z # x
      BY <1>12, <2>1, <3>1, <3>2
    <3>3. CASE y # x
      BY <1>12, <2>1, <3>1, <3>3
    <3> QED BY <2>1, <3>2, <3>3
  <2> QED BY <1>11, <2>1 DEF Ranked
<1>14. \A y \in Rows : jobs'[y].hash = jobs[y].hash
  BY <1>4, <1>5
<1>15. UniqueRevision'
  BY <1>6, <1>14 DEF KeysInv, UniqueRevision
<1>16. OneOpenDetail'
  <2>1. \A y \in Rows : TypeOf(y) = "source_detail" => jobs'[y] = jobs[y]
    BY <1>1, <1>5
  <2> QED BY <2>1 DEF KeysInv, OneOpenDetail, SameKey
<1> QED BY <1>13, <1>15, <1>16 DEF KeysInv

LEMMA DeletedKeys == ASSUME KeysInv, TypeOK', NEW s \in Sales, DeleteSale(s) PROVE KeysInv'
<1>1. \A x \in Rows : jobs'[x] = IF SaleOf(x) = s THEN AbsentRow ELSE jobs[x]
  BY DEF DeleteSale
<1>2. AbsentRow.status = "absent"
  BY DEF AbsentRow, NewRow
<1>3. \A x \in Rows : Exists(x)' => SaleOf(x) # s /\ jobs'[x] = jobs[x] /\ Exists(x)
  BY <1>1, <1>2 DEF Exists
<1>4. ASSUME NEW x \in Rows, SaleOf(x) # s
      PROVE  RowsOf(SaleOf(x), TypeOf(x))' = RowsOf(SaleOf(x), TypeOf(x))
  <2>1. ASSUME NEW k \in 1 .. MaxRows
        PROVE  Exists(<<SaleOf(x), TypeOf(x), k>>)' <=> Exists(<<SaleOf(x), TypeOf(x), k>>)
    <3>1. <<SaleOf(x), TypeOf(x), k>> \in Rows /\ SaleOf(<<SaleOf(x), TypeOf(x), k>>) # s
      BY <1>4, RowParts DEF Rows, SaleOf
    <3> QED BY <1>1, <3>1 DEF Exists
  <2> QED BY <2>1 DEF RowsOf
<1>5. Ranked'
  BY <1>3, <1>4 DEF KeysInv, Ranked
<1>6. UniqueRevision'
  BY <1>3 DEF KeysInv, UniqueRevision
<1>7. OneOpenDetail'
  <2>1. \A x \in Rows : CanRun(jobs'[x]) => Exists(x)'
    BY DEF CanRun, Exists
  <2> QED BY <1>3, <2>1 DEF KeysInv, OneOpenDetail
<1> QED BY <1>5, <1>6, <1>7 DEF KeysInv

\* The publication of a sale changes at most one row of a key: the newest that
\* is queued, or the first free one.
LEMMA EnqueueChanges ==
    ASSUME KeysInv, NEW h, NEW x \in Rows, NEW y \in Rows, SameKey(x, y), x # y,
           Enqueued(x, h) # jobs[x]
    PROVE  Enqueued(y, h) = jobs[y]
<1>1. SameKey(y, x)
  BY DEF SameKey
<1>2. ASSUME Rekeyable(x, h), Rekeyable(y, h) PROVE FALSE
  <2>1. jobs[y].born <= jobs[x].born /\ jobs[x].born <= jobs[y].born
    BY <1>1, <1>2 DEF Rekeyable
  <2>2. jobs[x].born \in Nat /\ jobs[y].born \in Nat
    BY DEF KeysInv, TypeOK, RowStates
  <2>3. jobs[x].born # jobs[y].born
    BY <1>2 DEF Rekeyable, KeysInv, Ranked, Exists
  <2> QED BY <2>1, <2>2, <2>3
<1>3. ASSUME FirstFree(x), FirstFree(y) PROVE FALSE
  <2>1. /\ x = <<SaleOf(x), TypeOf(x), x[3]>> /\ x[3] \in 1 .. MaxRows
        /\ y = <<SaleOf(x), TypeOf(x), y[3]>> /\ y[3] \in 1 .. MaxRows
    BY RowsOfExist DEF SameKey
  <2>2. x[3] # y[3]
    BY <2>1
  <2>3. x[3] < y[3] \/ y[3] < x[3]
    BY <2>1, <2>2
  <2>4. CASE x[3] < y[3]
    <3>1. Exists(<<SaleOf(y), TypeOf(y), x[3]>>)
      BY <1>3, <2>1, <2>4 DEF FirstFree
    <3> QED BY <1>3, <2>1, <3>1 DEF FirstFree, SameKey
  <2>5. CASE y[3] < x[3]
    <3>1. Exists(<<SaleOf(x), TypeOf(x), y[3]>>)
      BY <1>3, <2>1, <2>5 DEF FirstFree
    <3> QED BY <1>3, <2>1, <3>1 DEF FirstFree
  <2> QED BY <2>3, <2>4, <2>5
<1>4. CASE Rekeyable(x, h)
  BY <1>1, <1>2, <1>4 DEF Enqueued
<1>5. CASE ~Rekeyable(x, h)
  <2>1. Insertable(x, h) /\ ~\E z \in Rows : SameKey(x, z) /\ Rekeyable(z, h)
    BY <1>5 DEF Enqueued
  <2> QED BY <1>3, <2>1 DEF Enqueued, Insertable
<1> QED BY <1>4, <1>5

\* What a row becomes that the publication changes.
LEMMA EnqueuedRow ==
    ASSUME TypeOK, NEW x \in Rows, NEW h, Enqueued(x, h) # jobs[x]
    PROVE  /\ Enqueued(x, h).hash = h /\ Enqueued(x, h).status = "queued"
           /\ ~HashUsed(x, h)
           /\ Enqueued(x, h).born =
                IF Exists(x) THEN jobs[x].born
                ELSE Cardinality(RowsOf(SaleOf(x), TypeOf(x))) + 1
<1>0. jobs[x] \in RowStates
  BY DEF TypeOK
<1>1. CASE Rekeyable(x, h)
  <2>1. Enqueued(x, h) = [jobs[x] EXCEPT !.hash = h, !.attempts = 0, !.wait = 0]
    BY <1>1 DEF Enqueued
  <2>2. jobs[x].status = "queued" /\ ~HashUsed(x, h)
    BY <1>1 DEF Rekeyable
  <2> QED BY <1>0, <2>1, <2>2 DEF RowStates, Exists
<1>2. CASE ~Rekeyable(x, h)
  <2>1. Enqueued(x, h) = NewRow(h, Cardinality(RowsOf(SaleOf(x), TypeOf(x))) + 1) /\ Insertable(x, h)
    BY <1>2 DEF Enqueued
  <2> QED BY <2>1 DEF NewRow, Insertable, FirstFree
<1> QED BY <1>1, <1>2

LEMMA EnqueueKeys ==
    ASSUME KeysInv, TypeOK', NEW s \in Sales, NEW K \in Kinds, NEW hash \in [K -> Revisions],
           Enqueue(s, hash)
    PROVE  KeysInv'
<1> DEFINE New(x) == jobs'[x] # jobs[x]
           n(x) == Cardinality(RowsOf(SaleOf(x), TypeOf(x)))
<1>1. ASSUME NEW x \in Rows, New(x)
      PROVE  /\ SaleOf(x) = s /\ TypeOf(x) \in K
             /\ jobs'[x] = Enqueued(x, hash[TypeOf(x)])
             /\ Enqueued(x, hash[TypeOf(x)]) # jobs[x]
  BY <1>1 DEF Enqueue
<1>2. ASSUME NEW x \in Rows, New(x)
      PROVE  /\ jobs'[x].status = "queued" /\ Exists(x)'
             /\ jobs'[x].born = IF Exists(x) THEN jobs[x].born ELSE n(x) + 1
             /\ \A y \in Rows : SameKey(x, y) /\ Exists(y) => jobs[y].hash # jobs'[x].hash
  <2>1. ~HashUsed(x, jobs'[x].hash)
    BY <1>1, <1>2, EnqueuedRow DEF KeysInv
  <2> QED BY <1>1, <1>2, <2>1, EnqueuedRow DEF KeysInv, Exists, HashUsed
<1>3. ASSUME NEW x \in Rows, NEW y \in Rows, x # y, SameKey(x, y), New(x) PROVE ~New(y)
  <2>1. jobs'[y] = Enqueued(y, hash[TypeOf(x)])
    BY <1>1, <1>3 DEF Enqueue, SameKey
  <2> QED BY <1>1, <1>3, <2>1, EnqueueChanges
<1> HIDE DEF New
<1>4. \A x \in Rows : ~New(x) => jobs'[x] = jobs[x] /\ (Exists(x)' <=> Exists(x))
  BY DEF New, Exists
<1>5. \A x \in Rows : Exists(x) => Exists(x)'
  BY <1>2, <1>4
<1>6. ASSUME NEW x \in Rows
      PROVE  /\ RowsOf(SaleOf(x), TypeOf(x)) \subseteq RowsOf(SaleOf(x), TypeOf(x))'
             /\ RowsOf(SaleOf(x), TypeOf(x))' \in SUBSET (1 .. MaxRows)
  <2>1. \A k \in 1 .. MaxRows : <<SaleOf(x), TypeOf(x), k>> \in Rows
    BY RowParts DEF Rows
  <2> QED BY <1>5, <2>1 DEF RowsOf
<1>7. ASSUME NEW x \in Rows
      PROVE  n(x) \in Nat /\ Cardinality(RowsOf(SaleOf(x), TypeOf(x))') \in Nat
             /\ n(x) <= Cardinality(RowsOf(SaleOf(x), TypeOf(x))')
  BY <1>6, CountGrows
<1>8. ASSUME NEW x \in Rows, Exists(x) PROVE jobs[x].born \in Nat /\ jobs[x].born <= n(x)
  BY <1>8 DEF KeysInv, Ranked, TypeOK, RowStates
<1>9. ASSUME NEW x \in Rows, New(x), ~Exists(x)
      PROVE  n(x) + 1 <= Cardinality(RowsOf(SaleOf(x), TypeOf(x))')
  <2>1. x = <<SaleOf(x), TypeOf(x), x[3]>> /\ x[3] \in 1 .. MaxRows
    BY RowsOfExist
  <2>2. x[3] \in RowsOf(SaleOf(x), TypeOf(x))' \ RowsOf(SaleOf(x), TypeOf(x))
    BY <1>2, <1>9, <2>1 DEF RowsOf
  <2> QED BY <1>6, <2>2, CountGrows
<1> HIDE DEF n
<1>10. ASSUME NEW x \in Rows, Exists(x)'
       PROVE  jobs'[x].born <= Cardinality(RowsOf(SaleOf(x), TypeOf(x))')
  <2>1. CASE Exists(x)
    <3>1. jobs'[x].born = jobs[x].born
      BY <1>2, <1>4, <2>1
    <3> QED BY <1>7, <1>8, <2>1, <3>1
  <2>2. CASE ~Exists(x)
    BY <1>2, <1>4, <1>9, <1>10, <2>2
  <2> QED BY <2>1, <2>2
<1>11. ASSUME NEW x \in Rows, NEW y \in Rows, x # y, SameKey(x, y), Exists(x)', Exists(y)', ~New(y)
       PROVE  jobs'[x].born # jobs'[y].born /\ jobs'[x].hash # jobs'[y].hash
  <2>1. Exists(y) /\ jobs'[y] = jobs[y]
    BY <1>4, <1>11
  <2>2. CASE New(x)
    <3>1. jobs'[x].hash # jobs[y].hash
      BY <1>2, <1>11, <2>1, <2>2
    <3>2. CASE Exists(x)
      BY <1>2, <1>11, <2>1, <2>2, <3>1, <3>2 DEF KeysInv, Ranked
    <3>3. CASE ~Exists(x)
      <4>1. n(x) = n(y)
        BY <1>11 DEF n, SameKey
      <4>2. jobs[y].born \in Nat /\ jobs[y].born <= n(x) /\ n(x) \in Nat
        BY <1>7, <1>8, <2>1, <4>1
      <4>3. jobs'[x].born = n(x) + 1
        BY <1>2, <2>2, <3>3
      <4> QED BY <2>1, <3>1, <4>2, <4>3
    <3> QED BY <3>2, <3>3
  <2>3. CASE ~New(x)
    BY <1>4, <1>11, <2>1, <2>3 DEF KeysInv, Ranked, UniqueRevision
  <2> QED BY <2>2, <2>3
<1>12. ASSUME NEW x \in Rows, NEW y \in Rows, x # y, SameKey(x, y), Exists(x)', Exists(y)'
       PROVE  jobs'[x].born # jobs'[y].born /\ jobs'[x].hash # jobs'[y].hash
  <2>1. SameKey(y, x)
    BY <1>12 DEF SameKey
  <2>2. CASE ~New(y)
    BY <1>11, <1>12, <2>2
  <2>3. CASE New(y)
    <3>1. ~New(x)
      BY <1>3, <1>12, <2>1, <2>3
    <3> QED BY <1>11, <1>12, <2>1, <3>1
  <2> QED BY <2>2, <2>3
<1>13. OneOpenDetail'
  <2>1. \A x \in Rows : TypeOf(x) = "source_detail" => jobs'[x] = jobs[x]
    BY <1>1 DEF Kinds, New
  <2> QED BY <2>1 DEF KeysInv, OneOpenDetail, SameKey
<1> QED BY <1>10, <1>12, <1>13 DEF KeysInv, Ranked, UniqueRevision

-----------------------------------------------------------------------------
LEMMA StepLooks == TypeOK /\ PdfLooks /\ [Next]_vars => PdfLooks'
<1> SUFFICES ASSUME TypeOK, PdfLooks, [Next]_vars PROVE PdfLooks'
  OBVIOUS
<1>0. ASSUME look' = look PROVE PdfLooks'
  BY <1>0 DEF PdfLooks
<1>1. CASE ServerStep
  BY <1>0, <1>1 DEF ServerStep, ReplayClaim, RefuseClaim, LoseCall, GrantClaim, envVars
<1>2. CASE ClientStep
  BY <1>0, <1>2 DEF ClientStep, BeginCall, CallTimeout, PersistBackoff, envVars
<1>3. CASE WorkStep
  <2>1. ASSUME NEW w, NEW l, NEW status, NEW d,
               FinishJob(w, l, status, d) \/ PublishDetail(w, l) \/ ReuseDetail(w, l)
        PROVE  PdfLooks'
    BY <1>0, <2>1 DEF FinishJob, PublishDetail, ReuseDetail, envVars
  <2>2. ASSUME NEW w, NEW D, NEW d, Defer(w, D, d) PROVE PdfLooks'
    BY <1>0, <2>2 DEF Defer, envVars
  <2>3. ASSUME NEW w \in Processes, NEW l, NEW h, LookForGeneration(w, l, h) PROVE PdfLooks'
    <3>1. TypeOf(l.row) = "pdf" /\ (look' = look \/ look' = [look EXCEPT ![w] = {<<l, h>>}])
      BY <2>3 DEF LookForGeneration
    <3> QED BY <3>1 DEF PdfLooks, TypeOK
  <2>4. ASSUME NEW w \in Processes, MoveKey(w) \/ Crash(w) PROVE PdfLooks'
    BY <2>4 DEF MoveKey, Crash, PdfLooks, TypeOK
  <2> QED BY <1>3, <2>1, <2>2, <2>3, <2>4 DEF WorkStep
<1>4. CASE ProducerStep
  BY <1>0, <1>4
  DEF ProducerStep, Enqueue, EnqueueDetail, BacklogEnsure, BacklogClaim, envVars
<1>5. CASE EnvironmentStep
  BY <1>0, <1>5
  DEF EnvironmentStep, CloseSale, UnreadySale, OpenSale, SetSale, DeleteSale, ToggleDetails, Tick
<1>6. CASE UNCHANGED vars
  BY <1>0, <1>6 DEF vars
<1> QED BY <1>1, <1>2, <1>3, <1>4, <1>5, <1>6 DEF Next

LEMMA StepKeys == KeysInv /\ PdfLooks /\ [Next]_vars => KeysInv' /\ PdfLooks'
<1> SUFFICES ASSUME KeysInv, PdfLooks, [Next]_vars PROVE KeysInv' /\ PdfLooks'
  OBVIOUS
<1>1. TypeOK /\ TypeOK'
  BY StepType DEF KeysInv
<1> QED
  BY <1>1, StepLooks, StepShape, WorkedKeys, RekeyedKeys, InsertedKeys, RevivedKeys, EnqueueKeys,
     DeletedKeys

LEMMA InitKeys == Init => KeysInv /\ PdfLooks
<1> SUFFICES ASSUME Init PROVE KeysInv /\ PdfLooks
  OBVIOUS
<1>1. \A x \in Rows : ~Exists(x) /\ ~CanRun(jobs[x])
  BY DEF Init, Exists, CanRun, AbsentRow, NewRow
<1> QED
  BY <1>1, InitType DEF Init, KeysInv, Ranked, UniqueRevision, OneOpenDetail, PdfLooks

\* The rows of a key always carry different hashes, although a checkpoint looks for its new hash
\* in one step and moves its row in another, and the document backlog inserts rows in between.
THEOREM RevisionsUnique == Spec => []UniqueRevision
<1>1. KeysInv => UniqueRevision
  BY DEF KeysInv
<1> QED BY <1>1, InitKeys, StepKeys, PTL DEF Spec

\* enqueue_due_source_details never makes a second detail row beside one that
\* is queued, running or to be retried, and no other step revives one.
THEOREM DetailAlone == Spec => []OneOpenDetail
<1>1. KeysInv => OneOpenDetail
  BY DEF KeysInv
<1> QED BY <1>1, InitKeys, StepKeys, PTL DEF Spec

-----------------------------------------------------------------------------
(* New content goes to the newest text row: whenever an older row is still   *)
(* open, the newer ones of its key that are not cancelled all wait.          *)

NewerWait ==
    \A x, y \in Rows :
        /\ SameKey(x, y) /\ TypeOf(x) \in TextTypes /\ jobs[x].status \in Open
        /\ jobs[y].born > jobs[x].born /\ jobs[y].status \notin {"absent", "cancelled"}
        => jobs[y].status = "queued"

TextKept == \A x \in Rows : TypeOf(x) \in TextTypes => jobs'[x] = jobs[x]

\* Only the claim RPC takes a text row from the queue.
LEMMA TextStarts ==
    ASSUME TypeOK, [Next]_vars, NEW x \in Rows, TypeOf(x) \in TextTypes,
           jobs[x].status = "queued", jobs'[x].status = "running"
    PROVE  \E m : \E S \in SUBSET Rows : GrantClaim(m, S)
<1>1. jobs \in [Rows -> RowStates]
  BY DEF TypeOK
<1>2. jobs' # jobs /\ jobs'[x] # jobs[x]
  OBVIOUS
<1>3. ~WorkStep
  <2>1. ASSUME NEW l, jobs' = jobs \/ (Owns(l) /\ \E k : jobs' = [jobs EXCEPT ![l.row] = k])
        PROVE  FALSE
    BY <1>1, <1>2, <2>1 DEF Owns
  <2>2. \A w, l, d : /\ ~FinishJob(w, l, "completed", d)
                     /\ ~FinishJob(w, l, "cancelled", d)
                     /\ ~FinishJob(w, l, "failed", d)
    BY <2>1 DEF FinishJob
  <2>3. \A w, l : ~PublishDetail(w, l) /\ ~ReuseDetail(w, l)
    BY <2>1 DEF PublishDetail, ReuseDetail
  <2>4. ASSUME NEW w \in Processes,
               \/ \E l \in worker[w].leases, h \in Revisions : LookForGeneration(w, l, h)
               \/ MoveKey(w)
        PROVE  FALSE
    <3>1. PICK y \in Rows, h \in Revisions : CheckpointOf(y, h)
      BY <1>2, <2>4, Checkpoints
    <3>2. y # x
      BY <3>1 DEF CheckpointOf
    <3> QED BY <1>1, <1>2, <3>1, <3>2, CheckpointRow
  <2>5. ASSUME NEW w, NEW D, NEW d, Defer(w, D, d) PROVE FALSE
    <3>1. jobs'[x] = IF \E l \in D : l.row = x /\ Owns(l) THEN Restored(jobs[x], d) ELSE jobs[x]
      BY <2>5 DEF Defer
    <3> QED BY <1>2, <3>1 DEF Owns
  <2>6. \A w : ~Crash(w)
    BY <1>2 DEF Crash
  <2> QED BY <2>2, <2>3, <2>4, <2>5, <2>6 DEF WorkStep
<1>4. ~ProducerStep
  <2>1. ASSUME NEW y, NEW h, NEW n, jobs' = [jobs EXCEPT ![y] = NewRow(h, n)] PROVE FALSE
    BY <1>1, <1>2, <2>1 DEF NewRow
  <2>2. ASSUME NEW s, NEW hash, Enqueue(s, hash) PROVE FALSE
    <3>1. jobs'[x] = jobs[x] \/ jobs'[x] = Enqueued(x, hash[TypeOf(x)])
      BY <2>2 DEF Enqueue
    <3>2. ASSUME NEW h PROVE Enqueued(x, h).status # "running"
      BY <1>1 DEF Enqueued, NewRow, RowStates
    <3> QED BY <1>2, <3>1, <3>2
  <2>3. ASSUME NEW y \in Rows, NEW h, EnqueueDetail(y, h) PROVE FALSE
    BY <2>1, <2>3 DEF EnqueueDetail
  <2>4. ASSUME NEW y \in Rows, NEW h, BacklogEnsure(y, h) PROVE FALSE
    <3>1. CASE jobs' = Renewed(y)
      <4> DEFINE a == IF jobs[y].status \in {"completed", "cancelled"} \/ jobs[y].attempts >= MaxAttempts
                        THEN 0 ELSE jobs[y].attempts
                 q == [jobs[y] EXCEPT !.status = "queued", !.wait = 0, !.attempts = a]
                 n == Cardinality(RowsOf(SaleOf(y), TypeOf(y)))
      <4>1. q.status = "queued" /\ [q EXCEPT !.born = n].status = "queued"
        BY <1>1 DEF RowStates
      <4>2. \A z \in Rows : \A k : [jobs[z] EXCEPT !.born = k].status = jobs[z].status
        BY <1>1 DEF RowStates
      <4>3. \/ jobs'[x] = q \/ jobs'[x] = [q EXCEPT !.born = n]
            \/ jobs'[x] = [jobs[x] EXCEPT !.born = @ - 1] \/ jobs'[x] = jobs[x]
        BY <1>1, <3>1 DEF Renewed
      <4> HIDE DEF q
      <4> QED BY <4>1, <4>2, <4>3
    <3> QED BY <2>1, <2>4, <3>1 DEF BacklogEnsure
  <2>5. ASSUME NEW b, NEW r, NEW y \in Rows, BacklogClaim(b, r, y) PROVE FALSE
    <3>1. y # x
      BY <2>5 DEF BacklogClaim, TextTypes
    <3> QED BY <1>1, <1>2, <2>5, <3>1 DEF BacklogClaim
  <2> QED BY <2>2, <2>3, <2>4, <2>5 DEF ProducerStep
<1>5. ~EnvironmentStep
  <2>1. ASSUME Tick PROVE FALSE
    <3> DEFINE w == IF jobs[x].wait > 0 THEN jobs[x].wait - 1 ELSE 0
               a == IF Live(jobs[x]) THEN jobs[x].age + 1 ELSE jobs[x].age
    <3>1. jobs'[x] = [jobs[x] EXCEPT !.wait = w, !.age = a]
      BY <2>1 DEF Tick
    <3> HIDE DEF w, a
    <3> QED BY <1>1, <3>1 DEF RowStates
  <2>2. ASSUME NEW s, DeleteSale(s) PROVE FALSE
    <3>1. jobs'[x] = AbsentRow \/ jobs'[x] = jobs[x]
      BY <2>2 DEF DeleteSale
    <3> QED BY <1>2, <3>1 DEF AbsentRow, NewRow
  <2> QED
    BY <1>2, <2>1, <2>2
    DEF EnvironmentStep, CloseSale, UnreadySale, OpenSale, SetSale, ToggleDetails
<1>6. ~ClientStep /\ ~UNCHANGED vars
  BY <1>2 DEF ClientStep, BeginCall, CallTimeout, PersistBackoff, vars
<1>7. \A m : ~ReplayClaim(m) /\ ~RefuseClaim(m) /\ ~LoseCall(m)
  BY <1>2 DEF ReplayClaim, RefuseClaim, LoseCall
<1> QED BY <1>3, <1>4, <1>5, <1>6, <1>7 DEF Next, ServerStep

\* A claim cancels the open rows that a newer one replaces, unless they are live: then it takes
\* no row of their sale.
LEMMA GrantNewest ==
    ASSUME TypeOK, NewerWait, NEW m, NEW S \in SUBSET Rows, GrantClaim(m, S) PROVE NewerWait'
<1> DEFINE a == WithoutObsolete(jobs)
           b == WithoutSuperseded(a)
           kept == WithoutExhausted(b)
           stamp == <<m.req, grants[m.req] + 1>>
<1>1. jobs \in [Rows -> RowStates]
  BY DEF TypeOK
<1>2. ASSUME NEW j \in RowStates, NEW status
      PROVE  /\ Unlocked(j, status).status = status /\ Unlocked(j, status).born = j.born
             /\ Claimed(j, status).status = "running"
  BY DEF Unlocked, Claimed, RowStates
<1>3. ASSUME NEW z \in Rows
      PROVE  /\ a[z] \in RowStates /\ a[z].born = jobs[z].born
             /\ a[z] = jobs[z] \/ a[z].status = "cancelled"
  <2>1. a[z] = jobs[z] \/ a[z] = Unlocked(jobs[z], "cancelled")
    BY DEF WithoutObsolete
  <2> QED BY <1>1, <1>2, <2>1, UnlockedType DEF Statuses
<1> HIDE DEF a
<1>4. ASSUME NEW z \in Rows
      PROVE  /\ b[z] \in RowStates
             /\ b[z] = a[z] \/ b[z].status = "cancelled"
             /\ Waiting(a[z]) /\ Superseded(a, z) => b[z].status = "cancelled"
  <2>1. b[z] = IF Waiting(a[z]) /\ Superseded(a, z) THEN Unlocked(a[z], "cancelled") ELSE a[z]
    BY DEF WithoutSuperseded
  <2> QED BY <1>2, <1>3, <2>1, UnlockedType DEF Statuses
<1> HIDE DEF b
<1>5. ASSUME NEW z \in Rows
      PROVE  /\ kept[z] \in RowStates
             /\ b[z].status # "running" => kept[z] = b[z]
  <2>1. kept[z] = IF Expired(b[z]) /\ b[z].attempts >= MaxAttempts THEN Unlocked(b[z], "failed")
                  ELSE b[z]
    BY DEF WithoutExhausted
  <2> QED BY <1>4, <2>1, UnlockedType DEF Statuses, Expired
<1>6. /\ Housekept(jobs) = kept
      /\ \A z \in Rows : Live(jobs[z]) => kept[z] = jobs[z]
  BY <1>1, HousekeptStamps DEF Housekept, a, b
<1> HIDE DEF kept
<1>7. /\ \A z \in S : jobs'[z] = Claimed(kept[z], stamp) /\ Waiting(kept[z]) /\ SaleFree(kept, z)
      /\ \A z \in Rows \ S : jobs'[z] = kept[z]
  BY <1>6 DEF GrantClaim, Eligible
<1> HIDE DEF stamp
<1>8. AllWorked
  BY GrantWorked
<1> SUFFICES ASSUME NEW x \in Rows, NEW y \in Rows, SameKey(x, y), TypeOf(x) \in TextTypes,
                    jobs'[x].status \in Open, jobs'[y].born > jobs'[x].born,
                    jobs'[y].status \notin {"absent", "cancelled"}
             PROVE  jobs'[y].status = "queued"
  BY DEF NewerWait
<1>9. jobs[x].status \in Open /\ jobs[y].status = "queued" /\ jobs[y].born > jobs[x].born
  BY <1>8 DEF AllWorked, Worked, NewerWait
<1>10. ASSUME NEW z \in Rows, kept[z].status = "cancelled" PROVE jobs'[z].status = "cancelled"
  BY <1>5, <1>7, <1>10 DEF Waiting, Expired
<1>11. ASSUME NEW z \in Rows, b[z].status = "cancelled" PROVE jobs'[z].status = "cancelled"
  BY <1>5, <1>10, <1>11
<1>12. a[y] = jobs[y] /\ a[x] = jobs[x]
  <2>1. ASSUME NEW z \in Rows, a[z].status = "cancelled" PROVE jobs'[z].status = "cancelled"
    BY <1>4, <1>11, <2>1
  <2> QED BY <1>3, <2>1 DEF Open
<1>13. Superseded(a, x)
  BY <1>9, <1>12 DEF Superseded
<1>14. Live(jobs[x])
  <2>1. ~Waiting(jobs[x])
    BY <1>4, <1>11, <1>12, <1>13 DEF Open
  <2>2. jobs[x].age \in Int /\ Lease \in Int
    BY <1>1, NumbersAssumption DEF RowStates, Ages
  <2> QED BY <1>9, <2>1, <2>2 DEF Waiting, Expired, Live, Open
<1>15. y \notin S
  BY <1>6, <1>7, <1>14 DEF SaleFree, SameKey
<1>16. kept[y] = b[y] /\ (b[y].status = "queued" \/ b[y].status = "cancelled")
  BY <1>4, <1>5, <1>9, <1>12
<1> QED BY <1>7, <1>15, <1>16

LEMMA EnqueueNewest ==
    ASSUME KeysInv, NewerWait, NEW s \in Sales, NEW K \in Kinds, NEW hash \in [K -> Revisions],
           Enqueue(s, hash)
    PROVE  NewerWait'
<1> DEFINE New(z) == jobs'[z] # jobs[z]
           n(z) == Cardinality(RowsOf(SaleOf(z), TypeOf(z)))
<1>0. TypeOK /\ jobs \in [Rows -> RowStates]
  BY DEF KeysInv, TypeOK
<1>1. ASSUME NEW z \in Rows, New(z)
      PROVE  /\ jobs'[z].status = "queued" /\ (Exists(z) => jobs[z].status = "queued")
             /\ jobs'[z].born = IF Exists(z) THEN jobs[z].born ELSE n(z) + 1
  <2>1. jobs'[z] = Enqueued(z, hash[TypeOf(z)]) /\ Enqueued(z, hash[TypeOf(z)]) # jobs[z]
    BY <1>1 DEF Enqueue
  <2>2. Exists(z) => Rekeyable(z, hash[TypeOf(z)])
    BY <2>1 DEF Enqueued, Insertable, FirstFree
  <2> QED BY <1>0, <2>1, <2>2, EnqueuedRow DEF Rekeyable
<1> HIDE DEF New
<1> SUFFICES ASSUME NEW x \in Rows, NEW y \in Rows, SameKey(x, y), TypeOf(x) \in TextTypes,
                    jobs'[x].status \in Open, jobs'[y].born > jobs'[x].born,
                    jobs'[y].status \notin {"absent", "cancelled"}
             PROVE  jobs'[y].status = "queued"
  BY DEF NewerWait
<1>2. CASE New(y)
  BY <1>1, <1>2
<1>3. CASE ~New(y)
  <2>0. jobs'[y] = jobs[y] /\ Exists(y)
    BY <1>3 DEF New, Exists
  <2>1. CASE New(x) /\ ~Exists(x)
    <3>1. n(x) \in Nat /\ jobs[y].born \in Nat /\ jobs[y].born <= n(x)
      <4>1. jobs[y].born <= Cardinality(RowsOf(SaleOf(y), TypeOf(y)))
        BY <2>0 DEF KeysInv, Ranked
      <4>2. n(x) \in Nat
        BY CountType
      <4> QED BY <1>0, <4>1, <4>2 DEF SameKey, RowStates
    <3>2. jobs'[x].born = n(x) + 1
      BY <1>1, <2>1
    <3> HIDE DEF n
    <3> QED BY <2>0, <3>1, <3>2
  <2>2. CASE New(x) /\ Exists(x)
    BY <1>1, <2>0, <2>2 DEF NewerWait, Open
  <2>3. CASE ~New(x)
    BY <2>0, <2>3 DEF NewerWait, New
  <2> QED BY <2>1, <2>2, <2>3
<1> QED BY <1>2, <1>3

LEMMA StepNewest == KeysInv /\ PdfLooks /\ NewerWait /\ [Next]_vars => NewerWait'
<1> SUFFICES ASSUME KeysInv, PdfLooks, NewerWait, [Next]_vars PROVE NewerWait'
  OBVIOUS
<1>0. TypeOK /\ jobs \in [Rows -> RowStates]
  BY DEF KeysInv, TypeOK
<1>1. ASSUME TextKept PROVE NewerWait'
  BY <1>1 DEF TextKept, NewerWait, SameKey
<1>2. ASSUME AllWorked PROVE NewerWait'
  <2>1. CASE \E m : \E S \in SUBSET Rows : GrantClaim(m, S)
    BY <1>0, <2>1, GrantNewest
  <2>2. CASE ~\E m : \E S \in SUBSET Rows : GrantClaim(m, S)
    <3>1. \A z \in Rows : TypeOf(z) \in TextTypes /\ jobs[z].status = "queued"
                            => jobs'[z].status # "running"
      BY <1>0, <2>2, TextStarts
    <3> QED BY <1>2, <3>1 DEF AllWorked, Worked, NewerWait, SameKey
  <2> QED BY <2>1, <2>2
<1>3. ASSUME NEW x \in Rows, NEW h \in Revisions, Rekeyed(x, h) \/ Inserted(x, h) PROVE TextKept
  BY <1>0, <1>3 DEF Rekeyed, Inserted, TextKept, TextTypes
<1>4. ASSUME NEW x \in Rows, Revived(x) PROVE TextKept
  <2>1. TypeOf(x) = "pdf" /\ jobs' = Renewed(x)
    BY <1>4 DEF Revived
  <2>2. \A y \in Rows : TypeOf(y) \in TextTypes => y # x /\ ~SameKey(x, y)
    BY <2>1 DEF TextTypes, SameKey
  <2> QED BY <1>0, <2>1, <2>2 DEF Renewed, TextKept
<1>5. ASSUME NEW s, DeleteSale(s) PROVE NewerWait'
  <2>1. \A z \in Rows : jobs'[z] = jobs[z] \/ jobs'[z].status = "absent"
    BY <1>5 DEF DeleteSale, AbsentRow, NewRow
  <2> QED BY <2>1 DEF NewerWait, Open
<1> QED
  BY <1>0, <1>1, <1>2, <1>3, <1>4, <1>5, StepShape, EnqueueNewest

\* Coalescing is the only step that gives a text row new content, and the row is the newest one.
LEMMA StepCoalesces ==
    ASSUME KeysInv, PdfLooks, NewerWait, [Next]_vars,
           NEW x \in Rows, TypeOf(x) \in TextTypes, Exists(x), Exists(x)',
           jobs'[x].hash # jobs[x].hash,
           NEW y \in Rows, SameKey(x, y), jobs[y].status \notin {"absent", "cancelled"}
    PROVE  jobs[y].born <= jobs[x].born
<1>0. TypeOK /\ jobs \in [Rows -> RowStates]
  BY DEF KeysInv, TypeOK
<1>1. ~AllWorked
  BY DEF AllWorked, Worked
<1>2. ~\E z \in Rows, h \in Revisions : Rekeyed(z, h) \/ Inserted(z, h)
  BY <1>0 DEF Rekeyed, Inserted, TextTypes
<1>3. ~\E z \in Rows : Revived(z)
  <2> SUFFICES ASSUME NEW z \in Rows, Revived(z) PROVE FALSE
    OBVIOUS
  <2>1. TypeOf(z) = "pdf" /\ jobs' = Renewed(z)
    BY DEF Revived
  <2>2. x # z /\ ~SameKey(z, x)
    BY <2>1 DEF TextTypes, SameKey
  <2> QED BY <1>0, <2>1, <2>2 DEF Renewed
<1>4. ~\E s \in Sales : DeleteSale(s)
  BY DEF DeleteSale, AbsentRow, NewRow, Exists
<1>5. PICK s \in Sales, K \in Kinds : \E hash \in [K -> Revisions] : Enqueue(s, hash)
  BY <1>0, <1>1, <1>2, <1>3, <1>4, StepShape
<1>6. PICK hash \in [K -> Revisions] : Enqueue(s, hash)
  BY <1>5
<1>7. Enqueued(x, hash[TypeOf(x)]) # jobs[x]
  BY <1>6 DEF Enqueue
<1>8. Rekeyable(x, hash[TypeOf(x)])
  BY <1>7 DEF Enqueued, Insertable, FirstFree
<1>9. jobs[y].born \in Nat /\ jobs[x].born \in Nat
  BY <1>0 DEF RowStates
<1>10. ASSUME jobs[y].born > jobs[x].born PROVE FALSE
  <2>1. jobs[y].status = "queued"
    BY <1>8, <1>10 DEF NewerWait, Rekeyable, Open
  <2>2. jobs[y].born <= jobs[x].born
    BY <1>8, <2>1 DEF Rekeyable
  <2> QED BY <1>9, <1>10, <2>2
<1> QED BY <1>9, <1>10

\* The publication gives new content to no row that a newer one would replace: as long as an older
\* row is open, the newer ones wait, so the newest that waits is the newest of all.
THEOREM CoalescedNewest == Spec => CoalescedIsNewest
<1> DEFINE Coalesced ==
      \A x \in Rows :
         TypeOf(x) \in TextTypes /\ Exists(x) /\ Exists(x)' /\ jobs'[x].hash # jobs[x].hash
         => \A y \in Rows :
              SameKey(x, y) /\ jobs[y].status \notin {"absent", "cancelled"}
                => jobs[y].born <= jobs[x].born
<1>1. Init => NewerWait
  BY DEF Init, NewerWait, AbsentRow, NewRow
<1>2. KeysInv /\ PdfLooks /\ NewerWait /\ [Next]_vars => [Coalesced]_vars
  BY StepCoalesces
<1> QED
  BY <1>1, <1>2, InitKeys, StepKeys, StepNewest, PTL DEF Spec, CoalescedIsNewest
=============================================================================
