--------------------------- MODULE EnrichmentQueue ---------------------------
(***************************************************************************)
(* The enrichment job queue of the data pipeline: the table                *)
(* auction_enrichment_jobs, the claim RPC with its request receipts, the   *)
(* workers that call it over a lossy HTTP connection, the transactions     *)
(* that publish sales and enqueue work, and the document backlog, which    *)
(* claims PDF rows without going through the RPC.                          *)
(*                                                                         *)
(* Every SQL transaction is one action: the claim RPCs are serialised by   *)
(* the advisory lock 'immojudis:queue-claim-backoff', the other writers    *)
(* touch one row under its row lock.  Time is relative: a running row      *)
(* carries the age of its lease, a waiting row the time left until         *)
(* next_attempt_at, and Tick moves them all.                               *)
(***************************************************************************)
EXTENDS Integers, FiniteSets

CONSTANTS
    Sales,            \* auction_sales rows that may exist (source_url)
    JobTypes,         \* the job types in play, a subset of AllJobTypes
    Plans,            \* the sets of job types that the producers may call for
    Revisions,        \* input hashes: one per content of the sale
    MaxRows,          \* bound: rows of one (sale, job type)
    Workers,          \* queue workers, which claim through the RPC
    BacklogWorkers,   \* document backlog processes, which claim in SQL
    Requests,         \* request UUIDs in use at one time
    NoRequest,
    RpcTries,         \* CLAIM_RPC_ATTEMPTS
    ClaimLimit,       \* p_limit
    MaxAttempts,      \* max_attempts of a row
    Lease,            \* 30 minutes, in ticks
    RetryDelay,       \* 30 minutes after a failure, in ticks
    SaleStates,       \* the states a sale takes, "open" included
    MaxWait,          \* bound: the longest next_attempt_at delay
    MaxGate           \* bound: the longest provider backoff

AllJobTypes == {"pdf", "display_description", "fact_extraction", "source_detail"}
TextTypes == {"display_description", "fact_extraction"}
Families == {"source_detail", "enrichment"}

AllSaleStates == {"open", "unready", "closed", "deleted"}

ASSUME SetsAssumption ==
    /\ IsFiniteSet(Sales) /\ Revisions # {}
    /\ JobTypes \subseteq AllJobTypes /\ Plans \subseteq SUBSET JobTypes
    /\ {"open"} \subseteq SaleStates /\ SaleStates \subseteq AllSaleStates
    /\ BacklogWorkers \cap Workers = {}
    /\ NoRequest \notin Requests
ASSUME NumbersAssumption ==
    /\ MaxRows \in Nat /\ ClaimLimit \in Nat /\ MaxGate \in Nat
    /\ RpcTries \in Nat \ {0} /\ MaxAttempts \in Nat \ {0} /\ Lease \in Nat
    /\ RetryDelay \in Nat /\ MaxWait \in Nat /\ RetryDelay <= MaxWait

VARIABLES
    jobs,       \* the table: every row, absent ones included
    kinds,      \* one of Plans, drawn once
    sale,       \* what the claim reads of each sale
    detailsOn,  \* source_details_enabled and the source's own switches
    gate,       \* time left until queue_claim_not_before
    look,       \* of each process in a checkpoint, the PDF lease and the new hash it looked for
    receipt,    \* auction_enrichment_claim_receipts, by request
    grants,     \* history: reservations made under each request
    wire,       \* claim calls sent and not yet executed
    worker      \* each process: what it is doing and the leases it holds

vars == <<jobs, kinds, sale, detailsOn, gate, look, receipt, grants, wire, worker>>
queueVars == <<receipt, grants, wire>>
envVars == <<kinds, sale, detailsOn, gate, look>>

-----------------------------------------------------------------------------
(* Rows                                                                      *)

Rows == Sales \X JobTypes \X (1 .. MaxRows)
SaleOf(x) == x[1]
TypeOf(x) == x[2]
SameKey(x, y) == SaleOf(x) = SaleOf(y) /\ TypeOf(x) = TypeOf(y)

\* The value of locked_at that one claim writes: the request and the rank of
\* the reservation made under it.
Stamps == (Requests \cup {NoRequest}) \X Nat
NoStamp == <<NoRequest, 0>>

\* A row: born is its rank by created_at among the rows of its key, wait the
\* time left until next_attempt_at, age the time since locked_at (of a running
\* row, and no further than one tick past the lease).
Statuses == {"absent", "queued", "running", "failed", "completed", "cancelled"}
Attempts == 0 .. MaxAttempts
Ages == 0 .. Lease + 1
Waits == 0 .. MaxWait
RowStates ==
    [status : Statuses, hash : Revisions, attempts : Attempts,
     stamp : Stamps, age : Ages, wait : Waits, born : Nat]

NewRow(h, rank) ==
    [status |-> "queued", hash |-> h, attempts |-> 0, stamp |-> NoStamp,
     age |-> 0, wait |-> 0, born |-> rank]
AbsentRow == [NewRow(CHOOSE h \in Revisions : TRUE, 0) EXCEPT !.status = "absent"]

Exists(x) == jobs[x].status # "absent"
Live(j) == j.status = "running" /\ j.age <= Lease
Expired(j) == j.status = "running" /\ j.age > Lease
Waiting(j) == j.status \in {"queued", "failed"} \/ Expired(j)

\* The row leaves the running state (or never was in it): locked_at is null.
Unlocked(j, status) == [j EXCEPT !.status = status, !.stamp = NoStamp, !.age = 0]
\* Back to the queue without spending the attempt of the claim.
Restored(j, delay) ==
    [Unlocked(j, "queued") EXCEPT !.attempts = IF @ > 0 THEN @ - 1 ELSE 0, !.wait = delay]

-----------------------------------------------------------------------------
(* Processes                                                                 *)

Processes == Workers \cup BacklogWorkers
Leases == [row : Rows, hash : Revisions, attempts : Attempts, stamp : Stamps]
Receipts == [found : BOOLEAN, leases : SUBSET Leases]
Messages == [req : Requests, try : 1 .. RpcTries, family : Families]
ProcessStates ==
    {p \in [pc : {"idle", "calling", "working"}, req : Requests \cup {NoRequest},
            try : 0 .. RpcTries, family : Families, leases : SUBSET Leases] :
       p.pc = "idle" <=> p.req = NoRequest}

Idle == [pc |-> "idle", req |-> NoRequest, try |-> 0, family |-> "enrichment", leases |-> {}]
Calling(r, f) == [pc |-> "calling", req |-> r, try |-> 1, family |-> f, leases |-> {}]
Working(r, held) == [Idle EXCEPT !.pc = "working", !.req = r, !.leases = held]

\* (mutant) locked_at is left out of the compare-and-set.
OwnsByAttempt(l) == jobs[l.row].status = "running" /\ jobs[l.row].attempts = l.attempts

\* The write of a worker goes through iff the row is still the claimed attempt:
\* status = 'running' and the claimed attempt_count and locked_at.
Owns(l) ==
    /\ jobs[l.row].status = "running"
    /\ jobs[l.row].attempts = l.attempts
    /\ jobs[l.row].stamp = l.stamp

\* A UUID that nothing refers to any more stands for one never used before.
Fresh(r) ==
    /\ \A p \in Processes : worker[p].req # r
    /\ \A m \in wire : m.req # r
    /\ \A x \in Rows : jobs[x].stamp[1] # r

\* The process is done with the leases in D.
Drop(w, D) ==
    worker' = [worker EXCEPT ![w] =
                 IF worker[w].leases = D THEN Idle
                 ELSE [worker[w] EXCEPT !.leases = @ \ D]]

\* A checkpoint holds the lock of its sale's row.
Locked(s) == \E w \in Processes : \E p \in look[w] : SaleOf(p[1].row) = s

Send(w, r, k, f) == wire' = wire \cup {[req |-> r, try |-> k, family |-> f]}

-----------------------------------------------------------------------------
(* The claim RPC                                                             *)

\* claim_auction_enrichment_jobs_family first cancels the rows of sales that
\* are gone (a sale whose retention is not materialised is kept), ...
WithoutObsolete(jb) ==
    [x \in Rows |-> IF Waiting(jb[x]) /\ sale[SaleOf(x)] \notin {"open", "unready"}
                      THEN Unlocked(jb[x], "cancelled") ELSE jb[x]]

\* ... then the rows that a newer, not cancelled row of the key replaces, ...
Superseded(jb, x) ==
    \E y \in Rows : /\ SameKey(x, y) /\ jb[y].born > jb[x].born
                    /\ jb[y].status \notin {"absent", "cancelled"}

\* (mutant) the rows whose lease expired stay.
WithoutSupersededQueued(jb) ==
    [x \in Rows |-> IF jb[x].status \in {"queued", "failed"} /\ Superseded(jb, x)
                      THEN Unlocked(jb[x], "cancelled") ELSE jb[x]]

WithoutSuperseded(jb) ==
    [x \in Rows |-> IF Waiting(jb[x]) /\ Superseded(jb, x)
                      THEN Unlocked(jb[x], "cancelled") ELSE jb[x]]

\* (mutant) one attempt too many.
WithoutExhaustedLate(jb) ==
    [x \in Rows |-> IF Expired(jb[x]) /\ jb[x].attempts > MaxAttempts
                      THEN Unlocked(jb[x], "failed") ELSE jb[x]]

\* ... then fails the expired rows that have no attempt left.
WithoutExhausted(jb) ==
    [x \in Rows |-> IF Expired(jb[x]) /\ jb[x].attempts >= MaxAttempts
                      THEN Unlocked(jb[x], "failed") ELSE jb[x]]

Housekept(jb) == WithoutExhausted(WithoutSuperseded(WithoutObsolete(jb)))

\* (mutant) only the leases of the same job type are looked at.
SaleFreeOwnType(jb, x) == \A y \in Rows : SameKey(x, y) => ~Live(jb[y])

\* No lease of another row of the sale is live.
SaleFree(jb, x) == \A y \in Rows : SaleOf(y) = SaleOf(x) => ~Live(jb[y])

\* (mutant) a PDF row without attempts left still counts.
PdfPendingDead(jb, x) ==
    \E y \in Rows : /\ SaleOf(y) = SaleOf(x) /\ TypeOf(y) = "pdf"
                    /\ jb[y].status \in {"queued", "running", "failed"}

\* A description or a fact pass waits for the PDF row of its sale.
PdfPending(jb, x) ==
    \E y \in Rows : /\ SaleOf(y) = SaleOf(x) /\ TypeOf(y) = "pdf"
                    /\ jb[y].status \in {"queued", "running", "failed"}
                    /\ (jb[y].status = "running" \/ jb[y].attempts < MaxAttempts)

FamilyOf(x) == IF TypeOf(x) = "source_detail" THEN "source_detail" ELSE "enrichment"

\* (mutant) text rows do not wait for the PDF row.
EligibleAnyOrder(jb, x, family) ==
    /\ Waiting(jb[x]) /\ jb[x].wait = 0 /\ jb[x].attempts < MaxAttempts
    /\ FamilyOf(x) = family /\ sale[SaleOf(x)] = "open"
    /\ TypeOf(x) = "source_detail" => detailsOn
    /\ SaleFree(jb, x)

\* (mutant) the attempts are not limited.
EligibleExhausted(jb, x, family) ==
    /\ Waiting(jb[x]) /\ jb[x].wait = 0
    /\ FamilyOf(x) = family /\ sale[SaleOf(x)] = "open"
    /\ SaleFree(jb, x)

\* The rows that a claim of the family may reserve.
Eligible(jb, x, family) ==
    /\ Waiting(jb[x])
    /\ jb[x].wait = 0
    /\ jb[x].attempts < MaxAttempts
    /\ FamilyOf(x) = family
    /\ sale[SaleOf(x)] = "open"
    /\ TypeOf(x) = "source_detail" => detailsOn
    /\ TypeOf(x) \in TextTypes => ~PdfPending(jb, x)
    /\ SaleFree(jb, x)

Claimed(j, stamp) ==
    [j EXCEPT !.status = "running", !.attempts = @ + 1, !.stamp = stamp, !.age = 0]

LeaseOn(jb, x) ==
    [row |-> x, hash |-> jb[x].hash, attempts |-> jb[x].attempts, stamp |-> jb[x].stamp]

\* The answer reaches the process if it still waits for this very try; an
\* answer may also be lost, and an empty one ends the call.
Respond(m, held) ==
    \/ worker' = worker
    \/ \E w \in Workers :
          /\ worker[w].pc = "calling" /\ worker[w].req = m.req /\ worker[w].try = m.try
          /\ worker' = [worker EXCEPT ![w] = IF held = {} THEN Idle ELSE Working(m.req, held)]

\* The request already made its reservation: its leases, if all are live.
Replayed(r) == IF \A l \in receipt[r].leases : Owns(l) /\ Live(jobs[l.row])
                 THEN receipt[r].leases ELSE {}

\* (mutant) a receipt whose leases are gone does not count.
HasReceiptIfLive(r) == receipt[r].found /\ Replayed(r) # {}

HasReceipt(r) == receipt[r].found

ReplayClaim(m) ==
    /\ m \in wire
    /\ HasReceipt(m.req)
    /\ wire' = wire \ {m}
    /\ Respond(m, Replayed(m.req))
    /\ UNCHANGED <<jobs, receipt, grants, envVars>>

\* During a provider backoff the RPC answers nothing and leaves no receipt.
RefuseClaim(m) ==
    /\ m \in wire
    /\ ~HasReceipt(m.req)
    /\ gate > 0
    /\ wire' = wire \ {m}
    /\ Respond(m, {})
    /\ UNCHANGED <<jobs, receipt, grants, envVars>>

\* Housekeeping, the reservation of the rows in S and the receipt, in one
\* transaction.  S is any set of eligible rows within the limit: the order by
\* priority and age is left out, and SKIP LOCKED leaves out the sales that a
\* checkpoint holds.
GrantClaim(m, S) ==
    LET kept == Housekept(jobs)
        stamp == <<m.req, grants[m.req] + 1>>
        after == [x \in Rows |-> IF x \in S THEN Claimed(kept[x], stamp) ELSE kept[x]]
        held == {LeaseOn(after, x) : x \in S}
    IN  /\ m \in wire
        /\ ~HasReceipt(m.req)
        /\ gate = 0
        /\ Cardinality(S) <= ClaimLimit
        /\ \A x \in S : Eligible(kept, x, m.family) /\ ~Locked(SaleOf(x))
        /\ jobs' = after
        /\ receipt' = [receipt EXCEPT ![m.req] = [found |-> TRUE, leases |-> held]]
        /\ grants' = [grants EXCEPT ![m.req] = @ + 1]
        /\ wire' = wire \ {m}
        /\ Respond(m, held)
        /\ UNCHANGED envVars

\* A call that never reaches the server, or that its gateway refuses.
LoseCall(m) ==
    /\ m \in wire
    /\ wire' = wire \ {m}
    /\ UNCHANGED <<jobs, receipt, grants, envVars, worker>>

-----------------------------------------------------------------------------
(* The client of the claim RPC                                               *)

\* One UUID per logical call.
BeginCall(w, r, family) ==
    /\ worker[w].pc = "idle"
    /\ Fresh(r)
    /\ worker' = [worker EXCEPT ![w] = Calling(r, family)]
    /\ Send(w, r, 1, family)
    /\ receipt' = [receipt EXCEPT ![r] = [found |-> FALSE, leases |-> {}]]
    /\ grants' = [grants EXCEPT ![r] = 0]
    /\ UNCHANGED <<jobs, envVars>>

\* A timeout or a retryable status: the same UUID is sent again, and after the
\* last try the call fails and the worker run with it.
CallTimeout(w) ==
    /\ worker[w].pc = "calling"
    /\ IF worker[w].try < RpcTries
         THEN /\ worker' = [worker EXCEPT ![w].try = @ + 1]
              /\ Send(w, worker[w].req, worker[w].try + 1, worker[w].family)
         ELSE /\ worker' = [worker EXCEPT ![w] = Idle]
              /\ UNCHANGED wire
    /\ UNCHANGED <<jobs, receipt, grants, envVars>>

\* The gateway answers with a long Retry-After: the delay is made durable, never
\* shortened, and the call is given up.
PersistBackoff(w, d) ==
    /\ worker[w].pc = "calling"
    /\ \E m \in wire : /\ m.req = worker[w].req /\ m.try = worker[w].try
                       /\ wire' = wire \ {m}
    /\ gate' = IF d > gate THEN d ELSE gate
    /\ worker' = [worker EXCEPT ![w] = Idle]
    /\ UNCHANGED <<jobs, receipt, grants, kinds, sale, detailsOn, look>>

-----------------------------------------------------------------------------
(* What a worker does with its leases                                        *)

\* Each claimed row of a sale is finished by a call of its own, whatever the
\* publication before it did.
FinishJob(w, l, status, d) ==
    /\ l \in worker[w].leases /\ look[w] = {}
    /\ TypeOf(l.row) = "source_detail" => status # "completed"
    /\ jobs' = IF ~Owns(l) THEN jobs
               ELSE [jobs EXCEPT ![l.row] =
                       IF status = "failed" THEN [Unlocked(@, status) EXCEPT !.wait = d]
                       ELSE Unlocked(@, status)]
    /\ Drop(w, {l})
    /\ UNCHANGED <<queueVars, envVars>>

\* publish_source_revision completes a detail row in the transaction that
\* writes the sale, and only under a live lease.
PublishDetail(w, l) ==
    /\ l \in worker[w].leases /\ look[w] = {}
    /\ ~Locked(SaleOf(l.row))
    /\ TypeOf(l.row) = "source_detail"
    /\ jobs' = IF Owns(l) /\ Live(jobs[l.row])
                 THEN [jobs EXCEPT ![l.row] = Unlocked(@, "completed")] ELSE jobs
    /\ Drop(w, {l})
    /\ UNCHANGED <<queueVars, envVars>>

\* complete_already_verified_detail_job: nothing to fetch, the attempt is given
\* back.
ReuseDetail(w, l) ==
    /\ l \in worker[w].leases /\ look[w] = {}
    /\ TypeOf(l.row) = "source_detail"
    /\ jobs' = IF Owns(l) /\ Live(jobs[l.row])
                 THEN [jobs EXCEPT ![l.row] = [Restored(@, @.wait) EXCEPT !.status = "completed"]]
                 ELSE jobs
    /\ Drop(w, {l})
    /\ UNCHANGED <<queueVars, envVars>>

\* A prerequisite, a budget or a deadline: the rows go back to the queue in one
\* transaction.
Defer(w, D, d) ==
    /\ D # {} /\ D \subseteq worker[w].leases /\ look[w] = {}
    /\ jobs' = [x \in Rows |-> IF \E l \in D : l.row = x /\ Owns(l)
                                 THEN Restored(jobs[x], d) ELSE jobs[x]]
    /\ Drop(w, D)
    /\ UNCHANGED <<queueVars, envVars>>

HashUsed(x, h) == \E y \in Rows : SameKey(x, y) /\ Exists(y) /\ jobs[y].hash = h

StillKeyed(l) == Owns(l) /\ jobs[l.row].hash = l.hash
Retired(l) == IF StillKeyed(l) THEN [jobs EXCEPT ![l.row] = Unlocked(@, "cancelled")] ELSE jobs

\* A durable checkpoint writes the sale and keeps the lock of its row.  It first looks for a row of
\* the new generation: such a row retires the claimed one, if it is still the claim's.
LookForGeneration(w, l, h) ==
    /\ l \in worker[w].leases /\ look[w] = {}
    /\ TypeOf(l.row) = "pdf" /\ l.hash # h
    /\ sale[SaleOf(l.row)] # "deleted" /\ ~Locked(SaleOf(l.row))
    /\ IF HashUsed(l.row, h)
         THEN jobs' = Retired(l) /\ look' = look
         ELSE look' = [look EXCEPT ![w] = {<<l, h>>}] /\ jobs' = jobs
    /\ UNCHANGED <<queueVars, kinds, sale, detailsOn, gate, worker>>

\* (mutant) the update without its savepoint.
MoveKeyBlind(w) ==
    /\ \E p \in look[w] :
          jobs' = IF StillKeyed(p[1]) THEN [jobs EXCEPT ![p[1].row].hash = p[2]] ELSE jobs
    /\ look' = [look EXCEPT ![w] = {}]
    /\ UNCHANGED <<queueVars, kinds, sale, detailsOn, gate, worker>>

\* Then it moves the claimed row to the new hash.  A row that was inserted in between violates the
\* table's unique key: the savepoint undoes the move, and the claimed row is retired after all.
MoveKey(w) ==
    /\ \E p \in look[w] :
          jobs' = IF HashUsed(p[1].row, p[2]) THEN Retired(p[1])
                  ELSE IF StillKeyed(p[1]) THEN [jobs EXCEPT ![p[1].row].hash = p[2]]
                  ELSE jobs
    /\ look' = [look EXCEPT ![w] = {}]
    /\ UNCHANGED <<queueVars, kinds, sale, detailsOn, gate, worker>>

\* The process dies; its leases stay in the table, its calls on the wire.
Crash(w) ==
    /\ worker[w].pc # "idle"
    /\ worker' = [worker EXCEPT ![w] = Idle]
    /\ look' = [look EXCEPT ![w] = {}]
    /\ UNCHANGED <<jobs, queueVars, kinds, sale, detailsOn, gate>>

-----------------------------------------------------------------------------
(* Producers                                                                 *)

RowsOf(s, t) == {k \in 1 .. MaxRows : Exists(<<s, t, k>>)}
FirstFree(x) == /\ ~Exists(x)
                /\ \A k \in 1 .. MaxRows : k < x[3] => Exists(<<SaleOf(x), TypeOf(x), k>>)

\* _coalesce_queued_display_revisions: the newest queued text row takes the new
\* hash, unless a row has that hash.
Rekeyable(x, h) ==
    /\ TypeOf(x) \in TextTypes
    /\ jobs[x].status = "queued" /\ jobs[x].hash # h
    /\ ~HashUsed(x, h)
    /\ \A y \in Rows : SameKey(x, y) /\ jobs[y].status = "queued" => jobs[y].born <= jobs[x].born

\* Otherwise: insert ... on conflict do nothing.
Insertable(x, h) == FirstFree(x) /\ ~HashUsed(x, h)

Enqueued(x, h) ==
    IF Rekeyable(x, h)
      THEN [jobs[x] EXCEPT !.hash = h, !.attempts = 0, !.wait = 0]
    ELSE IF Insertable(x, h) /\ ~\E y \in Rows : SameKey(x, y) /\ Rekeyable(y, h)
      THEN NewRow(h, Cardinality(RowsOf(SaleOf(x), TypeOf(x))) + 1)
    ELSE jobs[x]

\* The publication of a sale enqueues the kinds of work that its new content
\* calls for, in its own transaction: hash[t] is the revision for kind t.
Enqueue(s, hash) ==
    /\ sale[s] \in {"open", "unready"} /\ ~Locked(s)
    /\ DOMAIN hash \subseteq kinds
    /\ \A t \in DOMAIN hash :
          \E k \in 1 .. MaxRows : \/ ~Exists(<<s, t, k>>)
                                  \/ jobs[<<s, t, k>>].hash = hash[t]
                                  \/ Rekeyable(<<s, t, k>>, hash[t])
    /\ jobs' = [x \in Rows |-> IF SaleOf(x) = s /\ TypeOf(x) \in DOMAIN hash
                                 THEN Enqueued(x, hash[TypeOf(x)]) ELSE jobs[x]]
    /\ UNCHANGED <<queueVars, envVars, worker>>

\* (mutant) a failed row that will be retried does not count as open.
EnqueueDetailTwice(x, h) ==
    /\ TypeOf(x) = "source_detail" /\ TypeOf(x) \in kinds
    /\ detailsOn /\ sale[SaleOf(x)] = "open"
    /\ Insertable(x, h)
    /\ \A y \in Rows : SameKey(x, y) => jobs[y].status \notin {"queued", "running"}
    /\ jobs' = [jobs EXCEPT ![x] = NewRow(h, Cardinality(RowsOf(SaleOf(x), TypeOf(x))) + 1)]
    /\ UNCHANGED <<queueVars, envVars, worker>>

\* enqueue_due_source_details: a fresh signature, and only when the alias has no
\* row still open.
EnqueueDetail(x, h) ==
    /\ TypeOf(x) = "source_detail" /\ TypeOf(x) \in kinds
    /\ detailsOn /\ sale[SaleOf(x)] = "open"
    /\ Insertable(x, h)
    /\ \A y \in Rows : SameKey(x, y) =>
          /\ jobs[y].status \notin {"queued", "running"}
          /\ jobs[y].status = "failed" => jobs[y].attempts >= MaxAttempts
    /\ jobs' = [jobs EXCEPT ![x] = NewRow(h, Cardinality(RowsOf(SaleOf(x), TypeOf(x))) + 1)]
    /\ UNCHANGED <<queueVars, envVars, worker>>

-----------------------------------------------------------------------------
(* The document backlog                                                      *)

\* ENSURE_JOB_SQL on an existing row: queued again, with a new budget if it had
\* settled or was exhausted; a settled row also becomes the newest of its key.
Renewed(x) ==
    LET settled == jobs[x].status \in {"completed", "cancelled"}
        requeued == [jobs[x] EXCEPT
                       !.status = "queued", !.wait = 0,
                       !.attempts = IF settled \/ @ >= MaxAttempts THEN 0 ELSE @]
    IN  IF ~settled THEN [jobs EXCEPT ![x] = requeued]
        ELSE [y \in Rows |->
                IF y = x THEN [requeued EXCEPT !.born = Cardinality(RowsOf(SaleOf(x), TypeOf(x)))]
                ELSE IF SameKey(x, y) /\ jobs[y].born > jobs[x].born
                  THEN [jobs[y] EXCEPT !.born = @ - 1]
                ELSE jobs[y]]

\* Its insertion needs no lock of the sale that a checkpoint would keep from it.
BacklogEnsure(x, h) ==
    /\ BacklogWorkers # {}
    /\ TypeOf(x) = "pdf" /\ TypeOf(x) \in kinds /\ sale[SaleOf(x)] # "deleted"
    /\ \/ /\ Insertable(x, h)
          /\ jobs' = [jobs EXCEPT ![x] = NewRow(h, Cardinality(RowsOf(SaleOf(x), TypeOf(x))) + 1)]
       \/ /\ Exists(x) /\ jobs[x].hash = h /\ jobs[x].status # "running"
          /\ jobs' = Renewed(x)
    /\ UNCHANGED <<queueVars, envVars, worker>>

\* (mutant) without "not exists (... another live lease of the sale ...)".
BacklogClaimBusySale(b, r, x) ==
    /\ worker[b].pc = "idle" /\ Fresh(r)
    /\ TypeOf(x) = "pdf" /\ Waiting(jobs[x]) /\ jobs[x].attempts < MaxAttempts
    /\ sale[SaleOf(x)] = "open"
    /\ jobs' = [jobs EXCEPT ![x] = Claimed(@, <<r, 1>>)]
    /\ worker' = [worker EXCEPT ![b] = Working(r, {LeaseOn(jobs', x)})]
    /\ receipt' = [receipt EXCEPT ![r] = [found |-> FALSE, leases |-> {}]]
    /\ grants' = [grants EXCEPT ![r] = 1]
    /\ UNCHANGED <<wire, envVars>>

\* CLAIM_JOB_SQL: no receipt, no housekeeping, no regard to next_attempt_at.
BacklogClaim(b, r, x) ==
    /\ worker[b].pc = "idle"
    /\ Fresh(r)
    /\ TypeOf(x) = "pdf"
    /\ Waiting(jobs[x])
    /\ jobs[x].attempts < MaxAttempts
    /\ sale[SaleOf(x)] = "open" /\ ~Locked(SaleOf(x))
    /\ \A y \in Rows : y # x /\ SaleOf(y) = SaleOf(x) => ~Live(jobs[y])
    /\ jobs' = [jobs EXCEPT ![x] = Claimed(@, <<r, 1>>)]
    /\ worker' = [worker EXCEPT ![b] = Working(r, {LeaseOn(jobs', x)})]
    /\ receipt' = [receipt EXCEPT ![r] = [found |-> FALSE, leases |-> {}]]
    /\ grants' = [grants EXCEPT ![r] = 1]
    /\ UNCHANGED <<wire, envVars>>

-----------------------------------------------------------------------------
(* The catalogue and the clock                                               *)

\* A sale is "open" (a status of the claim's list, retention not reached),
\* "unready" (retention_deadline_materialized is false), "closed" or "deleted".
SetSale(s, from, to) ==
    /\ sale[s] \in from /\ to \in SaleStates /\ ~Locked(s)
    /\ sale' = [sale EXCEPT ![s] = to]
    /\ UNCHANGED <<jobs, queueVars, kinds, detailsOn, gate, look, worker>>
CloseSale(s) == SetSale(s, {"open", "unready"}, "closed")
UnreadySale(s) == SetSale(s, {"open"}, "unready")
OpenSale(s) == SetSale(s, {"unready", "closed", "deleted"}, "open")

\* The foreign key of the queue cascades.
DeleteSale(s) ==
    /\ sale[s] # "deleted" /\ "deleted" \in SaleStates /\ ~Locked(s)
    /\ sale' = [sale EXCEPT ![s] = "deleted"]
    /\ jobs' = [x \in Rows |-> IF SaleOf(x) = s THEN AbsentRow ELSE jobs[x]]
    /\ UNCHANGED <<queueVars, kinds, detailsOn, gate, look, worker>>

ToggleDetails ==
    /\ "source_detail" \in kinds
    /\ detailsOn' = ~detailsOn
    /\ UNCHANGED <<jobs, queueVars, kinds, sale, gate, look, worker>>

Tick ==
    /\ jobs' = [x \in Rows |->
                  [jobs[x] EXCEPT !.wait = IF @ > 0 THEN @ - 1 ELSE 0,
                                  !.age = IF Live(jobs[x]) THEN @ + 1 ELSE @]]
    /\ gate' = IF gate > 0 THEN gate - 1 ELSE 0
    /\ UNCHANGED <<kinds, sale, detailsOn, look, queueVars, worker>>

-----------------------------------------------------------------------------
Init ==
    /\ jobs = [x \in Rows |-> AbsentRow]
    /\ kinds \in Plans
    /\ sale = [s \in Sales |-> "open"]
    /\ detailsOn = TRUE
    /\ gate = 0
    /\ look = [p \in Processes |-> {}]
    /\ receipt = [r \in Requests |-> [found |-> FALSE, leases |-> {}]]
    /\ grants = [r \in Requests |-> 0]
    /\ wire = {}
    /\ worker = [p \in Processes |-> Idle]

ServerStep ==
    \E m \in wire : \/ ReplayClaim(m) \/ RefuseClaim(m) \/ LoseCall(m)
                    \/ \E S \in SUBSET Rows : GrantClaim(m, S)
ClientStep ==
    \E w \in Workers : \/ \E r \in Requests, f \in Families : BeginCall(w, r, f)
                       \/ CallTimeout(w)
                       \/ \E d \in 1 .. MaxGate : PersistBackoff(w, d)
WorkStep ==
    \E w \in Processes :
       \/ \E l \in worker[w].leases :
             \/ FinishJob(w, l, "completed", 0)
             \/ FinishJob(w, l, "cancelled", 0)
             \/ \E d \in RetryDelay .. MaxWait : FinishJob(w, l, "failed", d)
             \/ PublishDetail(w, l)
             \/ ReuseDetail(w, l)
             \/ \E h \in Revisions : LookForGeneration(w, l, h)
       \/ \E D \in SUBSET worker[w].leases, d \in 0 .. MaxWait : Defer(w, D, d)
       \/ MoveKey(w)
       \/ Crash(w)
ProducerStep ==
    \/ \E s \in Sales, K \in SUBSET (kinds \ {"source_detail"}), text \in Revisions, pdf \in Revisions :
          K # {} /\ Enqueue(s, [t \in K |-> IF t = "pdf" THEN pdf ELSE text])
    \/ \E x \in Rows, h \in Revisions : EnqueueDetail(x, h) \/ BacklogEnsure(x, h)
    \/ \E b \in BacklogWorkers, r \in Requests, x \in Rows : BacklogClaim(b, r, x)
EnvironmentStep ==
    \/ \E s \in Sales : CloseSale(s) \/ UnreadySale(s) \/ OpenSale(s) \/ DeleteSale(s)
    \/ ToggleDetails
    \/ Tick

Next == ServerStep \/ ClientStep \/ WorkStep \/ ProducerStep \/ EnvironmentStep

Spec == Init /\ [][Next]_vars

-----------------------------------------------------------------------------
(* Fairness: time passes; the cron keeps starting workers; a worker that is  *)
(* not killed ends its call and settles its leases; a network that loses     *)
(* calls still delivers some, and the aging of priorities (one point an hour *)
(* against bonuses that are bounded) lets no claimable row be passed over    *)
(* for ever.                                                                 *)

Fairness ==
    /\ WF_vars(Tick)
    /\ \A w \in Workers :
          /\ \A f \in Families : SF_vars(\E r \in Requests : BeginCall(w, r, f))
          /\ WF_vars(CallTimeout(w))
    /\ \A w \in Processes :
          /\ SF_vars(\E l \in worker[w].leases : FinishJob(w, l, "completed", 0))
          /\ WF_vars(MoveKey(w))
    /\ \A x \in Rows :
          SF_vars(\E w \in Processes : \E l \in worker[w].leases :
                     l.row = x /\ Owns(l) /\ FinishJob(w, l, "completed", 0))
    /\ \A r \in Requests : SF_vars(\E m \in wire : m.req = r /\ LoseCall(m))
    /\ \A x \in Rows :
          SF_vars(\E m \in wire, S \in SUBSET Rows : x \in S /\ GrantClaim(m, S))
    /\ SF_vars(\E m \in wire, S \in SUBSET Rows : GrantClaim(m, S))

FairSpec == Spec /\ Fairness

-----------------------------------------------------------------------------
(* Properties                                                                *)

\* Types, of the rows, the calls in flight and the processes alike.
TypeOK ==
    /\ jobs \in [Rows -> RowStates]
    /\ kinds \in Plans /\ sale \in [Sales -> AllSaleStates]
    /\ detailsOn \in BOOLEAN
    /\ gate \in 0 .. MaxGate
    /\ look \in [Processes -> SUBSET (Leases \X Revisions)]
    /\ receipt \in [Requests -> Receipts]
    /\ grants \in [Requests -> Nat]
    /\ wire \subseteq Messages
    /\ worker \in [Processes -> ProcessStates]

\* Two processes never both pass the compare-and-set of one row: a worker whose
\* lease expired cannot settle the attempt of the worker that came after it.
OneHolder ==
    \A w, v \in Processes : w # v =>
        \A l \in worker[w].leases, m \in worker[v].leases :
            l.row = m.row => ~(Owns(l) /\ Owns(m))

\* The live leases of one sale all come from the same claim, whichever path made
\* it: the RPC of either family or the document backlog.
SaleExclusive ==
    \A x, y \in Rows :
        SaleOf(x) = SaleOf(y) /\ Live(jobs[x]) /\ Live(jobs[y])
            => jobs[x].stamp = jobs[y].stamp

\* A description or a fact pass is never running beside the PDF reading of its
\* sale, not even in the same batch: its context would miss the documents.
PdfTextApart ==
    \A x, y \in Rows :
        SaleOf(x) = SaleOf(y) /\ TypeOf(x) = "pdf" /\ TypeOf(y) \in TextTypes
            => ~(Live(jobs[x]) /\ Live(jobs[y]))

\* However often its calls are repeated, delayed or delivered twice, a request
\* reserves rows at most once.
OneReservationPerRequest == \A r \in Requests : grants[r] <= 1

\* However a checkpoint's look, its move and the insertions of the other producers interleave, no
\* two rows of a key carry one hash: what the unique constraint on (source_url, job_type,
\* input_hash) would refuse is retired instead (the pre-check, the savepoint).
UniqueRevision ==
    \A x, y \in Rows :
        x # y /\ SameKey(x, y) /\ Exists(x) /\ Exists(y) => jobs[x].hash # jobs[y].hash

\* An alias has at most one detail row that can still run.
CanRun(j) == \/ j.status \in {"queued", "running"}
             \/ j.status = "failed" /\ j.attempts < MaxAttempts
OneOpenDetail ==
    \A x, y \in Rows :
        SameKey(x, y) /\ TypeOf(x) = "source_detail" /\ CanRun(jobs[x]) /\ CanRun(jobs[y])
            => x = y

\* Coalescing gives new content only to the newest text row that is not cancelled, however leases
\* expired, late workers gave rows back and claims went by: the next claim would throw the content
\* away with any other row.
CoalescedIsNewest ==
    [][\A x \in Rows :
         TypeOf(x) \in TextTypes /\ Exists(x) /\ Exists(x)' /\ jobs'[x].hash # jobs[x].hash
         => \A y \in Rows :
              SameKey(x, y) /\ jobs[y].status \notin {"absent", "cancelled"}
                => jobs[y].born <= jobs[x].born]_vars

\* A dead letter (failed, no attempt left) is not brought back: docs/
\* pipeline-reliability.md:51, "n'est plus jamais pris en charge".
DeadLetterStays ==
    [][\A x \in Rows :
         jobs[x].status = "failed" /\ jobs[x].attempts >= MaxAttempts
            => jobs'[x].status \in {"failed", "cancelled", "absent"}]_vars

\* A lease does not outlive its worker for ever: whatever crashes, each running
\* row is settled, queued again or claimed anew.
LeaseEnds ==
    \A x \in Rows, r \in Requests :
        (jobs[x].status = "running" /\ jobs[x].stamp[1] = r)
            ~> ~(jobs[x].status = "running" /\ jobs[x].stamp[1] = r)

\* A queued row is claimed, or leaves the queue.
QueuedIsTaken ==
    \A x \in Rows : jobs[x].status = "queued" ~> jobs[x].status # "queued"

-----------------------------------------------------------------------------
(* The queue implements SaleLease: the holder of a sale is the claim of its  *)
(* live rows.                                                                *)

LiveRows(s) == {x \in Rows : SaleOf(x) = s /\ Live(jobs[x])}
SaleHolder == [s \in Sales |-> IF LiveRows(s) = {} THEN NoStamp
                               ELSE jobs[CHOOSE x \in LiveRows(s) : TRUE].stamp]
Abstract == INSTANCE SaleLease WITH holder <- SaleHolder, LeaseIds <- Requests \X {1}, NoLease <- NoStamp

\* Every step of the queue is a claim of free sales, the end of a lease, or
\* nothing to the sales.
ImplementsSaleLease == Abstract!Spec
=============================================================================
