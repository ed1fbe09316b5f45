# Verification of Immojudis

TLA+ models, TLC instances and TLAPS proofs for the concurrent core of
Immojudis: the work queue that enriches the catalogue, the scheduler of the
collections, the account's checkouts and Stripe webhooks, the daily reminders,
and the replies that professionals send to the information agent. Each
definition is translated from the code named for it in `PROJECT.json` (`map`);
paths below are relative to the repository (`src/` in `PROJECT.json`).

## 1. Inventory

The product is a PostgreSQL (Supabase) catalogue, Python workers started by
GitHub Actions (`services/data-pipeline`), and a web application (`src/`, server
functions, cron routes, webhooks). Nothing talks to anything else directly: all
coordination goes through rows of the database, claimed and released by SQL
functions, and through services that call back (Stripe, Resend, GitHub). The
behaviours that are hard to test are the interleavings of transactions, the
death of a process between two of them, calls whose answer is lost, and
callbacks that come late, twice or in another order.

| | Component | State | Operations | Hard behaviours | Modelled |
|---|---|---|---|---|---|
| A | **Enrichment job queue** (`auction_enrichment_jobs`, `claim_auction_enrichment_jobs_request/_family`, `queued_runner.py`, `source_detail*.py`, `document_backlog.py`) | rows (status, attempt_count, locked_at, next_attempt_at, input_hash), claim receipts, provider backoff, leases held in worker memory | claim (new, replayed, refused), housekeeping, finish, publish, reuse, defer, re-key, enqueue, coalesce, ensure | leases that expire under a live worker, repeated and late claim calls, two claim paths with different rules, supersession against requeueing, retries | `EnrichmentQueue` |
| B | **Pipeline scheduler and dispatch** (`claim_autonomous_pipeline_run`, `record_autonomous_pipeline_dispatch`, `pipeline-dispatch.ts`, `data-pipeline.yml`, `autonomous_runner.py`, `run_finalizer.py`) | `auction_runs` (status, dispatch record in `summary`), `auction_source_state`, `auction_pipeline_control`; the cron tick's memory; GitHub's concurrency group | claim a run (new, again, nothing), dispatch to GitHub, record the result, take the run, execute, close it, reschedule its source, finalize, expire, preempt | a dispatch that GitHub takes after its sender gave up, several workflows of one run, a run that expires under a live worker, a lost machine, PATCHes that land late, starvation | `PipelineScheduler` |
| C | **Catalogue writer lock** (`catalogue_lock.py`) | a PostgreSQL advisory lock on a session, a heartbeat thread | take, heartbeat, lose, release | the session dies while the work goes on | no |
| D | **Cron supervision** (`cron-lease.server.ts`, `monitored-job.server.ts`, `cron-jobs.ts`) | run log, lease row per job | run, catch up, retry, record; acquire, finish | a success that cancels the catch-up, a holder that outlives its lease | run, catch-up and retries in `SaleReminders` |
| E | **Publication and revision guard** (`supabase_client.py`, `publish_source_revision`) | the sale row, `updated_at`, extraction versions | publish, guard, complete | a job completed although its publication was discarded, read before a long fetch and written after it | no |
| F | **Information agent, inbound replies** (`information-agent-inbound.ts` and the modules beside it, `information_agent_inbound_lease_fencing.sql`) | messages with their processing state, jobs with attempts and leases, evidence, candidates, the case, the mission, the autopilot | file a reply, queue it, claim, read again, settle, fail, oppose, exclude, close | a webhook and a worker that run the same code, a worker that lost its lease, a case closed meanwhile, any write that fails | `InformationAgentInbound` |
| G | **LLM request budget** | daily counters, reservations | reserve, settle, release | crash between reservation and settlement | no |
| H | **Billing** (`billing.ts`, Stripe webhooks, `reserve_analyse_checkout`) | the account's row, the payment's state, the journal of events, the reservation, Checkout Sessions | event, apply, record, cancel; checkout, reclaim, release; unlock | events late, repeated and out of order; handlers that die half-way; two checkouts at once | `StripeWebhooks`, `CheckoutReservation` |
| I | **Outcome ingestion jobs** | jobs with lease token | claim, complete, fail, guard | late completion under an old token | no |
| J | **E-mail reminders and alerts** (`sale-reminders.ts`, `sale-reminders-store.ts`, `claim_sale_reminder`) | dispatch rows with attempts, the ring of recipients | detect, claim, send, mark, defer | passes that nothing locks, a pass killed between send and mark, a success that hides a failure | `SaleReminders` |
| K | **Market valuation queue** | valuation jobs | enqueue, claim, finish | coalescing against a running job | no |
| L | Web application pages, scoring, parsers, maps, exports | none shared | pure functions and I/O | none a model checker reaches | no |

What makes each correct:

* A: one process settles each attempt; one claim works on a sale at a time; text
  work waits for the PDF; a request reserves once; a revision has one row; the
  newest work is not lost; every lease ends; queued work is taken.
* B: one scheduled run is active at a time; a run dispatched twice is executed
  once; a lost dispatch is retried and costs no run; a lease never ends under the
  worker; every run ends; neither the queue nor the collections starve.
* C: two holders never write at once (or the code says when they may).
* D, J: two passes never hold one reminder; no delivery goes uncounted; a
  success has nothing left to catch up; the two passes of a day reach everyone.
* E: a publication never overwrites newer content; a job is completed only when
  its content is published.
* F: a write under a lost lease is refused; an opposition is honoured; no reply
  is lost; nothing waits for a review on a closed case; every job is settled.
* G: what is reserved never exceeds the budget and is released in the end.
* H: the settled account is what Stripe holds; access is paid for; a reversal
  ends it; an account has one live subscription at most; one Session can be paid
  at a time, under its reservation; every event is handled.
* I: a completion under a lost lease is refused.

## 2. What is modelled

| Module | Component | Contents |
|---|---|---|
| `EnrichmentQueue` | A | the queue, in detail |
| `SaleLease` | A | what the queue promises about a sale, abstractly; `EnrichmentQueue` implements it |
| `PipelineScheduler` | B | the scheduler, from the claim to the end of a run |
| `StripeWebhooks` | H | one account: Stripe, its events, the journal, the handlers, the row |
| `CheckoutReservation` | H | the checkouts of one account that run together; what the webhooks do to the plan is reduced to "a subscription is live" |
| `SaleReminders` | D, J | the supervised route, its passes and catch-ups, the claim, Resend |
| `InformationAgentInbound` | F | the replies to one case: webhook, queue worker, fence, case |
| `MC...` | | the instance of each for TLC: stories, symmetry |
| `...Proofs` | | theorems (section 4) |

An operator whose comment begins with `(mutant)` is a plausible bug of the
definition that follows it. No specification uses one: `PROJECT.json` lists the
property that each would violate, which shows that the property can fail.

Four modules have a variable `story`, drawn once at the beginning: it says what
the environment may do in this behaviour (how much fails, which replies arrive,
whether two passes may overlap). Stories keep the instances small without
mixing everything with everything; the theorems hold for any set of stories.

### EnrichmentQueue: state

| Variable | Code |
|---|---|
| `jobs` | the table `auction_enrichment_jobs`. Rows are `Sales \X JobTypes \X 1..MaxRows`; `absent` stands for a row that does not exist, `hash` for `input_hash`, `born` for the rank by `created_at, id` among the rows of one sale and type, `wait` for the time left until `next_attempt_at`, `age` for the time since `locked_at` |
| `jobs[x].stamp` | the value of `locked_at`: the request under which the row was claimed and the rank of the reservation. Two claims write different times, so a stamp stands for a time |
| `receipt` | `auction_enrichment_claim_receipts`, with the snapshot of attempts and lock times |
| `gate` | `auction_pipeline_control.queue_claim_not_before` |
| `wire` | claim calls that were sent and that PostgREST has not executed. A set: calls are executed in any order, long after their sender has given up, or never |
| `worker` | each process: idle, waiting for a claim, or working, with the leases that its memory holds |
| `sale`, `detailsOn` | what the claim reads of `auction_sales` and of the switches of the detail lane |
| `kinds` | the kinds of work that the producers call for in this behaviour, one of `Plans`, drawn once: a run takes them together or one by one |
| `look` | the checkpoint that a process is in, between its look for a row of the new generation and the move of its own: the transaction holds the sale's row meanwhile |
| `grants` | history only: reservations made under each request |

### EnrichmentQueue: actions

| Action | Code |
|---|---|
| `BeginCall`, `CallTimeout`, `PersistBackoff` | `_claim_auction_enrichment_jobs_request_rpc`: one UUID per logical call, up to `CLAIM_RPC_ATTEMPTS` tries, a long `Retry-After` made durable |
| `ReplayClaim`, `RefuseClaim`, `GrantClaim` | `claim_auction_enrichment_jobs_request`: receipt first, then the backoff gate, then the family's housekeeping, reservation and receipt in one transaction under the advisory lock |
| `Housekept` = `WithoutObsolete`, `WithoutSuperseded`, `WithoutExhausted` | the three updates that precede the reservation, in their order |
| `LoseCall`, `Respond` | the connection: calls and answers may be lost; an answer counts only for the try its worker waits for |
| `FinishJob`, `PublishDetail`, `ReuseDetail`, `Defer`, `Crash` | the workers: compare-and-set on status, `attempt_count` and `locked_at`; the detail lane also demands a live lease; deferrals and reuse give the attempt back |
| `LookForGeneration`, `MoveKey` | `_rekey_pdf_job_after_checkpoint_with_connection`: the look for a row of the generation that the checkpoint made durable, then the move of the claimed row in a savepoint. A row found by the look, or inserted since (unique violation), retires the claimed one |
| `Enqueue`, `EnqueueDetail` | the transactions of the producers, with the coalescing of queued text revisions |
| `BacklogEnsure`, `BacklogClaim` | `ENSURE_JOB_SQL` and `CLAIM_JOB_SQL` of the document backlog, which bypass receipts, housekeeping and `next_attempt_at` |
| `SetSale`, `DeleteSale`, `ToggleDetails`, `Tick` | the catalogue, the administration, the clock |

### EnrichmentQueue: abstractions

* A claim reserves any set of eligible rows up to `p_limit`: the order by
  priority and age, and `SKIP LOCKED`, only choose among them.
* Each SQL transaction is one action. The claims are serialised by the advisory
  lock `immojudis:queue-claim-backoff`; the other writers lock the row they
  write. `CLAIM_JOB_SQL` reads the other leases of the sale in its statement
  snapshot and holds no advisory lock of the queue: its atomicity relies on the
  catalogue writer lock, which is not modelled yet (component C).
* A checkpoint takes its sale `for no key update` (`Locked`): publications, claims, which skip
  locked sales, and deletions wait for its end. The insertion of `ENSURE_JOB_SQL` does not: its
  foreign key only asks for a key share of the sale, so it may come between the look and
  the move. That is the unique violation that the savepoint is for. What else the
  checkpoint writes, and a failure of its transaction, are left out: a crash between the two steps
  leaves the row as it was.
* A fresh UUID is a request that no process, call or row refers to any more.
* One detail alias per sale; the manual claim without request UUID and the
  PostgREST fallback of the producers (used without a direct connection) are
  left out.

### PipelineScheduler: state

| Variable | Code |
|---|---|
| `runs` | `auction_runs`. A run is the rank of its creation; `absent` stands for a row that does not exist, `owned` for `scheduler_owned`, `age` for the time since `started_at` (or `created_at`), `lane` for what it collects or the queue. `state`, `attempt`, `next`, `lease` are the dispatch record of `summary` (`dispatch_state`, `attempt`, `next_attempt_at`, `lease_until`), `expired` is `completion_status = 'lease_expired'` |
| `source` | `auction_source_state`: time until `next_inventory_at`, `last_run_id`, `enabled` |
| `control` | `auction_pipeline_control`: `enabled`, time until `next_enrichment_at`, drain mode, the streak of collections kept by the trigger `track_pipeline_dispatch_lane` |
| `work` | whether the queue has rows that can be claimed (component A), free to change |
| `dispatcher` | memory of each cron tick in `dispatchDuePipeline` |
| `calls`, `reports` | dispatch POSTs and result RPCs that were sent and not yet executed. Sets: any order, any delay, or never |
| `waiting`, `job` | the concurrency group of `data-pipeline.yml`: one workflow runs, one waits, a newer one takes the place of the one that waits. External: GitHub |
| `patches` | PATCHes of `auction_runs` whose client has given them up and which may still land |
| `starts` | history only: workers that took each run |

### PipelineScheduler: actions

| Action | Code |
|---|---|
| `ClaimNothing`, `ClaimAgain`, `ClaimQueue`, `ClaimSource`, `ClaimIdle` | the five ways in which `claim_autonomous_pipeline_run` ends, each after the expiry of leases (`Swept`) and, when nothing is active, after the early return of sources whose run expired (`Readmitted`); `Preempts` is `pipeline_queue_should_preempt_source` |
| `Handed`, `Answer`, `PostTimeout`, `Report`, `EndTick` | `dispatchDuePipeline`: POST with its timeout, the result sent once more if the first call fails |
| `RecordResult` | `record_autonomous_pipeline_dispatch`, guarded by `Current` |
| `GitHubAccepts`, `GitHubRejects`, `Lose`, `ManualDispatch`, `StartJob`, `StepFails`, `JobLost` | GitHub Actions and the network |
| `TakeRun`, `SkipWithdrawn`, `Register`, `FinishRun`, `FinishSource` | `execute` and `finish_source` of `autonomous_runner.py`, one action per committed statement |
| `CollectStart`, `CollectEnd`, `ManualStart`, `ManualEnd` | the PATCHes and inserts of `supabase_client.py` by `src.main` |
| `Finalize` | `run_finalizer.py` in the `always()` step |
| `LandLate` | a PATCH executed after its client repeated it |
| `SwitchPipeline`, `SwitchSource`, `SwitchDrain`, `QueueChanges`, `QueueDeferred`, `Tick` | administration, the queue (whose workers also put off the next queue run after a long `Retry-After`), the clock |

### PipelineScheduler: abstractions

* Both RPCs hold the advisory lock `immojudis-pipeline-dispatch`: each is one
  action. `SKIP LOCKED` on the sources is left out, as is `suspended_until`,
  which acts as a later `next_inventory_at`.
* The claim's answer and the POST that follows it are one step: a POST that is
  sent late is a call that stays in `calls`.
* What `summary` says of the dispatch is forgotten when a run leaves the queue
  (`Left`), since nothing reads it afterwards.
* `InTime` keeps an execution within the budgets of its steps. `autonomous_runner`
  kills each subprocess at its budget: 25 + 10 + 5 + 6 + 6 + 5.5 + 1.5 = 59 minutes
  for a queue run, at most 50 for a collection, against a lease of 60. The time
  between those steps is taken to be less than a tick.
* A machine that is lost does nothing more. A worker that outlives its budgets,
  a manual run that is given the identifier of a scheduler's run, and queued rows
  from before the migration of dispatch retries are left out.
* Once `MaxRuns` runs exist, a claim finds nothing to do (`ClaimIdle`).

### StripeWebhooks

| Variable | Code |
|---|---|
| `sub`, `clock`, `events` | Stripe (external): the status of each subscription, the second of the newest event, the events emitted so far. `SubscriptionChanges` and `PaymentReversed` change them |
| `acked`, `journal` | deliveries answered with 200; `processing_status` of `stripe_webhook_events`. `stuck` is `processing` for fifteen minutes |
| `row`, `payment` | `user_subscriptions` (status, subscription, whether the paid period is open, date of the last event applied); `stripe_payment_lifecycle` |
| `h` | the memory of the handler of each event: its step, and what it has read |

`Deliver` is `begin_stripe_webhook_event`; `Retrieve`, `CheckDispute`, `Apply` are
`syncStripeSubscription` and `apply_stripe_subscription_state` with its three
refusals (`Stale`, `Reversed`, `Superseded`); `ReadRow`, `Record`,
`FindSubscription`, `CancelSubscription` are `handleChargeDispute`,
`handleChargeRefunded` and `record_stripe_payment_state`; `Finish` and `Fail` close
the journal entry, or leave it. Each request of a handler is an action, so that
any number of handlers interleave between a read of Stripe and the write that
uses it.

The first event of a payment inserts its row of `stripe_payment_lifecycle` in the event's own
state, and reads it again: a first refund finds "refunded" there and leaves the account's row
as it is. Its access is closed by the cancellation that the same handler sends to Stripe, through the
event that Stripe makes of it; a dispute that comes first suspends the row at once
(`Recordable`, `Record`). `ReversalEndsAccess` is therefore about three writes of two handlers.

Left out: the notices, the legacy one-time payment, a subscription that Stripe no
longer knows, the end of a paid period by time, the reconciliation cron. A
subscription starts after the one before it has ended (`CheckoutReservation` is
why). Some properties are stated for some stories only, because the code
promises no more:

* two events of one second have no order, and an older state read by a slow handler
  then passes the stale check: `SettledFollowsStripe`, `AccessIsPaid` and
  `ReversalEndsAccess` leave such stories out. (An update and a refund of the same
  second are enough for an account that keeps its access after the refund.)
* a renewal by a second subscription is the subject of `PaidHasAccess`, and the three
  others are about one subscription. It needs that no handler holds a status of the old one when
  the new one starts (`inTurn`): a stale 'active' of the old subscription replaces the row of
  the new one, since it grants access, and the cancellation of the old one then closes it.
  Its events may be late and repeated, but are read from Stripe after the new one started. The
  migration's comment promises it without that condition, for the late events themselves;
* a refund that is handled before the row names the subscription cancels nothing, although
  `billing.ts:903` says that a refunded customer must not be charged again: `ReversalEndsAccess`
  starts once the row does (`rowFirst`), and this order has no property;
* an open dispute may be overwritten (Findings): `ReversalEndsAccess` is about refunds
  and lost disputes.

### CheckoutReservation

| Variable | Code |
|---|---|
| `row` | the reservation token of the account and the time left of it, whether a plan is active, whether a Stripe customer is attached |
| `req` | each request of `createPlanCheckoutSession`: its step, what is left of the window of its Session (counted from before the reservation), what it reclaims |
| `session`, `sub`, `known` | Stripe (external): Sessions and subscriptions; the Sessions whose URL reached the customer |
| `outbox` | webhooks that Stripe still has to get through, in any order |

One action per request to Stripe or to the database (`Reserve`, `List`, `Reclaim`,
`Free`, `Customer`, `Attach`, `History`, `Create`, `RecordAcceptance`, `ExpireOwn`,
`Release`), each of which may fail or lose its answer where the code goes on;
`Die` stops a request anywhere. A token names a request, its Session and its
subscription. The webhooks are `OnExpired` and `OnSubscription`.

### SaleReminders

| Variable | Code |
|---|---|
| `slot`, `base`, `calls` | 07:15 and 09:15 of each day (even, odd), where the ring of recipients starts that day, the calls of the route in the slot |
| `situation` | what `detectRemindersForUser` finds of each reminder: not due, due, or due on a source that was not verified lately |
| `rows` | `sale_reminder_dispatches`: status, attempts, and whether a pending row is older than the hour after which it may be claimed again |
| `succeeded` | `operational_job_runs` has a success of today |
| `pass`, `person` | each execution of the route, and in it the processing of each person |
| `accepted`, `delivered` | Resend (external): the idempotency keys it remembers for a day; deliveries, as history |
| `served` | history: whom the first passes and the catch-ups of the day went through, batch by batch |

`Call`, `List`, `Record`, `Kill` are the route and `runMonitoredJob` with its
retries; `Detect`, `Claim`, `Claimed`, `Address`, `Send`, `MarkSent`, `MarkFailed`,
`NextBatch`, `Purge` are the pass; `NextSlot` is time. The people of a batch are
processed concurrently. Every request may fail before its effect or lose its
answer after it, and a pass may be killed anywhere.

A pass lives for a minute, so it never reaches the next slot. Left out: the modes
`off` and internal, the closing of orphaned runs in the log, the lease rows of
the cron, the other alerts. A reminder may be delivered up to three times,
although `sale-reminders.ts:528` says that one never leaves twice: its key at Resend is that of
its group, and the group may be another one after a killed pass.
`DeliveriesCounted` is the bound that the code does keep. `SuccessSettles` leaves out stories in which
passes overlap: a pass started by hand within an hour of a killed one passes over
its rows. It relies on the error of a person being wrapped ("lecture impossible"),
which is not transient: were it run again at once, the second try would pass over
the rows that the first left pending and succeed.

### InformationAgentInbound

| Variable | Code |
|---|---|
| `case`, `pilot`, `opposed`, `replied` | the case, the autopilot (identity excluded, event logged, stopped), the opposition of the sender in the contacts, the mission that has been told |
| `message`, `job` | `inbound_processing` of each reply with its lease; `information_agent_inbound_jobs` with attempts, due date, age of the lease |
| `found` | evidence and candidates |
| `actor`, `held` | the executions of the webhook and of the queue: step, reply, lease; the jobs claimed and not begun |
| `fresh` | the actors whose copy of the case (of the mission) is still the current one: what the compare-and-set on `updated_at` tests |
| `acked` | the deliveries that Resend saw answered |

A webhook (`Deliver`, `Receive`, `Queue`, `Enqueue`) and a worker (`Claim`, `Take`,
`Gate`, `Load`, `Start`, `Assets`, `Recheck`, `Facts`, `Body`, `Reply`, `Mission`) share
`ingestReceivedEmail` (`Read`, `Check`, `Note`, `Oppose`, `Known`, `Exclude`, `Log`, `Stop`, `Update`,
`End`), as in the code; `Release`, `Close`, `Catch` settle or fail a job. Each call may fail
before its effect (`Error`), lose its answer (`Then`), or be the last of its execution
(`Die`). `Old` lets a lease age under a worker that stalls, in the stories that allow it.

On a closed case `ignoreIfCaseClosed` reads the message and writes its metadata back:
`Check` reads it (`seen`) and `Note` writes it back, whatever was written since, without a fence
when a webhook does. A worker's own write-back is fenced and changes nothing.

A lease is the attempt for which it was drawn. The limit of five jobs per claim, the
store of replies without a case, the registry of bounces and the extraction of
facts are left out; evidence is never empty, so the statuses that need empty
evidence do not occur; a closed case stays closed, and the mission's own status is not
looked at. `NothingLost` is about an open case: the reply or its job has ended, or its job is
still to be settled. The two need not agree: a message may stay `failed` or `queued` when its
job ended in review or ignored, a late webhook may write `queued` over a finished message (its
write carries no lease), and a bounce marked on the case makes a reply given up as if
the case had been closed. No property forbids that, because the code does not keep it:
`information-agent-inbound.ts:1100-1102` keeps the message in step with its job "so the admin view
never shows a permanently queued reply" where the case closed after the receipt, and not on
the other paths; such a reply is also missing from the digest of replies to review
(`replies-review-digest.ts:114`), which reads the message.

`OppositionHonoured` is about what the webhook itself reads as an opposition: one that only the worker
recognises, on a case that is closed by then, is dropped with the reply. `SettledIsFinal` covers
evidence, candidates, the message, the case and the mission; the opposition of the contact and
the autopilot's fields are written without a lease by whoever reads the reply, and are not part of it.

## 3. Checks

| Run | Question | Instance | Distinct states |
|---|---|---|---|
| `queue_lease` | leases that expire under a live worker, late finishes and deferrals, the detail lane and its switches, backoff; checkpoints that move a PDF row while the backlog inserts its generation; coalescing and supersession | 1 sale; details, PDF or descriptions (3 plans); 3 revisions, 2 rows, 1 worker, 1 backlog process | 0.6 M |
| `queue_sales` | a repeated claim call beside the document backlog on the work of one sale, which becomes unready, is closed, comes back or is deleted under a lease; refinement of `SaleLease` | 1 sale, PDF and facts, 2 revisions, 1 worker, 1 backlog process, 2 requests of 2 tries | 0.7 M |
| `queue_liveness` | leases end, queued rows are taken, whatever crashes | 1 sale, PDF and facts, 1 worker | 6 k |
| `queue_dead_letter` | a claim of the documentation that the code does not keep (Findings) | 1 sale, PDF, 1 backlog process | |
| `sched_ends` | one run whose dispatches are lost, repeated, answered late or put off by a long `Retry-After`, with switches and late PATCHes; every run ends | 1 source, 1 tick, 1 run, 2 attempts | |
| `sched_turns` | the choice between two sources and the queue, among manual runs that push the others out of the concurrency group | 2 sources, 2 runs, drain mode | |
| `webhooks_account` | events late, repeated and out of order, handlers that fail or die | 3 events of a subscription with one failure; the same with every reversal, and with refunds and lost disputes once the row names it; 4 events with a lost dispute; 2 subscriptions with equal seconds, and with late events and one failure | 0.6 M |
| `webhooks_dispute` | an open dispute keeps the access closed (Findings) | 1 subscription, 1 dispute | |
| `checkout_two` | two checkouts started, abandoned, reclaimed, retried, paid | 2 requests, windows of 3 ticks | |
| `reminders_day` | overlapping, failing and killed passes over a day, its catch-up and the day after | 3 people in batches of 2, 3 reminders, 2 attempts, up to 2 faults | 1.7 M |
| `inbound_reply` | replies of each kind, delivered twice, worked on by two workers that fail, die or stall while others change the case | 1 or 2 replies, 2 deliveries, 2 workers, 2 attempts, 2 faults | 0.3 M |
| `inbound_wrong` | a wrong recipient stops the autopilot (Findings) | the same | |

Deadlock is checked for the queue and the scheduler. The other systems do stop: an
account without further events, checkouts that are over, the last slot, replies
that are settled.

Properties of the queue:

* `OneHolder`: two processes never both pass the compare-and-set of a row.
* `SaleExclusive`, `ImplementsSaleLease`: one claim works on a sale at a time,
  over all paths; a sale never passes from one lease to the next directly.
* `PdfTextApart`: no text work beside the PDF work of a sale, even in one batch.
* `OneReservationPerRequest`: repeated calls reserve once.
* `UniqueRevision`: no two rows of a key carry one revision, though a checkpoint looks for
  the new one and moves its row in two steps, between which another row may be inserted: what
  the unique constraint would refuse is retired instead.
* `OneOpenDetail`: one detail row per alias that can still run.
* `CoalescedIsNewest`: coalescing gives new content only to the newest row, which the next
  claim does not cancel as superseded. It rests on the claims having cancelled the older rows
  by then, those whose lease expired included. A content that comes back (A, B, A) and a PDF
  row moved by a checkpoint under a later row are not covered: `PROJECT.json` lists them.
* `LeaseEnds`, `QueuedIsTaken`: liveness, with one try of each claim call.

Properties of the scheduler:

* `OneExecution`: one worker takes a run, however often it is dispatched.
* `OneScheduledRun`: one scheduled run is queued or running at a time. It needs the
  execution budget to fit in the lease and no PATCH that lands late: `Patch` is
  unconditional in the code, so a late one reopens a run that has ended. That is
  a limit of the code, and the run leaves late PATCHes out.
* `NoExpiryUnderWorker`: the lease does not end under the worker that executes. That the
  budgets fit in the lease is assumed (`InTime`, `Budget <= ExecutionLease`), not shown: what
  is shown is that the lease counts from the moment the run is taken.
* `NoExpiryBeforeRetry`: a lease covers the next dispatch, whatever `Retry-After`.
* `ResultKept`: a repeated or late report changes nothing of a recorded result.
* `QueuedUntilTaken`: only a worker or the lease ends the wait of a queued run; in
  particular no finalizer of another workflow.
* `FairTurns`: after a collection a due queue is served; after a queue run a
  source that has been due for an hour is.
* `RunEnds`: every run ends, whatever is lost and even if a late PATCH reopens it.

Properties of the account:

* `SettledFollowsStripe`: once every event is handled, the row is what Stripe holds.
* `AccessIsPaid`: with disputes and refunds in any order, a settled account has access
  only while Stripe bills its subscription.
* `ReversalEndsAccess`: a refunded or lost payment leaves no access and no subscription
  (of one subscription, which the row names, with events of different seconds).
* `PaidHasAccess`: who pays for a new subscription has its access once all is settled, however
  late the events of the old one (section 2 for what it needs).
* `AllHandled`: every event is handled in the end.
* `PayableIsReserved`, `OneSubscription`: one Session can be paid at a time and its
  reservation outlives it; there is one live subscription at most.

Properties of the reminders:

* `OneHolder`: two passes never hold the same reminder, though nothing locks them.
* `DeliveriesCounted`: each delivery has an attempt, so there are three at most (`MaxTries`).
* `SuccessSettles`: a pass that succeeds, and so cancels the catch-up, has settled all
  that it saw.
* `HalvesMeet`: two passes that each go through half of the people go through everyone,
  since the catch-up starts half the ring further, wherever the deadline cuts them.

Properties of the replies:

* `SettledIsFinal`: once a job is settled, nothing is added to its reply, and no late worker
  changes its message, the case or the mission.
* `ClosedHasNoPending`: a closed case has no candidate that waits for a review.
* `OppositionHonoured`: an opposition that was answered is recorded.
* `NothingLost`: while its case is open, a reply that was answered has ended (in review, or as
  an automatic one), itself or by its job, or its job is still to be settled.
* `JobEnds`: every job is settled in the end.

### Bounds

Queue: `Lease`, `RetryDelay` and the waits are one tick: properties compare
times with the lease only, so what counts is that a lease may expire before, at
and after each other event. `MaxAttempts` is 2 in `queue_lease` (1 in `queue_sales` and in the
liveness run): first attempt, last attempt and exhaustion all occur. `MaxRows` is 2 in `queue_lease`: a newer and an
older revision; three revisions let a row move to one that no row has. Its plans take the kinds of
work one by one, because none of its properties relates two kinds: `queue_sales` has PDF
and facts together. One worker is enough for a stale holder, because it may crash and
claim again, and because the backlog process is a second one; two requests give a
late call and its successor. The theorems cover any number of each. `Requests`
are reused once nothing refers to them. Requests, workers and revisions are
interchangeable, so TLC takes one of each permutation.

Scheduler: delays and leases are one tick, `Freshness` none, and `Retry-After` is up to
two, longer than `DispatchLease`: only then can a lease that is not
extended end before the retry. `Budget` equals `ExecutionLease`, the tightest
case in which the lease must not end under the worker. Two runs let a run meet
its successor; two attempts (one in `sched_turns`) give a first and a last one. One tick process is
enough for overlapping ticks, because `EndTick` frees it while its call and its
report remain in flight. `LateCalls`, `Manual` and `Switches` turn parts of the
environment on in the run whose question needs them.

Account: three events of a subscription are a start, a change and an end, each of
which may be overtaken by the next; a cancellation after a refund or a lost dispute adds its own event, and a lost
dispute needs one more before it. One
failure makes a handler start again among the others. Two subscriptions with three events are an
old one that starts and ends and a new one that starts. Checkouts: two requests are two that meet; a
window of three ticks, of which Stripe asks two, lets a Session be refused, end, or outlive what
it competes with.

Reminders: three slots are a day, its catch-up and the day after, when Resend may or
may not remember a key. Three people in batches of two make halves of unequal size,
cut inside the ring, and a last batch that is not full; one of them has nothing to be
told. A warning and a hearing make two groups and two orders of urgency. Two faults kill
or lose an answer and fail again; two attempts are a first and a last one (the code has
three). The theorems cover any people, batches, attempts and faults.

Replies: two deliveries of one reply are the webhook and its repetition; two workers a
holder and its successor; two attempts a first and a last one. Two faults are enough to
fail a call and the call that reports the failure; the second reply shares the case.

### Fairness

`Fairness` of `EnrichmentQueue` states what the deployment provides: the clock advances; crons keep
starting workers, which keep claiming in both families; a call ends or times
out; a worker that is not killed settles its leases. Strong fairness stands for
three things a fair scheduler alone would not give: the network delivers some
calls, `claim` does not pass over a claimable row for ever (priorities age by one
point an hour against bounded bonuses, in `claim_auction_enrichment_jobs_family`),
and a worker that gets a row again and again in the end finishes it (deferrals
give attempts back, so the attempt limit alone does not end them). The liveness
run leaves out an endless provider backoff, the toggling of sales and of the
detail switch: under those nothing is promised.

`sched_ends` assumes that the clock advances, that cron ticks go on (strong
fairness of the claim: a tick that is switched off or interrupted happens again)
and end (serverless functions have a time limit), that GitHub ends its jobs (by
timeout if nothing else), and that the pipeline is not left switched off: while it
is, no claim runs and no lease is enforced. No fairness is assumed of workers,
of the network or of GitHub starting a workflow.

`webhooks_account` assumes, for each event, that Stripe delivers it until it is
answered, that a handler goes on unless it fails, and that fifteen minutes pass. What
fails is bounded by the story: nothing is promised to an event whose handler always
fails.

`inbound_reply` assumes that an execution goes on, that Resend delivers until it is
answered, that the cron calls the queue, that ten minutes pass over a silent lease
and that a backoff ends. What fails, and what others change, is bounded by the story.

## 4. Proofs

`EnrichmentQueueProofs.tla` proves, for any sets of sales, workers, requests and
revisions and any bounds that satisfy `SetsAssumption` and `NumbersAssumption`:

| Theorem | Property | Argument |
|---|---|---|
| `Typing` | `TypeOK` | inductive as it stands, once a process state says that exactly the idle processes have no request |
| `HoldersApart` | `OneHolder` | `HolderInv`: the leases of a process carry its request, receipts hold leases of their own request, two processes have different requests. Then two owners of one row would share its stamp, hence the request |
| `SalesExclusive` | `SaleExclusive` | `SaleInv`: inductive with the types. Every step other than a claim is `Quiet` (makes no row live and changes no live stamp); housekeeping leaves live rows alone; a claim looks at every live row of the sale |
| `PdfBeforeText` | `PdfTextApart` | in the same invariant: an eligible text row excludes any PDF row that is pending, so neither a live one nor one of the same batch |
| `ReservedOnce` | `OneReservationPerRequest` | `RequestInv`: while a call of a request may still be executed or repeated, the request has its receipt or no reservation |
| `LeaseRefinement` | `ImplementsSaleLease` | `LeaseInv`: the exclusions, the single reservations and `Stamped`, a row is stamped only by a request with a reservation. `Holders` says which lease a sale has before and after a step. Then a claim takes a sale that no one holds (`ReservationClaims`: its request has no lease yet, hence stamps no row), the backlog takes it with a lease of its own, every other step only ends leases (`QuietEnds`), and the clock may end several |

The lemmas say what each row operation returns (`UnlockedType`, `ClaimedType`,
`HousekeptType`, ...), and each invariant is carried through the five groups of
`Next` in lemmas of their own.

`EnrichmentQueueKeysProofs.tla` adds the two keys of the table:

| Theorem | Property | Argument |
|---|---|---|
| `RevisionsUnique` | `UniqueRevision` | `KeysInv` with `Ranked`: the rows of a key that exist are ranked by creation without a gap. `StepShape` reduces every step to one of six: rows worked on (`AllWorked`: no row changes its key or revision, or appears), one row moved to a revision that no row has, one inserted, one revived, an enqueueing, a deletion. What a checkpoint's look found is not in the invariant, since it may be stale: the move tests again, as the savepoint does |
| `DetailAlone` | `OneOpenDetail` | in the same invariant: a detail row is inserted or revived only when no other is open, and no work on a row opens one |
| `CoalescedNewest` | `CoalescedIsNewest` | `NewerWait`: while a text row is open, every later row of its key that is not cancelled waits in the queue. Inserting makes a row that waits, only the claim RPC takes a text row from the queue, and a claim first cancels every row that has a later one. So the newest row that waits, to which coalescing gives the content, is the newest of all |

Of the queue, the liveness (`LeaseEnds`, `QueuedIsTaken`) stays with TLC.

`PipelineSchedulerProofs.tla` proves, for any sources, ticks, delays, leases and
budgets that satisfy `SchedulerSets` and `SchedulerNumbers`:

| Theorem | Property | Argument |
|---|---|---|
| `Typing` | `TypeOK` | `Typed` adds `RunsNamed`: a busy tick, an automatic workflow and a job that executes have a run. Without it `runs[job.run]` could be applied outside its domain |
| `TakenByOne` | `OneExecution` | `TakenOnce`: a run that no worker has taken yet (`Untaken`: absent or queued) has no start. `NeverBack` shows that no step sets a run back to queued, `CountedOnTake` that a start is counted only by the compare-and-set that takes the run out of the queue |

`TakenByOne` covers late PATCHes, which may reopen a run but never put it back in
the queue.

`PipelineSchedulerWorkerProofs.tla` builds on it:

| Theorem | Property | Condition | Argument |
|---|---|---|---|
| `WaitsForWorker` | `QueuedUntilTaken` | none | `Served`: a run that a workflow executes or has registered, or that a PATCH in flight refers to, is out of the queue. So whatever closes a run (`Finalize`, PATCHes, `FinishRun`) closes one that was taken |
| `KeptUnderWorker` | `NoExpiryUnderWorker` | `LeasesCover` | `InBudget`: while a workflow works its run is running, and `started_at` is no older than the workflow's clock, which `InTime` bounds. `ExpiresByLease`: only a lease that is over makes a run expire |
| `OneAtATime` | `OneScheduledRun` | `LeasesCover` | a claim creates a run only when none is active (`ClaimOpensOne`); no other step opens one (`OthersOpenNone`), where `CollectStart` needs `InBudget`: it sets a run running that still is |
| `FirstResultStands` | `ResultKept` | none | `QueuedRows` lists what a step leaves of a queued run; a result is recorded only for an attempt in flight |
| `RetriedBeforeExpiry` | `NoExpiryBeforeRetry` | `RetryCovered` | `LeaseOutlivesWait`: the lease is at least as long as the wait for the next attempt |
| `TurnsAreFair` | `FairTurns` | none | `TurnsInv`: runs are created in their order (`InOrder`), the scheduler owns none before it creates it, and `StreakTells`: the streak is zero exactly when its last run was the queue's. Manual runs, which the scheduler does not own, leave the streak as it is (`StepTurns`); then a claim of the queue with a zero streak has no source to pass over (`QueueTurn`) |

`LeasesCover` says that no PATCH lands late and that the budgets of an execution
and of a manual workflow fit in their leases (59 minutes in 60, 180 in 190);
`RetryCovered` that the retry delay fits in the dispatch lease (15 minutes in 60).
Both hold in the runs that check the properties. `RunEnds` is only model-checked.

`StripeWebhooksProofs.tla`, for any stories:

| Theorem | Property | Argument |
|---|---|---|
| `Typing` | `TypeOK` | inductive; what it says is that Stripe's spellings of a status never reach the row |
| `PaidKeepsAccess` | `PaidHasAccess` | `TurnInv`: the subscriptions follow one another (`Successive`); a handler about to write a status that grants access does it before the next subscription starts (`Working`); what is held of a billed subscription is older than its last event or grants access, and once that event is handled the row is the subscription's (`Served`). An old subscription that is written later no longer grants, and `Superseded` refuses it |
| `RowFollowsStripe` | `SettledFollowsStripe` | `Followed`, for one subscription and distinct seconds: what a handler has read, and the row, is Stripe's state, unless it is older than the last event of the subscription (`Last`), or the payment was reversed and it grants nothing; and once that last event is handled the row is not older. It rests on `Dated` (every date held is that of an event) and on `Steady` (a finished entry has no handler, a reversal's handler never grants) |
| `PaidAccess` | `AccessIsPaid` | the same invariant: a refusal by `Reversed` of the last event means that Stripe still bills |
| `ReversalCloses` | `ReversalEndsAccess` | `Cancelled`, for stories in which the row names the subscription first: a payment is reversed only once the row names its subscription; the handler of a refund or a lost dispute never applies a state of Stripe, records `cancelled` only, and when it finishes the subscription is canceled at Stripe. With `Followed` the row of a settled account is then closed |

`CheckoutReservationProofs.tla`, for any number of requests and any windows with
`SessionLife <= ReservationLife`:

| Theorem | Property | Argument |
|---|---|---|
| `Typing` | `TypeOK` | inductive |
| `AtMostOneSubscription` | `OneSubscription` | `Safe`: a Session that can still be paid, or be created by a request in its window, holds the reservation and the reservation lasts as long (`Held`); a request that has passed the look at the subscriptions knows that there is none that a competitor could have made (`Fresh`, `Alone`) |
| `PayableHoldsReservation` | `PayableIsReserved` | part of `Safe` |

`SaleRemindersProofs.tla`, for any people, reminders, passes, days and stories:

| Theorem | Property | Argument |
|---|---|---|
| `Typing` | `TypeOK` | `Typed` |
| `HoldersApart` | `OneHolder` | what a pass holds has a pending row that is not an orphan, which no claim takes; rows become orphans when every pass is over |
| `NoUncountedDelivery` | `DeliveriesCounted` | `Counted`: while a group is about to be sent, each of its items has an attempt more than deliveries; a group that Resend accepts consumes it |
| `NobodyMissed` | `HalvesMeet` | `RingInv`: what the passes of a kind went through is an arc of the ring that starts where they do, and a pass inside the ring went through all that precedes its batch. Two arcs of half the ring, which start half the ring apart, cover it (`ArcsMeet`) |
| `SuccessIsComplete` | `SuccessSettles` | `Duty`, without overlap: one pass runs (`Sole`); a row claimed within its hour is held by that pass, or the pass can no longer succeed (`Pursued`); what a pass saw is settled, held, still to be claimed, or the pass will not succeed (`Owed`); a failure is never reported as a success (`Honest`) |

`InformationAgentInboundProofs.tla`, for any replies, executions, attempts and stories:

| Theorem | Property | Argument |
|---|---|---|
| `Typing` | `TypeOK` | a message carries the lease of the latest claim, or none: what makes an old lease unable to pass the fence |
| `NoPendingOnClosed` | `ClosedHasNoPending` | candidates are added to an open case only, and closing it rejects them (`FoundChanges`, `CaseChanges`) |
| `NothingAfterSettled` | `SettledIsFinal` | `Released`: a settled job has released its message (no lease), and a worker on its way to settle one has too; the lease of a worker is one that a claim gave. So a worker that still works on the reply carries a lease that the message no longer has, and none of its writes passes (`WorkerWrites`, `FoundChanges`) |
| `OppositionsHeard` | `OppositionHonoured` | `Heard`: a webhook that is past the opposition has recorded it, and it answers only past it |
| `NoReplyLost` | `NothingLost` | `Queues`, `Jobbed`, `Followed`: a delivery that was answered saw an end, or left a job behind it, which no step removes; a message is taken up by a worker only when it has a job. `Endings`: while the case is open, what has ended, or a worker is about to settle, has ended in review or as an automatic reply |

Every invariant, every action property and the refinement that the passing runs check is
thus stated by a theorem. Model-checked only is the liveness: `LeaseEnds` and
`QueuedIsTaken` (queue), `RunEnds` (scheduler), `AllHandled` (account), `JobEnds` (replies).
Liveness under fairness and ENABLED are out of the prover's reach. The inductive
invariants that are not evident (`Stamped`, `TurnsInv`, `Duty`) were checked
by TLC, on the runs of their modules, before they were proved.

One attempt at a proof changed what is stated: `ReversalEndsAccess` spoke of every story
in which the row comes first, and is false where two events share a second or a second
subscription follows (section 2), which the stories of the run do not combine with a refund.

## 5. Findings

* `queue_dead_letter`: `docs/pipeline-reliability.md:51` says that a failed row
  without attempts left is never taken up again. `ENSURE_JOB_SQL` of the
  document backlog (`document_backlog.py:195`) puts such a row back in the queue
  with no attempt spent, and `CLAIM_JOB_SQL` takes it.
* `webhooks_dispute`: `billing.ts:1217` says that an open dispute wins over any update of
  the subscription. The dispute is looked for (`billing.ts:1221`) before the call that
  applies the state, which itself only looks at refunds and lost disputes: a dispute
  that is recorded between the two is overwritten, and stays so.
* `inbound_wrong`: `docs/runbooks/information-agent.md:61` says that a wrong recipient
  stops the autopilot, and `wrong-recipient.ts:29` that a repeated webhook is harmless. The event
  that makes the step idempotent is written first (`wrong-recipient.ts:65`): if the stop fails,
  the repeated webhook finds the event and does not stop anything.

## 6. Plan

1. Done: `EnrichmentQueue` with `SaleLease`, `PipelineScheduler`, `StripeWebhooks`,
   `CheckoutReservation`, `SaleReminders`, `InformationAgentInbound`, their runs and theorems.
2. `EnrichmentPublication` (E): the content and version of a sale, the revision
   guard of the general lane against the atomic publication of the detail lane;
   jobs completed although their publication was discarded.
3. `CatalogueLock` (C) and `CronLease` (D): advisory lock with a heartbeat, lease rows
   with a token; composed with the document backlog.
4. G, I, K: reservation and finalisation of LLM requests; late completions
   (`20260730141957_outcome_source_ingestion.sql:523`); enqueueing over a running estimate
   (`20260819164516_harden_market_valuation_pipeline.sql:244`). The rest of H: unlocks, reconciliation.
5. Proofs: what is stated of the modelled components is proved up to liveness. Next come the
   safety properties of the components of items 2 to 4, with the fences and leases they share
   with the queue.

## 7. Not modelled

Components C, E, G, I and K, until the plan reaches them, and the parts of A, B, D, F, H
and J that section 2 names as left out; `PROJECT.json` lists the hazards of C, D, E and G at their
lines. What they have in common with the modelled parts (a lease, a compare-and-set, a
fence) is not assumed to hold of them. Component L (parsers, scoring, geography, exports and
pages), by far the largest part of the repository, stays out: pure functions and I/O without
shared state, which the unit tests reach better than a model checker.
