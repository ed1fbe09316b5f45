--------------------------- MODULE StripeWebhooks ---------------------------
(***************************************************************************)
(* How one account follows Stripe: the events Stripe delivers at least     *)
(* once and in any order, the journal that claims each of them, and the    *)
(* handlers, which read Stripe and the database in separate requests and   *)
(* write the account's row later (src/src/lib/billing.ts and the functions *)
(* begin_stripe_webhook_event, apply_stripe_subscription_state and         *)
(* record_stripe_payment_state).                                           *)
(*                                                                         *)
(* Stripe itself is external: subscriptions change, events are stamped     *)
(* with a second and redelivered until the route answers 200.  The account *)
(* has one payment that may be disputed or refunded.  The end of a paid    *)
(* period is reduced to "open": it is in the future, or a reversal cut it. *)
(***************************************************************************)
EXTENDS Integers, Sequences, FiniteSets

CONSTANTS
    MaxSubs,       \* bound on the subscriptions of the account
    MaxEvents,     \* bound on the events of Stripe's own making
    Stories        \* what may happen at Stripe, and how often handlers fail

ReversalKinds == {"dispute_created", "dispute_won", "dispute_lost", "refunded"}

ASSUME SizeAssumption == MaxSubs \in Nat \ {0} /\ MaxEvents \in Nat

\* A story: the subscriptions taken one after the other, the events, the handlers that fail or
\* die, whether two events may carry the same second, whether the account subscribes again only
\* while no handler holds a status it read before, which reversals of the payment may happen, and
\* whether they happen only once the row names the subscription.
ASSUME StoryAssumption ==
    Stories \subseteq [subs : 1 .. MaxSubs, events : 0 .. MaxEvents, faults : Nat,
                      sameSecond : BOOLEAN, inTurn : BOOLEAN,
                      reversals : SUBSET ReversalKinds, rowFirst : BOOLEAN]

VARIABLES
    story,     \* one of Stories, drawn once
    sub,       \* the status of each subscription at Stripe
    clock,     \* the second of the newest event
    events,    \* the events Stripe emitted, oldest first
    acked,     \* the events the route answered with 200
    row,       \* the account's row of user_subscriptions
    payment,   \* its row of stripe_payment_lifecycle
    journal,   \* processing_status of each event in stripe_webhook_events
    h,         \* the handler of each event
    faults     \* failed or dead handlers so far

stripeVars == <<story, sub, clock, events>>
vars == <<stripeVars, acked, row, payment, journal, h, faults>>

Subs == 1 .. MaxSubs
NoSub == 0
Slots == 1 .. (MaxEvents + MaxSubs)

StripeStatuses == {"none", "incomplete", "active", "past_due", "unpaid", "canceled"}
PlanStatuses == {"none", "active", "past_due", "paused", "cancelled", "expired"}
PaymentStates == {"none", "disputed", "dispute_lost", "cleared", "refunded"}
Steps == {"idle", "read", "record", "find", "cancel", "retrieve", "check", "apply", "finish"}

Granting == {"active", "past_due"}
Live(s) == sub[s] \in {"incomplete", "active", "past_due", "unpaid"}

\* (mutant) Stripe's spelling of the status is kept.
PlanStatusVerbatim(status) ==
    CASE status \in {"incomplete", "unpaid"} -> "paused" [] OTHER -> status

\* stripeSubscriptionStatusToPlanStatus
PlanStatus(status) ==
    CASE status \in Granting -> status
      [] status \in {"incomplete", "unpaid"} -> "paused"
      [] status = "canceled" -> "cancelled"
      [] OTHER -> "expired"

\* stripeDisputeStatusToPlanStatus and the status a refund records
ReversalStatus(kind, open) ==
    CASE kind = "dispute_won" -> (IF open THEN "active" ELSE "expired")
      [] kind \in {"dispute_lost", "refunded"} -> "cancelled"
      [] OTHER -> "paused"

\* stripeDisputeStatusToPaymentState and the state a refund records
ReversalState(kind) ==
    CASE kind = "dispute_won" -> "cleared"
      [] kind = "dispute_lost" -> "dispute_lost"
      [] kind = "refunded" -> "refunded"
      [] OTHER -> "disputed"

\* app_private.subscription_grants_access
GrantsAccess(r) == r.status \in Granting /\ r.open

Idle == [step |-> "idle", status |-> "none", sub |-> NoSub, at |-> 0, result |-> "processed"]

Init ==
    /\ story \in Stories
    /\ sub = [s \in Subs |-> "none"]
    /\ clock = 0
    /\ events = <<>>
    /\ acked = {}
    /\ row = [status |-> "none", sub |-> NoSub, open |-> FALSE, at |-> 0]
    /\ payment = [state |-> "none", at |-> 0]
    /\ journal = [e \in Slots |-> "none"]
    /\ h = [e \in Slots |-> Idle]
    /\ faults = 0

-----------------------------------------------------------------------------
\* Stripe (external)

\* Every change is followed by an event that carries the second it happened.
Emit(kind, s) ==
    \E t \in {clock + 1} \cup (IF story.sameSecond THEN {clock} ELSE {}) :
        /\ clock' = t
        /\ events' = Append(events, [kind |-> kind, sub |-> s, at |-> t])

Transitions ==
    {<<"none", "incomplete">>, <<"none", "active">>, <<"incomplete", "active">>,
     <<"active", "past_due">>, <<"past_due", "active">>, <<"past_due", "unpaid">>,
     <<"active", "canceled">>, <<"past_due", "canceled">>, <<"unpaid", "canceled">>}

\* A subscription starts only when the one before it has ended.
SubscriptionChanges(s, status) ==
    /\ Len(events) < story.events
    /\ s <= story.subs
    /\ <<sub[s], status>> \in Transitions
    /\ sub[s] = "none" =>
        /\ \A other \in 1 .. (s - 1) : sub[other] = "canceled"
        /\ story.inTurn => \A e \in Slots : h[e].step \notin {"check", "apply"}
    /\ sub' = [sub EXCEPT ![s] = status]
    /\ Emit("subscription", s)
    /\ UNCHANGED <<story, acked, row, payment, journal, h, faults>>

Happened(kind) == \E i \in DOMAIN events : events[i].kind = kind

\* The payment of a subscription is disputed, the dispute is closed, or it is refunded.
PaymentReversed(kind) ==
    /\ Len(events) < story.events
    /\ kind \in story.reversals
    /\ ~ Happened(kind) /\ sub[1] # "none"
    /\ story.rowFirst => row.sub # NoSub
    /\ kind \in {"dispute_won", "dispute_lost"} =>
        /\ Happened("dispute_created")
        /\ ~ Happened("dispute_won") /\ ~ Happened("dispute_lost")
    /\ Emit(kind, NoSub)
    /\ UNCHANGED <<story, sub, acked, row, payment, journal, h, faults>>

-----------------------------------------------------------------------------
\* The route

At(e, step) == e \in DOMAIN events /\ h[e].step = step
Goes(e, fields) == h' = [h EXCEPT ![e] = fields]

\* The first step of the handler of an event.
Opened(e) ==
    CASE events[e].kind = "subscription" ->
            [Idle EXCEPT !.step = "retrieve", !.sub = events[e].sub, !.at = events[e].at]
      [] events[e].kind = "refunded" ->
            [Idle EXCEPT !.step = "record", !.status = "cancelled", !.at = events[e].at]
      [] OTHER -> [Idle EXCEPT !.step = "read", !.at = events[e].at]

\* (mutant) an event left in processing is never taken again.
ClaimableUnlessSilent(e) == journal[e] \in {"none", "failed"}

\* begin_stripe_webhook_event: a new event, a failed one, or one whose handler has been silent
\* for fifteen minutes.  A delivery while the event is being processed is answered with 503.
Claimable(e) == journal[e] \in {"none", "failed", "stuck"}

Deliver(e) ==
    /\ At(e, "idle") /\ e \notin acked
    /\ Claimable(e)
    /\ journal' = [journal EXCEPT ![e] = "processing"]
    /\ Goes(e, Opened(e))
    /\ UNCHANGED <<stripeVars, acked, row, payment, faults>>

\* Fifteen minutes without an update of the journal (no handler runs that long).
Stuck(e) ==
    /\ At(e, "idle") /\ journal[e] = "processing"
    /\ journal' = [journal EXCEPT ![e] = "stuck"]
    /\ UNCHANGED <<stripeVars, acked, row, payment, h, faults>>

\* handleChargeDispute reads the row before it records the dispute.
ReadRow(e) ==
    /\ At(e, "read")
    /\ LET won == events[e].kind = "dispute_won"
           resync == won /\ row.sub # NoSub
       IN Goes(e, [h[e] EXCEPT !.step = "record",
                               !.sub = IF resync THEN row.sub ELSE NoSub,
                               !.status = IF resync THEN "paused"
                                          ELSE ReversalStatus(events[e].kind, row.open),
                               !.at = IF row.at > @ /\ resync THEN row.at ELSE @])
    /\ UNCHANGED <<stripeVars, acked, row, payment, journal, faults>>

Rank(state) ==
    CASE state = "refunded" -> 4
      [] state = "dispute_lost" -> 3
      [] state = "disputed" -> 2
      [] state = "cleared" -> 1
      [] OTHER -> 0

\* record_stripe_payment_state keeps the newest state, and a refund for ever.
Recordable(lifecycle, own) ==
    /\ lifecycle.state # "refunded"
    /\ \/ own.state = "refunded"
       \/ own.at > lifecycle.at
       \/ own.at = lifecycle.at /\ Rank(own.state) >= Rank(lifecycle.state)

\* The payment's first event inserts its row in the event's own state, and the account follows
\* only an event that this row does not refuse: a first refund finds itself there and leaves the
\* account's row as it is.
Record(e) ==
    /\ At(e, "record")
    /\ LET own == [state |-> ReversalState(events[e].kind), at |-> events[e].at]
           lifecycle == IF payment.state = "none" THEN own ELSE payment
           status == h[e].status
       IN IF Recordable(lifecycle, own)
          THEN /\ payment' = own
               /\ row' = IF row.status = "none" THEN row
                         ELSE [row EXCEPT !.status = status,
                                          !.open = @ /\ status # "cancelled"]
          ELSE payment' = lifecycle /\ row' = row
    /\ Goes(e, [h[e] EXCEPT !.step = IF h[e].status = "cancelled" THEN "find"
                                     ELSE IF h[e].sub # NoSub THEN "retrieve"
                                     ELSE "finish"])
    /\ UNCHANGED <<stripeVars, acked, journal, faults>>

\* (mutant) a lost dispute does not cancel the subscription.
FindRefunded(e) ==
    /\ At(e, "find")
    /\ Goes(e, [h[e] EXCEPT !.step = IF row.sub = NoSub \/ events[e].kind # "refunded"
                                     THEN "finish" ELSE "cancel",
                            !.sub = row.sub])
    /\ UNCHANGED <<stripeVars, acked, row, payment, journal, faults>>

\* cancelStripeSubscriptionForUser: the subscription the row names, then its cancellation.
FindSubscription(e) ==
    /\ At(e, "find")
    /\ Goes(e, [h[e] EXCEPT !.step = IF row.sub = NoSub THEN "finish" ELSE "cancel",
                            !.sub = row.sub])
    /\ UNCHANGED <<stripeVars, acked, row, payment, journal, faults>>

CancelSubscription(e) ==
    /\ At(e, "cancel")
    /\ IF Live(h[e].sub)
       THEN /\ sub' = [sub EXCEPT ![h[e].sub] = "canceled"]
            /\ Emit("subscription", h[e].sub)
       ELSE UNCHANGED stripeVars
    /\ Goes(e, [h[e] EXCEPT !.step = "finish"])
    /\ UNCHANGED <<story, acked, row, payment, journal, faults>>

\* syncStripeSubscription stores the state Stripe holds now, not the payload's.
Retrieve(e) ==
    /\ At(e, "retrieve")
    /\ LET status == PlanStatus(sub[h[e].sub])
       IN Goes(e, [h[e] EXCEPT !.status = status,
                               !.step = IF status \in Granting THEN "check" ELSE "apply"])
    /\ UNCHANGED <<stripeVars, acked, row, payment, journal, faults>>

\* An open dispute keeps the access closed.
CheckDispute(e) ==
    /\ At(e, "check")
    /\ Goes(e, [h[e] EXCEPT !.status = IF payment.state = "disputed" THEN "paused" ELSE @,
                            !.step = "apply"])
    /\ UNCHANGED <<stripeVars, acked, row, payment, journal, faults>>

\* (mutant) the dates of the events are not compared.
StaleNever(e) == row.sub = h[e].sub /\ FALSE

\* (mutant) an event of another subscription always replaces the row.
SupersededNever(e) == row.sub \notin {NoSub, h[e].sub} /\ FALSE

\* The three refusals of apply_stripe_subscription_state, under the account's lock.
Stale(e) == row.sub = h[e].sub /\ h[e].at < row.at
Reversed(e) ==
    /\ row.sub = h[e].sub /\ h[e].status \in Granting
    /\ payment.state \in {"refunded", "dispute_lost"} /\ payment.at >= row.at
Superseded(e) ==
    /\ row.sub \notin {NoSub, h[e].sub}
    /\ h[e].status \notin Granting /\ GrantsAccess(row)

Apply(e) ==
    /\ At(e, "apply")
    /\ LET refused == Stale(e) \/ Reversed(e)
       IN /\ row' = IF refused \/ Superseded(e) THEN row
                    ELSE [status |-> h[e].status, sub |-> h[e].sub, open |-> TRUE, at |-> h[e].at]
          /\ Goes(e, [h[e] EXCEPT !.step = "finish",
                                  !.result = IF refused /\ events[e].kind = "subscription"
                                             THEN "ignored" ELSE "processed"])
    /\ UNCHANGED <<stripeVars, acked, payment, journal, faults>>

\* complete_stripe_webhook_event
Finish(e) ==
    /\ At(e, "finish")
    /\ journal' = [journal EXCEPT ![e] = h[e].result]
    /\ Goes(e, Idle)
    /\ UNCHANGED <<stripeVars, acked, row, payment, faults>>

\* The answer 200 reaches Stripe: the first one, or that of a redelivery of a finished event.
Acknowledge(e) ==
    /\ At(e, "idle") /\ journal[e] \in {"processed", "ignored"}
    /\ e \notin acked
    /\ acked' = acked \cup {e}
    /\ UNCHANGED <<stripeVars, row, payment, journal, h, faults>>

\* A request of the handler fails (the journal says so if it can), or the handler dies.
Fail(e) ==
    /\ e \in DOMAIN events /\ h[e].step # "idle"
    /\ faults < story.faults
    /\ faults' = faults + 1
    /\ \E status \in {"failed", "processing"} : journal' = [journal EXCEPT ![e] = status]
    /\ Goes(e, Idle)
    /\ UNCHANGED <<stripeVars, acked, row, payment>>

Handle(e) ==
    \/ ReadRow(e) \/ Record(e) \/ FindSubscription(e) \/ CancelSubscription(e)
    \/ Retrieve(e) \/ CheckDispute(e) \/ Apply(e) \/ Finish(e)

StripeActs ==
    \/ \E s \in Subs, status \in StripeStatuses : SubscriptionChanges(s, status)
    \/ \E kind \in ReversalKinds : PaymentReversed(kind)

Next ==
    \/ StripeActs
    \/ \E e \in Slots : Deliver(e) \/ Stuck(e) \/ Handle(e) \/ Acknowledge(e) \/ Fail(e)

\* Stripe redelivers, a handler goes on, and the fifteen minutes pass.
Fairness ==
    \A e \in Slots : WF_vars(Deliver(e) \/ Stuck(e) \/ Handle(e) \/ Acknowledge(e))

Spec == Init /\ [][Next]_vars
FairSpec == Spec /\ Fairness

-----------------------------------------------------------------------------
TypeOK ==
    /\ sub \in [Subs -> StripeStatuses]
    /\ clock \in Nat
    /\ events \in Seq([kind : {"subscription"} \cup ReversalKinds, sub : Subs \cup {NoSub}, at : Nat])
    /\ acked \subseteq Slots
    /\ row \in [status : PlanStatuses, sub : Subs \cup {NoSub}, open : BOOLEAN, at : Nat]
    /\ payment \in [state : PaymentStates, at : Nat]
    /\ journal \in [Slots -> {"none", "processing", "stuck", "processed", "ignored", "failed"}]
    /\ h \in [Slots -> [step : Steps, status : PlanStatuses, sub : Subs \cup {NoSub},
                        at : Nat, result : {"processed", "ignored"}]]
    /\ story \in Stories
    /\ faults \in 0 .. story.faults

\* Every event Stripe emitted has been handled.
Settled == DOMAIN events \subseteq acked

Ended == payment.state \in {"refunded", "dispute_lost"}

\* For one subscription, without a reversal, and when no two events share a second, the row of a
\* settled account is the state Stripe holds, however the deliveries, retries and reads
\* interleaved (syncStripeSubscription reads Stripe, apply_stripe_subscription_state refuses
\* older events).
SettledFollowsStripe ==
    story.subs = 1 /\ story.reversals = {} /\ ~ story.sameSecond /\ Settled =>
        /\ row.sub # NoSub => row.status = PlanStatus(sub[row.sub])
        /\ \A s \in Subs : sub[s] \in Granting => row.sub = s

\* For one subscription, once the row names it and when no two events share a second, a refunded or
\* lost payment leaves neither an open access nor a subscription that would be charged again: where
\* record_stripe_payment_state leaves the row alone, the cancellation's own event closes it
\* (handleChargeRefunded, handleChargeDispute).
ReversalEndsAccess ==
    story.subs = 1 /\ story.rowFirst /\ ~ story.sameSecond /\ Settled /\ Ended =>
        ~ GrantsAccess(row) /\ \A s \in Subs : ~ Live(s)

\* Whatever is disputed, won, lost or refunded, and in any order, a settled account has access
\* only while Stripe bills its subscription, when no two events share a second.
AccessIsPaid ==
    story.subs = 1 /\ ~ story.sameSecond /\ Settled /\ GrantsAccess(row) => sub[row.sub] \in Granting

\* The promise of the migration that introduced superseded_subscription: the events of an old
\* subscription, however late and in whatever order they are handled, never cost the paying
\* customer the access of the new one.  It needs that nothing read of Stripe before the new
\* subscription is written after it (inTurn), no reversal and different seconds.
PaidHasAccess ==
    story.inTurn /\ story.reversals = {} /\ ~ story.sameSecond /\ Settled =>
        \A s \in Subs : sub[s] \in Granting => row.sub = s /\ GrantsAccess(row)

\* Every event is handled in the end, when handlers fail or die a bounded number of times: the
\* journal gives an event back after a failure and after fifteen silent minutes.
AllHandled == []<>Settled

\* What the comment of syncStripeSubscription says: an open dispute keeps the access closed.
DisputeSuspends == Settled /\ payment.state = "disputed" => ~ GrantsAccess(row)
=============================================================================
