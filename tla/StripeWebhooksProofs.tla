------------------------ MODULE StripeWebhooksProofs ------------------------
(***************************************************************************)
(* Theorems about StripeWebhooks, for any stories, subscriptions, events   *)
(* and failures of handlers: type correctness, that the row of a settled   *)
(* account is what Stripe holds, that a refund or a lost dispute closes    *)
(* it, and that an old subscription never costs the access of a new one.   *)
(***************************************************************************)
EXTENDS StripeWebhooks, TLAPS, SequenceTheorems

Events == [kind : {"subscription"} \cup ReversalKinds, sub : Subs \cup {NoSub}, at : Nat]
Handlers == [step : Steps, status : PlanStatuses, sub : Subs \cup {NoSub},
             at : Nat, result : {"processed", "ignored"}]
JournalStatuses == {"none", "processing", "stuck", "processed", "ignored", "failed"}
Finished == {"processed", "ignored"}

-----------------------------------------------------------------------------
(* Types                                                                     *)

LEMMA Statuses ==
    /\ \A status : PlanStatus(status) \in PlanStatuses \ {"none"}
    /\ \A status : PlanStatus(status) \in Granting <=> status \in Granting
    /\ \A kind, open : ReversalStatus(kind, open) \in PlanStatuses \ {"none"}
    /\ \A kind : ReversalState(kind) \in PaymentStates \ {"none"}
<1>1. ASSUME NEW status
      PROVE  /\ PlanStatus(status) \in PlanStatuses \ {"none"}
             /\ PlanStatus(status) \in Granting <=> status \in Granting
  BY DEF PlanStatus, PlanStatuses, Granting
<1>2. ASSUME NEW kind, NEW open PROVE ReversalStatus(kind, open) \in PlanStatuses \ {"none"}
  BY DEF ReversalStatus, PlanStatuses
<1>3. ASSUME NEW kind PROVE ReversalState(kind) \in PaymentStates \ {"none"}
  BY DEF ReversalState, PaymentStates
<1> QED BY <1>1, <1>2, <1>3

LEMMA HandlerTyped ==
    ASSUME TypeOK, NEW e \in Slots
    PROVE  h[e] \in Handlers /\ Idle \in Handlers
BY DEF TypeOK, Handlers, Idle, Steps, PlanStatuses

LEMMA EventTyped ==
    ASSUME TypeOK
    PROVE  /\ events \in Seq(Events) /\ Len(events) \in Nat
           /\ DOMAIN events = 1 .. Len(events)
           /\ \A i \in DOMAIN events : events[i] \in Events
<1>1. events \in Seq(Events)
  BY DEF TypeOK, Events
<1> QED BY <1>1, LenProperties

\* What the sequence of the events is after an emission.
LEMMA EmitGrows ==
    ASSUME TypeOK, NEW kind \in {"subscription"} \cup ReversalKinds, NEW s \in Subs \cup {NoSub},
           Emit(kind, s)
    PROVE  /\ clock' \in Nat /\ clock <= clock' /\ (~ story.sameSecond => clock' = clock + 1)
           /\ events' \in Seq(Events)
           /\ Len(events') = Len(events) + 1
           /\ DOMAIN events' = 1 .. (Len(events) + 1)
           /\ \A i \in 1 .. Len(events) : events'[i] = events[i]
           /\ events'[Len(events) + 1] = [kind |-> kind, sub |-> s, at |-> clock']
<1>1. PICK t \in {clock + 1} \cup (IF story.sameSecond THEN {clock} ELSE {}) :
        clock' = t /\ events' = Append(events, [kind |-> kind, sub |-> s, at |-> t])
  BY DEF Emit
<1>2. clock \in Nat /\ t \in Nat /\ clock <= t /\ (~ story.sameSecond => t = clock + 1)
  BY DEF TypeOK
<1> DEFINE new == [kind |-> kind, sub |-> s, at |-> t]
<1>3. new \in Events
  BY <1>2 DEF Events
<1>4. events \in Seq(Events)
  BY EventTyped
<1> HIDE DEF new
<1>5. /\ Append(events, new) \in Seq(Events)
      /\ Len(Append(events, new)) = Len(events) + 1
      /\ \A i \in 1 .. Len(events) : Append(events, new)[i] = events[i]
      /\ Append(events, new)[Len(events) + 1] = new
  BY <1>3, <1>4, AppendProperties
<1>6. DOMAIN Append(events, new) = 1 .. (Len(events) + 1)
  BY <1>5, LenProperties
<1> QED BY <1>1, <1>2, <1>5, <1>6 DEF new

LEMMA StripeTyped == ASSUME TypeOK, StripeActs PROVE TypeOK'
<1>1. ASSUME NEW s \in Subs, NEW status \in StripeStatuses, SubscriptionChanges(s, status)
      PROVE  TypeOK'
  <2>1. Emit("subscription", s)
    BY <1>1 DEF SubscriptionChanges
  <2>2. clock' \in Nat /\ events' \in Seq(Events)
    BY <2>1, EmitGrows
  <2>3. sub' \in [Subs -> StripeStatuses]
    BY <1>1 DEF SubscriptionChanges, TypeOK
  <2> QED BY <1>1, <2>2, <2>3 DEF SubscriptionChanges, TypeOK, Events
<1>2. ASSUME NEW kind \in ReversalKinds, PaymentReversed(kind) PROVE TypeOK'
  <2>1. Emit(kind, NoSub)
    BY <1>2 DEF PaymentReversed
  <2>2. clock' \in Nat /\ events' \in Seq(Events)
    BY <2>1, EmitGrows
  <2> QED BY <1>2, <2>2 DEF PaymentReversed, TypeOK, Events
<1> QED BY <1>1, <1>2 DEF StripeActs

\* The payment's row after a reversal: as it was, or the reversal's own state.
LEMMA Recorded ==
    ASSUME NEW e \in Slots, Record(e)
    PROVE  \/ UNCHANGED <<payment, row>>
           \/ /\ payment' = [state |-> ReversalState(events[e].kind), at |-> events[e].at]
              /\ \/ row' = row
                 \/ row' = [row EXCEPT !.status = h[e].status,
                                       !.open = @ /\ h[e].status # "cancelled"]
<1> DEFINE own == [state |-> ReversalState(events[e].kind), at |-> events[e].at]
           lifecycle == IF payment.state = "none" THEN own ELSE payment
<1>1. CASE Recordable(lifecycle, own)
  BY <1>1 DEF Record
<1>2. CASE ~ Recordable(lifecycle, own)
  <2>1. payment' = lifecycle /\ row' = row
    BY <1>2 DEF Record
  <2> QED BY <2>1
<1> QED BY <1>1, <1>2

LEMMA HandleTyped == ASSUME TypeOK, NEW e \in Slots, Handle(e) PROVE TypeOK'
<1>0. /\ h[e] \in Handlers /\ Idle \in Handlers /\ h \in [Slots -> Handlers]
      /\ row.sub \in Subs \cup {NoSub} /\ row.at \in Nat
  BY HandlerTyped DEF TypeOK, Handlers
<1>1. ASSUME NEW k \in Handlers, Goes(e, k), UNCHANGED <<stripeVars, acked, row, payment, journal, faults>>
      PROVE  TypeOK'
  <2>1. h' \in [Slots -> Handlers]
    BY <1>0, <1>1 DEF Goes
  <2> QED BY <1>1, <2>1 DEF TypeOK, Handlers, stripeVars
<1>2. CASE ReadRow(e)
  <2> DEFINE resync == events[e].kind = "dispute_won" /\ row.sub # NoSub
             status == IF resync THEN "paused" ELSE ReversalStatus(events[e].kind, row.open)
             at == IF row.at > h[e].at /\ resync THEN row.at ELSE h[e].at
             k == [h[e] EXCEPT !.step = "record", !.sub = IF resync THEN row.sub ELSE NoSub,
                               !.status = status, !.at = at]
  <2>1. status \in PlanStatuses /\ at \in Nat /\ "record" \in Steps
    BY <1>0, Statuses DEF Handlers, PlanStatuses, Steps
  <2> HIDE DEF status, at
  <2>2. k \in Handlers
    BY <1>0, <2>1 DEF Handlers
  <2>3. Goes(e, k)
    BY <1>2 DEF ReadRow, status, at
  <2> HIDE DEF k
  <2> QED BY <1>1, <1>2, <2>2, <2>3 DEF ReadRow
<1>3. CASE Record(e)
  <2> DEFINE step == IF h[e].status = "cancelled" THEN "find"
                     ELSE IF h[e].sub # NoSub THEN "retrieve" ELSE "finish"
  <2>1. step \in Steps
    BY DEF Steps
  <2>2. h' = [h EXCEPT ![e] = [h[e] EXCEPT !.step = step]]
    BY <1>3 DEF Record, Goes
  <2> HIDE DEF step
  <2>3. h' \in [Slots -> Handlers]
    BY <1>0, <2>1, <2>2 DEF Handlers
  <2> DEFINE state == ReversalState(events[e].kind)
             status == h[e].status
  <2>4. state \in PaymentStates /\ status \in PlanStatuses
    BY <1>0, Statuses DEF Handlers
  <2>5. events[e].at \in Nat
    BY <1>3, EventTyped DEF Record, At, Events
  <2>6. \/ UNCHANGED <<payment, row>>
        \/ /\ payment' = [state |-> state, at |-> events[e].at]
           /\ \/ row' = row
              \/ row' = [row EXCEPT !.status = status, !.open = @ /\ status # "cancelled"]
    BY <1>3, Recorded
  <2> HIDE DEF state, status
  <2> DEFINE open == row.open /\ status # "cancelled"
  <2>7. open \in BOOLEAN
    OBVIOUS
  <2>8. \/ row' = row
        \/ row' = [row EXCEPT !.status = status, !.open = open]
    BY <2>6
  <2> HIDE DEF open
  <2>9. row' \in [status : PlanStatuses, sub : Subs \cup {NoSub}, open : BOOLEAN, at : Nat]
    BY <2>4, <2>7, <2>8 DEF TypeOK
  <2>10. payment' \in [state : PaymentStates, at : Nat]
    BY <2>4, <2>5, <2>6 DEF TypeOK
  <2> QED BY <1>3, <2>3, <2>9, <2>10 DEF Record, TypeOK, Handlers, stripeVars
<1>4. CASE FindSubscription(e)
  <2> DEFINE k == [h[e] EXCEPT !.step = IF row.sub = NoSub THEN "finish" ELSE "cancel", !.sub = row.sub]
  <2>1. k \in Handlers
    BY <1>0 DEF Handlers, Steps
  <2>2. Goes(e, k)
    BY <1>4 DEF FindSubscription
  <2> HIDE DEF k
  <2> QED BY <1>1, <1>4, <2>1, <2>2 DEF FindSubscription
<1>5. CASE CancelSubscription(e)
  <2> DEFINE k == [h[e] EXCEPT !.step = "finish"]
  <2>1. k \in Handlers
    BY <1>0 DEF Handlers, Steps
  <2>2. h' \in [Slots -> Handlers]
    BY <1>0, <1>5, <2>1 DEF CancelSubscription, Goes
  <2>3. CASE Live(h[e].sub)
    <3>1. Emit("subscription", h[e].sub) /\ sub' = [sub EXCEPT ![h[e].sub] = "canceled"]
      BY <1>5, <2>3 DEF CancelSubscription
    <3>2. clock' \in Nat /\ events' \in Seq(Events)
      BY <1>0, <3>1, EmitGrows DEF Handlers
    <3>3. sub' \in [Subs -> StripeStatuses]
      BY <3>1 DEF TypeOK, StripeStatuses
    <3> QED BY <1>5, <2>2, <3>2, <3>3 DEF CancelSubscription, TypeOK, Events, Handlers
  <2>4. CASE ~ Live(h[e].sub)
    BY <1>5, <2>2, <2>4 DEF CancelSubscription, TypeOK, Handlers, stripeVars
  <2> QED BY <2>3, <2>4
<1>6. CASE Retrieve(e)
  <2> DEFINE status == PlanStatus(sub[h[e].sub])
             k == [h[e] EXCEPT !.status = status, !.step = IF status \in Granting THEN "check" ELSE "apply"]
  <2>1. status \in PlanStatuses
    BY Statuses
  <2>2. Goes(e, k)
    BY <1>6 DEF Retrieve
  <2> HIDE DEF status
  <2>3. k \in Handlers
    BY <1>0, <2>1 DEF Handlers, Steps
  <2> HIDE DEF k
  <2> QED BY <1>1, <1>6, <2>2, <2>3 DEF Retrieve
<1>7. CASE CheckDispute(e)
  <2> DEFINE k == [h[e] EXCEPT !.status = IF payment.state = "disputed" THEN "paused" ELSE @, !.step = "apply"]
  <2>1. k \in Handlers
    BY <1>0 DEF Handlers, Steps, PlanStatuses
  <2>2. Goes(e, k)
    BY <1>7 DEF CheckDispute
  <2> HIDE DEF k
  <2> QED BY <1>1, <1>7, <2>1, <2>2 DEF CheckDispute
<1>8. CASE Apply(e)
  <2> DEFINE result == IF (Stale(e) \/ Reversed(e)) /\ events[e].kind = "subscription"
                       THEN "ignored" ELSE "processed"
             k == [h[e] EXCEPT !.step = "finish", !.result = result]
             new == [status |-> h[e].status, sub |-> h[e].sub, open |-> TRUE, at |-> h[e].at]
  <2>1. Goes(e, k) /\ (row' = row \/ row' = new)
    BY <1>8 DEF Apply
  <2>2. k \in Handlers
    BY <1>0 DEF Handlers, Steps
  <2> HIDE DEF k
  <2>3. new \in [status : PlanStatuses, sub : Subs \cup {NoSub}, open : BOOLEAN, at : Nat]
    BY <1>0 DEF Handlers
  <2> HIDE DEF new
  <2>4. h' \in [Slots -> Handlers]
    BY <1>0, <2>1, <2>2 DEF Goes
  <2> QED BY <1>8, <2>1, <2>3, <2>4 DEF Apply, TypeOK, Handlers, stripeVars
<1>9. CASE Finish(e)
  <2>1. h' \in [Slots -> Handlers]
    BY <1>0, <1>9 DEF Finish, Goes
  <2>2. journal' \in [Slots -> JournalStatuses]
    BY <1>0, <1>9 DEF Finish, TypeOK, Handlers, JournalStatuses
  <2> QED BY <1>9, <2>1, <2>2 DEF Finish, TypeOK, Handlers, JournalStatuses, stripeVars
<1> QED
  BY <1>2, <1>3, <1>4, <1>5, <1>6, <1>7, <1>8, <1>9 DEF Handle

LEMMA RouteTyped ==
    ASSUME TypeOK, NEW e \in Slots, Deliver(e) \/ Stuck(e) \/ Acknowledge(e) \/ Fail(e)
    PROVE  TypeOK'
<1>0. h \in [Slots -> Handlers] /\ Idle \in Handlers /\ journal \in [Slots -> JournalStatuses]
  BY HandlerTyped DEF TypeOK, Handlers, JournalStatuses
<1>1. CASE Deliver(e)
  <2>1. events[e] \in Events
    BY <1>1, EventTyped DEF Deliver, At
  <2>2. Opened(e) \in Handlers
    BY <2>1 DEF Opened, Events, Idle, Handlers, Steps, PlanStatuses
  <2>3. h' \in [Slots -> Handlers] /\ journal' \in [Slots -> JournalStatuses]
    BY <1>0, <1>1, <2>2 DEF Deliver, Goes, JournalStatuses
  <2> QED BY <1>1, <2>3 DEF Deliver, TypeOK, Handlers, JournalStatuses, stripeVars
<1>2. CASE Stuck(e)
  <2>1. journal' \in [Slots -> JournalStatuses]
    BY <1>0, <1>2 DEF Stuck, JournalStatuses
  <2> QED BY <1>2, <2>1 DEF Stuck, TypeOK, JournalStatuses, stripeVars
<1>3. CASE Acknowledge(e)
  BY <1>3 DEF Acknowledge, TypeOK, stripeVars
<1>4. CASE Fail(e)
  <2>1. h' \in [Slots -> Handlers] /\ journal' \in [Slots -> JournalStatuses]
    BY <1>0, <1>4 DEF Fail, Goes, JournalStatuses
  <2>2. story.faults \in Nat
    BY StoryAssumption DEF TypeOK
  <2>3. faults' \in 0 .. story.faults
    BY <1>4, <2>2 DEF Fail, TypeOK
  <2> QED BY <1>4, <2>1, <2>3 DEF Fail, TypeOK, Handlers, JournalStatuses, stripeVars
<1> QED BY <1>1, <1>2, <1>3, <1>4

LEMMA InitTyped == Init => TypeOK
<1> SUFFICES ASSUME Init PROVE TypeOK
  OBVIOUS
<1>1. story \in Stories /\ story.faults \in Nat
  BY StoryAssumption DEF Init
<1>2. Idle \in Handlers
  BY DEF Idle, Handlers, Steps, PlanStatuses
<1>3. h \in [Slots -> Handlers]
  BY <1>2 DEF Init
<1>4. events \in Seq(Events)
  BY DEF Init
<1> QED
  BY <1>1, <1>3, <1>4 DEF Init, TypeOK, Events, Handlers, StripeStatuses, PlanStatuses, PaymentStates

LEMMA StepTyped == TypeOK /\ [Next]_vars => TypeOK'
<1>1. TypeOK /\ UNCHANGED vars => TypeOK'
  BY DEF vars, stripeVars, TypeOK
<1> QED BY <1>1, StripeTyped, HandleTyped, RouteTyped DEF Next

\* Type correctness, for any stories: the statuses of the row are those of the plans, whatever
\* Stripe's own are (stripeSubscriptionStatusToPlanStatus).
THEOREM Typing == Spec => []TypeOK
BY InitTyped, StepTyped, PTL DEF Spec
-----------------------------------------------------------------------------
(* What the handlers hold                                                    *)

\* A row without a subscription was never written, and a handler that works on a subscription
\* has one.
Named ==
    /\ row.sub = NoSub => row.status = "none" /\ ~ row.open /\ row.at = 0
    /\ \A e \in Slots : h[e].step \in {"cancel", "retrieve", "check", "apply"} => h[e].sub # NoSub
    /\ \A i \in DOMAIN events : events[i].kind = "subscription" => events[i].sub # NoSub

\* Nothing is known of an event that has not happened; a finished or acknowledged one is over.
Placed ==
    \A e \in Slots :
        /\ e \notin DOMAIN events => h[e].step = "idle" /\ journal[e] = "none"
        /\ journal[e] \in Finished => h[e].step = "idle"
        /\ e \in acked => journal[e] \in Finished

\* A reversal reads, records and cancels; a subscription's event is handled under its own date.
Kinds ==
    \A e \in Slots :
        /\ h[e].step \in {"read", "record", "find", "cancel"} => events[e].kind # "subscription"
        /\ h[e].step = "record" => h[e].status \notin Granting
        /\ h[e].step # "idle" /\ events[e].kind = "subscription" => h[e].at = events[e].at

\* The payment is reversed only in a story with reversals.
Reversals ==
    /\ \A i \in DOMAIN events : events[i].kind # "subscription" => story.reversals # {}
    /\ payment.state # "none" => story.reversals # {}

Steady == Named /\ Placed /\ Kinds /\ Reversals

-----------------------------------------------------------------------------
(* The shape of a step                                                       *)

\* What a step of the handler of e leaves alone.
Routed(e) == Deliver(e) \/ Stuck(e) \/ Handle(e) \/ Acknowledge(e) \/ Fail(e)

LEMMA Local ==
    ASSUME TypeOK, NEW e \in Slots, Routed(e)
    PROVE  /\ e \in DOMAIN events /\ story' = story
           /\ \A o \in Slots \ {e} : h'[o] = h[o] /\ journal'[o] = journal[o]
           /\ CancelSubscription(e) \/ UNCHANGED <<sub, clock, events>>
<1>0. h \in [Slots -> Handlers] /\ journal \in [Slots -> JournalStatuses]
  BY DEF TypeOK, Handlers, JournalStatuses
<1>1. CASE Deliver(e)
  BY <1>0, <1>1 DEF Deliver, At, Goes, stripeVars
<1>2. CASE Stuck(e)
  BY <1>0, <1>2 DEF Stuck, At, stripeVars
<1>3. CASE Acknowledge(e)
  BY <1>0, <1>3 DEF Acknowledge, At, stripeVars
<1>4. CASE Fail(e)
  BY <1>0, <1>4 DEF Fail, Goes, stripeVars
<1>5. CASE ReadRow(e)
  BY <1>0, <1>5 DEF ReadRow, At, Goes, stripeVars
<1>6. CASE Record(e)
  BY <1>0, <1>6 DEF Record, At, Goes, stripeVars
<1>7. CASE FindSubscription(e)
  BY <1>0, <1>7 DEF FindSubscription, At, Goes, stripeVars
<1>8. CASE CancelSubscription(e)
  BY <1>0, <1>8 DEF CancelSubscription, At, Goes, stripeVars
<1>9. CASE Retrieve(e)
  BY <1>0, <1>9 DEF Retrieve, At, Goes, stripeVars
<1>10. CASE CheckDispute(e)
  BY <1>0, <1>10 DEF CheckDispute, At, Goes, stripeVars
<1>11. CASE Apply(e)
  BY <1>0, <1>11 DEF Apply, At, Goes, stripeVars
<1>12. CASE Finish(e)
  BY <1>0, <1>12 DEF Finish, At, Goes, stripeVars
<1> QED
  BY <1>1, <1>2, <1>3, <1>4, <1>5, <1>6, <1>7, <1>8, <1>9, <1>10, <1>11, <1>12 DEF Routed, Handle

\* An event of the subscription s, or of a reversal, is added.
Added(kind, s) ==
    /\ clock' \in Nat /\ clock <= clock' /\ (~ story.sameSecond => clock' = clock + 1)
    /\ Len(events') = Len(events) + 1
    /\ DOMAIN events' = 1 .. (Len(events) + 1)
    /\ \A i \in 1 .. Len(events) : events'[i] = events[i]
    /\ events'[Len(events) + 1] = [kind |-> kind, sub |-> s, at |-> clock']

LEMMA Growth ==
    ASSUME TypeOK, Steady, Next
    PROVE  \/ UNCHANGED <<sub, clock, events>>
           \/ \E s \in Subs, status \in StripeStatuses :
                /\ Added("subscription", s) /\ sub' = [sub EXCEPT ![s] = status]
                /\ s <= story.subs \/ (\E e \in Slots : s = h[e].sub)
                /\ UNCHANGED <<row, payment, journal>>
           \/ \E kind \in story.reversals \cap ReversalKinds :
                Added(kind, NoSub) /\ sub' = sub /\ UNCHANGED <<row, payment, journal, h>>
<1>1. ASSUME NEW s \in Subs, NEW status \in StripeStatuses, SubscriptionChanges(s, status)
      PROVE  /\ Added("subscription", s) /\ sub' = [sub EXCEPT ![s] = status]
             /\ s <= story.subs /\ UNCHANGED <<row, payment, journal>>
  <2>1. Emit("subscription", s)
    BY <1>1 DEF SubscriptionChanges
  <2>2. Added("subscription", s)
    BY <2>1, EmitGrows DEF Added
  <2> QED BY <1>1, <2>2 DEF SubscriptionChanges
<1>2. ASSUME NEW kind \in ReversalKinds, PaymentReversed(kind)
      PROVE  /\ kind \in story.reversals /\ Added(kind, NoSub)
             /\ sub' = sub /\ UNCHANGED <<row, payment, journal, h>>
  <2>1. Emit(kind, NoSub)
    BY <1>2 DEF PaymentReversed
  <2>2. Added(kind, NoSub)
    BY <2>1, EmitGrows DEF Added
  <2> QED BY <1>2, <2>2 DEF PaymentReversed
<1>3. ASSUME NEW e \in Slots, CancelSubscription(e), ~ UNCHANGED <<sub, clock, events>>
      PROVE  \E s \in Subs, status \in StripeStatuses :
                /\ Added("subscription", s) /\ sub' = [sub EXCEPT ![s] = status]
                /\ s <= story.subs \/ (\E o \in Slots : s = h[o].sub)
                /\ UNCHANGED <<row, payment, journal>>
  <2> DEFINE s == h[e].sub
  <2>1. Emit("subscription", s) /\ sub' = [sub EXCEPT ![s] = "canceled"]
    BY <1>3 DEF CancelSubscription, stripeVars
  <2>2. s \in Subs
    <3>1. h[e].step = "cancel" /\ h[e] \in Handlers
      BY <1>3, HandlerTyped DEF CancelSubscription, At
    <3> QED BY <3>1 DEF Handlers, Steady, Named
  <2>3. Added("subscription", s)
    BY <2>1, <2>2, EmitGrows DEF Added
  <2>4. UNCHANGED <<row, payment, journal>> /\ "canceled" \in StripeStatuses
    BY <1>3 DEF CancelSubscription, StripeStatuses
  <2> HIDE DEF s
  <2> QED BY <2>1, <2>2, <2>3, <2>4 DEF s
<1> QED
  BY <1>1, <1>2, <1>3, Local DEF Next, StripeActs, Routed

-----------------------------------------------------------------------------
(* The invariant of every story                                              *)

LEMMA InitSteady == Init => Steady
BY DEF Init, Idle, Steady, Named, Placed, Kinds, Reversals, Finished, NoSub

\* The events that happened keep their place, and a new one is of its kind.
LEMMA Kept ==
    ASSUME TypeOK, Steady, Next
    PROVE  /\ DOMAIN events \subseteq DOMAIN events'
           /\ \A i \in DOMAIN events : events'[i] = events[i]
           /\ \A i \in DOMAIN events' \ DOMAIN events :
                 /\ events'[i].kind = "subscription" => events'[i].sub # NoSub
                 /\ events'[i].kind # "subscription" => story.reversals # {}
<1>1. DOMAIN events = 1 .. Len(events) /\ Len(events) \in Nat
  BY EventTyped
<1>2. CASE UNCHANGED <<sub, clock, events>>
  BY <1>2
<1>3. ASSUME NEW kind, NEW s \in Subs \cup {NoSub}, Added(kind, s),
             kind = "subscription" => s # NoSub, kind # "subscription" => story.reversals # {}
      PROVE  /\ DOMAIN events \subseteq DOMAIN events'
             /\ \A i \in DOMAIN events : events'[i] = events[i]
             /\ \A i \in DOMAIN events' \ DOMAIN events :
                   /\ events'[i].kind = "subscription" => events'[i].sub # NoSub
                   /\ events'[i].kind # "subscription" => story.reversals # {}
  BY <1>1, <1>3 DEF Added
<1>4. \A s \in Subs : s # NoSub
  BY DEF Subs, NoSub
<1>5. "subscription" \notin ReversalKinds
  BY DEF ReversalKinds
<1> QED BY <1>2, <1>3, <1>4, <1>5, Growth

LEMMA NamedStep == ASSUME TypeOK, Steady, Next PROVE Named'
<1>1. \A i \in DOMAIN events' : events'[i].kind = "subscription" => events'[i].sub # NoSub
  BY Kept DEF Steady, Named
<1>2. ASSUME StripeActs PROVE row' = row /\ h' = h
  BY <1>2 DEF StripeActs, SubscriptionChanges, PaymentReversed
<1>3. ASSUME NEW e \in Slots, Routed(e)
      PROVE  /\ h'[e].step \in {"cancel", "retrieve", "check", "apply"} => h'[e].sub # NoSub
             /\ row'.sub = NoSub => row'.status = "none" /\ ~ row'.open /\ row'.at = 0
  <2>0. /\ h \in [Slots -> Handlers] /\ h[e] \in Handlers
        /\ h[e].step \in {"cancel", "retrieve", "check", "apply"} => h[e].sub # NoSub
        /\ row.sub = NoSub => row.status = "none" /\ ~ row.open /\ row.at = 0
    BY HandlerTyped DEF TypeOK, Handlers, Steady, Named
  <2>1. CASE Deliver(e)
    <3>1. h'[e] = Opened(e) /\ row' = row
      BY <2>0, <2>1 DEF Deliver, Goes
    <3>2. events[e].kind = "subscription" => events[e].sub # NoSub
      BY <2>1 DEF Deliver, At, Steady, Named
    <3> QED BY <2>0, <3>1, <3>2 DEF Opened, Idle
  <2>2. CASE Stuck(e)
    BY <2>0, <2>2 DEF Stuck
  <2>3. CASE Acknowledge(e)
    BY <2>0, <2>3 DEF Acknowledge
  <2>4. CASE Fail(e)
    BY <2>0, <2>4 DEF Fail, Goes, Idle
  <2>5. CASE ReadRow(e)
    BY <2>0, <2>5 DEF ReadRow, Goes, Handlers
  <2>6. CASE Record(e)
    <3>1. row' = row \/ (row' = [row EXCEPT !.status = h[e].status,
                                            !.open = @ /\ h[e].status # "cancelled"]
                         /\ row.status # "none")
      BY <2>6 DEF Record
    <3>2. row'.sub = row.sub /\ (row.sub = NoSub => row' = row)
      BY <2>0, <3>1 DEF TypeOK
    <3> QED BY <2>0, <2>6, <3>2 DEF Record, Goes, Handlers
  <2>7. CASE FindSubscription(e)
    BY <2>0, <2>7 DEF FindSubscription, Goes, Handlers
  <2>8. CASE CancelSubscription(e)
    BY <2>0, <2>8 DEF CancelSubscription, Goes, Handlers
  <2>9. CASE Retrieve(e)
    BY <2>0, <2>9 DEF Retrieve, At, Goes, Handlers
  <2>10. CASE CheckDispute(e)
    BY <2>0, <2>10 DEF CheckDispute, At, Goes, Handlers
  <2>11. CASE Apply(e)
    BY <2>0, <2>11 DEF Apply, At, Goes, Handlers
  <2>12. CASE Finish(e)
    BY <2>0, <2>12 DEF Finish, Goes, Idle
  <2> QED
    BY <1>3, <2>1, <2>2, <2>3, <2>4, <2>5, <2>6, <2>7, <2>8, <2>9, <2>10, <2>11, <2>12 DEF Routed, Handle
<1>4. CASE StripeActs
  BY <1>1, <1>2, <1>4 DEF Steady, Named
<1>5. ASSUME NEW e \in Slots, Routed(e) PROVE Named'
  <2>1. \A o \in Slots \ {e} : h'[o] = h[o]
    BY <1>5, Local
  <2> QED BY <1>1, <1>3, <1>5, <2>1 DEF Steady, Named
<1> QED BY <1>4, <1>5 DEF Next, Routed

LEMMA PlacedStep == ASSUME TypeOK, Steady, Next PROVE Placed'
<1>0. /\ h \in [Slots -> Handlers] /\ journal \in [Slots -> JournalStatuses]
      /\ \A e \in Slots : /\ e \notin DOMAIN events => h[e].step = "idle" /\ journal[e] = "none"
                          /\ journal[e] \in Finished => h[e].step = "idle"
                          /\ e \in acked => journal[e] \in Finished
  BY DEF TypeOK, Handlers, JournalStatuses, Steady, Placed
<1>1. CASE StripeActs
  <2>1. UNCHANGED <<h, journal, acked>>
    BY <1>1 DEF StripeActs, SubscriptionChanges, PaymentReversed
  <2> QED BY <1>0, <2>1, Kept DEF Placed
<1>2. ASSUME NEW e \in Slots, Routed(e)
      PROVE  /\ journal'[e] \in Finished => h'[e].step = "idle"
             /\ e \in acked' => journal'[e] \in Finished
             /\ \A o \in Slots \ {e} : o \in acked' => o \in acked
  <2>1. CASE Deliver(e)
    BY <1>0, <2>1 DEF Deliver, At, Claimable, Finished
  <2>2. CASE Stuck(e)
    BY <1>0, <2>2 DEF Stuck, Finished
  <2>3. CASE Acknowledge(e)
    BY <1>0, <2>3 DEF Acknowledge, Finished
  <2>4. CASE Fail(e)
    BY <1>0, <2>4 DEF Fail, Goes, Idle, Finished
  <2>5. CASE ReadRow(e) \/ Record(e)
    BY <1>0, <2>5 DEF ReadRow, Record, At
  <2>6. CASE FindSubscription(e) \/ CancelSubscription(e)
    BY <1>0, <2>6 DEF FindSubscription, CancelSubscription, At
  <2>7. CASE Retrieve(e) \/ CheckDispute(e) \/ Apply(e)
    BY <1>0, <2>7 DEF Retrieve, CheckDispute, Apply, At
  <2>8. CASE Finish(e)
    <3>1. h[e] \in Handlers /\ h[e].result \in Finished
      BY <1>0 DEF Handlers, Finished
    <3> QED BY <1>0, <2>8, <3>1 DEF Finish, Goes, Idle, Finished, At
  <2> QED
    BY <1>2, <2>1, <2>2, <2>3, <2>4, <2>5, <2>6, <2>7, <2>8 DEF Routed, Handle
<1>3. ASSUME NEW e \in Slots, Routed(e) PROVE Placed'
  <2>1. e \in DOMAIN events' /\ DOMAIN events \subseteq DOMAIN events'
    BY <1>3, Local, Kept
  <2>2. \A o \in Slots \ {e} : h'[o] = h[o] /\ journal'[o] = journal[o]
    BY <1>3, Local
  <2> QED BY <1>0, <1>2, <1>3, <2>1, <2>2 DEF Placed
<1> QED BY <1>1, <1>3 DEF Next, Routed

LEMMA KindsStep == ASSUME TypeOK, Steady, Next PROVE Kinds'
<1>0. /\ h \in [Slots -> Handlers] /\ \A i \in DOMAIN events : events'[i] = events[i]
      /\ \A e \in Slots :
            /\ e \notin DOMAIN events => h[e].step = "idle"
            /\ h[e].step \in {"read", "record", "find", "cancel"} => events[e].kind # "subscription"
            /\ h[e].step = "record" => h[e].status \notin Granting
            /\ h[e].step # "idle" /\ events[e].kind = "subscription" => h[e].at = events[e].at
  BY Kept DEF TypeOK, Handlers, Steady, Placed, Kinds
<1>1. CASE StripeActs
  <2>1. h' = h
    BY <1>1 DEF StripeActs, SubscriptionChanges, PaymentReversed
  <2> QED BY <1>0, <2>1 DEF Kinds
<1>2. ASSUME NEW e \in Slots, Routed(e)
      PROVE  /\ h'[e].step \in {"read", "record", "find", "cancel"} => events[e].kind # "subscription"
             /\ h'[e].step = "record" => h'[e].status \notin Granting
             /\ h'[e].step # "idle" /\ events[e].kind = "subscription" => h'[e].at = events[e].at
  <2>0. h[e] \in Handlers
    BY <1>0
  <2>1. CASE Deliver(e)
    <3>1. h'[e] = Opened(e) /\ events[e] \in Events
      BY <1>0, <2>1, EventTyped DEF Deliver, Goes, At
    <3> QED BY <3>1 DEF Opened, Idle, Granting, Events
  <2>2. CASE Stuck(e) \/ Acknowledge(e)
    BY <1>0, <2>2 DEF Stuck, Acknowledge
  <2>3. CASE Fail(e) \/ Finish(e)
    BY <1>0, <2>3 DEF Fail, Finish, Goes, Idle
  <2>4. CASE ReadRow(e)
    <3>1. row.sub = NoSub => ~ row.open
      BY DEF Steady, Named
    <3>2. ReversalStatus(events[e].kind, row.open) \in Granting => events[e].kind = "dispute_won" /\ row.open
      BY DEF ReversalStatus, Granting
    <3>3. h'[e].step = "record" /\ (h'[e].status = "paused" \/ h'[e].status = ReversalStatus(events[e].kind, row.open))
      BY <1>0, <2>0, <2>4 DEF ReadRow, Goes, Handlers
    <3>4. row.open /\ events[e].kind = "dispute_won" => h'[e].status = "paused"
      BY <1>0, <2>0, <2>4, <3>1 DEF ReadRow, Goes, Handlers
    <3>5. events[e].kind # "subscription"
      BY <1>0, <2>4 DEF ReadRow, At
    <3> QED BY <3>2, <3>3, <3>4, <3>5 DEF Granting
  <2>5. CASE Record(e)
    BY <1>0, <2>0, <2>5 DEF Record, At, Goes, Handlers
  <2>6. CASE FindSubscription(e)
    BY <1>0, <2>0, <2>6 DEF FindSubscription, At, Goes, Handlers
  <2>10. CASE CancelSubscription(e)
    BY <1>0, <2>0, <2>10 DEF CancelSubscription, At, Goes, Handlers
  <2>7. CASE Retrieve(e)
    BY <1>0, <2>0, <2>7 DEF Retrieve, At, Goes, Handlers
  <2>8. CASE CheckDispute(e)
    BY <1>0, <2>0, <2>8 DEF CheckDispute, At, Goes, Handlers
  <2>9. CASE Apply(e)
    BY <1>0, <2>0, <2>9 DEF Apply, At, Goes, Handlers
  <2> QED
    BY <1>2, <2>1, <2>2, <2>3, <2>4, <2>5, <2>6, <2>7, <2>8, <2>9, <2>10 DEF Routed, Handle
<1>3. ASSUME NEW e \in Slots, Routed(e) PROVE Kinds'
  <2>1. e \in DOMAIN events /\ \A o \in Slots \ {e} : h'[o] = h[o]
    BY <1>3, Local
  <2> QED BY <1>0, <1>2, <1>3, <2>1 DEF Kinds
<1> QED BY <1>1, <1>3 DEF Next, Routed

LEMMA ReversalsStep == ASSUME TypeOK, Steady, Next PROVE Reversals'
<1>1. story' = story
  BY Local DEF Next, Routed, StripeActs, SubscriptionChanges, PaymentReversed
<1>2. \A i \in DOMAIN events' : events'[i].kind # "subscription" => story.reversals # {}
  BY Kept DEF Steady, Reversals
<1>3. payment'.state # "none" => story.reversals # {}
  <2>1. ASSUME NEW e \in Slots, Record(e) PROVE story.reversals # {}
    BY <2>1 DEF Record, At, Steady, Kinds, Reversals
  <2>2. payment' = payment \/ \E e \in Slots : Record(e)
    BY DEF Next, StripeActs, SubscriptionChanges, PaymentReversed, Deliver, Stuck, Handle,
           Acknowledge, Fail, ReadRow, FindSubscription, CancelSubscription, Retrieve,
           CheckDispute, Apply, Finish
  <2> QED BY <2>1, <2>2 DEF Steady, Reversals
<1> QED BY <1>1, <1>2, <1>3 DEF Reversals

Inv == TypeOK /\ Steady

LEMMA InvHolds == Spec => []Inv
<1>1. Init => Inv
  BY InitTyped, InitSteady DEF Inv
<1>2. Inv /\ [Next]_vars => Inv'
  <2>1. ASSUME Inv, Next PROVE Inv'
    BY <2>1, StepTyped, NamedStep, PlacedStep, KindsStep, ReversalsStep DEF Inv, Steady
  <2>2. ASSUME Inv, UNCHANGED vars PROVE Inv'
    BY <2>2 DEF vars, stripeVars, Inv, TypeOK, Steady, Named, Placed, Kinds, Reversals
  <2> QED BY <2>1, <2>2
<1> QED BY <1>1, <1>2, PTL DEF Spec

-----------------------------------------------------------------------------
(* One subscription, and events of different seconds                         *)

Simple == story.subs = 1 /\ ~ story.sameSecond

\* Every date is that of an event that happened, and the events have increasing dates.
Dated ==
    /\ \A i \in DOMAIN events : 1 <= events[i].at /\ events[i].at <= clock
    /\ \A i, j \in DOMAIN events : i < j => events[i].at < events[j].at
    /\ row.at <= clock
    /\ \A e \in Slots : h[e].at <= clock

Last(i) ==
    /\ i \in DOMAIN events /\ events[i].kind = "subscription"
    /\ \A j \in DOMAIN events : events[j].kind = "subscription" => j <= i

\* What is held of the subscription came from one of its events.
Known ==
    /\ row.sub \in {NoSub, 1}
    /\ \A e \in Slots : h[e].sub \in {NoSub, 1}
    /\ \A i \in DOMAIN events : events[i].sub \in {NoSub, 1}
    /\ \A s \in Subs : s # 1 => sub[s] = "none"
    /\ \/ \E i \in DOMAIN events : Last(i)
       \/ /\ row.sub = NoSub /\ \A s \in Subs : sub[s] = "none"
          /\ \A e \in Slots : h[e].sub = NoSub
          /\ \A i \in DOMAIN events : events[i].kind # "subscription"

\* A status with a date is that of Stripe, unless a later event of the subscription is to come or
\* the payment was reversed.
Current(status, at, i) ==
    \/ at < events[i].at
    \/ status = PlanStatus(sub[1])
    \/ status \notin Granting /\ payment.state # "none"

Followed ==
    \A i \in DOMAIN events : Last(i) =>
        /\ Current(row.status, row.at, i)
        /\ \A e \in Slots : h[e].step \in {"check", "apply"} => Current(h[e].status, h[e].at, i)
        /\ i \in Slots /\ (journal[i] \in Finished \/ h[i].step = "finish") =>
              \/ events[i].at <= row.at
              \/ sub[1] \in Granting /\ payment.state # "none"

SimpleInv == /\ ~ story.sameSecond => Dated
             /\ Simple => Known /\ Followed

LEMMA InitSimple == Init => SimpleInv
<1> SUFFICES ASSUME Init PROVE Dated /\ Known /\ Followed
  BY DEF SimpleInv
<1>1. events = <<>> /\ DOMAIN events = {}
  BY DEF Init
<1> QED BY <1>1 DEF Init, Idle, Dated, Known, Followed, Last, NoSub

\* What a handler and the row get their dates and subscriptions from.
LEMMA Values ==
    ASSUME TypeOK, NEW e \in Slots, Routed(e)
    PROVE  /\ h'[e].at \in {0, h[e].at, row.at, events[e].at}
           /\ h'[e].sub \in {NoSub, h[e].sub, row.sub}
                 \cup (IF events[e].kind = "subscription" THEN {events[e].sub} ELSE {})
           /\ row'.at \in {row.at, h[e].at} /\ row'.sub \in {row.sub, h[e].sub}
<1>0. /\ h \in [Slots -> Handlers] /\ h[e] \in Handlers
      /\ row \in [status : PlanStatuses, sub : Subs \cup {NoSub}, open : BOOLEAN, at : Nat]
  BY HandlerTyped DEF TypeOK, Handlers
<1>1. CASE Deliver(e)
  <2>1. h'[e] = Opened(e) /\ row' = row
    BY <1>0, <1>1 DEF Deliver, Goes
  <2> QED BY <2>1 DEF Opened, Idle
<1>2. CASE Stuck(e) \/ Acknowledge(e)
  BY <1>0, <1>2 DEF Stuck, Acknowledge
<1>3. CASE Fail(e) \/ Finish(e)
  BY <1>0, <1>3 DEF Fail, Finish, Goes, Idle
<1>4. CASE ReadRow(e)
  BY <1>0, <1>4 DEF ReadRow, Goes, Handlers
<1>5. CASE Record(e)
  <2>1. row'.at = row.at /\ row'.sub = row.sub
    BY <1>0, <1>5, Recorded
  <2> QED BY <1>0, <1>5, <2>1 DEF Record, Goes, Handlers
<1>6. CASE FindSubscription(e)
  BY <1>0, <1>6 DEF FindSubscription, Goes, Handlers
<1>7. CASE CancelSubscription(e)
  BY <1>0, <1>7 DEF CancelSubscription, Goes, Handlers
<1>8. CASE Retrieve(e)
  BY <1>0, <1>8 DEF Retrieve, Goes, Handlers
<1>9. CASE CheckDispute(e)
  BY <1>0, <1>9 DEF CheckDispute, Goes, Handlers
<1>10. CASE Apply(e)
  BY <1>0, <1>10 DEF Apply, Goes, Handlers
<1> QED
  BY <1>1, <1>2, <1>3, <1>4, <1>5, <1>6, <1>7, <1>8, <1>9, <1>10 DEF Routed, Handle

\* The dates known before a step are not later than the clock before it.
LEMMA Past ==
    ASSUME TypeOK, Dated, Next
    PROVE  row'.at <= clock /\ \A e \in Slots : h'[e].at <= clock
<1>0. /\ clock \in Nat /\ \A i \in DOMAIN events : events[i].at <= clock
      /\ row.at <= clock /\ \A e \in Slots : h[e].at <= clock
  BY DEF TypeOK, Dated
<1>1. CASE StripeActs
  <2>1. row' = row
    BY <1>1 DEF StripeActs, SubscriptionChanges, PaymentReversed
  <2>2. h' = h
    BY <1>1 DEF StripeActs, SubscriptionChanges, PaymentReversed
  <2> QED BY <1>0, <2>1, <2>2
<1>2. ASSUME NEW e \in Slots, Routed(e)
      PROVE  row'.at <= clock /\ \A o \in Slots : h'[o].at <= clock
  <2>1. e \in DOMAIN events /\ \A o \in Slots \ {e} : h'[o] = h[o]
    BY <1>2, Local
  <2>2. h'[e].at \in {0, h[e].at, row.at, events[e].at} /\ row'.at \in {row.at, h[e].at}
    BY <1>2, Values
  <2> QED BY <1>0, <2>1, <2>2
<1> QED BY <1>1, <1>2 DEF Next, Routed

LEMMA DatedStep == ASSUME TypeOK, Steady, ~ story.sameSecond, Dated, Next PROVE Dated'
<1>0. DOMAIN events = 1 .. Len(events) /\ Len(events) \in Nat /\ clock \in Nat
  BY EventTyped DEF TypeOK
<1>1. row'.at <= clock /\ \A e \in Slots : h'[e].at <= clock
  BY Past
<1>2. CASE UNCHANGED <<sub, clock, events>>
  BY <1>1, <1>2 DEF Dated
<1>3. ASSUME NEW kind, NEW s, Added(kind, s) PROVE Dated'
  <2>1. clock' = clock + 1 /\ DOMAIN events' = 1 .. (Len(events) + 1)
    BY <1>3 DEF Added
  <2>2. \A i \in 1 .. Len(events) : events'[i] = events[i] /\ 1 <= events'[i].at /\ events'[i].at <= clock
    BY <1>0, <1>3 DEF Added, Dated
  <2>3. events'[Len(events) + 1].at = clock + 1
    BY <1>3, <2>1 DEF Added
  <2>4. \A i \in DOMAIN events' : 1 <= events'[i].at /\ events'[i].at <= clock'
    <3> TAKE i \in DOMAIN events'
    <3>1. CASE i = Len(events) + 1
      BY <1>0, <2>1, <2>3, <3>1
    <3>2. CASE i \in 1 .. Len(events)
      <4>1. events[i].at \in Nat
        BY <1>0, <3>2, EventTyped DEF Events
      <4> QED BY <1>0, <2>1, <2>2, <3>2, <4>1
    <3> QED BY <1>0, <2>1, <3>1, <3>2
  <2>5. \A i, j \in DOMAIN events' : i < j => events'[i].at < events'[j].at
    <3> SUFFICES ASSUME NEW i \in DOMAIN events', NEW j \in DOMAIN events', i < j
                 PROVE  events'[i].at < events'[j].at
      OBVIOUS
    <3>1. i \in 1 .. Len(events)
      BY <1>0, <2>1
    <3>2. events[i].at \in Nat
      BY <1>0, <3>1, EventTyped DEF Events
    <3>3. CASE j = Len(events) + 1
      BY <1>0, <2>2, <2>3, <3>1, <3>2, <3>3
    <3>4. CASE j \in 1 .. Len(events)
      BY <1>0, <2>2, <3>1, <3>4 DEF Dated
    <3> QED BY <1>0, <2>1, <3>3, <3>4
  <2>6. row'.at <= clock' /\ \A e \in Slots : h'[e].at <= clock'
    <3>1. row'.at \in Nat /\ \A e \in Slots : h'[e].at \in Nat
      BY StepTyped DEF TypeOK
    <3> QED BY <1>0, <1>1, <2>1, <3>1
  <2> QED BY <2>4, <2>5, <2>6 DEF Dated
<1> QED BY <1>2, <1>3, Growth

\* The last event of the subscription after a step.
LEMMA Lasts ==
    ASSUME TypeOK, NEW kind, NEW s, Added(kind, s)
    PROVE  /\ kind = "subscription" => \A i : Last(i)' <=> i = Len(events) + 1
           /\ kind # "subscription" => \A i : Last(i)' <=> Last(i)
<1>0. DOMAIN events = 1 .. Len(events) /\ Len(events) \in Nat
  BY EventTyped
<1>1. /\ DOMAIN events' = 1 .. (Len(events) + 1)
      /\ \A i \in 1 .. Len(events) : events'[i] = events[i]
      /\ events'[Len(events) + 1].kind = kind
  BY DEF Added
<1>2. ASSUME kind = "subscription", NEW i PROVE Last(i)' <=> i = Len(events) + 1
  <2>1. \A j \in DOMAIN events' : j <= Len(events) + 1
    BY <1>0, <1>1
  <2>2. i = Len(events) + 1 => Last(i)'
    BY <1>0, <1>1, <1>2, <2>1 DEF Last
  <2>3. ASSUME Last(i)' PROVE i = Len(events) + 1
    <3>1. i \in DOMAIN events' /\ Len(events) + 1 <= i
      BY <1>0, <1>1, <1>2, <2>3 DEF Last
    <3> QED BY <1>0, <1>1, <2>1, <3>1
  <2> QED BY <2>2, <2>3
<1>3. ASSUME kind # "subscription", NEW i PROVE Last(i)' <=> Last(i)
  <2>1. Last(i) => Last(i)'
    BY <1>0, <1>1, <1>3 DEF Last
  <2>2. Last(i)' => Last(i)
    BY <1>0, <1>1, <1>3 DEF Last
  <2> QED BY <2>1, <2>2
<1> QED BY <1>2, <1>3

LEMMA KnownStep == ASSUME TypeOK, Steady, Simple, Known, Next PROVE Known'
<1>0. /\ row.sub \in {NoSub, 1} /\ \A e \in Slots : h[e].sub \in {NoSub, 1}
      /\ \A i \in DOMAIN events : events[i].sub \in {NoSub, 1}
      /\ \A s \in Subs : s # 1 => sub[s] = "none"
      /\ sub \in [Subs -> StripeStatuses]
      /\ DOMAIN events = 1 .. Len(events) /\ Len(events) \in Nat
  BY EventTyped DEF TypeOK, Known
<1>1. row'.sub \in {NoSub, 1} /\ \A e \in Slots : h'[e].sub \in {NoSub, 1}
  <2>1. StripeActs => row' = row /\ h' = h
    BY DEF StripeActs, SubscriptionChanges, PaymentReversed
  <2>2. ASSUME NEW e \in Slots, Routed(e)
        PROVE  row'.sub \in {NoSub, 1} /\ \A o \in Slots : h'[o].sub \in {NoSub, 1}
    BY <1>0, <2>2, Local, Values
  <2> QED BY <1>0, <2>1, <2>2 DEF Next, Routed
<1>2. CASE UNCHANGED <<sub, clock, events>>
  <2>1. \A i : Last(i)' <=> Last(i)
    BY <1>2 DEF Last
  <2>2. ASSUME row.sub = NoSub, \A e \in Slots : h[e].sub = NoSub,
               \A i \in DOMAIN events : events[i].kind # "subscription"
        PROVE  row'.sub = NoSub /\ \A e \in Slots : h'[e].sub = NoSub
    <3>1. StripeActs => row' = row /\ h' = h
      BY DEF StripeActs, SubscriptionChanges, PaymentReversed
    <3>2. ASSUME NEW e \in Slots, Routed(e)
          PROVE  row'.sub = NoSub /\ \A o \in Slots : h'[o].sub = NoSub
      BY <2>2, <3>2, Local, Values
    <3> QED BY <2>2, <3>1, <3>2 DEF Next, Routed
  <2> QED BY <1>0, <1>1, <1>2, <2>1, <2>2 DEF Known
<1>3. ASSUME NEW s \in Subs, NEW status \in StripeStatuses,
             Added("subscription", s), sub' = [sub EXCEPT ![s] = status],
             s <= story.subs \/ (\E e \in Slots : s = h[e].sub)
      PROVE  Known'
  <2>1. s = 1
    BY <1>0, <1>3, SizeAssumption DEF Subs, Simple, NoSub
  <2>2. \E i \in DOMAIN events' : Last(i)'
    <3>1. Len(events) + 1 \in DOMAIN events'
      BY <1>0, <1>3 DEF Added
    <3> QED BY <1>3, <3>1, Lasts
  <2>3. \A i \in DOMAIN events' : events'[i].sub \in {NoSub, 1}
    BY <1>0, <1>3, <2>1 DEF Added
  <2>4. \A o \in Subs : o # 1 => sub'[o] = "none"
    BY <1>0, <1>3, <2>1
  <2> QED BY <1>1, <2>2, <2>3, <2>4 DEF Known
<1>4. ASSUME NEW kind \in ReversalKinds, Added(kind, NoSub), sub' = sub, UNCHANGED <<row, h>>
      PROVE  Known'
  <2>1. kind # "subscription"
    BY DEF ReversalKinds
  <2>2. \A i : Last(i)' <=> Last(i)
    BY <1>4, <2>1, Lasts
  <2>3. \A i \in DOMAIN events' : events'[i].sub \in {NoSub, 1}
    BY <1>0, <1>4 DEF Added
  <2>4. ASSUME \A i \in DOMAIN events : events[i].kind # "subscription"
        PROVE  \A i \in DOMAIN events' : events'[i].kind # "subscription"
    BY <1>0, <1>4, <2>1, <2>4 DEF Added
  <2>5. DOMAIN events \subseteq DOMAIN events'
    BY <1>0, <1>4 DEF Added
  <2> QED BY <1>1, <1>4, <2>2, <2>3, <2>4, <2>5 DEF Known
<1> QED BY <1>2, <1>3, <1>4, Growth

\* A status that a handler or the row receives in a step of the handler of e.
LEMMA RowCurrent ==
    ASSUME TypeOK, Steady, Known, Followed, NEW e \in Slots, Routed(e),
           UNCHANGED <<sub, clock, events>>, NEW i \in DOMAIN events, Last(i)
    PROVE  /\ Current(row.status, row.at, i)'
           /\ h'[e].step \in {"check", "apply"} => Current(h[e].status, h[e].at, i)'
           /\ row.at <= row'.at
           /\ payment.state # "none" => payment'.state # "none"
<1>0. /\ h \in [Slots -> Handlers] /\ h[e] \in Handlers
      /\ row \in [status : PlanStatuses, sub : Subs \cup {NoSub}, open : BOOLEAN, at : Nat]
      /\ payment \in [state : PaymentStates, at : Nat]
      /\ Current(row.status, row.at, i)
      /\ h[e].step \in {"check", "apply"} => Current(h[e].status, h[e].at, i)
      /\ row.at \in Nat
  BY HandlerTyped DEF TypeOK, Handlers, Followed
<1>1. CASE ReadRow(e) \/ FindSubscription(e) \/ CancelSubscription(e) \/ Finish(e)
           \/ Deliver(e) \/ Stuck(e) \/ Acknowledge(e) \/ Fail(e)
  <2>1. UNCHANGED <<row, payment>>
    BY <1>1 DEF ReadRow, FindSubscription, CancelSubscription, Finish, Deliver, Stuck,
                Acknowledge, Fail
  <2>2. h'[e].step \in {"check", "apply"} => h'[e] = h[e]
    <3>1. CASE ReadRow(e)
      BY <1>0, <3>1 DEF ReadRow, Goes, Handlers
    <3>2. CASE FindSubscription(e)
      BY <1>0, <3>2 DEF FindSubscription, Goes, Handlers
    <3>3. CASE CancelSubscription(e)
      BY <1>0, <3>3 DEF CancelSubscription, Goes, Handlers
    <3>4. CASE Finish(e) \/ Fail(e)
      BY <1>0, <3>4 DEF Finish, Fail, Goes, Idle
    <3>5. CASE Deliver(e)
      BY <1>0, <3>5 DEF Deliver, Goes, Opened, Idle
    <3>6. CASE Stuck(e) \/ Acknowledge(e)
      BY <3>6 DEF Stuck, Acknowledge
    <3> QED BY <1>1, <3>1, <3>2, <3>3, <3>4, <3>5, <3>6
  <2>3. Current(row.status, row.at, i)'
    BY <1>0, <2>1 DEF Current
  <2>4. h'[e].step \in {"check", "apply"} => Current(h[e].status, h[e].at, i)'
    <3> SUFFICES ASSUME h'[e].step \in {"check", "apply"} PROVE Current(h[e].status, h[e].at, i)'
      OBVIOUS
    <3>1. h'[e] = h[e]
      BY <2>2
    <3> QED BY <1>0, <2>1, <3>1 DEF Current
  <2>5. row.at <= row'.at /\ (payment.state # "none" => payment'.state # "none")
    BY <1>0, <2>1
  <2> QED BY <2>3, <2>4, <2>5
<1>2. CASE Record(e)
  <2>1. h'[e].step \notin {"check", "apply"}
    BY <1>0, <1>2 DEF Record, Goes, Handlers
  <2>2. h[e].status \notin Granting /\ ReversalState(events[e].kind) # "none"
    BY <1>2, Statuses DEF Record, At, Steady, Kinds
  <2> DEFINE open == row.open /\ h[e].status # "cancelled"
  <2>3. \/ UNCHANGED <<payment, row>>
        \/ /\ payment' = [state |-> ReversalState(events[e].kind), at |-> events[e].at]
           /\ row' = row \/ row' = [row EXCEPT !.status = h[e].status, !.open = open]
    BY <1>2, Recorded
  <2> HIDE DEF open
  <2>4. \/ UNCHANGED <<payment, row>>
        \/ /\ payment'.state # "none" /\ row'.at = row.at
           /\ row' = row \/ row'.status = h[e].status
    <3>1. payment' = [state |-> ReversalState(events[e].kind), at |-> events[e].at]
             => payment'.state # "none"
      BY <2>2
    <3>2. row' = [row EXCEPT !.status = h[e].status, !.open = open]
             => row'.at = row.at /\ row'.status = h[e].status
      BY <1>0
    <3>3. row' = row => row'.at = row.at
      OBVIOUS
    <3> QED BY <2>3, <3>1, <3>2, <3>3
  <2> QED BY <1>0, <2>1, <2>2, <2>4 DEF Current
<1>3. CASE Retrieve(e)
  <2>1. h[e].sub = 1
    BY <1>3 DEF Retrieve, At, Steady, Named, Known
  <2>2. h'[e].status = PlanStatus(sub[1]) /\ UNCHANGED <<row, payment>>
    BY <1>0, <1>3, <2>1 DEF Retrieve, Goes, Handlers
  <2> QED BY <1>0, <2>2 DEF Current
<1>4. CASE CheckDispute(e)
  <2>1. /\ h'[e].at = h[e].at /\ UNCHANGED <<row, payment>> /\ h[e].step = "check"
        /\ h'[e].status = h[e].status \/ (h'[e].status = "paused" /\ payment.state = "disputed")
    BY <1>0, <1>4 DEF CheckDispute, At, Goes, Handlers
  <2>2. "paused" \notin Granting
    BY DEF Granting
  <2> QED BY <1>0, <2>1, <2>2 DEF Current
<1>5. CASE Apply(e)
  <2>1. h[e].step = "apply" /\ h'[e].step = "finish" /\ payment' = payment
    BY <1>0, <1>5 DEF Apply, At, Goes, Handlers
  <2>2. row' = row \/ (row'.status = h[e].status /\ row'.at = h[e].at /\ ~ Stale(e))
    BY <1>5 DEF Apply
  <2>3. ~ Stale(e) => row.at <= h[e].at
    <3>1. h[e].at \in Nat /\ h[e].sub = 1
      BY <1>0, <2>1 DEF Handlers, Steady, Named, Known
    <3>2. row.sub = NoSub => row.at = 0
      BY DEF Steady, Named
    <3> QED BY <1>0, <3>1, <3>2 DEF Stale, Known
  <2> QED BY <1>0, <2>1, <2>2, <2>3 DEF Current
<1> QED
  BY <1>1, <1>2, <1>3, <1>4, <1>5 DEF Routed, Handle

LEMMA FollowedStep == ASSUME TypeOK, Steady, Simple, Dated, Known, Followed, Next PROVE Followed'
<1>0. /\ DOMAIN events = 1 .. Len(events) /\ Len(events) \in Nat /\ clock \in Nat
      /\ row.at \in Nat /\ \A e \in Slots : h[e] \in Handlers
  BY EventTyped, HandlerTyped DEF TypeOK
<1>1. ASSUME NEW o \in Slots, o \notin DOMAIN events
      PROVE  h'[o].step = "idle" /\ journal'[o] = "none"
  <2>1. h[o].step = "idle" /\ journal[o] = "none"
    BY <1>1 DEF Steady, Placed
  <2>2. CASE StripeActs
    BY <2>1, <2>2 DEF StripeActs, SubscriptionChanges, PaymentReversed
  <2>3. ASSUME NEW e \in Slots, Routed(e) PROVE h'[o] = h[o] /\ journal'[o] = journal[o]
    BY <1>1, <2>3, Local
  <2> QED BY <2>1, <2>2, <2>3 DEF Next, Routed
<1>2. ASSUME NEW s, Added("subscription", s) PROVE Followed'
  <2> SUFFICES ASSUME NEW i \in DOMAIN events', Last(i)'
               PROVE  /\ Current(row.status, row.at, i)'
                      /\ \A e \in Slots : Current(h[e].status, h[e].at, i)'
                      /\ ~ (i \in Slots /\ (journal'[i] \in Finished \/ h'[i].step = "finish"))
    BY DEF Followed
  <2>1. i = Len(events) + 1
    BY <1>2, Lasts
  <2>2. events'[i].at = clock + 1
    BY <1>2, <2>1 DEF Added, Simple
  <2>3. row'.at < events'[i].at /\ \A e \in Slots : h'[e].at < events'[i].at
    <3>1. row'.at \in Nat /\ \A e \in Slots : h'[e].at \in Nat
      BY StepTyped DEF TypeOK
    <3> QED BY <1>0, <2>2, <3>1, Past
  <2>4. i \in Slots => h'[i].step = "idle" /\ journal'[i] = "none"
    BY <1>0, <1>1, <2>1
  <2> QED BY <2>3, <2>4 DEF Current, Finished
<1>3. ASSUME NEW kind \in ReversalKinds, Added(kind, NoSub), sub' = sub,
             UNCHANGED <<row, payment, journal, h>>
      PROVE  Followed'
  <2>1. kind # "subscription"
    BY DEF ReversalKinds
  <2>2. \A i : Last(i)' <=> Last(i)
    BY <1>3, <2>1, Lasts
  <2>3. \A i : Last(i) => i \in DOMAIN events /\ events'[i] = events[i]
    BY <1>0, <1>3 DEF Added, Last
  <2> QED BY <1>3, <2>2, <2>3 DEF Followed, Current
<1>4. ASSUME UNCHANGED <<sub, clock, events>>, StripeActs PROVE Followed'
  <2>1. UNCHANGED <<row, payment, journal, h>>
    BY <1>4 DEF StripeActs, SubscriptionChanges, PaymentReversed
  <2> QED BY <1>4, <2>1 DEF Followed, Current, Last
<1>5. ASSUME UNCHANGED <<sub, clock, events>>, NEW e \in Slots, Routed(e) PROVE Followed'
  <2> DEFINE Done(i) == journal[i] \in Finished \/ h[i].step = "finish"
             Heard(i) == events[i].at <= row.at \/ (sub[1] \in Granting /\ payment.state # "none")
  <2> SUFFICES ASSUME NEW i \in DOMAIN events, Last(i)
               PROVE  /\ Current(row.status, row.at, i)'
                      /\ \A o \in Slots : h'[o].step \in {"check", "apply"} =>
                            Current(h[o].status, h[o].at, i)'
                      /\ i \in Slots /\ Done(i)' => Heard(i)'
    BY <1>5 DEF Followed, Last
  <2>1. /\ Current(row.status, row.at, i)'
        /\ h'[e].step \in {"check", "apply"} => Current(h[e].status, h[e].at, i)'
        /\ row.at <= row'.at
        /\ payment.state # "none" => payment'.state # "none"
    BY <1>5, RowCurrent
  <2>2. /\ \A o \in Slots : h[o].step \in {"check", "apply"} => Current(h[o].status, h[o].at, i)
        /\ i \in Slots /\ Done(i) => Heard(i)
    BY DEF Followed
  <2>3. \A o \in Slots \ {e} : h'[o] = h[o] /\ journal'[o] = journal[o]
    BY <1>5, Local
  <2>4. ASSUME NEW o \in Slots, h'[o].step \in {"check", "apply"}
        PROVE  Current(h[o].status, h[o].at, i)'
    <3>1. CASE o = e
      BY <2>1, <2>4, <3>1
    <3>2. CASE o # e
      <4>1. h'[o] = h[o] /\ Current(h[o].status, h[o].at, i)
        BY <2>2, <2>3, <2>4, <3>2
      <4> QED BY <1>5, <2>1, <4>1 DEF Current
    <3> QED BY <3>1, <3>2
  <2>5. events[i].at \in Nat /\ row'.at \in Nat
    BY EventTyped, StepTyped DEF TypeOK, Events
  <2>6. Heard(i) => Heard(i)'
    BY <1>0, <1>5, <2>1, <2>5
  <2>7. ASSUME i \in Slots, Done(i)', i = e PROVE Done(i) \/ Heard(i)'
    <3>0. /\ events[i].kind = "subscription" /\ h[e] \in Handlers
          /\ h \in [Slots -> Handlers] /\ journal \in [Slots -> JournalStatuses]
          /\ h[e].step \notin {"read", "record", "find", "cancel"}
      BY <2>7, HandlerTyped DEF Last, Steady, Kinds, TypeOK, Handlers, JournalStatuses
    <3>1. CASE Deliver(e)
      BY <2>7, <3>0, <3>1 DEF Deliver, Goes, Opened, Idle, Finished
    <3>2. CASE Stuck(e) \/ Acknowledge(e)
      BY <2>7, <3>0, <3>2 DEF Stuck, Acknowledge, Finished
    <3>3. CASE Fail(e)
      BY <2>7, <3>0, <3>3 DEF Fail, Goes, Idle, Finished
    <3>4. CASE ReadRow(e) \/ Record(e) \/ FindSubscription(e) \/ CancelSubscription(e)
      BY <3>0, <3>4 DEF ReadRow, Record, FindSubscription, CancelSubscription, At
    <3>5. CASE Retrieve(e)
      BY <2>7, <3>0, <3>5 DEF Retrieve, Goes, Handlers
    <3>6. CASE CheckDispute(e)
      BY <2>7, <3>0, <3>6 DEF CheckDispute, Goes, Handlers
    <3>7. CASE Finish(e)
      BY <2>7, <3>0, <3>7 DEF Finish, At
    <3>8. CASE Apply(e)
      <4>1. h[e].step = "apply" /\ h[e].at = events[i].at /\ h[e].sub = 1
        BY <2>7, <3>0, <3>8 DEF Apply, At, Steady, Kinds, Named, Known
      <4>2. CASE Stale(e)
        <5>1. row' = row
          BY <3>8, <4>2 DEF Apply
        <5>2. events[i].at < row.at
          BY <4>1, <4>2 DEF Stale
        <5> QED BY <1>0, <1>5, <2>5, <5>1, <5>2
      <4>3. CASE Reversed(e)
        <5>1. h[e].status \in Granting /\ payment.state # "none"
          BY <4>3 DEF Reversed
        <5>2. Current(h[e].status, h[e].at, i)
          BY <2>2, <4>1
        <5>3. h[e].status = PlanStatus(sub[1])
          BY <2>5, <4>1, <5>1, <5>2 DEF Current
        <5>4. sub[1] \in Granting
          BY <5>1, <5>3, Statuses
        <5> QED BY <1>5, <2>1, <5>1, <5>4
      <4>4. ~ Superseded(e)
        BY <4>1 DEF Superseded, Known
      <4>5. CASE ~ Stale(e) /\ ~ Reversed(e)
        <5>1. row'.at = h[e].at
          BY <3>8, <4>4, <4>5 DEF Apply
        <5> QED BY <1>5, <2>5, <4>1, <5>1
      <4> QED BY <4>2, <4>3, <4>5
    <3> QED
      BY <1>5, <3>1, <3>2, <3>3, <3>4, <3>5, <3>6, <3>7, <3>8 DEF Routed, Handle
  <2>8. ASSUME i \in Slots, Done(i)', i # e PROVE Done(i)
    BY <2>3, <2>8
  <2> QED BY <2>1, <2>2, <2>4, <2>6, <2>7, <2>8
<1>6. UNCHANGED <<sub, clock, events>> => Followed'
  BY <1>4, <1>5 DEF Next, Routed
<1> QED BY <1>2, <1>3, <1>6, Growth

LEMMA SimpleHolds == Spec => [](Inv /\ SimpleInv)
<1>1. Init => SimpleInv
  BY InitSimple
<1>2. Inv /\ SimpleInv /\ [Next]_vars => SimpleInv'
  <2>1. ASSUME Inv, SimpleInv, Next PROVE SimpleInv'
    <3>1. story' = story
      BY <2>1, Local DEF Inv, Next, Routed, StripeActs, SubscriptionChanges, PaymentReversed
    <3> QED BY <2>1, <3>1, DatedStep, KnownStep, FollowedStep DEF Inv, SimpleInv, Simple
  <2>2. ASSUME SimpleInv, UNCHANGED vars PROVE SimpleInv'
    BY <2>2 DEF vars, stripeVars, SimpleInv, Simple, Dated, Known, Followed, Current, Last
  <2> QED BY <2>1, <2>2
<1> QED BY <1>1, <1>2, InvHolds, PTL DEF Spec

\* In a settled account the last event of the subscription has been heard.
LEMMA SettledHeard ==
    ASSUME Inv, SimpleInv, Simple, Settled, NEW i \in DOMAIN events, Last(i)
    PROVE  /\ events[i].at <= row.at \/ (sub[1] \in Granting /\ payment.state # "none")
           /\ Current(row.status, row.at, i)
           /\ events[i].at \in Nat /\ row.at \in Nat /\ 1 <= events[i].at
<1>1. i \in Slots /\ journal[i] \in Finished
  BY DEF Settled, Inv, TypeOK, Steady, Placed
<1>2. events[i].at \in Nat /\ row.at \in Nat
  BY EventTyped DEF Inv, TypeOK, Events
<1> QED BY <1>1, <1>2 DEF SimpleInv, Simple, Followed, Dated

\* For one subscription without a reversal, when no two events share a second: the row of a settled
\* account is the state Stripe holds, however many events, retries and dead handlers there were
\* (syncStripeSubscription, apply_stripe_subscription_state).
THEOREM RowFollowsStripe == Spec => []SettledFollowsStripe
<1>1. Inv /\ SimpleInv => SettledFollowsStripe
  <2> SUFFICES ASSUME Inv, SimpleInv, Simple, story.reversals = {}, Settled
               PROVE  /\ row.sub # NoSub => row.status = PlanStatus(sub[row.sub])
                      /\ \A s \in Subs : sub[s] \in Granting => row.sub = s
    BY DEF SettledFollowsStripe, Simple
  <2>1. payment.state = "none" /\ Known
    BY DEF Inv, Steady, Reversals, SimpleInv
  <2>2. ASSUME NEW i \in DOMAIN events, Last(i)
        PROVE  row.status = PlanStatus(sub[1]) /\ row.sub # NoSub
    <3>1. /\ events[i].at <= row.at /\ Current(row.status, row.at, i)
          /\ events[i].at \in Nat /\ row.at \in Nat /\ 1 <= events[i].at
      BY <2>1, <2>2, SettledHeard
    <3>2. row.status = PlanStatus(sub[1])
      BY <2>1, <3>1 DEF Current
    <3>3. row.at # 0
      BY <3>1
    <3> QED BY <3>2, <3>3 DEF Inv, Steady, Named
  <2>3. row.sub # NoSub => row.status = PlanStatus(sub[row.sub])
    BY <2>1, <2>2 DEF Known
  <2>4. ASSUME NEW s \in Subs, sub[s] \in Granting PROVE row.sub = s
    <3>1. sub[s] # "none"
      BY <2>4 DEF Granting
    <3>2. s = 1 /\ \E i \in DOMAIN events : Last(i)
      BY <2>1, <3>1 DEF Known
    <3> QED BY <2>1, <2>2, <3>2 DEF Known
  <2> QED BY <2>3, <2>4
<1> QED BY <1>1, SimpleHolds, PTL

\* For one subscription, whatever is disputed, won, lost or refunded: a settled account has access
\* only while Stripe bills its subscription (record_stripe_payment_state,
\* apply_stripe_subscription_state), when no two events share a second.
THEOREM PaidAccess == Spec => []AccessIsPaid
<1>1. Inv /\ SimpleInv => AccessIsPaid
  <2> SUFFICES ASSUME Inv, SimpleInv, Simple, Settled, GrantsAccess(row)
               PROVE  sub[row.sub] \in Granting
    BY DEF AccessIsPaid, Simple
  <2>1. row.status \in Granting /\ row.sub # NoSub /\ Known
    BY DEF GrantsAccess, Granting, Inv, Steady, Named, SimpleInv
  <2>2. row.sub = 1
    BY <2>1 DEF Known
  <2>3. PICK i \in DOMAIN events : Last(i)
    BY <2>1 DEF Known
  <2>4. /\ events[i].at <= row.at \/ sub[1] \in Granting
        /\ Current(row.status, row.at, i)
        /\ events[i].at \in Nat /\ row.at \in Nat
    BY <2>3, SettledHeard
  <2>5. row.status = PlanStatus(sub[1]) => sub[1] \in Granting
    BY <2>1, Statuses
  <2> QED BY <2>1, <2>2, <2>4, <2>5 DEF Current
<1> QED BY <1>1, SimpleHolds, PTL

-----------------------------------------------------------------------------
(* What a refund or a lost dispute ends                                      *)

Ending == {"dispute_lost", "refunded"}

\* The row names the subscription before its payment is reversed; the handler of a refund or of a
\* lost dispute reaches its end by the cancellation only; and such an event ended the payment.
Cancelled ==
    /\ \A i \in DOMAIN events :
          events[i].kind # "subscription" => row.sub = 1 /\ sub[1] # "none"
    /\ \A e \in Slots \cap DOMAIN events : events[e].kind \in Ending =>
          /\ h[e].step \notin {"retrieve", "check", "apply"}
          /\ h[e].step = "record" => h[e].status = "cancelled"
          /\ h[e].step = "finish" \/ journal[e] \in Finished => sub[1] = "canceled"
    /\ Ended => \E i \in DOMAIN events : events[i].kind \in Ending

CancelInv == Simple /\ story.rowFirst => Cancelled

LEMMA InitCancel == Init => CancelInv
<1> SUFFICES ASSUME Init PROVE Cancelled
  BY DEF CancelInv
<1>1. DOMAIN events = {} /\ payment.state = "none"
  BY DEF Init
<1> QED BY <1>1 DEF Cancelled, Ended

\* The subscription never comes back from its cancellation, nor to its beginning.
LEMMA CanceledStays ==
    ASSUME TypeOK, Steady, Known, Next
    PROVE  /\ sub[1] = "canceled" => sub'[1] = "canceled"
           /\ sub[1] # "none" => sub'[1] # "none"
<1>0. sub \in [Subs -> StripeStatuses] /\ 1 \in Subs
  BY SizeAssumption DEF TypeOK, Subs
<1>1. ASSUME NEW s \in Subs, NEW status \in StripeStatuses, SubscriptionChanges(s, status)
      PROVE  /\ sub[1] = "canceled" => sub'[1] = "canceled"
             /\ sub[1] # "none" => sub'[1] # "none"
  <2>1. <<sub[s], status>> \in Transitions /\ sub' = [sub EXCEPT ![s] = status]
    BY <1>1 DEF SubscriptionChanges
  <2>2. sub[s] # "canceled" /\ status # "none"
    BY <2>1 DEF Transitions
  <2> QED BY <1>0, <2>1, <2>2
<1>2. ASSUME NEW e \in Slots, CancelSubscription(e)
      PROVE  sub'[1] \in {sub[1], "canceled"}
  BY <1>0, <1>2 DEF CancelSubscription, stripeVars
<1>3. ASSUME NEW kind \in ReversalKinds, PaymentReversed(kind) PROVE sub' = sub
  BY <1>3 DEF PaymentReversed
<1> QED
  BY <1>0, <1>1, <1>2, <1>3, Local DEF Next, StripeActs, Routed

\* The row keeps naming the subscription.
LEMMA RowStays == ASSUME TypeOK, Steady, Known, Next, row.sub = 1 PROVE row'.sub = 1
<1>1. row' = row \/ \E e \in Slots : Record(e) \/ Apply(e)
  BY DEF Next, StripeActs, SubscriptionChanges, PaymentReversed, Deliver, Stuck, Handle,
         Acknowledge, Fail, ReadRow, FindSubscription, CancelSubscription, Retrieve,
         CheckDispute, Finish
<1>2. ASSUME NEW e \in Slots, Record(e) PROVE row'.sub = row.sub
  BY <1>2, Recorded DEF TypeOK
<1>3. ASSUME NEW e \in Slots, Apply(e) PROVE row'.sub \in {row.sub, h[e].sub} /\ h[e].sub = 1
  BY <1>3 DEF Apply, At, Steady, Named, Known
<1> QED BY <1>1, <1>2, <1>3

\* The handler of an ending event.
LEMMA EndingStep ==
    ASSUME TypeOK, Steady, Known, Cancelled, NEW e \in Slots, Routed(e), events[e].kind \in Ending
    PROVE  /\ h'[e].step \notin {"retrieve", "check", "apply"}
           /\ h'[e].step = "record" => h'[e].status = "cancelled"
           /\ h'[e].step = "finish" \/ journal'[e] \in Finished => sub'[1] = "canceled"
<1>0. /\ e \in DOMAIN events /\ h \in [Slots -> Handlers] /\ h[e] \in Handlers
      /\ journal \in [Slots -> JournalStatuses] /\ sub \in [Subs -> StripeStatuses] /\ 1 \in Subs
      /\ events[e].kind # "subscription"
  BY Local, SizeAssumption DEF TypeOK, Handlers, JournalStatuses, Subs, Ending
<1>1. /\ h[e].step \notin {"retrieve", "check", "apply"}
      /\ h[e].step = "record" => h[e].status = "cancelled"
      /\ h[e].step = "finish" \/ journal[e] \in Finished => sub[1] = "canceled"
      /\ row.sub = 1 /\ sub[1] # "none"
      /\ journal[e] \in Finished => h[e].step = "idle"
  BY <1>0 DEF Cancelled, Steady, Placed
<1>2. sub[1] = "canceled" => sub'[1] = "canceled"
  BY CanceledStays DEF Next, Routed
<1>3. CASE Deliver(e)
  <2>1. h'[e] = Opened(e) /\ journal'[e] = "processing"
    BY <1>0, <1>3 DEF Deliver, Goes
  <2>2. Opened(e).step \in {"read", "record"} /\ (Opened(e).step = "record" => Opened(e).status = "cancelled")
    BY <1>0 DEF Opened, Idle, Ending
  <2> QED BY <2>1, <2>2 DEF Finished
<1>4. CASE Stuck(e) \/ Acknowledge(e)
  BY <1>0, <1>1, <1>2, <1>4 DEF Stuck, Acknowledge, At, Finished
<1>5. CASE Fail(e)
  BY <1>0, <1>5 DEF Fail, Goes, Idle, Finished
<1>6. CASE Finish(e)
  <2>1. h'[e] = Idle /\ sub[1] = "canceled"
    BY <1>0, <1>1, <1>6 DEF Finish, Goes, At
  <2> QED BY <1>2, <2>1 DEF Idle
<1>7. CASE ReadRow(e)
  <2>1. ReversalStatus(events[e].kind, row.open) = "cancelled" /\ events[e].kind # "dispute_won"
    BY DEF ReversalStatus, Ending
  <2>2. h'[e].step = "record" /\ h'[e].status = "cancelled" /\ journal' = journal /\ h[e].step = "read"
    BY <1>0, <1>7, <2>1 DEF ReadRow, At, Goes, Handlers
  <2> QED BY <1>1, <2>2
<1>8. CASE Record(e)
  <2>1. h'[e].step = "find" /\ journal' = journal /\ h[e].step = "record"
    BY <1>0, <1>1, <1>8 DEF Record, At, Goes, Handlers
  <2> QED BY <1>1, <2>1
<1>9. CASE FindSubscription(e)
  <2>1. h'[e].step = "cancel" /\ journal' = journal /\ h[e].step = "find"
    BY <1>0, <1>1, <1>9 DEF FindSubscription, At, Goes, Handlers, NoSub
  <2> QED BY <1>1, <2>1
<1>10. CASE CancelSubscription(e)
  <2>1. h'[e].step = "finish" /\ h[e].sub = 1
    BY <1>0, <1>10 DEF CancelSubscription, At, Goes, Handlers, Steady, Named, Known
  <2>2. sub'[1] = "canceled"
    <3>1. CASE Live(1)
      BY <1>0, <1>10, <2>1, <3>1 DEF CancelSubscription
    <3>2. CASE ~ Live(1)
      <4>1. sub' = sub
        BY <1>10, <2>1, <3>2 DEF CancelSubscription, stripeVars
      <4>2. sub[1] \in StripeStatuses
        BY <1>0
      <4> QED BY <1>1, <3>2, <4>1, <4>2 DEF Live, StripeStatuses
    <3> QED BY <3>1, <3>2
  <2> QED BY <2>1, <2>2
<1>11. CASE Retrieve(e) \/ CheckDispute(e) \/ Apply(e)
  BY <1>1, <1>11 DEF Retrieve, CheckDispute, Apply, At
<1> QED
  BY <1>3, <1>4, <1>5, <1>6, <1>7, <1>8, <1>9, <1>10, <1>11 DEF Routed, Handle

LEMMA CancelledStep ==
    ASSUME TypeOK, Steady, Known, story.rowFirst, Cancelled, Next PROVE Cancelled'
<1>0. /\ DOMAIN events \subseteq DOMAIN events' /\ \A i \in DOMAIN events : events'[i] = events[i]
  BY Kept
<1>1. ASSUME NEW i \in DOMAIN events', events'[i].kind # "subscription"
      PROVE  row'.sub = 1 /\ sub'[1] # "none"
  <2>1. CASE i \in DOMAIN events
    BY <1>0, <1>1, <2>1, RowStays, CanceledStays DEF Cancelled
  <2>2. CASE i \notin DOMAIN events
    <3>1. PICK kind \in ReversalKinds : PaymentReversed(kind)
      <4>1. ASSUME NEW s \in Subs, Emit("subscription", s) PROVE FALSE
        <5>1. /\ DOMAIN events' = 1 .. (Len(events) + 1)
              /\ events'[Len(events) + 1] = [kind |-> "subscription", sub |-> s, at |-> clock']
          BY <4>1, EmitGrows
        <5>2. i = Len(events) + 1
          BY <2>2, <5>1, EventTyped
        <5> QED BY <1>1, <5>1, <5>2
      <4>2. ASSUME NEW e \in Slots, CancelSubscription(e) PROVE FALSE
        <5>1. CASE UNCHANGED stripeVars
          BY <2>2, <5>1 DEF stripeVars
        <5>2. h[e].sub \in Subs
          BY <4>2, HandlerTyped DEF CancelSubscription, At, Handlers, Steady, Named
        <5> QED BY <4>1, <4>2, <5>1, <5>2 DEF CancelSubscription
      <4>3. ASSUME NEW s \in Subs, NEW status \in StripeStatuses, SubscriptionChanges(s, status)
            PROVE  FALSE
        BY <4>1, <4>3 DEF SubscriptionChanges
      <4>4. ASSUME NEW e \in Slots, Routed(e) PROVE FALSE
        BY <2>2, <4>2, <4>4, Local
      <4> QED BY <4>3, <4>4 DEF Next, StripeActs, Routed
    <3>2. row' = row /\ sub' = sub /\ row.sub # NoSub /\ sub[1] # "none"
      BY <3>1 DEF PaymentReversed
    <3> QED BY <3>2 DEF Known
  <2> QED BY <2>1, <2>2
<1>2. ASSUME NEW e \in Slots \cap DOMAIN events', events'[e].kind \in Ending
      PROVE  /\ h'[e].step \notin {"retrieve", "check", "apply"}
             /\ h'[e].step = "record" => h'[e].status = "cancelled"
             /\ h'[e].step = "finish" \/ journal'[e] \in Finished => sub'[1] = "canceled"
  <2>1. CASE Routed(e)
    <3>1. e \in DOMAIN events
      BY <2>1, Local
    <3> QED BY <1>0, <1>2, <2>1, <3>1, EndingStep
  <2>2. CASE ~ Routed(e)
    <3>1. h'[e] = h[e] /\ journal'[e] = journal[e]
      BY <2>2, Local DEF Next, Routed, StripeActs, SubscriptionChanges, PaymentReversed
    <3>2. CASE e \in DOMAIN events
      BY <1>0, <1>2, <3>1, <3>2, CanceledStays DEF Cancelled
    <3>3. CASE e \notin DOMAIN events
      BY <3>1, <3>3 DEF Steady, Placed, Finished
    <3> QED BY <3>2, <3>3
  <2> QED BY <2>1, <2>2
<1>3. ASSUME Ended' PROVE \E i \in DOMAIN events' : events'[i].kind \in Ending
  <2>1. payment' = payment \/ \E e \in Slots : Record(e)
    BY DEF Next, StripeActs, SubscriptionChanges, PaymentReversed, Deliver, Stuck, Handle,
           Acknowledge, Fail, ReadRow, FindSubscription, CancelSubscription, Retrieve,
           CheckDispute, Apply, Finish
  <2>2. CASE payment' = payment
    BY <1>0, <1>3, <2>2 DEF Cancelled, Ended
  <2>3. ASSUME NEW e \in Slots, Record(e), payment' # payment
        PROVE  e \in DOMAIN events /\ events[e].kind \in Ending
    <3>1. e \in DOMAIN events /\ payment'.state = ReversalState(events[e].kind)
      <4>1. e \in DOMAIN events
        BY <2>3 DEF Record, At
      <4>2. payment' = [state |-> ReversalState(events[e].kind), at |-> events[e].at]
        BY <2>3, Recorded
      <4> QED BY <4>1, <4>2
    <3> QED BY <1>3, <3>1 DEF ReversalState, Ending, Ended
  <2> QED BY <1>0, <2>1, <2>2, <2>3
<1> QED BY <1>1, <1>2, <1>3 DEF Cancelled

LEMMA CancelHolds == Spec => []CancelInv
<1>1. Inv /\ SimpleInv /\ CancelInv /\ [Next]_vars => CancelInv'
  <2>1. ASSUME Inv, SimpleInv, CancelInv, Next PROVE CancelInv'
    <3>1. story' = story
      BY <2>1, Local DEF Inv, Next, Routed, StripeActs, SubscriptionChanges, PaymentReversed
    <3> QED BY <2>1, <3>1, CancelledStep DEF Inv, SimpleInv, CancelInv, Simple
  <2>2. ASSUME CancelInv, UNCHANGED vars PROVE CancelInv'
    BY <2>2 DEF vars, stripeVars, CancelInv, Simple, Cancelled, Ended
  <2> QED BY <2>1, <2>2
<1> QED BY <1>1, InitCancel, SimpleHolds, PTL DEF Spec

\* For one subscription that the row names: in a settled account, a refunded or lost payment has
\* ended the access and the subscription, whatever was disputed, failed or delivered again
\* (handleChargeRefunded, handleChargeDispute), when no two events share a second.
THEOREM ReversalCloses == Spec => []ReversalEndsAccess
<1>1. Inv /\ SimpleInv /\ CancelInv /\ AccessIsPaid => ReversalEndsAccess
  <2> SUFFICES ASSUME Inv, SimpleInv, CancelInv, AccessIsPaid, Simple, story.rowFirst, Settled, Ended
               PROVE  ~ GrantsAccess(row) /\ \A s \in Subs : ~ Live(s)
    BY DEF ReversalEndsAccess, Simple
  <2>1. Known /\ Cancelled
    BY DEF SimpleInv, CancelInv
  <2>2. PICK i \in DOMAIN events : events[i].kind \in Ending
    BY <2>1 DEF Cancelled
  <2>3. i \in Slots /\ journal[i] \in Finished
    BY DEF Settled, Inv, TypeOK, Steady, Placed
  <2>4. sub[1] = "canceled"
    BY <2>1, <2>2, <2>3 DEF Cancelled
  <2>5. \A s \in Subs : sub[s] \in {"none", "canceled"}
    BY <2>1, <2>4 DEF Known
  <2>6. ASSUME GrantsAccess(row) PROVE FALSE
    <3>1. row.sub = 1
      BY <2>1, <2>6 DEF GrantsAccess, Granting, Inv, Steady, Named, Known
    <3>2. sub[row.sub] \in Granting
      BY <2>6 DEF AccessIsPaid, Simple
    <3> QED BY <2>4, <3>1, <3>2 DEF Granting
  <2> QED BY <2>5, <2>6 DEF Live
<1> QED BY <1>1, CancelHolds, SimpleHolds, PaidAccess, PTL

-----------------------------------------------------------------------------
(* A new subscription and the late events of the old one                     *)

Turn == story.inTurn /\ ~ story.sameSecond /\ story.reversals = {}

\* The subscriptions follow one another, and an event is of one that has started.
Successive ==
    /\ \A s, t \in Subs : t < s /\ sub[s] # "none" => sub[t] = "canceled"
    /\ \A i \in DOMAIN events : sub[events[i].sub] # "none"

LastOf(s, i) ==
    /\ i \in DOMAIN events /\ events[i].sub = s
    /\ \A j \in DOMAIN events : events[j].sub = s => j <= i

\* A handler works on the subscription of its event; one that is about to write a status that
\* grants access does it before the next subscription starts.
Working ==
    \A e \in Slots :
        /\ h[e].step # "idle" => h[e].sub = events[e].sub
        /\ h[e].step \in {"check", "apply"} /\ h[e].status \in Granting =>
              \A s \in Subs : h[e].sub < s => sub[s] = "none"

\* What is held of a billed subscription is older than its last event, or grants access; once
\* that event is handled, the row is the subscription's.
Served ==
    \A s \in Subs : sub[s] # "none" =>
        /\ \E i \in DOMAIN events : LastOf(s, i)
        /\ \A i \in DOMAIN events : LastOf(s, i) /\ sub[s] \in Granting =>
              /\ \A e \in Slots : h[e].step \in {"check", "apply"} /\ h[e].sub = s =>
                    h[e].status \in Granting \/ h[e].at < events[i].at
              /\ row.sub = s => GrantsAccess(row) \/ row.at < events[i].at
              /\ i \in Slots /\ (journal[i] \in Finished \/ h[i].step = "finish") =>
                    row.sub = s /\ events[i].at <= row.at

TurnInv == Turn => Successive /\ Working /\ Served

LEMMA InitTurn == Init => TurnInv
<1> SUFFICES ASSUME Init PROVE Successive /\ Working /\ Served
  BY DEF TurnInv
<1>1. events = <<>> /\ DOMAIN events = {}
  BY DEF Init
<1> QED BY <1>1 DEF Init, Idle, Successive, Working, Served

\* Without a reversal, a handler retrieves, checks, applies and finishes, and only the second of
\* these changes the row.
LEMMA Plain ==
    ASSUME TypeOK, Steady, story.reversals = {}, NEW e \in Slots, Routed(e)
    PROVE  /\ e \in DOMAIN events /\ events[e].kind = "subscription" /\ payment.state = "none"
           /\ UNCHANGED <<sub, clock, events, payment>>
           /\ row' = row \/ Apply(e)
           /\ h'[e].step \in {"check", "apply"} =>
                 \/ Retrieve(e)
                 \/ /\ h[e].step \in {"check", "apply"}
                    /\ h'[e].status = h[e].status /\ h'[e].sub = h[e].sub /\ h'[e].at = h[e].at
           /\ h'[e].step # "idle" => h'[e].sub = h[e].sub \/ h'[e].sub = events[e].sub
           /\ h'[e].step # "idle" /\ h[e].step = "idle" => h'[e].sub = events[e].sub
           /\ h'[e].step = "finish" \/ journal'[e] \in Finished =>
                 h[e].step = "finish" \/ journal[e] \in Finished \/ Apply(e)
<1>0. /\ e \in DOMAIN events /\ events[e].kind = "subscription" /\ payment.state = "none"
      /\ h \in [Slots -> Handlers] /\ h[e] \in Handlers /\ journal \in [Slots -> JournalStatuses]
      /\ h[e].step \notin {"read", "record", "find", "cancel"}
  BY Local, HandlerTyped
     DEF TypeOK, Handlers, JournalStatuses, Steady, Reversals, Kinds
<1>1. ~ (ReadRow(e) \/ Record(e) \/ FindSubscription(e) \/ CancelSubscription(e))
  BY <1>0 DEF ReadRow, Record, FindSubscription, CancelSubscription, At
<1>2. UNCHANGED <<sub, clock, events>>
  BY <1>1, Local
<1>3. CASE Deliver(e)
  BY <1>0, <1>2, <1>3 DEF Deliver, At, Goes, Opened, Idle, Finished
<1>4. CASE Stuck(e) \/ Acknowledge(e)
  BY <1>0, <1>2, <1>4 DEF Stuck, Acknowledge, At, Finished
<1>5. CASE Fail(e)
  BY <1>0, <1>2, <1>5 DEF Fail, Goes, Idle, Finished
<1>6. CASE Retrieve(e)
  BY <1>0, <1>2, <1>6 DEF Retrieve, At, Goes, Handlers
<1>7. CASE CheckDispute(e)
  BY <1>0, <1>2, <1>7 DEF CheckDispute, At, Goes, Handlers
<1>8. CASE Apply(e)
  BY <1>0, <1>2, <1>8 DEF Apply, At, Goes, Handlers
<1>9. CASE Finish(e)
  BY <1>0, <1>2, <1>9 DEF Finish, At, Goes, Idle
<1> QED
  BY <1>1, <1>3, <1>4, <1>5, <1>6, <1>7, <1>8, <1>9 DEF Routed, Handle

\* A change at Stripe, without a reversal.
LEMMA Change ==
    ASSUME TypeOK, Steady, story.reversals = {}, StripeActs
    PROVE  \E s \in Subs, status \in StripeStatuses :
              SubscriptionChanges(s, status) /\ Added("subscription", s)
<1>1. ASSUME NEW s \in Subs, NEW status \in StripeStatuses, SubscriptionChanges(s, status)
      PROVE  Added("subscription", s)
  <2>1. Emit("subscription", s)
    BY <1>1 DEF SubscriptionChanges
  <2> QED BY <2>1, EmitGrows DEF Added
<1>2. \A kind \in ReversalKinds : ~ PaymentReversed(kind)
  BY DEF PaymentReversed
<1> QED BY <1>1, <1>2 DEF StripeActs

\* Stripe starts or changes a subscription.
LEMMA ChangeTurn ==
    ASSUME TypeOK, Steady, Turn, Dated, Successive, Working, Served,
           NEW s \in Subs, NEW status \in StripeStatuses,
           SubscriptionChanges(s, status), Added("subscription", s)
    PROVE  Successive' /\ Working' /\ Served'
<1>0. /\ sub \in [Subs -> StripeStatuses] /\ Subs \subseteq Nat /\ clock \in Nat
      /\ DOMAIN events = 1 .. Len(events) /\ Len(events) \in Nat
      /\ UNCHANGED <<row, payment, journal, h>>
      /\ sub' = [sub EXCEPT ![s] = status]
      /\ <<sub[s], status>> \in Transitions
      /\ \A i \in DOMAIN events : events[i] \in Events
  BY EventTyped DEF TypeOK, Subs, SubscriptionChanges
<1>1. sub[s] # "canceled" /\ status # "none" /\ sub'[s] # "none" /\ \A t \in Subs \ {s} : sub'[t] = sub[t]
  BY <1>0 DEF Transitions
<1>2. sub[s] = "none" => /\ \A t \in Subs : t < s => sub[t] = "canceled"
                         /\ \A e \in Slots : h[e].step \notin {"check", "apply"}
  BY DEF SubscriptionChanges, Turn, Subs
<1>3. /\ DOMAIN events' = 1 .. (Len(events) + 1) /\ clock' = clock + 1
      /\ \A i \in DOMAIN events : events'[i] = events[i]
      /\ events'[Len(events) + 1].sub = s /\ events'[Len(events) + 1].at = clock + 1
  BY <1>0 DEF Added, Turn
<1>4. Successive'
  <2>1. ASSUME NEW u \in Subs, NEW t \in Subs, t < u, sub'[u] # "none" PROVE sub'[t] = "canceled"
    <3>1. CASE u = s
      BY <1>0, <1>1, <1>2, <2>1, <3>1 DEF Successive
    <3>2. CASE u # s
      <4>1. sub[t] = "canceled"
        BY <1>1, <2>1, <3>2 DEF Successive
      <4> QED BY <1>1, <4>1
    <3> QED BY <3>1, <3>2
  <2>2. ASSUME NEW i \in DOMAIN events' PROVE sub'[events'[i].sub] # "none"
    <3>1. CASE i = Len(events) + 1
      BY <1>1, <1>3, <3>1
    <3>2. CASE i \in DOMAIN events
      <4>1. events'[i].sub = events[i].sub /\ sub[events[i].sub] # "none"
            /\ events[i].sub \in Subs
        <5>1. events[i].kind = "subscription"
          BY <3>2 DEF Steady, Reversals, Turn
        <5> QED BY <1>0, <1>3, <3>2, <5>1 DEF Successive, Steady, Named, Events
      <4> QED BY <1>1, <4>1
    <3> QED BY <1>0, <1>3, <2>2, <3>1, <3>2
  <2> QED BY <2>1, <2>2 DEF Successive
<1>5. Working'
  <2> SUFFICES ASSUME NEW e \in Slots
               PROVE  /\ h[e].step # "idle" => h[e].sub = events'[e].sub
                      /\ h[e].step \in {"check", "apply"} /\ h[e].status \in Granting =>
                            \A t \in Subs : h[e].sub < t => sub'[t] = "none"
    BY <1>0 DEF Working
  <2>1. h[e].step # "idle" => e \in DOMAIN events
    BY DEF Steady, Placed
  <2>2. h[e].step # "idle" => h[e].sub = events'[e].sub
    BY <1>3, <2>1 DEF Working
  <2>3. ASSUME h[e].step \in {"check", "apply"}, h[e].status \in Granting, NEW t \in Subs, h[e].sub < t
        PROVE  sub'[t] = "none"
    <3>1. sub[t] = "none"
      BY <2>3 DEF Working
    <3>2. t # s
      BY <1>2, <2>3, <3>1
    <3> QED BY <1>1, <3>1, <3>2
  <2> QED BY <2>2, <2>3
<1>6. Served'
  <2> SUFFICES ASSUME NEW u \in Subs, sub'[u] # "none"
               PROVE  /\ \E i \in DOMAIN events' : LastOf(u, i)'
                      /\ \A i \in DOMAIN events' : LastOf(u, i)' /\ sub'[u] \in Granting =>
                          /\ \A e \in Slots : h[e].step \in {"check", "apply"} /\ h[e].sub = u =>
                                h[e].status \in Granting \/ h[e].at < events'[i].at
                          /\ row.sub = u => GrantsAccess(row) \/ row.at < events'[i].at
                          /\ i \in Slots /\ (journal[i] \in Finished \/ h[i].step = "finish") =>
                                row.sub = u /\ events'[i].at <= row.at
    BY <1>0 DEF Served, GrantsAccess
  <2>1. CASE u = s
    <3>1. \A i : LastOf(u, i)' <=> i = Len(events) + 1
      BY <1>0, <1>3, <2>1 DEF LastOf
    <3>2. Len(events) + 1 \in DOMAIN events'
      BY <1>0, <1>3
    <3>3. row.at < clock + 1 /\ \A e \in Slots : h[e].at < clock + 1
      <4>1. row.at \in Nat /\ \A e \in Slots : h[e].at \in Nat
        BY DEF TypeOK
      <4> QED BY <1>0, <4>1 DEF Dated
    <3>4. Len(events) + 1 \in Slots => h[Len(events) + 1].step = "idle" /\ journal[Len(events) + 1] = "none"
      BY <1>0 DEF Steady, Placed
    <3> QED BY <1>3, <3>1, <3>2, <3>3, <3>4 DEF Finished
  <2>2. CASE u # s
    <3>1. sub'[u] = sub[u]
      BY <1>1, <2>2
    <3>2. \A i : LastOf(u, i)' <=> LastOf(u, i)
      BY <1>0, <1>3, <2>2 DEF LastOf
    <3>3. \A i : LastOf(u, i) => i \in DOMAIN events /\ events'[i] = events[i]
      BY <1>3 DEF LastOf
    <3>4. DOMAIN events \subseteq DOMAIN events'
      BY <1>0, <1>3
    <3> QED BY <3>1, <3>2, <3>3, <3>4 DEF Served
  <2> QED BY <2>1, <2>2
<1> QED BY <1>4, <1>5, <1>6

\* A status is written over the row.
LEMMA ApplyTurn ==
    ASSUME TypeOK, Steady, Turn, Successive, Working, Served,
           NEW e \in Slots, Apply(e), NEW s \in Subs, sub[s] \in Granting, NEW i \in DOMAIN events,
           LastOf(s, i)
    PROVE  /\ row'.sub = s => GrantsAccess(row)' \/ row'.at < events[i].at
           /\ i = e \/ (row.sub = s /\ events[i].at <= row.at) =>
                 row'.sub = s /\ events[i].at <= row'.at
<1>0. /\ h[e] \in Handlers /\ h[e].step = "apply" /\ e \in DOMAIN events /\ payment.state = "none"
      /\ h[e].sub = events[e].sub /\ h[e].at = events[e].at
      /\ row.at \in Nat /\ events[i].at \in Nat /\ events[e].at \in Nat
      /\ Subs \subseteq Nat /\ h[e].sub \in Subs /\ sub[h[e].sub] # "none"
  <2>1. h[e].step = "apply" /\ e \in DOMAIN events
    BY DEF Apply, At
  <2>2. events[e].kind = "subscription" /\ payment.state = "none"
    BY <2>1 DEF Steady, Reversals, Turn
  <2>3. h[e].sub = events[e].sub /\ h[e].at = events[e].at
    BY <2>1, <2>2 DEF Working, Steady, Kinds
  <2>4. h[e] \in Handlers /\ row.at \in Nat /\ events[i].at \in Nat /\ events[e].at \in Nat
    BY <2>1, HandlerTyped, EventTyped DEF TypeOK, Events
  <2> QED BY <2>1, <2>2, <2>3, <2>4 DEF Handlers, Steady, Named, Successive, Subs
<1>1. ~ Reversed(e)
  BY <1>0 DEF Reversed
<1>2. /\ h[e].sub = s => h[e].status \in Granting \/ h[e].at < events[i].at
      /\ row.sub = s => GrantsAccess(row) \/ row.at < events[i].at
  BY <1>0 DEF Served, Granting
<1>3. CASE Stale(e)
  <2>1. row' = row
    BY <1>3 DEF Apply
  <2>2. row.sub = h[e].sub /\ h[e].at < row.at
    BY <1>3 DEF Stale
  <2>3. i = e => h[e].sub = s /\ h[e].at = events[i].at
    BY <1>0 DEF LastOf
  <2> QED BY <1>0, <1>2, <2>1, <2>2, <2>3 DEF GrantsAccess
<1>4. CASE Superseded(e)
  <2>1. row' = row
    BY <1>4 DEF Apply
  <2>2. i # e
    BY <1>0, <1>2, <1>4 DEF LastOf, Superseded
  <2> QED BY <1>2, <2>1, <2>2 DEF GrantsAccess
<1>5. CASE ~ Stale(e) /\ ~ Superseded(e)
  <2>1. row' = [status |-> h[e].status, sub |-> h[e].sub, open |-> TRUE, at |-> h[e].at]
    BY <1>1, <1>5 DEF Apply
  <2>2. CASE h[e].sub = s
    <3>1. i = e => events[i].at <= h[e].at
      BY <1>0
    <3>2. row.sub = s /\ events[i].at <= row.at => events[i].at <= h[e].at
      BY <1>0, <1>5, <2>2 DEF Stale
    <3> QED BY <1>2, <2>1, <2>2, <3>1, <3>2 DEF GrantsAccess
  <2>3. CASE h[e].sub # s
    <3>1. i # e
      BY <1>0, <2>3 DEF LastOf
    <3>2. ASSUME row.sub = s, events[i].at <= row.at PROVE FALSE
      <4>1. GrantsAccess(row)
        BY <1>0, <1>2, <3>2
      <4>2. s # NoSub
        BY DEF Subs, NoSub
      <4>3. h[e].status \in Granting
        BY <1>5, <2>3, <3>2, <4>1, <4>2 DEF Superseded
      <4>4. ~ (h[e].sub < s)
        BY <1>0, <4>3 DEF Working, Granting
      <4>5. ~ (s < h[e].sub)
        BY <1>0 DEF Successive, Granting
      <4>6. s \in Nat /\ h[e].sub \in Nat
        BY <1>0
      <4> QED BY <2>3, <4>4, <4>5, <4>6
    <3> QED BY <2>1, <2>3, <3>1, <3>2
  <2> QED BY <2>2, <2>3
<1> QED BY <1>3, <1>4, <1>5

LEMMA RoutedTurn ==
    ASSUME TypeOK, Steady, Turn, Successive, Working, Served, NEW e \in Slots, Routed(e)
    PROVE  Successive' /\ Working' /\ Served'
<1>0. /\ h \in [Slots -> Handlers] /\ h[e] \in Handlers /\ Subs \subseteq Nat
      /\ story.reversals = {} /\ e \in DOMAIN events
      /\ UNCHANGED <<sub, clock, events, payment>>
      /\ \A o \in Slots \ {e} : h'[o] = h[o] /\ journal'[o] = journal[o]
  BY Plain, Local, HandlerTyped DEF TypeOK, Handlers, Subs, Turn
<1>1. Successive'
  BY <1>0 DEF Successive
<1>2. h'[e].step # "idle" => h'[e].sub = events[e].sub
  BY <1>0, Plain DEF Working
<1>3. ASSUME Retrieve(e)
      PROVE  /\ h'[e].sub \in Subs /\ sub[h'[e].sub] # "none"
             /\ h'[e].status \in Granting <=> sub[h'[e].sub] \in Granting
  <2>1. h'[e].status = PlanStatus(sub[h[e].sub]) /\ h'[e].sub = h[e].sub /\ h[e].step = "retrieve"
    BY <1>0, <1>3 DEF Retrieve, At, Goes, Handlers
  <2>2. h[e].sub \in Subs /\ h[e].sub = events[e].sub
    BY <1>0, <2>1 DEF Handlers, Steady, Named, Working
  <2> QED BY <1>0, <2>1, <2>2, Statuses DEF Successive
<1>4. Working'
  <2>1. ASSUME h'[e].step \in {"check", "apply"}, h'[e].status \in Granting,
               NEW s \in Subs, h'[e].sub < s
        PROVE  sub[s] = "none"
    <3>1. CASE Retrieve(e)
      <4>1. sub[h'[e].sub] \in Granting /\ h'[e].sub \in Subs
        BY <1>3, <2>1, <3>1
      <4> QED BY <2>1, <4>1 DEF Successive, Granting
    <3>2. CASE ~ Retrieve(e)
      <4>1. h[e].step \in {"check", "apply"} /\ h'[e].status = h[e].status /\ h'[e].sub = h[e].sub
        BY <1>0, <2>1, <3>2, Plain
      <4> QED BY <2>1, <4>1 DEF Working
    <3> QED BY <3>1, <3>2
  <2> QED BY <1>0, <1>2, <2>1 DEF Working
<1>5. Served'
  <2> SUFFICES ASSUME NEW s \in Subs, sub[s] # "none", NEW i \in DOMAIN events, LastOf(s, i),
                      sub[s] \in Granting
               PROVE  /\ \A o \in Slots : h'[o].step \in {"check", "apply"} /\ h'[o].sub = s =>
                            h'[o].status \in Granting \/ h'[o].at < events[i].at
                      /\ row'.sub = s => GrantsAccess(row)' \/ row'.at < events[i].at
                      /\ i \in Slots /\ (journal'[i] \in Finished \/ h'[i].step = "finish") =>
                            row'.sub = s /\ events[i].at <= row'.at
    BY <1>0 DEF Served, LastOf
  <2>0. /\ \A o \in Slots : h[o].step \in {"check", "apply"} /\ h[o].sub = s =>
              h[o].status \in Granting \/ h[o].at < events[i].at
        /\ row.sub = s => GrantsAccess(row) \/ row.at < events[i].at
        /\ i \in Slots /\ (journal[i] \in Finished \/ h[i].step = "finish") =>
              row.sub = s /\ events[i].at <= row.at
    BY DEF Served
  <2>1. ASSUME h'[e].step \in {"check", "apply"}, h'[e].sub = s
        PROVE  h'[e].status \in Granting \/ h'[e].at < events[i].at
    <3>1. CASE Retrieve(e)
      BY <1>3, <2>1, <3>1
    <3>2. CASE ~ Retrieve(e)
      <4>1. /\ h[e].step \in {"check", "apply"} /\ h'[e].status = h[e].status
            /\ h'[e].sub = h[e].sub /\ h'[e].at = h[e].at
        BY <1>0, <2>1, <3>2, Plain
      <4> QED BY <2>0, <2>1, <4>1
    <3> QED BY <3>1, <3>2
  <2>2. \A o \in Slots : h'[o].step \in {"check", "apply"} /\ h'[o].sub = s =>
           h'[o].status \in Granting \/ h'[o].at < events[i].at
    BY <1>0, <2>0, <2>1
  <2>3. CASE Apply(e)
    <3>1. /\ row'.sub = s => GrantsAccess(row)' \/ row'.at < events[i].at
          /\ i = e \/ (row.sub = s /\ events[i].at <= row.at) =>
                row'.sub = s /\ events[i].at <= row'.at
      BY <2>3, ApplyTurn
    <3> QED BY <1>0, <2>0, <2>2, <3>1
  <2>4. CASE ~ Apply(e)
    <3>1. row' = row
      BY <1>0, <2>4, Plain
    <3>2. i \in Slots /\ (journal'[i] \in Finished \/ h'[i].step = "finish") =>
             journal[i] \in Finished \/ h[i].step = "finish"
      BY <1>0, <2>4, Plain
    <3> QED BY <2>0, <2>2, <3>1, <3>2 DEF GrantsAccess
  <2> QED BY <2>3, <2>4
<1> QED BY <1>1, <1>4, <1>5

LEMMA TurnHolds == Spec => []TurnInv
<1>1. Inv /\ SimpleInv /\ TurnInv /\ [Next]_vars => TurnInv'
  <2>1. ASSUME Inv, SimpleInv, TurnInv, Next PROVE TurnInv'
    <3>1. story' = story
      BY <2>1, Local DEF Inv, Next, Routed, StripeActs, SubscriptionChanges, PaymentReversed
    <3> SUFFICES ASSUME Turn PROVE Successive' /\ Working' /\ Served'
      BY <3>1 DEF TurnInv, Turn
    <3>2. TypeOK /\ Steady /\ Dated /\ Successive /\ Working /\ Served /\ story.reversals = {}
      BY <2>1 DEF Inv, SimpleInv, TurnInv, Turn
    <3>3. CASE StripeActs
      BY <3>2, <3>3, Change, ChangeTurn
    <3>4. CASE \E e \in Slots : Routed(e)
      BY <3>2, <3>4, RoutedTurn
    <3> QED BY <2>1, <3>3, <3>4 DEF Next, Routed
  <2>2. ASSUME TurnInv, UNCHANGED vars PROVE TurnInv'
    BY <2>2 DEF vars, stripeVars, TurnInv, Turn, Successive, Working, Served, LastOf, GrantsAccess
  <2> QED BY <2>1, <2>2
<1> QED BY <1>1, InitTurn, InvHolds, SimpleHolds, PTL DEF Spec

\* However late and in whatever order the events of the old subscriptions are handled, and however
\* often handlers fail: in a settled account, a subscription that Stripe bills has the row, and the
\* row grants access (superseded_subscription), when nothing read of Stripe before a subscription
\* starts is written after it, without a reversal and with different seconds.
THEOREM PaidKeepsAccess == Spec => []PaidHasAccess
<1>1. Inv /\ SimpleInv /\ TurnInv => PaidHasAccess
  <2> SUFFICES ASSUME Inv, SimpleInv, TurnInv, Turn, Settled, NEW s \in Subs, sub[s] \in Granting
               PROVE  row.sub = s /\ GrantsAccess(row)
    BY DEF PaidHasAccess, Turn
  <2>1. sub[s] # "none" /\ Served
    BY DEF Granting, TurnInv
  <2>2. PICK i \in DOMAIN events : LastOf(s, i)
    BY <2>1 DEF Served
  <2>3. i \in Slots /\ journal[i] \in Finished
    BY DEF Settled, Inv, TypeOK, Steady, Placed
  <2>4. /\ row.sub = s => GrantsAccess(row) \/ row.at < events[i].at
        /\ row.sub = s /\ events[i].at <= row.at
    BY <2>1, <2>2, <2>3 DEF Served
  <2>5. events[i].at \in Nat /\ row.at \in Nat
    BY EventTyped DEF Inv, TypeOK, Events
  <2> QED BY <2>4, <2>5
<1> QED BY <1>1, InvHolds, SimpleHolds, TurnHolds, PTL
=============================================================================
