------------------------ MODULE CheckoutReservation ------------------------
(***************************************************************************)
(* The checkouts of one account: requests that may run together, each with *)
(* a reservation token of its own (createPlanCheckoutSession and           *)
(* reclaimAbandonedCheckout in src/src/lib/billing.ts), the reservation in *)
(* the account's row (reserve_analyse_checkout and release_analyse_        *)
(* checkout), the Checkout Sessions at Stripe, which is external, and the  *)
(* webhooks that release a reservation.                                    *)
(*                                                                         *)
(* A request is named by its token, and so are its Session and the         *)
(* subscription that Session may create.  Time is kept as what is left:    *)
(* of the Session window of each request, and of the reservation.          *)
(***************************************************************************)
EXTENDS Integers, FiniteSets

CONSTANTS
    Requests,         \* checkout requests, each with its token
    Nobody,           \* no token
    SessionLife,      \* ANALYSIS_CHECKOUT_EXPIRY_MINUTES
    ReservationLife,  \* the interval of reserve_analyse_checkout
    MinLife,          \* the shortest Session window Stripe accepts
    AbandonAge        \* ABANDONED_CHECKOUT_MIN_AGE_SECONDS

ASSUME RequestAssumption == Nobody \notin Requests
ASSUME LifeAssumption ==
    /\ SessionLife \in Nat /\ ReservationLife \in Nat
    /\ SessionLife <= ReservationLife
    /\ MinLife \in Nat \ {0} /\ AbandonAge \in Nat

VARIABLES
    row,       \* the reservation, the plan and the Stripe customer of the account's row
    req,       \* each request: its step, what is left of its window, what it reclaims
    session,   \* the Checkout Session of each request, and its age
    known,     \* the requests whose Session URL reached the customer
    sub,       \* the subscription of each Session at Stripe
    outbox     \* webhooks Stripe still has to get through

vars == <<row, req, session, known, sub, outbox>>

Steps == {"new", "reserve", "list", "reclaim", "free", "customer", "attach", "history",
          "create", "record", "expire", "release", "over"}
Idle == [step |-> "new", left |-> 0, listed |-> {}, freeing |-> Nobody, reclaimed |-> FALSE]
SessionStates == {"none", "open", "complete", "expired"}
Sessions == [status : SessionStates, age : 0 .. AbandonAge]
RequestStates == [step : Steps, left : 0 .. SessionLife, listed : SUBSET Requests,
                  freeing : Requests \cup {Nobody}, reclaimed : BOOLEAN]
Rows == [token : Requests \cup {Nobody}, left : 0 .. ReservationLife,
         active : BOOLEAN, customer : BOOLEAN]
Webhooks == {"expired", "completed", "changed"} \X Requests

Init ==
    /\ row = [token |-> Nobody, left |-> 0, active |-> FALSE, customer |-> FALSE]
    /\ req = [r \in Requests |-> Idle]
    /\ session = [r \in Requests |-> [status |-> "none", age |-> 0]]
    /\ known = {}
    /\ sub = [r \in Requests |-> "none"]
    /\ outbox = {}

Go(r, step) == req' = [req EXCEPT ![r].step = step]
Released(r) == IF row.token = r THEN [row EXCEPT !.token = Nobody, !.left = 0] ELSE row

-----------------------------------------------------------------------------
\* createPlanCheckoutSession

\* The window of the Session starts before the reservation is asked for.
Start(r) ==
    /\ req[r].step = "new"
    /\ req' = [req EXCEPT ![r].step = "reserve", ![r].left = SessionLife]
    /\ UNCHANGED <<row, session, known, sub, outbox>>

\* reserve_analyse_checkout: no subscription, and no reservation of another request that still runs.
Reservable(r) ==
    /\ ~ row.active
    /\ row.token \in {Nobody, r} \/ row.left = 0

\* After a refusal the request tries once to reclaim an abandoned checkout.
Reserve(r) ==
    /\ req[r].step = "reserve"
    /\ IF Reservable(r)
       THEN /\ row' = IF row.token = r THEN row
                      ELSE [row EXCEPT !.token = r, !.left = ReservationLife]
            /\ Go(r, "customer")
       ELSE /\ Go(r, IF req[r].reclaimed THEN "over" ELSE "list")
            /\ UNCHANGED row
    /\ UNCHANGED <<session, known, sub, outbox>>

\* reclaimAbandonedCheckout lists the open Sessions of the customer that are old enough.
List(r) ==
    /\ req[r].step = "list"
    /\ LET old == {s \in Requests : session[s].status = "open" /\ session[s].age >= AbandonAge}
       IN req' = IF row.customer
                 THEN [req EXCEPT ![r].step = "reclaim", ![r].listed = old]
                 ELSE [req EXCEPT ![r].step = "over"]
    /\ UNCHANGED <<row, session, known, sub, outbox>>

Expired(s) ==
    /\ session' = [session EXCEPT ![s].status = "expired"]
    /\ outbox' = outbox \cup {<<"expired", s>>}

\* One listed Session: it is expired, unless it is no longer open or Stripe cannot be reached.
Reclaim(r, s) ==
    /\ req[r].step = "reclaim" /\ s \in req[r].listed
    /\ \/ /\ session[s].status = "open"
          /\ Expired(s)
          /\ req' = [req EXCEPT ![r].listed = @ \ {s}, ![r].freeing = s, ![r].step = "free",
                                ![r].reclaimed = TRUE]
       \/ /\ req' = [req EXCEPT ![r].listed = @ \ {s}]
          /\ UNCHANGED <<session, outbox>>
    /\ UNCHANGED <<row, known, sub>>

\* Its reservation is released; a failure of the release is swallowed.
Free(r) ==
    /\ req[r].step = "free"
    /\ row' \in {row, Released(req[r].freeing)}
    /\ req' = [req EXCEPT ![r].step = "reclaim", ![r].freeing = Nobody]
    /\ UNCHANGED <<session, known, sub, outbox>>

\* Nothing is left to reclaim: the reservation is asked for again, or the request is refused.
Retry(r) ==
    /\ req[r].step = "reclaim" /\ req[r].listed = {}
    /\ Go(r, IF req[r].reclaimed THEN "reserve" ELSE "over")
    /\ UNCHANGED <<row, session, known, sub, outbox>>

\* ensureStripeCustomer: the customer the row names, or a new one attached under the reservation.
Customer(r) ==
    /\ req[r].step = "customer"
    /\ Go(r, IF row.customer THEN "history" ELSE "attach")
    /\ UNCHANGED <<row, session, known, sub, outbox>>

Attach(r) ==
    /\ req[r].step = "attach"
    /\ IF row.token = r
       THEN row' = [row EXCEPT !.customer = TRUE] /\ Go(r, "history")
       ELSE Go(r, "release") /\ UNCHANGED row
    /\ UNCHANGED <<session, known, sub, outbox>>

\* (mutant) the subscriptions at Stripe are not looked at.
HistoryUnread(r) ==
    /\ req[r].step = "history"
    /\ Go(r, "create")
    /\ UNCHANGED <<row, session, known, sub, outbox>>

\* A live subscription at Stripe refuses the checkout, whatever the row says.
History(r) ==
    /\ req[r].step = "history"
    /\ Go(r, IF \E s \in Requests : sub[s] = "active" THEN "release" ELSE "create")
    /\ UNCHANGED <<row, session, known, sub, outbox>>

\* (mutant) the window of the Session starts when the Session is created.
CreateLate(r) ==
    /\ req[r].step = "create"
    /\ session' = [session EXCEPT ![r] = [status |-> "open", age |-> 0]]
    /\ req' = [req EXCEPT ![r].step = "record", ![r].left = SessionLife]
    /\ UNCHANGED <<row, known, sub, outbox>>

\* Stripe creates the Session if its window is long enough; the answer may be lost.
Create(r) ==
    /\ req[r].step = "create"
    /\ \/ /\ req[r].left >= MinLife
          /\ session' = [session EXCEPT ![r] = [status |-> "open", age |-> 0]]
          /\ \E step \in {"record", "release"} : Go(r, step)
       \/ Go(r, "release") /\ UNCHANGED session
    /\ UNCHANGED <<row, known, sub, outbox>>

\* recordCommercialAcceptance, then the URL is returned; without the record the Session is expired.
RecordAcceptance(r) ==
    /\ req[r].step = "record"
    /\ \/ known' = known \cup {r} /\ Go(r, "over")
       \/ Go(r, "expire") /\ UNCHANGED known
    /\ UNCHANGED <<row, session, sub, outbox>>

\* The reservation of a Session that could not be expired is kept.
ExpireOwn(r) ==
    /\ req[r].step = "expire"
    /\ \/ /\ session[r].status = "open"
          /\ Expired(r)
          /\ Go(r, "release")
       \/ Go(r, "over") /\ UNCHANGED <<session, outbox>>
    /\ UNCHANGED <<row, known, sub>>

Release(r) ==
    /\ req[r].step = "release"
    /\ row' \in {row, Released(r)}
    /\ Go(r, "over")
    /\ UNCHANGED <<session, known, sub, outbox>>

\* The function is stopped, or a request outside the try block fails.
Die(r) ==
    /\ req[r].step \notin {"new", "over"}
    /\ Go(r, "over")
    /\ UNCHANGED <<row, session, known, sub, outbox>>

-----------------------------------------------------------------------------
\* Stripe and its webhooks

Payable(s) == s \in known /\ session[s].status = "open" /\ req[s].left > 0

Pay(s) ==
    /\ Payable(s)
    /\ session' = [session EXCEPT ![s].status = "complete"]
    /\ sub' = [sub EXCEPT ![s] = "active"]
    /\ outbox' = outbox \cup {<<"completed", s>>}
    /\ UNCHANGED <<row, req, known>>

SessionEnds(s) ==
    /\ session[s].status = "open" /\ req[s].left = 0
    /\ Expired(s)
    /\ UNCHANGED <<row, req, known, sub>>

SubscriptionEnds(s) ==
    /\ sub[s] = "active"
    /\ sub' = [sub EXCEPT ![s] = "canceled"]
    /\ outbox' = outbox \cup {<<"changed", s>>}
    /\ UNCHANGED <<row, req, session, known>>

\* handleCheckoutExpired releases the reservation of the Session.
OnExpired(s) ==
    /\ <<"expired", s>> \in outbox
    /\ row' = Released(s)
    /\ outbox' = outbox \ {<<"expired", s>>}
    /\ UNCHANGED <<req, session, known, sub>>

\* The row follows the subscriptions at Stripe (module StripeWebhooks); a completed checkout also
\* releases its reservation, unless that call fails.
OnSubscription(kind, s) ==
    /\ kind \in {"completed", "changed"} /\ <<kind, s>> \in outbox
    /\ \E kept \in {row, IF kind = "completed" THEN Released(s) ELSE row} :
            row' = [kept EXCEPT !.active = \E t \in Requests : sub[t] = "active"]
    /\ outbox' = outbox \ {<<kind, s>>}
    /\ UNCHANGED <<req, session, known, sub>>

\* (mutant) a countdown does not stop at zero.
OneLessForEver(n) == n - 1

OneLess(n) == IF n = 0 THEN 0 ELSE n - 1

Tick ==
    /\ row' = [row EXCEPT !.left = OneLess(@)]
    /\ req' = [r \in Requests |-> [req[r] EXCEPT !.left = OneLess(@)]]
    /\ session' = [r \in Requests |->
                     [session[r] EXCEPT !.age = IF session[r].status = "open" /\ @ < AbandonAge
                                                THEN @ + 1 ELSE @]]
    /\ UNCHANGED <<known, sub, outbox>>

Serve(r) ==
    \/ Start(r) \/ Reserve(r) \/ List(r) \/ Free(r) \/ Retry(r)
    \/ \E s \in Requests : Reclaim(r, s)
    \/ Customer(r) \/ Attach(r) \/ History(r) \/ Create(r) \/ RecordAcceptance(r)
    \/ ExpireOwn(r) \/ Release(r) \/ Die(r)

Stripe(s) ==
    \/ Pay(s) \/ SessionEnds(s) \/ SubscriptionEnds(s) \/ OnExpired(s)
    \/ \E kind \in {"completed", "changed"} : OnSubscription(kind, s)

Next == Tick \/ \E r \in Requests : Serve(r) \/ Stripe(r)

Spec == Init /\ [][Next]_vars

-----------------------------------------------------------------------------
TypeOK ==
    /\ row \in Rows
    /\ req \in [Requests -> RequestStates]
    /\ session \in [Requests -> Sessions]
    /\ known \subseteq Requests
    /\ sub \in [Requests -> {"none", "active", "canceled"}]
    /\ outbox \subseteq Webhooks

\* The customer can pay one Session at a time, and its reservation outlives it: the comment of
\* createPlanCheckoutSession asks that Checkout never outlive the reservation.
PayableIsReserved == \A s \in Requests : Payable(s) => row.token = s /\ req[s].left <= row.left

\* However many checkouts run together, are abandoned, reclaimed or fail half-way, and however
\* late the webhooks are, the account never has two live subscriptions.
OneSubscription == \A s, t \in Requests : sub[s] = "active" /\ sub[t] = "active" => s = t
=============================================================================
