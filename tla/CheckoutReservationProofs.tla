--------------------- MODULE CheckoutReservationProofs ---------------------
(***************************************************************************)
(* Proofs about CheckoutReservation, for any number of concurrent requests *)
(* and any life of Sessions and reservations that satisfies LifeAssumption.*)
(*                                                                         *)
(* The argument: the window of a Session starts before its reservation, so *)
(* as long as the window of a request that goes on is open the reservation *)
(* is its own (Held); hence a request that has read an empty history, or a *)
(* customer about to pay, knows that nobody else can have paid meanwhile   *)
(* (Alone).                                                                *)
(***************************************************************************)
EXTENDS CheckoutReservation, TLAPS


-----------------------------------------------------------------------------
\* Each update of a record stays in its set.
LEMMA RowUpdates ==
  ASSUME NEW o \in Rows, NEW t \in Requests \cup {Nobody}, NEW n \in 0 .. ReservationLife, NEW b \in BOOLEAN
  PROVE  /\ [o EXCEPT !.token = t, !.left = n] \in Rows
         /\ [o EXCEPT !.left = n] \in Rows
         /\ [o EXCEPT !.customer = b] \in Rows
         /\ [o EXCEPT !.active = b] \in Rows
  BY DEF Rows

LEMMA ReleasedTyped == ASSUME TypeOK, NEW r \in Requests PROVE Released(r) \in Rows
  <1>1. row \in Rows /\ 0 \in 0 .. ReservationLife /\ Nobody \in Requests \cup {Nobody}
    BY LifeAssumption DEF TypeOK
  <1> QED
    BY <1>1, RowUpdates DEF Released

LEMMA StepNames ==
  /\ "new" \in Steps /\ "reserve" \in Steps /\ "list" \in Steps /\ "reclaim" \in Steps
  /\ "free" \in Steps /\ "customer" \in Steps /\ "attach" \in Steps /\ "history" \in Steps
  /\ "create" \in Steps /\ "record" \in Steps /\ "expire" \in Steps /\ "release" \in Steps
  /\ "over" \in Steps
  BY DEF Steps

LEMMA GoTyped ==
  ASSUME TypeOK, NEW r \in Requests, NEW st \in Steps, Go(r, st)
  PROVE  req' \in [Requests -> RequestStates]
  <1>1. req[r] \in RequestStates
    BY DEF TypeOK
  <1>2. [req[r] EXCEPT !.step = st] \in RequestStates
    BY <1>1 DEF RequestStates
  <1>3. req' = [req EXCEPT ![r] = [req[r] EXCEPT !.step = st]]
    BY DEF Go
  <1> QED
    BY <1>2, <1>3 DEF TypeOK

LEMMA ExpiredTyped ==
  ASSUME TypeOK, NEW s \in Requests, Expired(s)
  PROVE  session' \in [Requests -> Sessions] /\ outbox' \subseteq Webhooks
  <1>1. session[s] \in Sessions /\ "expired" \in SessionStates
    BY DEF TypeOK, SessionStates
  <1>2. [session[s] EXCEPT !.status = "expired"] \in Sessions
    BY <1>1 DEF Sessions
  <1>3. session' = [session EXCEPT ![s] = [session[s] EXCEPT !.status = "expired"]]
    BY DEF Expired
  <1>4. <<"expired", s>> \in Webhooks
    BY DEF Webhooks
  <1> QED
    BY <1>2, <1>3, <1>4 DEF TypeOK, Expired

\* The countdowns stop at zero.
LEMMA Countdown == ASSUME NEW b \in Nat, NEW n \in 0 .. b PROVE OneLess(n) \in 0 .. b
  BY DEF OneLess

LEMMA TickTyped == ASSUME TypeOK, Tick PROVE TypeOK'
  <1>1. row' \in Rows
    <2>1. row \in Rows /\ row.left \in 0 .. ReservationLife
      BY DEF TypeOK, Rows
    <2>2. OneLess(row.left) \in 0 .. ReservationLife
      BY <2>1, Countdown, LifeAssumption
    <2>3. row' = [row EXCEPT !.left = OneLess(row.left)]
      BY DEF Tick
    <2> QED
      BY <2>1, <2>2, <2>3, RowUpdates
  <1>2. req' \in [Requests -> RequestStates]
    <2>1. \A r \in Requests : [req[r] EXCEPT !.left = OneLess(req[r].left)] \in RequestStates
      <3>1. TAKE r \in Requests
      <3>2. req[r] \in RequestStates /\ req[r].left \in 0 .. SessionLife
        BY DEF TypeOK, RequestStates
      <3>3. OneLess(req[r].left) \in 0 .. SessionLife
        BY <3>2, Countdown, LifeAssumption
      <3> QED
        BY <3>2, <3>3 DEF RequestStates
    <2>2. req' = [r \in Requests |-> [req[r] EXCEPT !.left = OneLess(req[r].left)]]
      BY DEF Tick
    <2> QED
      BY <2>1, <2>2
  <1>3. session' \in [Requests -> Sessions]
    <2> DEFINE Aged(r) == IF session[r].status = "open" /\ session[r].age < AbandonAge
                          THEN session[r].age + 1 ELSE session[r].age
    <2>1. \A r \in Requests : [session[r] EXCEPT !.age = Aged(r)] \in Sessions
      <3>1. TAKE r \in Requests
      <3>2. session[r] \in Sessions /\ session[r].age \in 0 .. AbandonAge
        BY DEF TypeOK, Sessions
      <3>3. Aged(r) \in 0 .. AbandonAge
        BY <3>2, LifeAssumption
      <3> HIDE DEF Aged
      <3> QED
        BY <3>2, <3>3 DEF Sessions
    <2>2. session' = [r \in Requests |-> [session[r] EXCEPT !.age = Aged(r)]]
      BY DEF Tick
    <2> HIDE DEF Aged
    <2> QED
      BY <2>1, <2>2
  <1> QED
    BY <1>1, <1>2, <1>3 DEF TypeOK, Tick

LEMMA ServeTyped == ASSUME TypeOK, NEW r \in Requests, Serve(r) PROVE TypeOK'
  <1>0. row \in Rows /\ req[r] \in RequestStates /\ 0 \in 0 .. ReservationLife
        /\ ReservationLife \in 0 .. ReservationLife /\ SessionLife \in 0 .. SessionLife
        /\ req[r].listed \subseteq Requests /\ req[r].freeing \in Requests \cup {Nobody}
        /\ r \in Requests \cup {Nobody} /\ Nobody \in Requests \cup {Nobody}
        /\ Released(r) \in Rows /\ {} \in SUBSET Requests
    BY LifeAssumption, ReleasedTyped DEF TypeOK, RequestStates
  <1>1. row' \in Rows
    <2>1. CASE Reserve(r)
      <3>1. \/ row' = row
            \/ row' = [row EXCEPT !.token = r, !.left = ReservationLife]
        BY <2>1 DEF Reserve
      <3>2. [row EXCEPT !.token = r, !.left = ReservationLife] \in Rows
        BY <1>0 DEF Rows
      <3> QED
        BY <3>1, <3>2, <1>0
    <2>2. CASE Free(r)
      <3>1. Released(req[r].freeing) \in Rows
        BY <1>0, RowUpdates DEF Released
      <3> QED
        BY <2>2, <3>1, <1>0 DEF Free
    <2>3. CASE Attach(r)
      BY <2>3, <1>0, RowUpdates DEF Attach
    <2>4. CASE Release(r)
      BY <2>4, <1>0 DEF Release
    <2>5. CASE ~ (Reserve(r) \/ Free(r) \/ Attach(r) \/ Release(r))
      BY <2>5, <1>0 DEF Serve, Start, List, Reclaim, Retry, Customer, History, Create,
                        RecordAcceptance, ExpireOwn, Die
    <2> QED
      BY <2>1, <2>2, <2>3, <2>4, <2>5
  <1>2. req' \in [Requests -> RequestStates]
    <2>1. CASE Start(r)
      <3>1. req' = [req EXCEPT ![r] = [req[r] EXCEPT !.step = "reserve", !.left = SessionLife]]
        BY <2>1 DEF Start
      <3>2. [req[r] EXCEPT !.step = "reserve", !.left = SessionLife] \in RequestStates
        BY <1>0, StepNames DEF RequestStates
      <3> QED
        BY <3>1, <3>2 DEF TypeOK
    <2>2. CASE List(r)
      <3> DEFINE old == {s \in Requests : session[s].status = "open" /\ session[s].age >= AbandonAge}
      <3>1. old \in SUBSET Requests
        OBVIOUS
      <3>2. \/ req' = [req EXCEPT ![r] = [req[r] EXCEPT !.step = "reclaim", !.listed = old]]
            \/ req' = [req EXCEPT ![r] = [req[r] EXCEPT !.step = "over"]]
        BY <2>2 DEF List
      <3> HIDE DEF old
      <3>3. /\ [req[r] EXCEPT !.step = "reclaim", !.listed = old] \in RequestStates
            /\ [req[r] EXCEPT !.step = "over"] \in RequestStates
        BY <1>0, <3>1, StepNames DEF RequestStates
      <3> QED
        BY <3>2, <3>3 DEF TypeOK
    <2>3. ASSUME NEW s \in Requests, Reclaim(r, s) PROVE req' \in [Requests -> RequestStates]
      <3> DEFINE L == req[r].listed \ {s}
      <3>1. L \in SUBSET Requests /\ s \in Requests \cup {Nobody}
        BY <1>0
      <3>2. \/ req' = [req EXCEPT ![r] = [req[r] EXCEPT !.listed = L, !.freeing = s, !.step = "free",
                                                    !.reclaimed = TRUE]]
            \/ req' = [req EXCEPT ![r] = [req[r] EXCEPT !.listed = L]]
        BY <2>3 DEF Reclaim
      <3> HIDE DEF L
      <3>3. /\ [req[r] EXCEPT !.listed = L, !.freeing = s, !.step = "free", !.reclaimed = TRUE]
                  \in RequestStates
            /\ [req[r] EXCEPT !.listed = L] \in RequestStates
        BY <1>0, <3>1, StepNames DEF RequestStates
      <3> QED
        BY <3>2, <3>3 DEF TypeOK
    <2>4. CASE Free(r)
      <3>1. req' = [req EXCEPT ![r] = [req[r] EXCEPT !.step = "reclaim", !.freeing = Nobody]]
        BY <2>4 DEF Free
      <3>2. [req[r] EXCEPT !.step = "reclaim", !.freeing = Nobody] \in RequestStates
        BY <1>0, StepNames DEF RequestStates
      <3> QED
        BY <3>1, <3>2 DEF TypeOK
    <2>5. CASE Reserve(r) \/ Retry(r) \/ Customer(r) \/ Attach(r) \/ History(r)
      <3>1. \E st \in Steps : Go(r, st)
        BY <2>5, StepNames DEF Reserve, Retry, Customer, Attach, History
      <3> QED
        BY <3>1, GoTyped
    <2>6. CASE Create(r) \/ RecordAcceptance(r) \/ ExpireOwn(r) \/ Release(r) \/ Die(r)
      <3>1. \E st \in Steps : Go(r, st)
        BY <2>6, StepNames DEF Create, RecordAcceptance, ExpireOwn, Release, Die
      <3> QED
        BY <3>1, GoTyped
    <2> QED
      BY <2>1, <2>2, <2>3, <2>4, <2>5, <2>6 DEF Serve
  <1>3. session' \in [Requests -> Sessions] /\ outbox' \subseteq Webhooks
    <2>0. session \in [Requests -> Sessions] /\ outbox \subseteq Webhooks
      BY DEF TypeOK
    <2>1. ASSUME NEW s \in Requests, Reclaim(r, s)
          PROVE  session' \in [Requests -> Sessions] /\ outbox' \subseteq Webhooks
      BY <2>0, <2>1, ExpiredTyped DEF Reclaim
    <2>2. CASE ExpireOwn(r)
      BY <2>0, <2>2, ExpiredTyped DEF ExpireOwn
    <2>3. CASE Create(r)
      <3>1. [status |-> "open", age |-> 0] \in Sessions
        BY LifeAssumption DEF Sessions, SessionStates
      <3> QED
        BY <2>0, <2>3, <3>1 DEF Create
    <2>4. CASE UNCHANGED <<session, outbox>>
      BY <2>0, <2>4
    <2> QED
      BY <2>1, <2>2, <2>3, <2>4 DEF Serve, Start, Reserve, List, Free, Retry, Customer, Attach,
           History, RecordAcceptance, Release, Die
  <1>4. known' \subseteq Requests /\ sub' \in [Requests -> {"none", "active", "canceled"}]
    BY DEF TypeOK, Serve, Start, Reserve, List, Reclaim, Free, Retry, Customer, Attach, History,
           Create, RecordAcceptance, ExpireOwn, Release, Die
  <1> QED
    BY <1>1, <1>2, <1>3, <1>4 DEF TypeOK

LEMMA StripeTyped == ASSUME TypeOK, NEW s \in Requests, Stripe(s) PROVE TypeOK'
  <1>1. CASE Pay(s)
    <2>1. session[s] \in Sessions /\ "complete" \in SessionStates
      BY DEF TypeOK, SessionStates
    <2>2. [session[s] EXCEPT !.status = "complete"] \in Sessions
      BY <2>1 DEF Sessions
    <2>3. session' = [session EXCEPT ![s] = [session[s] EXCEPT !.status = "complete"]]
      BY <1>1 DEF Pay
    <2>4. session' \in [Requests -> Sessions]
      BY <2>2, <2>3 DEF TypeOK
    <2>5. <<"completed", s>> \in Webhooks
      BY DEF Webhooks
    <2> QED
      BY <1>1, <2>4, <2>5 DEF Pay, TypeOK
  <1>2. CASE SessionEnds(s)
    BY <1>2, ExpiredTyped DEF SessionEnds, TypeOK
  <1>3. CASE SubscriptionEnds(s)
    <2>1. <<"changed", s>> \in Webhooks
      BY DEF Webhooks
    <2> QED
      BY <1>3, <2>1 DEF SubscriptionEnds, TypeOK
  <1>4. CASE OnExpired(s)
    BY <1>4, ReleasedTyped DEF OnExpired, TypeOK
  <1>5. ASSUME NEW kind \in {"completed", "changed"}, OnSubscription(kind, s) PROVE TypeOK'
    <2>1. PICK kept \in {row, IF kind = "completed" THEN Released(s) ELSE row} :
               row' = [kept EXCEPT !.active = \E t \in Requests : sub[t] = "active"]
      BY <1>5 DEF OnSubscription
    <2>2. kept \in Rows
      BY <2>1, ReleasedTyped DEF TypeOK
    <2>3. row' \in Rows
      BY <2>1, <2>2 DEF Rows
    <2> QED
      BY <1>5, <2>3 DEF OnSubscription, TypeOK
  <1> QED
    BY <1>1, <1>2, <1>3, <1>4, <1>5 DEF Stripe

LEMMA TypeStep == TypeOK /\ [Next]_vars => TypeOK'
  <1>1. TypeOK /\ UNCHANGED vars => TypeOK'
    BY DEF vars, TypeOK
  <1> QED
    BY <1>1, TickTyped, ServeTyped, StripeTyped DEF Next

\* Type correctness of createPlanCheckoutSession, of the reservation and of the Sessions.
THEOREM Typing == Spec => []TypeOK
<1>1. Init => TypeOK
  BY RequestAssumption, LifeAssumption
     DEF Init, TypeOK, Idle, Steps, SessionStates, Webhooks, Rows, Sessions, RequestStates
<1> QED
  BY <1>1, TypeStep, PTL DEF Spec

-----------------------------------------------------------------------------
(***************************************************************************)
(* The inductive invariant.                                                *)
(***************************************************************************)
Going == {"customer", "attach", "history", "create"}
Before == {"new", "reserve", "list", "reclaim", "free"}
Open(r) == session[r].status = "open"

\* A request that goes on, or whose Session can be paid, within its window.
Holding(r) ==
    /\ req[r].left > 0
    /\ \/ req[r].step \in Going
       \/ req[r].step = "record" /\ Open(r)
       \/ r \in known /\ Open(r)

Held == \A r \in Requests : Holding(r) => row.token = r /\ req[r].left <= row.left

Fresh == \A r \in Requests :
    /\ req[r].step \in Before \cup Going =>
          session[r].status = "none" /\ sub[r] = "none" /\ r \notin known
    /\ r \in known => req[r].step = "over"

Alone == \A r, s \in Requests :
    Holding(r) /\ (req[r].step \in {"create", "record"} \/ r \in known) => sub[s] # "active"

Paid == \A r \in Requests : sub[r] = "active" => session[r].status = "complete"

Told == \A r \in Requests :
    /\ <<"expired", r>> \in outbox => session[r].status = "expired"
    /\ <<"completed", r>> \in outbox => session[r].status = "complete"

Freed == \A r \in Requests : req[r].step = "free" =>
    req[r].freeing \in Requests /\ session[req[r].freeing].status = "expired"

Waiting == \A r \in Requests : req[r].step \in Before => row.token # r

Safe == Held /\ Fresh /\ Alone /\ Paid /\ Told /\ Freed /\ Waiting /\ OneSubscription

-----------------------------------------------------------------------------
\* What a step of one request changes in req.
LEMMA GoFields ==
  ASSUME TypeOK, NEW r \in Requests, NEW st, Go(r, st)
  PROVE  /\ req'[r].step = st /\ req'[r].left = req[r].left /\ req'[r].freeing = req[r].freeing
         /\ \A q \in Requests \ {r} : req'[q] = req[q]
  BY DEF Go, TypeOK, RequestStates

LEMMA ReleasedFields ==
  ASSUME TypeOK, NEW f \in Requests
  PROVE  /\ Released(f).token = IF row.token = f THEN Nobody ELSE row.token
         /\ row.token # f => Released(f) = row
  BY DEF Released, TypeOK, Rows

\* Time: both countdowns of a holder go down together.
LEMMA SafeTick == ASSUME TypeOK, Safe, Tick PROVE Safe'
  <1>1. \A q \in Requests : /\ req'[q].step = req[q].step /\ req'[q].freeing = req[q].freeing
                            /\ req'[q].left = OneLess(req[q].left)
                            /\ req[q].left \in 0 .. SessionLife
                            /\ session'[q].status = session[q].status
    BY DEF Tick, TypeOK, RequestStates, Sessions
  <1>2. row'.token = row.token /\ row'.left = OneLess(row.left) /\ row.left \in 0 .. ReservationLife
    BY DEF Tick, TypeOK, Rows
  <1>3. known' = known /\ sub' = sub /\ outbox' = outbox
    BY DEF Tick
  <1>4. \A q \in Requests : Holding(q)' => Holding(q)
    BY <1>1, <1>3, LifeAssumption DEF Holding, Open, OneLess
  <1>5. Held'
    BY <1>1, <1>2, <1>4, LifeAssumption DEF Held, Safe, Holding, OneLess
  <1>6. Alone'
    BY <1>1, <1>3, <1>4 DEF Alone, Safe
  <1>7. Freed'
    BY <1>1 DEF Freed, Safe
  <1> QED
    BY <1>1, <1>2, <1>3, <1>5, <1>6, <1>7 DEF Safe, Fresh, Paid, Told, Waiting, OneSubscription

\* A step of one request that leaves the row, or releases the reservation of an idle request, and
\* leaves Stripe alone.
LEMMA SafeQuiet ==
  ASSUME TypeOK, Safe, NEW r \in Requests,
         UNCHANGED <<session, sub, outbox, known>>,
         \A q \in Requests \ {r} : req'[q] = req[q],
         req'[r].step \in Going => req[r].step \in Going /\ req'[r].left = req[r].left /\ r \notin known,
         req'[r].step = "record" => req[r].step = "record" /\ req'[r].left = req[r].left,
         req'[r].step = "create" => (req[r].step = "create" \/ \A s \in Requests : sub[s] # "active"),
         r \in known => req'[r] = req[r],
         req'[r].step \in Before => req[r].step \in Before,
         req'[r].step = "free" => req'[r].freeing \in Requests /\ session[req'[r].freeing].status = "expired",
         \/ row'.token = row.token /\ row'.left = row.left
         \/ row'.token = Nobody /\ \A f \in Requests : row.token = f => ~ Holding(f)'
  PROVE  Safe'
  <1>1. \A q \in Requests : Holding(q)' => Holding(q)
    BY DEF Holding, Open
  <1>2. Held'
    <2> SUFFICES ASSUME NEW q \in Requests, Holding(q)'
                 PROVE  row'.token = q /\ req'[q].left <= row'.left
      BY DEF Held
    <2>1. row.token = q /\ req[q].left <= row.left
      BY <1>1 DEF Held, Safe
    <2>2. req'[q].left = req[q].left
      BY DEF Holding, Open
    <2>3. row'.token = row.token /\ row'.left = row.left
      BY <2>1
    <2> QED
      BY <2>1, <2>2, <2>3
  <1>3. Fresh'
    BY DEF Fresh, Safe
  <1>4. Alone'
    BY <1>1 DEF Alone, Safe, Holding
  <1>5. Freed'
    BY DEF Freed, Safe
  <1>6. Waiting'
    BY RequestAssumption DEF Waiting, Safe
  <1> QED
    BY <1>2, <1>3, <1>4, <1>5, <1>6 DEF Safe, Paid, Told, OneSubscription

\* Most steps of createPlanCheckoutSession and reclaimAbandonedCheckout are quiet.
LEMMA SafeServeQuiet ==
  ASSUME TypeOK, Safe, NEW r \in Requests,
         \/ Start(r) \/ List(r) \/ Free(r) \/ Retry(r) \/ Customer(r) \/ Attach(r) \/ History(r)
         \/ Release(r) \/ Die(r)
  PROVE  Safe'
  <1>0. /\ r \in known => req[r].step = "over"
        /\ req[r].step \in Before \cup Going => r \notin known
    BY DEF Safe, Fresh
  <1>1. CASE Start(r)
    <2>1. req'[r].step = "reserve" /\ (\A q \in Requests \ {r} : req'[q] = req[q])
      BY <1>1 DEF Start, TypeOK, RequestStates
    <2> QED
      BY <1>0, <1>1, <2>1, SafeQuiet DEF Start, Before, Going
  <1>2. CASE List(r)
    <2>1. req'[r].step \in {"reclaim", "over"} /\ (\A q \in Requests \ {r} : req'[q] = req[q])
      BY <1>2 DEF List, TypeOK, RequestStates
    <2> QED
      BY <1>0, <1>2, <2>1, SafeQuiet DEF List, Before, Going
  <1>3. CASE Free(r)
    <2>1. req'[r].step = "reclaim" /\ (\A q \in Requests \ {r} : req'[q] = req[q])
      BY <1>3 DEF Free, TypeOK, RequestStates
    <2>2. PICK f \in Requests : f = req[r].freeing /\ session[f].status = "expired"
      BY <1>3 DEF Free, Safe, Freed
    <2>3. ~ Holding(f)'
      <3>1. req'[f].step \notin Going
        BY <2>1, <2>2 DEF Safe, Fresh, Going
      <3> QED
        BY <1>3, <2>2, <3>1 DEF Holding, Open, Free
    <2>4. \/ row'.token = row.token /\ row'.left = row.left
          \/ row'.token = Nobody /\ row.token = f
      BY <1>3, <2>2, ReleasedFields DEF Free
    <2> QED
      BY <1>0, <1>3, <2>1, <2>3, <2>4, SafeQuiet DEF Free, Before, Going
  <1>4. CASE Retry(r)
    <2>1. req'[r].step \in {"reserve", "over"} /\ (\A q \in Requests \ {r} : req'[q] = req[q])
      BY <1>4, GoFields DEF Retry
    <2> QED
      BY <1>0, <1>4, <2>1, SafeQuiet DEF Retry, Before, Going
  <1>5. CASE Customer(r)
    <2>1. /\ req'[r].step \in {"history", "attach"} /\ req'[r].left = req[r].left
          /\ \A q \in Requests \ {r} : req'[q] = req[q]
      BY <1>5, GoFields DEF Customer
    <2> QED
      BY <1>0, <1>5, <2>1, SafeQuiet DEF Customer, Before, Going
  <1>6. CASE Attach(r)
    <2>1. /\ req'[r].step \in {"history", "release"} /\ req'[r].left = req[r].left
          /\ \A q \in Requests \ {r} : req'[q] = req[q]
      BY <1>6, GoFields DEF Attach
    <2>2. row'.token = row.token /\ row'.left = row.left
      BY <1>6 DEF Attach, TypeOK, Rows
    <2> QED
      BY <1>0, <1>6, <2>1, <2>2, SafeQuiet DEF Attach, Before, Going
  <1>7. CASE History(r)
    <2>1. /\ req'[r].left = req[r].left
          /\ \/ req'[r].step = "release"
             \/ req'[r].step = "create" /\ \A s \in Requests : sub[s] # "active"
          /\ \A q \in Requests \ {r} : req'[q] = req[q]
      BY <1>7, GoFields DEF History
    <2> QED
      BY <1>0, <1>7, <2>1, SafeQuiet DEF History, Before, Going
  <1>8. CASE Release(r)
    <2>1. req'[r].step = "over" /\ (\A q \in Requests \ {r} : req'[q] = req[q])
      BY <1>8, GoFields DEF Release
    <2>2. ~ Holding(r)'
      BY <1>0, <1>8, <2>1 DEF Holding, Going, Release
    <2>3. \/ row'.token = row.token /\ row'.left = row.left
          \/ row'.token = Nobody /\ row.token = r
      BY <1>8, ReleasedFields DEF Release
    <2> QED
      BY <1>0, <1>8, <2>1, <2>2, <2>3, SafeQuiet DEF Release, Before, Going
  <1>9. CASE Die(r)
    <2>1. req'[r].step = "over" /\ (\A q \in Requests \ {r} : req'[q] = req[q])
      BY <1>9, GoFields DEF Die
    <2> QED
      BY <1>0, <1>9, <2>1, SafeQuiet DEF Die, Before, Going
  <1> QED
    BY <1>1, <1>2, <1>3, <1>4, <1>5, <1>6, <1>7, <1>8, <1>9

\* reserve_analyse_checkout: whoever still holds the reservation keeps everybody else out.
LEMMA SafeReserve == ASSUME TypeOK, Safe, NEW r \in Requests, Reserve(r) PROVE Safe'
  <1>0. /\ r \notin known /\ session[r].status = "none" /\ row.token # r
        /\ UNCHANGED <<session, sub, outbox, known>>
    BY DEF Safe, Fresh, Waiting, Before, Reserve
  <1>1. CASE ~ Reservable(r)
    <2>1. /\ req'[r].step \in {"list", "over"} /\ row' = row
          /\ \A q \in Requests \ {r} : req'[q] = req[q]
      BY <1>1, GoFields DEF Reserve
    <2> QED
      BY <1>0, <2>1, SafeQuiet DEF Before, Going, Reserve
  <1>2. CASE Reservable(r)
    <2>1. /\ req'[r].step = "customer" /\ req'[r].left = req[r].left
          /\ row'.token = r /\ row'.left = ReservationLife
          /\ \A q \in Requests \ {r} : req'[q] = req[q]
      BY <1>0, <1>2, GoFields DEF Reserve, TypeOK, Rows
    <2>2. \A q \in Requests : ~ Holding(q)
      <3> SUFFICES ASSUME NEW q \in Requests, Holding(q) PROVE FALSE
        OBVIOUS
      <3>1. row.token = q /\ req[q].left <= row.left /\ req[q].left > 0
        BY DEF Holding, Held, Safe
      <3>2. q # r
        BY <1>0, <3>1
      <3>3. row.left \in Nat /\ req[q].left \in Nat
        BY DEF TypeOK, Rows, RequestStates
      <3>4. row.left = 0
        BY <1>2, <3>1, <3>2, RequestAssumption DEF Reservable
      <3> QED
        BY <3>1, <3>3, <3>4
    <2>3. \A q \in Requests : Holding(q)' => q = r
      BY <1>0, <2>1, <2>2 DEF Holding, Open
    <2>4. req[r].left <= ReservationLife
      BY LifeAssumption DEF TypeOK, RequestStates
    <2>5. Held'
      BY <2>1, <2>3, <2>4 DEF Held
    <2>6. Fresh'
      BY <1>0, <2>1 DEF Fresh, Safe, Before, Going, Reserve
    <2>7. Alone'
      BY <1>0, <2>1, <2>3 DEF Alone
    <2>8. Freed' /\ Waiting'
      BY <1>0, <2>1 DEF Freed, Waiting, Safe, Before
    <2> QED
      BY <1>0, <2>5, <2>6, <2>7, <2>8 DEF Safe, Paid, Told, OneSubscription
  <1> QED
    BY <1>1, <1>2

\* Expiring an open Session: nobody pays it any more, and the webhook will say so.
LEMMA SafeExpired ==
  ASSUME TypeOK, Safe, NEW s \in Requests, Open(s), Expired(s), UNCHANGED <<row, sub, known>>,
         \A q \in Requests : /\ req'[q].left = req[q].left
                             /\ \/ req'[q].step = req[q].step
                                \/ req'[q].step = "free" /\ req[q].step \in Before
                                \/ req'[q].step = "release" /\ req[q].step = "expire"
                             /\ req'[q].step = "free" => req'[q].freeing \in {req[q].freeing, s}
                             /\ req'[q].step = "free" /\ req[q].step # "free" => req'[q].freeing = s
  PROVE  Safe'
  <1>1. /\ session'[s].status = "expired"
        /\ \A q \in Requests \ {s} : session'[q] = session[q]
        /\ outbox' = outbox \cup {<<"expired", s>>}
    BY DEF Expired, TypeOK, Sessions
  <1>2. \A q \in Requests : Holding(q)' => Holding(q)
    BY <1>1 DEF Holding, Open, Going
  <1>3. Held'
    BY <1>2 DEF Held, Safe
  <1>4. Fresh'
    BY <1>1 DEF Fresh, Safe, Open, Before, Going
  <1>5. Alone'
    BY <1>2 DEF Alone, Safe
  <1>6. Paid' /\ Told'
    BY <1>1 DEF Paid, Told, Safe, Open
  <1>7. Freed'
    <2> SUFFICES ASSUME NEW q \in Requests, req'[q].step = "free"
                 PROVE  req'[q].freeing \in Requests /\ session'[req'[q].freeing].status = "expired"
      BY DEF Freed
    <2>1. CASE req'[q].freeing = s
      BY <1>1, <2>1
    <2>2. CASE req'[q].freeing # s
      BY <1>1, <2>2 DEF Freed, Safe
    <2> QED
      BY <2>1, <2>2
  <1>8. Waiting'
    BY DEF Waiting, Safe, Before
  <1> QED
    BY <1>3, <1>4, <1>5, <1>6, <1>7, <1>8 DEF Safe, OneSubscription

LEMMA SafeReclaim ==
  ASSUME TypeOK, Safe, NEW r \in Requests, NEW s \in Requests, Reclaim(r, s) PROVE Safe'
  <1>1. CASE session[s].status = "open" /\ Expired(s)
             /\ req' = [req EXCEPT ![r].listed = @ \ {s}, ![r].freeing = s, ![r].step = "free",
                                   ![r].reclaimed = TRUE]
    <2>1. /\ req'[r].step = "free" /\ req'[r].freeing = s /\ req'[r].left = req[r].left
          /\ \A q \in Requests \ {r} : req'[q] = req[q]
      BY <1>1 DEF TypeOK, RequestStates
    <2> QED
      BY <1>1, <2>1, SafeExpired DEF Reclaim, Open, Before
  <1>2. CASE req' = [req EXCEPT ![r].listed = @ \ {s}] /\ UNCHANGED <<session, outbox>>
    <2>1. /\ req'[r].step = req[r].step /\ req'[r].left = req[r].left
          /\ \A q \in Requests \ {r} : req'[q] = req[q]
      BY <1>2 DEF TypeOK, RequestStates
    <2>2. r \notin known
      BY DEF Reclaim, Safe, Fresh, Before
    <2> QED
      BY <1>2, <2>1, <2>2, SafeQuiet DEF Reclaim, Before, Going
  <1> QED
    BY <1>1, <1>2 DEF Reclaim

LEMMA SafeExpireOwn == ASSUME TypeOK, Safe, NEW r \in Requests, ExpireOwn(r) PROVE Safe'
  <1>1. /\ req'[r].step \in {"over", "release"} /\ req'[r].left = req[r].left
        /\ \A q \in Requests \ {r} : req'[q] = req[q]
    BY GoFields DEF ExpireOwn
  <1>2. r \notin known
    BY DEF ExpireOwn, Safe, Fresh
  <1>3. CASE session[r].status = "open" /\ Expired(r) /\ Go(r, "release")
    BY <1>1, <1>3, GoFields, SafeExpired DEF ExpireOwn, Open
  <1>4. CASE Go(r, "over") /\ UNCHANGED <<session, outbox>>
    BY <1>1, <1>2, <1>4, SafeQuiet DEF ExpireOwn, Before, Going
  <1> QED
    BY <1>3, <1>4 DEF ExpireOwn

\* Stripe creates the Session of a request that has read an empty history.
LEMMA SafeCreate == ASSUME TypeOK, Safe, NEW r \in Requests, Create(r) PROVE Safe'
  <1>0. r \notin known /\ session[r].status = "none" /\ sub[r] = "none"
    BY DEF Create, Safe, Fresh, Going
  <1>1. CASE Go(r, "release") /\ UNCHANGED session
    <2>1. req'[r].step = "release" /\ \A q \in Requests \ {r} : req'[q] = req[q]
      BY <1>1, GoFields
    <2> QED
      BY <1>0, <1>1, <2>1, SafeQuiet DEF Create, Before, Going
  <1>2. CASE /\ session' = [session EXCEPT ![r] = [status |-> "open", age |-> 0]]
             /\ \E step \in {"record", "release"} : Go(r, step)
    <2>1. /\ req'[r].step \in {"record", "release"} /\ req'[r].left = req[r].left
          /\ \A q \in Requests \ {r} : req'[q] = req[q]
      BY <1>2, GoFields
    <2>2. session'[r].status = "open" /\ \A q \in Requests \ {r} : session'[q] = session[q]
      BY <1>2 DEF TypeOK
    <2>3. UNCHANGED <<row, known, sub, outbox>> /\ req[r].step = "create"
      BY DEF Create
    <2>4. \A q \in Requests : Holding(q)' => Holding(q)
      BY <2>1, <2>2, <2>3 DEF Holding, Open, Going
    <2>5. Held'
      BY <2>1, <2>3, <2>4 DEF Held, Safe
    <2>6. Fresh'
      BY <1>0, <2>1, <2>2, <2>3 DEF Fresh, Safe, Before, Going
    <2>7. Alone'
      BY <2>1, <2>3, <2>4 DEF Alone, Safe
    <2>8. Paid' /\ Told'
      BY <1>0, <2>2, <2>3 DEF Paid, Told, Safe
    <2>9. Freed' /\ Waiting'
      BY <1>0, <2>1, <2>2, <2>3 DEF Freed, Waiting, Safe, Before
    <2> QED
      BY <2>3, <2>5, <2>6, <2>7, <2>8, <2>9 DEF Safe, OneSubscription
  <1> QED
    BY <1>1, <1>2 DEF Create

\* The customer gets the URL of the Session.
LEMMA SafeRecord == ASSUME TypeOK, Safe, NEW r \in Requests, RecordAcceptance(r) PROVE Safe'
  <1>0. /\ req[r].step = "record" /\ r \notin known /\ UNCHANGED <<row, session, sub, outbox>>
        /\ req'[r].step \in {"over", "expire"} /\ req'[r].left = req[r].left
        /\ \A q \in Requests \ {r} : req'[q] = req[q]
    BY GoFields DEF RecordAcceptance, Safe, Fresh
  <1>1. CASE UNCHANGED known
    BY <1>0, <1>1, SafeQuiet DEF Before, Going
  <1>2. CASE known' = known \cup {r} /\ Go(r, "over")
    <2>1. req'[r].step = "over"
      BY <1>2, GoFields
    <2>2. \A q \in Requests : Holding(q)' => Holding(q)
      BY <1>0, <1>2, <2>1 DEF Holding, Open, Going
    <2>3. Held'
      BY <1>0, <2>2 DEF Held, Safe
    <2>4. Fresh'
      BY <1>0, <1>2, <2>1 DEF Fresh, Safe, Before, Going
    <2>5. Alone'
      BY <1>0, <1>2, <2>1, <2>2 DEF Alone, Safe
    <2>6. Freed' /\ Waiting'
      BY <1>0, <2>1 DEF Freed, Waiting, Safe, Before
    <2> QED
      BY <1>0, <2>3, <2>4, <2>5, <2>6 DEF Safe, Paid, Told, OneSubscription
  <1> QED
    BY <1>1, <1>2 DEF RecordAcceptance

LEMMA SafeServe == ASSUME TypeOK, Safe, NEW r \in Requests, Serve(r) PROVE Safe'
  BY SafeServeQuiet, SafeReserve, SafeReclaim, SafeExpireOwn, SafeCreate, SafeRecord DEF Serve

\* A payment: whoever pays is the only one who holds the reservation, and no subscription lives.
LEMMA SafePay == ASSUME TypeOK, Safe, NEW s \in Requests, Pay(s) PROVE Safe'
  <1>1. Holding(s) /\ s \in known /\ req[s].step = "over" /\ session[s].status = "open"
    BY DEF Pay, Payable, Holding, Open, Safe, Fresh
  <1>2. \A q \in Requests : sub[q] # "active"
    BY <1>1 DEF Safe, Alone
  <1>3. /\ session'[s].status = "complete" /\ \A q \in Requests \ {s} : session'[q] = session[q]
        /\ sub'[s] = "active" /\ \A q \in Requests \ {s} : sub'[q] = sub[q]
        /\ outbox' = outbox \cup {<<"completed", s>>}
        /\ UNCHANGED <<row, req, known>>
    BY DEF Pay, TypeOK, Sessions
  <1>4. \A q \in Requests : ~ Holding(q)'
    <2> SUFFICES ASSUME NEW q \in Requests, Holding(q)' PROVE FALSE
      OBVIOUS
    <2>1. q # s
      BY <1>1, <1>3 DEF Holding, Open, Going
    <2>2. Holding(q)
      BY <1>3, <2>1 DEF Holding, Open
    <2>3. row.token = q /\ row.token = s
      BY <1>1, <2>2 DEF Safe, Held
    <2> QED
      BY <2>1, <2>3
  <1>5. Held' /\ Alone'
    BY <1>4 DEF Held, Alone
  <1>6. Fresh'
    BY <1>1, <1>3 DEF Fresh, Safe, Before, Going
  <1>7. Paid' /\ OneSubscription'
    BY <1>2, <1>3 DEF Paid, OneSubscription, Safe
  <1>8. Told'
    BY <1>1, <1>3 DEF Told, Safe
  <1>9. Freed' /\ Waiting'
    BY <1>1, <1>3 DEF Freed, Waiting, Safe
  <1> QED
    BY <1>5, <1>6, <1>7, <1>8, <1>9 DEF Safe

\* A webhook that releases the reservation of a Session which is no longer open.
LEMMA SafeReleased ==
  ASSUME TypeOK, Safe, NEW s \in Requests, session[s].status \in {"expired", "complete"},
         outbox' \subseteq outbox, UNCHANGED <<req, session, known, sub>>,
         \/ row'.token = row.token /\ row'.left = row.left
         \/ row'.token = Nobody /\ row.token = s
  PROVE  Safe'
  <1>1. \A q \in Requests : Holding(q)' <=> Holding(q)
    BY DEF Holding, Open
  <1>2. ~ Holding(s)
    BY DEF Holding, Open, Safe, Fresh, Going
  <1>3. Held'
    <2> SUFFICES ASSUME NEW q \in Requests, Holding(q)
                 PROVE  row'.token = q /\ req[q].left <= row'.left
      BY <1>1 DEF Held
    <2>1. row.token = q /\ req[q].left <= row.left /\ q # s
      BY <1>2 DEF Safe, Held
    <2> QED
      BY <2>1
  <1>4. Alone'
    BY <1>1 DEF Alone, Safe
  <1>5. Waiting'
    BY RequestAssumption DEF Waiting, Safe
  <1> QED
    BY <1>3, <1>4, <1>5 DEF Safe, Fresh, Paid, Told, Freed, OneSubscription

LEMMA SafeStripe == ASSUME TypeOK, Safe, NEW s \in Requests, Stripe(s) PROVE Safe'
  <1>1. CASE Pay(s)
    BY <1>1, SafePay
  <1>2. CASE SessionEnds(s)
    BY <1>2, SafeExpired DEF SessionEnds, Open
  <1>3. CASE SubscriptionEnds(s)
    <2>1. /\ sub'[s] = "canceled" /\ \A q \in Requests \ {s} : sub'[q] = sub[q]
          /\ sub[s] = "active" /\ UNCHANGED <<row, req, session, known>>
          /\ outbox' = outbox \cup {<<"changed", s>>}
      BY <1>3 DEF SubscriptionEnds, TypeOK
    <2>2. \A q \in Requests : Holding(q)' <=> Holding(q)
      BY <2>1 DEF Holding, Open
    <2>3. Held' /\ Alone'
      BY <2>1, <2>2 DEF Held, Alone, Safe
    <2>4. Fresh'
      BY <2>1 DEF Fresh, Safe
    <2>5. Paid' /\ Told' /\ OneSubscription'
      BY <2>1 DEF Paid, Told, OneSubscription, Safe
    <2> QED
      BY <2>1, <2>3, <2>4, <2>5 DEF Safe, Freed, Waiting
  <1>4. CASE OnExpired(s)
    <2>1. session[s].status = "expired"
      BY <1>4 DEF OnExpired, Safe, Told
    <2> QED
      BY <1>4, <2>1, ReleasedFields, SafeReleased DEF OnExpired
  <1>5. ASSUME NEW kind \in {"completed", "changed"}, OnSubscription(kind, s) PROVE Safe'
    <2>1. PICK kept \in {row, IF kind = "completed" THEN Released(s) ELSE row} :
               row' = [kept EXCEPT !.active = \E t \in Requests : sub[t] = "active"]
      BY <1>5 DEF OnSubscription
    <2>2. kept \in Rows
      BY <2>1, ReleasedTyped DEF TypeOK
    <2>3. row'.token = kept.token /\ row'.left = kept.left
      BY <2>1, <2>2 DEF Rows
    <2>4. CASE kept = row
      <3>1. \A q \in Requests : Holding(q)' <=> Holding(q)
        BY <1>5 DEF OnSubscription, Holding, Open
      <3> QED
        BY <1>5, <2>3, <2>4, <3>1 DEF OnSubscription, Safe, Held, Alone, Fresh, Paid, Told, Freed,
           Waiting, OneSubscription
    <2>5. CASE kind = "completed" /\ kept = Released(s)
      <3>1. session[s].status = "complete"
        BY <1>5, <2>5 DEF OnSubscription, Safe, Told
      <3> QED
        BY <1>5, <2>3, <2>5, <3>1, ReleasedFields, SafeReleased DEF OnSubscription
    <2> QED
      BY <2>1, <2>4, <2>5
  <1> QED
    BY <1>1, <1>2, <1>3, <1>4, <1>5 DEF Stripe

-----------------------------------------------------------------------------
LEMMA SafeInit == Init => Safe
  BY RequestAssumption DEF Init, Safe, Held, Holding, Alone, Fresh, Paid, Told, Freed, Waiting, Idle,
     OneSubscription, Before, Going, Open

LEMMA SafeStep == TypeOK /\ Safe /\ [Next]_vars => Safe'
  <1>1. TypeOK /\ Safe /\ UNCHANGED vars => Safe'
    BY DEF vars, Safe, Held, Holding, Alone, Fresh, Paid, Told, Freed, Waiting, OneSubscription, Open
  <1> QED
    BY <1>1, SafeTick, SafeServe, SafeStripe DEF Next

\* The inductive invariant holds of every behaviour of the checkouts.
THEOREM Safety == Spec => []Safe
  BY SafeInit, SafeStep, Typing, PTL DEF Spec

\* However many checkouts of the account run together, at most one subscription is live
\* (reserve_analyse_checkout, createPlanCheckoutSession, handleCheckoutExpired).
THEOREM AtMostOneSubscription == Spec => []OneSubscription
<1>1. Safe => OneSubscription
  BY DEF Safe
<1> QED
  BY <1>1, Safety, PTL

\* A Session that can be paid holds the reservation, which outlives it.
THEOREM PayableHoldsReservation == Spec => []PayableIsReserved
<1>1. Safe => PayableIsReserved
  BY DEF Safe, Held, Holding, Open, Payable, PayableIsReserved
<1> QED
  BY <1>1, Safety, PTL
=============================================================================
