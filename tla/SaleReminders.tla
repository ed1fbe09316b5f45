--------------------------- MODULE SaleReminders ----------------------------
(***************************************************************************)
(* The daily reminders of the sales that people follow: the cron route and *)
(* its catch-up, supervised by runMonitoredCron (cron-jobs.ts and          *)
(* monitored-job.server.ts); the pass that detects, claims, sends and      *)
(* journals (sale-reminders.ts, sale-reminders-store.ts); the claim        *)
(* claim_sale_reminder.                                                    *)
(*                                                                         *)
(* Time goes by slots: 07:15 and 09:15 of each day, even and odd.  A pass  *)
(* lives for a minute at most, so it never reaches the next slot, and what *)
(* it left pending is then older than the hour after which it may be       *)
(* claimed again.  Resend (external) remembers a group for 24 hours.       *)
(***************************************************************************)
EXTENDS Integers, FiniteSets

CONSTANTS
    N,             \* the people who consented, 0 .. N - 1
    Items,         \* their reminders: pairs of a person and a rank of urgency
    HearingDay,    \* the day on which each of Items that announces a hearing is due
    Concurrency,   \* USER_CONCURRENCY
    MaxTries,      \* attempts of a row: 3
    MaxReruns,     \* retries of a handler that failed on a transient error
    MaxSlots,      \* bound on the slots
    MaxFaults,     \* bound on what fails
    Passes,        \* the executions of the route
    Stories        \* what a behaviour is about

Users == 0 .. (N - 1)
Audience == DOMAIN HearingDay

ASSUME SizeAssumption ==
    /\ N \in Nat \ {0}
    /\ Items \subseteq Users \X Nat /\ IsFiniteSet(Items)
    /\ Audience \subseteq Items /\ HearingDay \in [Audience -> Nat]
    /\ Concurrency \in Nat \ {0} /\ MaxTries \in Nat \ {0} /\ MaxReruns \in Nat
    /\ MaxSlots \in Nat /\ MaxFaults \in Nat

\* A story: whether the route may be called again within a slot, which reminders there may be,
\* MAX_REMINDER_ITEMS_PER_EMAIL, MAX_EMAILS_PER_USER, and how many things fail.
ASSUME StoryAssumption ==
    Stories \subseteq [overlap : BOOLEAN, items : SUBSET Items, group : Nat \ {0},
                      emails : Nat \ {0}, faults : 0 .. MaxFaults]

VARIABLES
    story,       \* one of Stories, drawn once
    slot,        \* the current slot
    base,        \* where the ring of people starts today
    calls,       \* calls of the route in this slot
    situation,   \* of each item: none, due, or stale (due, but its source was not verified lately)
    rows,        \* sale_reminder_dispatches
    succeeded,   \* operational_job_runs has a success of today
    pass,        \* the executions
    person,      \* in each execution, the processing of each person
    accepted,    \* the groups that Resend delivered, and when
    delivered,   \* (history) the deliveries of each item
    served,      \* (history) the people whom the first passes and the catch-ups of today went through
    faults

external == <<story, slot, base, calls, situation>>
history == <<delivered, served>>
vars == <<external, rows, succeeded, pass, person, accepted, history, faults>>

Statuses == {"absent", "pending", "sent", "failed"}
Situations == {"none", "due", "stale"}

NoRow == [status |-> "absent", tries |-> 0, orphan |-> FALSE]
Nobody == [step |-> "wait", todo |-> {}, claimed |-> {}]
NoPass == [step |-> "idle", catchUp |-> FALSE, reruns |-> 0, at |-> 0, bad |-> FALSE,
           audience |-> 0, skipped |-> 0, ok |-> FALSE, seen |-> {}]

\* A hearing is due on one day, seven days or one day before it, and needs a recent check of its
\* source; a warning is due as long as its event is followed, 72 hours at most.
Possible(at) ==
    {s \in [Items -> Situations] : \A i \in Items :
        /\ i \notin story.items \/ (i \in Audience /\ HearingDay[i] # at \div 2) => s[i] = "none"
        /\ i \notin Audience => s[i] # "stale"}

CatchUpSlot == slot % 2 = 1

Init ==
    /\ story \in Stories
    /\ slot = 0 /\ base \in Users /\ calls = 0
    /\ situation \in Possible(slot)
    /\ rows = [i \in Items |-> NoRow]
    /\ succeeded = FALSE
    /\ pass = [p \in Passes |-> NoPass]
    /\ person = [p \in Passes |-> [u \in Users |-> Nobody]]
    /\ accepted = {}
    /\ delivered = [i \in Items |-> 0]
    /\ served = [catchUp \in BOOLEAN |-> {}]
    /\ faults = 0

Faulty == faults < story.faults /\ faults' = faults + 1
NoFault == UNCHANGED faults

PassGoes(p, fields) == pass' = [pass EXCEPT ![p] = fields]
PersonGoes(p, u, fields) == person' = [person EXCEPT ![p][u] = fields]

-----------------------------------------------------------------------------
\* The route: runMonitoredCron and runMonitoredJob

\* The call of the slot, or another one: Vercel's, or by hand, without the header of the schedule.
\* A catch-up ends at once when the log has a success of today, unless the log cannot be read.
Call(p, catchUp) ==
    /\ pass[p].step = "idle"
    /\ IF story.overlap THEN calls < 2 ELSE calls = 0
    /\ catchUp => CatchUpSlot
    /\ story.overlap \/ catchUp = CatchUpSlot
    /\ calls' = calls + 1
    /\ \/ catchUp /\ succeeded /\ NoFault /\ UNCHANGED pass
       \/ /\ IF catchUp /\ succeeded THEN Faulty ELSE NoFault
          /\ PassGoes(p, [NoPass EXCEPT !.step = "list", !.catchUp = catchUp])
    /\ UNCHANGED <<story, slot, base, situation, rows, succeeded, person, accepted, history>>

\* The handler failed: it is run again after a transient error, a few times.
Ended(p, ok) == [pass[p] EXCEPT !.step = "record", !.ok = ok]
HandlerFails(p) ==
    \/ PassGoes(p, Ended(p, FALSE))
    \/ /\ pass[p].reruns < MaxReruns
       /\ PassGoes(p, [NoPass EXCEPT !.step = "list", !.catchUp = pass[p].catchUp,
                                     !.reruns = pass[p].reruns + 1])

\* The recipients are read and ordered.
List(p) ==
    /\ pass[p].step = "list"
    /\ \/ NoFault /\ PassGoes(p, [pass[p] EXCEPT !.step = "serve"])
       \/ Faulty /\ HandlerFails(p)
    /\ person' = [person EXCEPT ![p] = [u \in Users |-> Nobody]]
    /\ UNCHANGED <<external, rows, succeeded, accepted, history>>

\* finish_operational_job_run: best effort.
Record(p) ==
    /\ pass[p].step = "record"
    /\ \/ NoFault /\ succeeded' = (succeeded \/ pass[p].ok)
       \/ Faulty /\ UNCHANGED succeeded
    /\ PassGoes(p, NoPass)
    /\ UNCHANGED <<external, rows, person, accepted, history>>

\* The function is cut after its 60 seconds, or its machine is lost.
Kill(p) ==
    /\ pass[p].step # "idle"
    /\ Faulty
    /\ PassGoes(p, NoPass)
    /\ person' = [person EXCEPT ![p] = [u \in Users |-> Nobody]]
    /\ UNCHANGED <<external, rows, succeeded, accepted, history>>

-----------------------------------------------------------------------------
\* The pass: runSaleReminders

\* (mutant) the catch-up starts where the first pass did.
StartSame(catchUp) == (base + Cardinality({catchUp}) - 1) % N

\* rotateRecipients: the catch-up starts half the ring further.
Start(catchUp) == (base + (IF catchUp THEN N \div 2 ELSE 0)) % N
Batch(p) ==
    {(Start(pass[p].catchUp) + k) % N :
        k \in {j \in pass[p].at .. (pass[p].at + Concurrency - 1) : j < N}}

Works(p, u, step) == pass[p].step = "serve" /\ u \in Batch(p) /\ person[p][u].step = step

\* What a rejected processUser becomes, whatever happens next to its person.
Throws(p, u) == PersonGoes(p, u, [Nobody EXCEPT !.step = "threw"])
Done(p, u) == PersonGoes(p, u, [Nobody EXCEPT !.step = "done"])

\* detectRemindersForUser: what is due now, without what no source confirmed for 36 hours.
Detect(p, u) ==
    LET mine == {i \in Items : i[1] = u /\ situation[i] # "none"}
        todo == {i \in mine : situation[i] = "due"}
        hearings == mine \cap Audience
    IN /\ Works(p, u, "wait")
       /\ \/ /\ NoFault
             /\ PassGoes(p, [pass[p] EXCEPT !.audience = @ + Cardinality(hearings),
                                            !.skipped = @ + Cardinality(hearings \ todo),
                                            !.seen = @ \cup todo])
             /\ IF todo = {} THEN Done(p, u)
                ELSE PersonGoes(p, u, [Nobody EXCEPT !.step = "claim", !.todo = todo])
          \/ Faulty /\ Throws(p, u) /\ UNCHANGED pass
       /\ UNCHANGED <<external, rows, succeeded, accepted, history>>

MostUrgent(items) == {i \in items : \A j \in items : i[2] <= j[2]}

\* (mutant) a pending row needs no hour to be claimed again.
ClaimableAtOnce(i) ==
    rows[i].status = "absent" \/ (rows[i].tries < MaxTries /\ rows[i].status # "sent")

\* (mutant) the attempts are not limited.
ClaimableForEver(i) == rows[i].status \in {"absent", "failed"} \/ rows[i].orphan

\* claim_sale_reminder
Claimable(i) ==
    \/ rows[i].status = "absent"
    \/ rows[i].tries < MaxTries /\ (rows[i].status = "failed" \/ rows[i].orphan)

\* (mutant) an orphan is taken again without counting the attempt.
ReservedUncounted(i) ==
    [status |-> "pending", orphan |-> FALSE,
     tries |-> IF rows[i].orphan THEN rows[i].tries ELSE rows[i].tries + 1]

Reserved(i) == [status |-> "pending", tries |-> rows[i].tries + 1, orphan |-> FALSE]

Claim(p, u) ==
    LET me == person[p][u]
        After(i) == IF Claimable(i) THEN [rows EXCEPT ![i] = Reserved(i)] ELSE rows
    IN /\ Works(p, u, "claim")
       /\ Cardinality(me.claimed) < story.group * story.emails
       /\ \E i \in MostUrgent(me.todo) :
            \/ /\ NoFault /\ rows' = After(i)
               /\ PersonGoes(p, u, [me EXCEPT !.todo = @ \ {i},
                                              !.claimed = IF Claimable(i) THEN @ \cup {i} ELSE @])
            \/ Faulty /\ rows' \in {rows, After(i)} /\ Throws(p, u)
       /\ UNCHANGED <<external, succeeded, pass, accepted, history>>

\* What exceeds the e-mails of a pass is deferred, and fails the pass.
Claimed(p, u) ==
    LET me == person[p][u]
    IN /\ Works(p, u, "claim")
       /\ me.todo = {} \/ Cardinality(me.claimed) = story.group * story.emails
       /\ PassGoes(p, [pass[p] EXCEPT !.bad = @ \/ me.todo # {}])
       /\ IF me.claimed = {} THEN Done(p, u)
          ELSE PersonGoes(p, u, [me EXCEPT !.step = "address", !.todo = {}])
       /\ NoFault
       /\ UNCHANGED <<external, rows, succeeded, accepted, history>>

\* The address is confirmed, or cannot be read or used.
Address(p, u) ==
    LET me == person[p][u]
    IN /\ Works(p, u, "address")
       /\ \/ NoFault /\ PersonGoes(p, u, [me EXCEPT !.step = "send"])
          \/ Faulty /\ PersonGoes(p, u, [me EXCEPT !.step = "fail", !.todo = me.claimed])
       /\ UNCHANGED <<external, rows, succeeded, pass, accepted, history>>

\* Groups of the most urgent items.
Group(items) ==
    {i \in items : Cardinality({j \in items : j[2] < i[2]}) < story.group}

\* Resend delivers a group once per key while it remembers the key: for 24 hours, which end
\* between the same slots of two days.
Remembered(group) ==
    IF \E m \in accepted : m.group = group /\ slot - m.slot < 2 THEN {TRUE}
    ELSE IF \E m \in accepted : m.group = group /\ slot - m.slot = 2 THEN BOOLEAN
    ELSE {FALSE}

Accepts(group) ==
    \E again \in Remembered(group) :
        IF again THEN UNCHANGED <<accepted, delivered>>
        ELSE /\ accepted' = accepted \cup {[group |-> group, slot |-> slot]}
             /\ delivered' = [i \in Items |-> IF i \in group THEN delivered[i] + 1
                                              ELSE delivered[i]]

\* sendTrackedEmail: the e-mail is sent; or sent without an answer; or refused, or not built.
Send(p, u) ==
    LET me == person[p][u]
        group == Group(me.claimed)
        Then(step) == PersonGoes(p, u, [me EXCEPT !.step = step, !.todo = group])
    IN /\ Works(p, u, "send")
       /\ \/ NoFault /\ Accepts(group) /\ Then("mark")
          \/ Faulty /\ Accepts(group) /\ Then("fail")
          \/ Faulty /\ UNCHANGED <<accepted, delivered>> /\ Then("fail")
       /\ UNCHANGED <<external, rows, succeeded, pass, served>>

Marked(items, status) ==
    [i \in Items |-> IF i \in items THEN [rows[i] EXCEPT !.status = status, !.orphan = FALSE]
                     ELSE rows[i]]

NextGroup(p, u) ==
    LET rest == person[p][u].claimed \ person[p][u].todo
    IN IF rest = {} THEN Done(p, u)
       ELSE PersonGoes(p, u, [step |-> "send", todo |-> {}, claimed |-> rest])

\* markSent, whose answer may be lost
MarkSent(p, u) ==
    LET me == person[p][u]
        marked == Marked(me.todo, "sent")
    IN /\ Works(p, u, "mark")
       /\ \/ NoFault /\ rows' = marked /\ NextGroup(p, u)
          \/ Faulty /\ rows' \in {rows, marked} /\ PersonGoes(p, u, [me EXCEPT !.step = "fail"])
       /\ UNCHANGED <<external, succeeded, pass, accepted, history>>

\* markFailed, then the next group; a failure of markFailed itself rejects processUser.
MarkFailed(p, u) ==
    LET me == person[p][u]
        marked == Marked(me.todo, "failed")
    IN /\ Works(p, u, "fail")
       /\ \/ NoFault /\ rows' = marked /\ PassGoes(p, [pass[p] EXCEPT !.bad = TRUE]) /\ NextGroup(p, u)
          \/ Faulty /\ rows' \in {rows, marked} /\ UNCHANGED pass /\ Throws(p, u)
       /\ UNCHANGED <<external, succeeded, accepted, history>>

\* (mutant) the error of a person is thrown as it is, and a transient one runs the handler again.
RejectedAsIs(p) == HandlerFails(p)

\* The error of a person becomes "lecture impossible", which is not transient.
Rejected(p) == PassGoes(p, Ended(p, FALSE))

\* When all of a batch have settled: the next one, unless the 50 seconds are over.
NextBatch(p) ==
    LET next == pass[p].at + Concurrency
    IN /\ pass[p].step = "serve"
       /\ \A u \in Batch(p) : person[p][u].step \in {"done", "threw"}
       /\ IF \E u \in Batch(p) : person[p][u].step = "threw" THEN Rejected(p)
          ELSE IF next >= N THEN PassGoes(p, [pass[p] EXCEPT !.step = "purge"])
          ELSE \/ PassGoes(p, [pass[p] EXCEPT !.at = next])
               \/ PassGoes(p, [pass[p] EXCEPT !.step = "purge", !.bad = TRUE])
       /\ served' = [served EXCEPT ![pass[p].catchUp] = @ \cup Batch(p)]
       /\ NoFault
       /\ UNCHANGED <<external, rows, succeeded, person, accepted, delivered>>

\* assertSaleRemindersComplete
Complete(p) == ~ pass[p].bad /\ pass[p].skipped * 5 <= pass[p].audience

\* The journal is purged of what is 180 days old; then the pass succeeds if it is complete.
Purge(p) ==
    /\ pass[p].step = "purge"
    /\ \/ NoFault /\ PassGoes(p, Ended(p, Complete(p)))
       \/ Faulty /\ HandlerFails(p)
    /\ UNCHANGED <<external, rows, succeeded, person, accepted, history>>

Serve(p, u) ==
    \/ Detect(p, u) \/ Claim(p, u) \/ Claimed(p, u) \/ Address(p, u)
    \/ Send(p, u) \/ MarkSent(p, u) \/ MarkFailed(p, u)

\* The next slot, when every pass has ended: sales are followed, forgotten, verified or change.
NextSlot ==
    /\ slot < MaxSlots
    /\ \A p \in Passes : pass[p].step = "idle"
    /\ slot' = slot + 1
    /\ calls' = 0
    /\ situation' \in Possible(slot')
    /\ rows' = [i \in Items |-> [rows[i] EXCEPT !.orphan = rows[i].status = "pending"]]
    /\ accepted' = {m \in accepted : slot - m.slot < 2}
    /\ IF CatchUpSlot
       THEN base' \in Users /\ succeeded' = FALSE /\ served' = [catchUp \in BOOLEAN |-> {}]
       ELSE UNCHANGED <<base, succeeded, served>>
    /\ UNCHANGED <<story, pass, person, delivered, faults>>

Next ==
    \/ NextSlot
    \/ \E p \in Passes :
        \/ \E catchUp \in BOOLEAN : Call(p, catchUp)
        \/ List(p) \/ NextBatch(p) \/ Purge(p) \/ Record(p) \/ Kill(p)
        \/ \E u \in Users : Serve(p, u)

Spec == Init /\ [][Next]_vars

-----------------------------------------------------------------------------
PersonStates ==
    [step : {"wait", "claim", "address", "send", "mark", "fail", "done", "threw"},
     todo : SUBSET Items, claimed : SUBSET Items]

PassStates ==
    [step : {"idle", "list", "serve", "purge", "record"}, catchUp : BOOLEAN, reruns : 0 .. MaxReruns,
     at : Nat, bad : BOOLEAN, audience : Nat, skipped : Nat, ok : BOOLEAN, seen : SUBSET Items]

RowsTyped ==
    /\ rows \in [Items -> [status : Statuses, tries : 0 .. MaxTries, orphan : BOOLEAN]]
    /\ \A i \in Items : rows[i].status = "absent" <=> rows[i].tries = 0

PassesTyped == pass \in [Passes -> PassStates] /\ person \in [Passes -> [Users -> PersonStates]]

HistoryTyped == delivered \in [Items -> Nat] /\ served \in [BOOLEAN -> SUBSET Users]

\* Types; an attempt is never counted beyond the limit of the table, and a row exists from its
\* first attempt on.
TypeOK ==
    /\ story \in Stories /\ slot \in 0 .. MaxSlots /\ base \in Users /\ calls \in 0 .. 2
    /\ situation \in [Items -> Situations]
    /\ succeeded \in BOOLEAN
    /\ RowsTyped /\ PassesTyped /\ HistoryTyped
    /\ faults \in 0 .. MaxFaults

\* Two executions never hold the same reminder: what one has claimed and not settled, the other
\* cannot claim, although nothing locks the passes against each other.
OneHolder ==
    \A p, q \in Passes, u \in Users :
        p # q => person[p][u].claimed \cap person[q][u].claimed = {}

\* A reminder is delivered at most once for each attempt that its row counts, hence three times,
\* whatever is killed, lost or regrouped.
DeliveriesCounted == \A i \in Items : delivered[i] <= rows[i].tries

Settled(i) == rows[i].status = "sent" \/ rows[i].tries = MaxTries

\* A pass that succeeds, and so cancels the catch-up, has sent all that it detected, or given up
\* after the last attempt: no reminder waits for a catch-up that will not run.  (One that is
\* started by hand within an hour of a pass that was killed passes over its pending rows.)
SuccessSettles ==
    \A p \in Passes :
        ~ story.overlap /\ pass[p].step = "record" /\ pass[p].ok => \A i \in pass[p].seen : Settled(i)

\* Two passes of a day that each go through half of the people go through everyone together,
\* wherever the deadline cuts them between two batches.
HalvesMeet ==
    2 * Cardinality(served[FALSE]) >= N /\ 2 * Cardinality(served[TRUE]) >= N =>
        served[FALSE] \cup served[TRUE] = Users
=============================================================================
