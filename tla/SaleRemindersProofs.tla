------------------------- MODULE SaleRemindersProofs -------------------------
(***************************************************************************)
(* Theorems about SaleReminders, for any people, reminders, passes,        *)
(* limits, slots and stories: the exclusion between passes, the deliveries *)
(* and their attempts, the two halves of the ring, and what a pass that    *)
(* succeeds has settled.                                                   *)
(***************************************************************************)
EXTENDS SaleReminders, FiniteSetTheorems, TLAPS

-----------------------------------------------------------------------------
\* Typing: the executions

Rows == [status : Statuses, tries : 0 .. MaxTries, orphan : BOOLEAN]

LEMMA NoneTyped ==
  /\ NoPass \in PassStates /\ Nobody \in PersonStates
  /\ \A c \in BOOLEAN, n \in 0 .. MaxReruns :
        [NoPass EXCEPT !.step = "list", !.catchUp = c, !.reruns = n] \in PassStates
  /\ \A c \in BOOLEAN : [NoPass EXCEPT !.step = "list", !.catchUp = c] \in PassStates
  /\ \A st \in {"wait", "done", "threw"} : [Nobody EXCEPT !.step = st] \in PersonStates
  <1>1. \A c \in BOOLEAN, b \in BOOLEAN, k \in BOOLEAN :
          [step |-> "idle", catchUp |-> c, reruns |-> 0, at |-> 0, bad |-> b,
           audience |-> 0, skipped |-> 0, ok |-> k, seen |-> {}] \in PassStates
    BY SizeAssumption DEF PassStates
  <1>2. FALSE \in BOOLEAN
    OBVIOUS
  <1>3. NoPass \in PassStates
    BY <1>1, <1>2 DEF NoPass
  <1>4. \A f \in PassStates, c \in BOOLEAN, n \in 0 .. MaxReruns :
          /\ [f EXCEPT !.step = "list", !.catchUp = c, !.reruns = n] \in PassStates
          /\ [f EXCEPT !.step = "list", !.catchUp = c] \in PassStates
    BY DEF PassStates
  <1>5. Nobody \in PersonStates
        /\ \A st \in {"wait", "done", "threw"} : [Nobody EXCEPT !.step = st] \in PersonStates
    BY DEF Nobody, PersonStates
  <1>6. 0 \in 0 .. MaxReruns
    BY SizeAssumption
  <1> QED
    BY <1>3, <1>4, <1>5, <1>6

LEMMA PassGoesTyped ==
  ASSUME PassesTyped, NEW p \in Passes, NEW f \in PassStates, PassGoes(p, f)
  PROVE  pass' \in [Passes -> PassStates]
  BY DEF PassesTyped, PassGoes

LEMMA PersonGoesTyped ==
  ASSUME PassesTyped, NEW p \in Passes, NEW u \in Users, NEW f \in PersonStates, PersonGoes(p, u, f)
  PROVE  person' \in [Passes -> [Users -> PersonStates]]
  BY DEF PassesTyped, PersonGoes

LEMMA QuietTyped ==
  ASSUME PassesTyped, NEW p \in Passes, NEW u \in Users, Throws(p, u) \/ Done(p, u)
  PROVE  person' \in [Passes -> [Users -> PersonStates]]
  BY NoneTyped, PersonGoesTyped DEF Throws, Done

LEMMA ClearedTyped ==
  ASSUME PassesTyped, NEW p \in Passes, person' = [person EXCEPT ![p] = [u \in Users |-> Nobody]]
  PROVE  person' \in [Passes -> [Users -> PersonStates]]
  BY NoneTyped DEF PassesTyped

LEMMA EndedTyped ==
  ASSUME PassesTyped, NEW p \in Passes, NEW ok \in BOOLEAN PROVE Ended(p, ok) \in PassStates
  BY DEF PassesTyped, PassStates, Ended

LEMMA HandlerFailsTyped ==
  ASSUME PassesTyped, NEW p \in Passes, HandlerFails(p) PROVE pass' \in [Passes -> PassStates]
  <1>1. CASE PassGoes(p, Ended(p, FALSE))
    BY <1>1, EndedTyped, PassGoesTyped
  <1>2. CASE /\ pass[p].reruns < MaxReruns
             /\ PassGoes(p, [NoPass EXCEPT !.step = "list", !.catchUp = pass[p].catchUp,
                                           !.reruns = pass[p].reruns + 1])
    <2>1. pass[p].catchUp \in BOOLEAN /\ pass[p].reruns + 1 \in 0 .. MaxReruns
      BY <1>2, SizeAssumption DEF PassesTyped, PassStates
    <2> QED
      BY <1>2, <2>1, NoneTyped, PassGoesTyped
  <1> QED
    BY <1>1, <1>2 DEF HandlerFails

LEMMA FaultsTyped ==
  ASSUME story \in Stories, faults \in 0 .. MaxFaults, Faulty \/ NoFault PROVE faults' \in 0 .. MaxFaults
  BY SizeAssumption, StoryAssumption DEF Faulty, NoFault

-----------------------------------------------------------------------------
\* Typing: the route

LEMMA CallTyped ==
  ASSUME TypeOK, NEW p \in Passes, NEW c \in BOOLEAN, Call(p, c) PROVE TypeOK'
  <1>1. calls' \in 0 .. 2 /\ (Faulty \/ NoFault)
    BY DEF Call, TypeOK
  <1>2. pass' \in [Passes -> PassStates]
    BY NoneTyped, PassGoesTyped DEF Call, TypeOK, PassesTyped
  <1> QED
    BY <1>1, <1>2, FaultsTyped DEF Call, TypeOK, PassesTyped, RowsTyped, HistoryTyped, history

LEMMA ListTyped ==
  ASSUME TypeOK, NEW p \in Passes, List(p) PROVE TypeOK'
  <1>1. [pass[p] EXCEPT !.step = "serve"] \in PassStates
    BY DEF TypeOK, PassesTyped, PassStates
  <1>2. pass' \in [Passes -> PassStates]
    BY <1>1, PassGoesTyped, HandlerFailsTyped DEF List, TypeOK
  <1>3. person' \in [Passes -> [Users -> PersonStates]]
    BY ClearedTyped DEF List, TypeOK
  <1> QED
    BY <1>2, <1>3, FaultsTyped DEF List, TypeOK, PassesTyped, RowsTyped, HistoryTyped, history, external

LEMMA RecordTyped ==
  ASSUME TypeOK, NEW p \in Passes, Record(p) PROVE TypeOK'
  <1>1. pass' \in [Passes -> PassStates]
    BY NoneTyped, PassGoesTyped DEF Record, TypeOK
  <1>2. succeeded' \in BOOLEAN
    BY DEF Record, TypeOK, PassesTyped, PassStates
  <1> QED
    BY <1>1, <1>2, FaultsTyped DEF Record, TypeOK, PassesTyped, RowsTyped, HistoryTyped, history, external

LEMMA KillTyped ==
  ASSUME TypeOK, NEW p \in Passes, Kill(p) PROVE TypeOK'
  <1>1. pass' \in [Passes -> PassStates] /\ person' \in [Passes -> [Users -> PersonStates]]
    BY NoneTyped, PassGoesTyped, ClearedTyped DEF Kill, TypeOK
  <1> QED
    BY <1>1, FaultsTyped DEF Kill, TypeOK, PassesTyped, RowsTyped, HistoryTyped, history, external

-----------------------------------------------------------------------------
\* Typing: the pass

LEMMA FieldsTyped ==
  ASSUME NEW f \in PassStates
  PROVE  /\ \A b \in BOOLEAN : [f EXCEPT !.bad = b] \in PassStates
         /\ \A b \in BOOLEAN : [f EXCEPT !.step = "purge", !.bad = b] \in PassStates
         /\ \A st \in {"serve", "purge"} : [f EXCEPT !.step = st] \in PassStates
         /\ \A n \in Nat : [f EXCEPT !.at = n] \in PassStates
         /\ \A n, k \in Nat, S \in SUBSET Items :
              [f EXCEPT !.audience = n, !.skipped = k, !.seen = S] \in PassStates
  BY DEF PassStates

Steps == {"wait", "claim", "address", "send", "mark", "fail", "done", "threw"}

LEMMA PersonFields ==
  ASSUME NEW r \in PersonStates, NEW st \in Steps
  PROVE  /\ [r EXCEPT !.step = st] \in PersonStates
         /\ [r EXCEPT !.step = st].step = st
         /\ [r EXCEPT !.step = st].todo = r.todo
         /\ [r EXCEPT !.step = st].claimed = r.claimed
         /\ \A S \in SUBSET Items :
              /\ [r EXCEPT !.step = st, !.todo = S] \in PersonStates
              /\ [r EXCEPT !.step = st, !.todo = S].step = st
              /\ [r EXCEPT !.step = st, !.todo = S].todo = S
              /\ [r EXCEPT !.step = st, !.todo = S].claimed = r.claimed
  BY DEF PersonStates, Steps

LEMMA PersonIs ==
  ASSUME TypeOK, NEW p \in Passes, NEW u \in Users
  PROVE  /\ person[p][u] \in PersonStates
         /\ person[p][u].todo \in SUBSET Items /\ person[p][u].claimed \in SUBSET Items
  BY DEF TypeOK, PassesTyped, PersonStates

LEMMA ItemsCounted == ASSUME NEW S \in SUBSET Items PROVE Cardinality(S) \in Nat
  BY SizeAssumption, FS_Subset, FS_CardinalityType

\* The processing of a person: what most of its steps leave as it is.
Kept == UNCHANGED <<story, slot, base, calls, situation, succeeded>>

LEMMA StepTyped ==
  ASSUME TypeOK, Kept, Faulty \/ NoFault, RowsTyped', PassesTyped', HistoryTyped'
  PROVE  TypeOK'
  BY FaultsTyped DEF TypeOK, Kept

LEMMA DetectTyped ==
  ASSUME TypeOK, NEW p \in Passes, NEW u \in Users, Detect(p, u) PROVE TypeOK'
  <1> DEFINE mine == {i \in Items : i[1] = u /\ situation[i] # "none"}
             todo == {i \in mine : situation[i] = "due"}
             hearings == mine \cap Audience
             f == pass[p]
             n == f.audience + Cardinality(hearings)
             k == f.skipped + Cardinality(hearings \ todo)
             S == f.seen \cup todo
             r == [Nobody EXCEPT !.step = "claim", !.todo = todo]
  <1>1. PassesTyped /\ f \in PassStates
    BY DEF TypeOK, PassesTyped
  <1>2. n \in Nat /\ k \in Nat /\ S \in SUBSET Items
    <2>1. Cardinality(hearings) \in Nat /\ Cardinality(hearings \ todo) \in Nat
      BY ItemsCounted
    <2>2. f.audience \in Nat /\ f.skipped \in Nat /\ f.seen \in SUBSET Items
      BY <1>1 DEF PassStates
    <2> HIDE DEF f
    <2> QED
      BY <2>1, <2>2
  <1>3. r \in PersonStates
    <2>1. todo \in SUBSET Items
      OBVIOUS
    <2> HIDE DEF todo
    <2> QED
      BY <2>1 DEF Nobody, PersonStates
  <1>4. \/ /\ PassGoes(p, [f EXCEPT !.audience = n, !.skipped = k, !.seen = S])
           /\ Done(p, u) \/ PersonGoes(p, u, r)
        \/ Throws(p, u) /\ UNCHANGED pass
    BY DEF Detect
  <1>5. Kept /\ (Faulty \/ NoFault) /\ UNCHANGED <<rows, delivered, served>>
    BY DEF Detect, Kept, external, history
  <1> HIDE DEF f, n, k, S, r
  <1>6. pass' \in [Passes -> PassStates]
    BY <1>1, <1>2, <1>4, FieldsTyped, PassGoesTyped DEF PassesTyped
  <1>7. person' \in [Passes -> [Users -> PersonStates]]
    BY <1>1, <1>3, <1>4, QuietTyped, PersonGoesTyped
  <1> QED
    BY <1>5, <1>6, <1>7, StepTyped DEF TypeOK, RowsTyped, PassesTyped, HistoryTyped

\* A step within the e-mails of a person: it has a new state, and so have rows or deliveries.
LEMMA PersonTyped ==
  ASSUME TypeOK, NEW p \in Passes, NEW u \in Users, Kept, UNCHANGED served, Faulty \/ NoFault,
         RowsTyped', delivered' \in [Items -> Nat],
         UNCHANGED pass \/ \E b \in BOOLEAN : PassGoes(p, [pass[p] EXCEPT !.bad = b]),
         \/ Throws(p, u) \/ Done(p, u)
         \/ \E r \in PersonStates : PersonGoes(p, u, r)
  PROVE  TypeOK'
  <1>1. PassesTyped
    BY DEF TypeOK
  <1>2. pass' \in [Passes -> PassStates]
    BY <1>1, FieldsTyped, PassGoesTyped DEF PassesTyped
  <1>3. person' \in [Passes -> [Users -> PersonStates]]
    BY <1>1, QuietTyped, PersonGoesTyped
  <1>4. HistoryTyped'
    BY DEF TypeOK, HistoryTyped
  <1> QED
    BY <1>2, <1>3, <1>4, StepTyped DEF PassesTyped

LEMMA ReservedTyped ==
  ASSUME RowsTyped, NEW i \in Items, Claimable(i)
  PROVE  /\ Reserved(i) \in Rows /\ Reserved(i).status = "pending" /\ ~ Reserved(i).orphan
         /\ Reserved(i).tries = rows[i].tries + 1
         /\ \A t : t = [rows EXCEPT ![i] = Reserved(i)] =>
              /\ t \in [Items -> Rows] /\ \A j \in Items : t[j].status = "absent" <=> t[j].tries = 0
  <1>1. rows[i].tries + 1 \in 0 .. MaxTries /\ rows[i].tries + 1 # 0
    BY SizeAssumption DEF RowsTyped, Claimable
  <1>2. Reserved(i) \in Rows /\ Reserved(i).status = "pending" /\ Reserved(i).tries = rows[i].tries + 1
        /\ ~ Reserved(i).orphan
    BY <1>1 DEF Reserved, Rows, Statuses
  <1> QED
    BY <1>1, <1>2 DEF RowsTyped, Rows

LEMMA ClaimTyped ==
  ASSUME TypeOK, NEW p \in Passes, NEW u \in Users, Claim(p, u) PROVE TypeOK'
  <1> DEFINE me == person[p][u]
             After(i) == IF Claimable(i) THEN [rows EXCEPT ![i] = Reserved(i)] ELSE rows
  <1>1. PICK i \in MostUrgent(me.todo) :
          /\ rows' \in {rows, After(i)}
          /\ \/ PersonGoes(p, u, [me EXCEPT !.todo = @ \ {i},
                                      !.claimed = IF Claimable(i) THEN @ \cup {i} ELSE @])
             \/ Throws(p, u)
    BY DEF Claim
  <1>2. me \in PersonStates /\ RowsTyped
    BY DEF TypeOK, PassesTyped
  <1>3. i \in Items
    BY <1>2 DEF MostUrgent, PersonStates
  <1>4. RowsTyped'
    BY <1>1, <1>2, <1>3, ReservedTyped DEF RowsTyped, Rows
  <1>5. [me EXCEPT !.todo = @ \ {i}, !.claimed = IF Claimable(i) THEN @ \cup {i} ELSE @] \in PersonStates
    BY <1>2, <1>3 DEF PersonStates
  <1>6. UNCHANGED <<pass, served, delivered>> /\ Kept /\ (Faulty \/ NoFault)
    BY DEF Claim, Kept, external, history
  <1> QED
    BY <1>1, <1>4, <1>5, <1>6, PersonTyped DEF TypeOK, HistoryTyped

LEMMA ClaimedTyped ==
  ASSUME TypeOK, NEW p \in Passes, NEW u \in Users, Claimed(p, u) PROVE TypeOK'
  <1> DEFINE me == person[p][u]
  <1>1. [me EXCEPT !.step = "address", !.todo = {}] \in PersonStates
    BY PersonIs, PersonFields DEF Steps
  <1>2. \E b \in BOOLEAN : PassGoes(p, [pass[p] EXCEPT !.bad = b])
    <2>1. (pass[p].bad \/ me.todo # {}) \in BOOLEAN
      OBVIOUS
    <2> QED
      BY <2>1 DEF Claimed
  <1>3. UNCHANGED <<rows, served, delivered>> /\ Kept /\ (Faulty \/ NoFault)
    BY DEF Claimed, Kept, external, history
  <1> QED
    BY <1>1, <1>2, <1>3, PersonTyped DEF Claimed, TypeOK, HistoryTyped, RowsTyped

LEMMA AddressTyped ==
  ASSUME TypeOK, NEW p \in Passes, NEW u \in Users, Address(p, u) PROVE TypeOK'
  <1> DEFINE me == person[p][u]
  <1>1. [me EXCEPT !.step = "send"] \in PersonStates
        /\ [me EXCEPT !.step = "fail", !.todo = me.claimed] \in PersonStates
    BY PersonIs, PersonFields DEF Steps
  <1>2. UNCHANGED <<rows, pass, served, delivered>> /\ Kept /\ (Faulty \/ NoFault)
    BY DEF Address, Kept, external, history
  <1> QED
    BY <1>1, <1>2, PersonTyped DEF Address, TypeOK, HistoryTyped, RowsTyped

LEMMA SendTyped ==
  ASSUME TypeOK, NEW p \in Passes, NEW u \in Users, Send(p, u) PROVE TypeOK'
  <1> DEFINE me == person[p][u]
             group == Group(me.claimed)
  <1>1. \A st \in {"mark", "fail"} : [me EXCEPT !.step = st, !.todo = group] \in PersonStates
    <2>1. group \in SUBSET Items
      BY PersonIs DEF Group
    <2>2. me \in PersonStates
      BY PersonIs
    <2> HIDE DEF me, group
    <2> QED
      BY <2>1, <2>2, PersonFields DEF Steps
  <1>2. UNCHANGED <<rows, pass, served>> /\ Kept /\ (Faulty \/ NoFault)
    BY DEF Send, Kept, external
  <1>3. delivered' \in [Items -> Nat]
    <2>1. \/ UNCHANGED delivered
          \/ delivered' = [i \in Items |-> IF i \in group THEN delivered[i] + 1 ELSE delivered[i]]
      BY DEF Send, Accepts
    <2> QED
      BY <2>1 DEF TypeOK, HistoryTyped
  <1>4. \E st \in {"mark", "fail"} : PersonGoes(p, u, [me EXCEPT !.step = st, !.todo = group])
    BY DEF Send
  <1> QED
    BY <1>1, <1>2, <1>3, <1>4, PersonTyped DEF TypeOK, RowsTyped

LEMMA MarkedTyped ==
  ASSUME RowsTyped, NEW S, NEW st \in {"sent", "failed"},
         \A i \in S \cap Items : rows[i].status # "absent"
  PROVE  /\ Marked(S, st) \in [Items -> Rows]
         /\ \A i \in Items :
              /\ Marked(S, st)[i].tries = rows[i].tries
              /\ i \in S => Marked(S, st)[i].status = st /\ ~ Marked(S, st)[i].orphan
              /\ i \notin S => Marked(S, st)[i] = rows[i]
              /\ Marked(S, st)[i].status = "absent" <=> Marked(S, st)[i].tries = 0
  <1>1. ASSUME NEW i \in Items
        PROVE  LET r == [rows[i] EXCEPT !.status = st, !.orphan = FALSE]
               IN r \in Rows /\ r.tries = rows[i].tries /\ r.status = st /\ ~ r.orphan
    BY DEF RowsTyped, Rows, Statuses
  <1>2. \A i \in Items : Marked(S, st)[i] = IF i \in S THEN [rows[i] EXCEPT !.status = st, !.orphan = FALSE]
                                            ELSE rows[i]
    BY DEF Marked
  <1>3. \A i \in Items : rows[i] \in Rows
    BY DEF RowsTyped, Rows
  <1>4. Marked(S, st) \in [Items -> Rows]
    BY <1>1, <1>3 DEF Marked
  <1> QED
    BY <1>1, <1>2, <1>4 DEF RowsTyped

-----------------------------------------------------------------------------
\* Who holds a reminder

Busy(p, u) == person[p][u].step \notin {"wait", "done", "threw"}

\* Only the people of the current batch of a pass that serves are being processed, and nobody else
\* has claimed anything.
Batched ==
    \A p \in Passes, u \in Users :
        /\ Busy(p, u) => pass[p].step = "serve" /\ u \in Batch(p)
        /\ ~ Busy(p, u) => person[p][u].claimed = {}

\* What is claimed cannot be claimed: it is pending for less than an hour, or sent.
Reserve ==
    \A p \in Passes, u \in Users : \A i \in person[p][u].claimed :
        rows[i].status \in {"pending", "sent"} /\ ~ rows[i].orphan

\* It is claimed once, among all passes and people.
Apart ==
    \A p, q \in Passes, u, v \in Users :
        <<p, u>> # <<q, v>> => person[p][u].claimed \cap person[q][v].claimed = {}

\* What is about to be marked is claimed.
Marking ==
    \A p \in Passes, u \in Users :
        person[p][u].step \in {"mark", "fail"} => person[p][u].todo \subseteq person[p][u].claimed

\* Every delivery was counted as an attempt, and what is claimed and not sent has one to spare.
Spare(me, i) == me.step \notin {"mark", "fail"} \/ i \notin me.todo
Counted ==
    /\ \A i \in Items : delivered[i] <= rows[i].tries
    /\ \A p \in Passes, u \in Users : \A i \in person[p][u].claimed :
        Spare(person[p][u], i) => delivered[i] < rows[i].tries

Hold == Reserve /\ Apart /\ Marking /\ Counted

\* A step of one person, which settles only what it had claimed and claims only what is free.
LEMMA HoldStep ==
  ASSUME TypeOK, Hold, NEW p \in Passes, NEW u \in Users, NEW r \in PersonStates,
         person' = [person EXCEPT ![p][u] = r], RowsTyped', delivered' \in [Items -> Nat],
         \A i \in r.claimed : i \in person[p][u].claimed \/ Claimable(i),
         \A i \in Items : i \notin person[p][u].claimed /\ ~ Claimable(i) =>
            rows'[i] = rows[i] /\ delivered'[i] = delivered[i],
         \A i \in Items : delivered'[i] <= rows'[i].tries,
         \A i \in r.claimed : /\ rows'[i].status \in {"pending", "sent"} /\ ~ rows'[i].orphan
                              /\ Spare(r, i) => delivered'[i] < rows'[i].tries,
         r.step \in {"mark", "fail"} => r.todo \subseteq r.claimed
  PROVE  Hold'
  <1>1. \A q \in Passes, v \in Users :
          person'[q][v] = IF q = p /\ v = u THEN r ELSE person[q][v]
    BY DEF TypeOK, PassesTyped
  <1>2. \A q \in Passes, v \in Users : person[q][v].claimed \subseteq Items
    BY PersonIs
  <1>3. \A q \in Passes, v \in Users : \A i \in person[q][v].claimed : ~ Claimable(i)
    BY DEF Hold, Reserve, Claimable
  <1>4. ASSUME NEW q \in Passes, NEW v \in Users, <<q, v>> # <<p, u>>, NEW i \in person[q][v].claimed
        PROVE  i \in Items /\ i \notin r.claimed /\ rows'[i] = rows[i] /\ delivered'[i] = delivered[i]
    BY <1>2, <1>3, <1>4 DEF Hold, Apart
  <1>5. Reserve'
    BY <1>1, <1>4 DEF Hold, Reserve
  <1>6. Apart'
    <2> SUFFICES ASSUME NEW q \in Passes, NEW t \in Passes, NEW v \in Users, NEW w \in Users,
                        <<q, v>> # <<t, w>>, NEW i \in person'[q][v].claimed,
                        i \in person'[t][w].claimed
                 PROVE  FALSE
      BY DEF Apart
    <2>1. CASE <<q, v>> # <<p, u>> /\ <<t, w>> # <<p, u>>
      BY <1>1, <2>1 DEF Hold, Apart
    <2>2. CASE <<q, v>> = <<p, u>>
      BY <1>1, <1>4, <2>2
    <2>3. CASE <<t, w>> = <<p, u>>
      BY <1>1, <1>4, <2>3
    <2> QED
      BY <2>1, <2>2, <2>3
  <1>7. Marking'
    BY <1>1 DEF Hold, Marking
  <1>8. Counted'
    BY <1>1, <1>4 DEF Hold, Counted, Spare
  <1> QED
    BY <1>5, <1>6, <1>7, <1>8 DEF Hold

\* It leaves the batch as it is, and claims nothing for a person whose processing has ended.
LEMMA BatchedStep ==
  ASSUME TypeOK, Batched, NEW p \in Passes, NEW u \in Users, NEW r \in PersonStates,
         pass[p].step = "serve", u \in Batch(p), person' = [person EXCEPT ![p][u] = r],
         r.step \in {"wait", "done", "threw"} => r.claimed = {}, UNCHANGED base,
         \/ UNCHANGED pass
         \/ \E f \in PassStates : /\ PassGoes(p, f) /\ f.step = "serve" /\ f.at = pass[p].at
                                  /\ f.catchUp = pass[p].catchUp
  PROVE  Batched'
  <1>1. \A q \in Passes, v \in Users :
          person'[q][v] = IF q = p /\ v = u THEN r ELSE person[q][v]
    BY DEF TypeOK, PassesTyped
  <1>2. ASSUME NEW q \in Passes
        PROVE  pass'[q].step = pass[q].step /\ pass'[q].at = pass[q].at
               /\ pass'[q].catchUp = pass[q].catchUp
    BY DEF TypeOK, PassesTyped, PassGoes
  <1>3. ASSUME NEW q \in Passes PROVE Batch(q)' = Batch(q)
    BY <1>2 DEF Batch, Start
  <1> QED
    BY <1>1, <1>2, <1>3 DEF Batched, Busy

LEMMA QuietIs ==
  ASSUME NEW st \in {"wait", "done", "threw"}
  PROVE  [Nobody EXCEPT !.step = st].step = st /\ [Nobody EXCEPT !.step = st].claimed = {}
         /\ [Nobody EXCEPT !.step = st] \in PersonStates
  BY NoneTyped DEF Nobody

\* A person whose processing ends holds nothing, whatever its last step wrote on what it held.
LEMMA QuietStep ==
  ASSUME TypeOK, Hold, Batched, NEW p \in Passes, NEW u \in Users, Throws(p, u) \/ Done(p, u),
         pass[p].step = "serve", u \in Batch(p), RowsTyped', delivered' \in [Items -> Nat],
         \A i \in Items : i \notin person[p][u].claimed /\ ~ Claimable(i) =>
            rows'[i] = rows[i] /\ delivered'[i] = delivered[i],
         \A i \in Items : delivered'[i] <= rows'[i].tries, UNCHANGED base,
         \/ UNCHANGED pass
         \/ \E f \in PassStates : /\ PassGoes(p, f) /\ f.step = "serve" /\ f.at = pass[p].at
                                  /\ f.catchUp = pass[p].catchUp
  PROVE  Hold' /\ Batched'
  <1>1. PICK st \in {"done", "threw"} : person' = [person EXCEPT ![p][u] = [Nobody EXCEPT !.step = st]]
    BY DEF Throws, Done, PersonGoes
  <1> DEFINE r == [Nobody EXCEPT !.step = st]
  <1>2. r \in PersonStates /\ r.step = st /\ r.claimed = {}
    BY QuietIs
  <1>3. person' = [person EXCEPT ![p][u] = r]
    BY <1>1
  <1> HIDE DEF r
  <1>4. Hold'
    BY <1>2, <1>3, HoldStep
  <1> QED
    BY <1>2, <1>3, <1>4, BatchedStep

LEMMA BadIs ==
  ASSUME TypeOK, NEW p \in Passes, NEW b \in BOOLEAN
  PROVE  LET f == [pass[p] EXCEPT !.bad = b]
         IN f \in PassStates /\ f.step = pass[p].step /\ f.at = pass[p].at /\ f.catchUp = pass[p].catchUp
  <1>1. pass[p] \in PassStates
    BY DEF TypeOK, PassesTyped
  <1>2. \A g \in PassStates : /\ [g EXCEPT !.bad = b].step = g.step
                              /\ [g EXCEPT !.bad = b].at = g.at
                              /\ [g EXCEPT !.bad = b].catchUp = g.catchUp
    BY Zenon DEF PassStates
  <1> QED
    BY <1>1, <1>2, FieldsTyped

LEMMA DetectHolds ==
  ASSUME TypeOK, Hold, Batched, NEW p \in Passes, NEW u \in Users, Detect(p, u) PROVE Hold' /\ Batched'
  <1> DEFINE mine == {i \in Items : i[1] = u /\ situation[i] # "none"}
             todo == {i \in mine : situation[i] = "due"}
             hearings == mine \cap Audience
             g == [pass[p] EXCEPT !.audience = @ + Cardinality(hearings),
                                  !.skipped = @ + Cardinality(hearings \ todo),
                                  !.seen = @ \cup todo]
             r == [Nobody EXCEPT !.step = "claim", !.todo = todo]
  <1>1. pass[p].step = "serve" /\ u \in Batch(p) /\ UNCHANGED <<base, rows, delivered>>
    BY DEF Detect, Works, external, history
  <1>2. TypeOK'
    BY DetectTyped
  <1>3. g.step = pass[p].step /\ g.at = pass[p].at /\ g.catchUp = pass[p].catchUp
    BY DEF TypeOK, PassesTyped, PassStates
  <1>4. r \in PersonStates /\ r.step = "claim" /\ r.claimed = {}
    <2>1. todo \in SUBSET Items
      OBVIOUS
    <2> HIDE DEF todo
    <2> QED
      BY <2>1 DEF Nobody, PersonStates
  <1>5. \/ PassGoes(p, g) /\ (Done(p, u) \/ PersonGoes(p, u, r))
        \/ Throws(p, u) /\ UNCHANGED pass
    BY DEF Detect
  <1> HIDE DEF g, r
  <1>6. UNCHANGED pass \/ \E f \in PassStates : /\ PassGoes(p, f) /\ f.step = "serve"
                                                /\ f.at = pass[p].at /\ f.catchUp = pass[p].catchUp
    <2>1. CASE PassGoes(p, g)
      <3>1. g \in PassStates
        BY <1>2, <2>1 DEF TypeOK, PassesTyped, PassGoes
      <3> QED
        BY <1>1, <1>3, <2>1, <3>1
    <2> QED
      BY <1>5, <2>1
  <1>7. (\A i \in Items : rows'[i] = rows[i] /\ delivered'[i] = delivered[i])
        /\ (\A i \in Items : delivered'[i] <= rows'[i].tries) /\ RowsTyped' /\ delivered' \in [Items -> Nat]
    BY <1>1, <1>2 DEF Hold, Counted, TypeOK, HistoryTyped
  <1>8. CASE Throws(p, u) \/ Done(p, u)
    BY <1>1, <1>6, <1>7, <1>8, QuietStep
  <1>9. CASE PersonGoes(p, u, r)
    <2>1. person' = [person EXCEPT ![p][u] = r]
      BY <1>9 DEF PersonGoes
    <2>2. Hold'
      BY <1>4, <1>7, <2>1, HoldStep
    <2> QED
      BY <1>1, <1>4, <1>6, <2>1, <2>2, BatchedStep
  <1> QED
    BY <1>5, <1>8, <1>9

LEMMA ClaimHolds ==
  ASSUME TypeOK, Hold, Batched, NEW p \in Passes, NEW u \in Users, Claim(p, u) PROVE Hold' /\ Batched'
  <1> DEFINE me == person[p][u]
             After(i) == IF Claimable(i) THEN [rows EXCEPT ![i] = Reserved(i)] ELSE rows
             R(i) == [me EXCEPT !.todo = @ \ {i}, !.claimed = IF Claimable(i) THEN @ \cup {i} ELSE @]
  <1>1. PICK i \in MostUrgent(me.todo) :
          \/ rows' = After(i) /\ PersonGoes(p, u, R(i))
          \/ rows' \in {rows, After(i)} /\ Throws(p, u)
    BY DEF Claim
  <1>2. /\ pass[p].step = "serve" /\ u \in Batch(p) /\ me.step = "claim"
        /\ UNCHANGED <<base, pass, delivered>>
    BY DEF Claim, Works, external, history
  <1>3. TypeOK'
    BY ClaimTyped
  <1>4. i \in Items /\ me \in PersonStates
    BY PersonIs DEF MostUrgent
  <1>5. ASSUME Claimable(i)
        PROVE  /\ After(i)[i].status = "pending" /\ ~ After(i)[i].orphan
               /\ After(i)[i].tries = rows[i].tries + 1
               /\ \A j \in Items : j # i => After(i)[j] = rows[j]
    BY <1>4, <1>5, ReservedTyped DEF TypeOK, RowsTyped
  <1>6. ~ Claimable(i) => After(i) = rows
    OBVIOUS
  <1>7. \A j \in Items : delivered[j] \in Nat /\ rows[j].tries \in Nat /\ delivered[j] <= rows[j].tries
    BY SizeAssumption DEF TypeOK, HistoryTyped, RowsTyped, Hold, Counted
  <1>8. /\ \A j \in Items : j \notin me.claimed /\ ~ Claimable(j) =>
              rows'[j] = rows[j] /\ delivered'[j] = delivered[j]
        /\ \A j \in Items : delivered'[j] <= rows'[j].tries
    <2>1. rows' = rows \/ (Claimable(i) /\ rows' = After(i))
      BY <1>1, <1>6
    <2> HIDE DEF After
    <2> QED
      BY <1>2, <1>5, <1>7, <2>1
  <1>9. RowsTyped' /\ delivered' \in [Items -> Nat]
    BY <1>3 DEF TypeOK, HistoryTyped
  <1>10. CASE Throws(p, u)
    BY <1>2, <1>8, <1>9, <1>10, QuietStep
  <1>11. CASE rows' = After(i) /\ PersonGoes(p, u, R(i))
    <2> DEFINE r == R(i)
    <2>1. /\ r \in PersonStates /\ r.step = "claim"
          /\ r.claimed = IF Claimable(i) THEN me.claimed \cup {i} ELSE me.claimed
      BY <1>2, <1>4 DEF PersonStates
    <2>2. person' = [person EXCEPT ![p][u] = r]
      BY <1>11 DEF PersonGoes
    <2>3. \A j \in me.claimed : /\ j \in Items /\ ~ Claimable(j) /\ delivered[j] < rows[j].tries
                                /\ rows[j].status \in {"pending", "sent"} /\ ~ rows[j].orphan
      BY <1>2, PersonIs DEF Hold, Reserve, Counted, Spare, Claimable
    <2>4. \A j \in r.claimed : /\ rows'[j].status \in {"pending", "sent"} /\ ~ rows'[j].orphan
                               /\ delivered'[j] < rows'[j].tries
      <3> HIDE DEF r, After
      <3>1. CASE Claimable(i)
        BY <1>2, <1>4, <1>5, <1>7, <1>11, <2>1, <2>3, <3>1
      <3>2. CASE ~ Claimable(i)
        BY <1>2, <1>6, <1>11, <2>1, <2>3, <3>2
      <3> QED
        BY <3>1, <3>2
    <2>5. \A j \in r.claimed : j \in me.claimed \/ Claimable(j)
      BY <2>1
    <2> HIDE DEF r
    <2>6. Hold'
      BY <1>8, <1>9, <2>1, <2>2, <2>4, <2>5, HoldStep
    <2> QED
      BY <1>2, <2>1, <2>2, <2>6, BatchedStep
  <1> QED
    BY <1>1, <1>10, <1>11

\* A step that keeps what a person has claimed: everything spare stays so, or is about to be marked.
LEMMA KeepsStep ==
  ASSUME TypeOK, TypeOK', Hold, Batched, NEW p \in Passes, NEW u \in Users, NEW st \in Steps,
         NEW S \in SUBSET Items, pass[p].step = "serve", u \in Batch(p),
         st \notin {"wait", "done", "threw"},
         person' = [person EXCEPT ![p][u] = [person[p][u] EXCEPT !.step = st, !.todo = S]],
         st \in {"mark", "fail"} => S \subseteq person[p][u].claimed,
         UNCHANGED rows, \A i \in Items : i \notin S => delivered'[i] = delivered[i],
         \A i \in Items : i \notin person[p][u].claimed => delivered'[i] = delivered[i],
         \A i \in Items : delivered'[i] <= rows[i].tries,
         \A i \in person[p][u].claimed : (st \in {"mark", "fail"} /\ i \in S) \/ Spare(person[p][u], i),
         st \notin {"mark", "fail"} => UNCHANGED delivered,
         UNCHANGED base,
         \/ UNCHANGED pass
         \/ \E f \in PassStates : /\ PassGoes(p, f) /\ f.step = "serve" /\ f.at = pass[p].at
                                  /\ f.catchUp = pass[p].catchUp
  PROVE  Hold' /\ Batched'
  <1> DEFINE me == person[p][u]
             r == [me EXCEPT !.step = st, !.todo = S]
  <1>1. me \in PersonStates /\ me.claimed \subseteq Items
    BY PersonIs
  <1>2. r \in PersonStates /\ r.step = st /\ r.todo = S /\ r.claimed = me.claimed
    BY <1>1 DEF PersonStates, Steps
  <1>3. person' = [person EXCEPT ![p][u] = r]
    OBVIOUS
  <1> HIDE DEF r
  <1>4. \A i \in r.claimed : /\ rows'[i].status \in {"pending", "sent"} /\ ~ rows'[i].orphan
                             /\ Spare(r, i) => delivered'[i] < rows'[i].tries
    <2> SUFFICES ASSUME NEW i \in me.claimed
                 PROVE  /\ rows[i].status \in {"pending", "sent"} /\ ~ rows[i].orphan
                        /\ Spare(r, i) => delivered'[i] < rows[i].tries
      BY <1>2
    <2>1. rows[i].status \in {"pending", "sent"} /\ ~ rows[i].orphan
      BY DEF Hold, Reserve
    <2>2. ASSUME Spare(r, i) PROVE Spare(me, i) /\ delivered'[i] = delivered[i]
      BY <1>1, <1>2, <2>2 DEF Spare
    <2>3. Spare(me, i) => delivered[i] < rows[i].tries
      BY DEF Hold, Counted
    <2> QED
      BY <2>1, <2>2, <2>3
  <1>5. RowsTyped' /\ delivered' \in [Items -> Nat]
    BY DEF TypeOK, HistoryTyped
  <1>6. Hold'
    BY <1>1, <1>2, <1>3, <1>4, <1>5, HoldStep
  <1> QED
    BY <1>2, <1>3, <1>6, BatchedStep

LEMMA SameStep ==
  ASSUME NEW r \in PersonStates, NEW st \in Steps
  PROVE  [r EXCEPT !.step = st] = [r EXCEPT !.step = st, !.todo = r.todo]
  BY DEF PersonStates

LEMMA ClaimedHolds ==
  ASSUME TypeOK, Hold, Batched, NEW p \in Passes, NEW u \in Users, Claimed(p, u)
  PROVE  Hold' /\ Batched'
  <1> DEFINE me == person[p][u]
  <1>1. /\ pass[p].step = "serve" /\ u \in Batch(p) /\ me.step = "claim"
        /\ UNCHANGED <<base, rows, delivered>>
    BY DEF Claimed, Works, external, history
  <1>2. TypeOK'
    BY ClaimedTyped
  <1>3. \E f \in PassStates : /\ PassGoes(p, f) /\ f.step = "serve" /\ f.at = pass[p].at
                              /\ f.catchUp = pass[p].catchUp
    <2>1. (pass[p].bad \/ me.todo # {}) \in BOOLEAN
      OBVIOUS
    <2> QED
      BY <1>1, <2>1, BadIs DEF Claimed
  <1>4. \A i \in Items : delivered[i] <= rows[i].tries
    BY DEF Hold, Counted
  <1>5. RowsTyped' /\ delivered' \in [Items -> Nat]
    BY <1>2 DEF TypeOK, HistoryTyped
  <1>6. CASE Done(p, u)
    BY <1>1, <1>3, <1>4, <1>5, <1>6, QuietStep
  <1>7. CASE PersonGoes(p, u, [me EXCEPT !.step = "address", !.todo = {}])
    <2>1. \A i \in me.claimed : Spare(me, i)
      BY <1>1 DEF Spare
    <2>2. /\ person' = [person EXCEPT ![p][u] = [me EXCEPT !.step = "address", !.todo = {}]]
          /\ {} \in SUBSET Items /\ "address" \in Steps
      BY <1>7 DEF PersonGoes, Steps
    <2> HIDE DEF me
    <2> QED
      BY <1>1, <1>2, <1>3, <1>4, <2>1, <2>2, KeepsStep DEF me
  <1> QED
    BY <1>6, <1>7 DEF Claimed

LEMMA AddressHolds ==
  ASSUME TypeOK, Hold, Batched, NEW p \in Passes, NEW u \in Users, Address(p, u)
  PROVE  Hold' /\ Batched'
  <1> DEFINE me == person[p][u]
  <1>1. /\ pass[p].step = "serve" /\ u \in Batch(p) /\ me.step = "address"
        /\ UNCHANGED <<base, rows, delivered, pass>>
    BY DEF Address, Works, external, history
  <1>2. TypeOK' /\ me \in PersonStates /\ me.todo \in SUBSET Items /\ me.claimed \in SUBSET Items
    BY AddressTyped, PersonIs
  <1>3. \A i \in Items : delivered[i] <= rows[i].tries
    BY DEF Hold, Counted
  <1>4. \A i \in me.claimed : Spare(me, i)
    BY <1>1 DEF Spare
  <1>5. \E st \in {"send", "fail"}, S \in SUBSET Items :
          /\ st = "fail" => S = me.claimed
          /\ person' = [person EXCEPT ![p][u] = [me EXCEPT !.step = st, !.todo = S]]
    <2>1. CASE PersonGoes(p, u, [me EXCEPT !.step = "send"])
      BY <1>2, <2>1, SameStep DEF PersonGoes, Steps
    <2>2. CASE PersonGoes(p, u, [me EXCEPT !.step = "fail", !.todo = me.claimed])
      BY <1>2, <2>2 DEF PersonGoes
    <2> QED
      BY <2>1, <2>2 DEF Address
  <1> HIDE DEF me
  <1>6. PICK st \in {"send", "fail"}, S \in SUBSET Items :
          /\ st = "fail" => S = me.claimed
          /\ person' = [person EXCEPT ![p][u] = [me EXCEPT !.step = st, !.todo = S]]
    BY <1>5
  <1> QED
    BY <1>1, <1>2, <1>3, <1>4, <1>6, KeepsStep DEF me, Steps

LEMMA SendHolds ==
  ASSUME TypeOK, Hold, Batched, NEW p \in Passes, NEW u \in Users, Send(p, u)
  PROVE  Hold' /\ Batched'
  <1> DEFINE me == person[p][u]
             group == Group(me.claimed)
  <1>1. /\ pass[p].step = "serve" /\ u \in Batch(p) /\ me.step = "send"
        /\ UNCHANGED <<base, rows, pass>>
    BY DEF Send, Works, external
  <1>2. TypeOK' /\ me \in PersonStates /\ me.claimed \in SUBSET Items
    BY SendTyped, PersonIs
  <1>3. group \in SUBSET Items /\ group \subseteq me.claimed
    BY <1>2 DEF Group
  <1>4. \A i \in me.claimed : Spare(me, i) /\ delivered[i] < rows[i].tries
    BY <1>1 DEF Spare, Hold, Counted
  <1>5. \/ UNCHANGED delivered
        \/ delivered' = [i \in Items |-> IF i \in group THEN delivered[i] + 1 ELSE delivered[i]]
    BY DEF Send, Accepts
  <1>6. PICK st \in {"mark", "fail"} :
          person' = [person EXCEPT ![p][u] = [me EXCEPT !.step = st, !.todo = group]]
    BY DEF Send, PersonGoes
  <1>7. \A i \in Items : delivered[i] \in Nat /\ rows[i].tries \in Nat /\ delivered[i] <= rows[i].tries
    BY SizeAssumption DEF TypeOK, HistoryTyped, RowsTyped, Hold, Counted
  <1> HIDE DEF me, group
  <1>8. /\ \A i \in Items : i \notin group => delivered'[i] = delivered[i]
        /\ \A i \in Items : delivered'[i] <= rows[i].tries
    BY <1>3, <1>4, <1>5, <1>7
  <1>9. \A i \in Items : i \notin me.claimed => delivered'[i] = delivered[i]
    BY <1>3, <1>8
  <1> QED
    BY <1>1, <1>2, <1>3, <1>4, <1>6, <1>8, <1>9, KeepsStep DEF me, Steps

\* What is marked keeps its attempts, and what is not marked keeps everything.
LEMMA MarkingRows ==
  ASSUME TypeOK, Hold, NEW p \in Passes, NEW u \in Users, person[p][u].step \in {"mark", "fail"},
         NEW st \in {"sent", "failed"}, rows' \in {rows, Marked(person[p][u].todo, st)}
  PROVE  /\ RowsTyped'
         /\ \A i \in Items :
              /\ rows'[i].tries = rows[i].tries
              /\ i \notin person[p][u].todo => rows'[i] = rows[i]
              /\ rows'[i] = rows[i] \/ (rows'[i].status = st /\ ~ rows'[i].orphan)
  <1>1. person[p][u].todo \subseteq person[p][u].claimed
    BY DEF Hold, Marking
  <1>2. \A i \in person[p][u].todo \cap Items : rows[i].status # "absent"
    BY <1>1 DEF Hold, Reserve
  <1>3. RowsTyped
    BY DEF TypeOK
  <1> QED
    BY <1>2, <1>3, MarkedTyped DEF RowsTyped, Rows

\* The next group of a person, if anything is left of what it has claimed.
LEMMA NextGroupHolds ==
  ASSUME TypeOK, Hold, Batched, NEW p \in Passes, NEW u \in Users, NextGroup(p, u),
         person[p][u].step \in {"mark", "fail"}, pass[p].step = "serve", u \in Batch(p),
         RowsTyped', UNCHANGED <<delivered, base>>,
         \A i \in Items : /\ rows'[i].tries = rows[i].tries
                          /\ i \notin person[p][u].todo => rows'[i] = rows[i],
         \/ UNCHANGED pass
         \/ \E f \in PassStates : /\ PassGoes(p, f) /\ f.step = "serve" /\ f.at = pass[p].at
                                  /\ f.catchUp = pass[p].catchUp
  PROVE  Hold' /\ Batched'
  <1> DEFINE me == person[p][u]
             rest == me.claimed \ me.todo
             r == [step |-> "send", todo |-> {}, claimed |-> rest]
  <1>1. me.todo \subseteq me.claimed /\ me.claimed \subseteq Items /\ delivered' \in [Items -> Nat]
    BY PersonIs DEF Hold, Marking, TypeOK, HistoryTyped
  <1>2. \A i \in Items : i \notin me.claimed => rows'[i] = rows[i]
    BY <1>1
  <1>3. \A i \in Items : delivered'[i] <= rows'[i].tries
    BY DEF Hold, Counted
  <1>4. CASE Done(p, u)
    BY <1>1, <1>2, <1>3, <1>4, QuietStep
  <1>5. CASE PersonGoes(p, u, r)
    <2>1. r \in PersonStates /\ r.step = "send" /\ r.claimed = rest
      BY <1>1 DEF PersonStates
    <2>2. person' = [person EXCEPT ![p][u] = r]
      BY <1>5 DEF PersonGoes
    <2>3. \A i \in rest : /\ i \in me.claimed /\ rows'[i].status \in {"pending", "sent"}
                          /\ ~ rows'[i].orphan /\ delivered'[i] < rows'[i].tries
      BY <1>1 DEF Hold, Reserve, Counted, Spare
    <2> HIDE DEF r
    <2>4. Hold'
      BY <1>1, <1>2, <1>3, <2>1, <2>2, <2>3, HoldStep
    <2> QED
      BY <2>1, <2>2, <2>4, BatchedStep
  <1> QED
    BY <1>4, <1>5 DEF NextGroup

LEMMA MarkSentHolds ==
  ASSUME TypeOK, Hold, Batched, NEW p \in Passes, NEW u \in Users, MarkSent(p, u)
  PROVE  TypeOK' /\ Hold' /\ Batched'
  <1> DEFINE me == person[p][u]
  <1>1. /\ pass[p].step = "serve" /\ u \in Batch(p) /\ me.step = "mark"
        /\ UNCHANGED <<base, pass, served, delivered>> /\ Kept /\ (Faulty \/ NoFault)
    BY DEF MarkSent, Works, external, history, Kept
  <1>2. rows' \in {rows, Marked(me.todo, "sent")}
    BY DEF MarkSent
  <1>3. /\ RowsTyped'
        /\ \A i \in Items : /\ rows'[i].tries = rows[i].tries
                            /\ i \notin me.todo => rows'[i] = rows[i]
                            /\ rows'[i] = rows[i] \/ (rows'[i].status = "sent" /\ ~ rows'[i].orphan)
    BY <1>1, <1>2, MarkingRows
  <1>4. me \in PersonStates /\ me.todo \in SUBSET Items /\ me.claimed \in SUBSET Items
        /\ me.todo \subseteq me.claimed
    BY <1>1, PersonIs DEF Hold, Marking
  <1>5. delivered' \in [Items -> Nat]
    BY <1>1 DEF TypeOK, HistoryTyped
  <1>6. CASE NextGroup(p, u)
    <2>1. Hold' /\ Batched'
      BY <1>1, <1>3, <1>6, NextGroupHolds
    <2>2. [step |-> "send", todo |-> {}, claimed |-> me.claimed \ me.todo] \in PersonStates
      BY <1>4 DEF PersonStates
    <2> QED
      BY <1>1, <1>3, <1>5, <1>6, <2>1, <2>2, PersonTyped DEF NextGroup
  <1>7. CASE PersonGoes(p, u, [me EXCEPT !.step = "fail"])
    <2> DEFINE r == [me EXCEPT !.step = "fail"]
    <2>1. r \in PersonStates /\ r.step = "fail" /\ r.claimed = me.claimed /\ r.todo = me.todo
      BY <1>4, PersonFields DEF Steps
    <2>2. person' = [person EXCEPT ![p][u] = r]
      BY <1>7 DEF PersonGoes
    <2> HIDE DEF r
    <2>3. \A i \in r.claimed : /\ rows'[i].status \in {"pending", "sent"} /\ ~ rows'[i].orphan
                               /\ Spare(r, i) => delivered'[i] < rows'[i].tries
      <3> SUFFICES ASSUME NEW i \in me.claimed
                   PROVE  /\ rows'[i].status \in {"pending", "sent"} /\ ~ rows'[i].orphan
                          /\ Spare(r, i) => delivered'[i] < rows'[i].tries
        BY <2>1
      <3>1. rows[i].status \in {"pending", "sent"} /\ ~ rows[i].orphan /\ i \in Items
        BY <1>4 DEF Hold, Reserve
      <3>2. Spare(me, i) => delivered[i] < rows[i].tries
        BY DEF Hold, Counted
      <3>3. Spare(r, i) => Spare(me, i)
        BY <1>1, <2>1 DEF Spare
      <3> QED
        BY <1>1, <1>3, <3>1, <3>2, <3>3
    <2>4. \A i \in Items : delivered'[i] <= rows'[i].tries
      BY <1>1, <1>3 DEF Hold, Counted
    <2>5. Hold'
      BY <1>1, <1>3, <1>4, <1>5, <2>1, <2>2, <2>3, <2>4, HoldStep
    <2>6. Batched'
      BY <1>1, <2>1, <2>2, BatchedStep
    <2>7. TypeOK'
      BY <1>1, <1>3, <1>5, <1>7, <2>1, PersonTyped DEF r
    <2> QED
      BY <2>5, <2>6, <2>7
  <1> QED
    BY <1>6, <1>7 DEF MarkSent

LEMMA MarkFailedHolds ==
  ASSUME TypeOK, Hold, Batched, NEW p \in Passes, NEW u \in Users, MarkFailed(p, u)
  PROVE  TypeOK' /\ Hold' /\ Batched'
  <1> DEFINE me == person[p][u]
  <1>1. /\ pass[p].step = "serve" /\ u \in Batch(p) /\ me.step = "fail"
        /\ UNCHANGED <<base, served, delivered>> /\ Kept /\ (Faulty \/ NoFault)
    BY DEF MarkFailed, Works, external, history, Kept
  <1>2. rows' \in {rows, Marked(me.todo, "failed")}
    BY DEF MarkFailed
  <1>3. /\ RowsTyped'
        /\ \A i \in Items : /\ rows'[i].tries = rows[i].tries
                            /\ i \notin me.todo => rows'[i] = rows[i]
    BY <1>1, <1>2, MarkingRows
  <1>4. me.claimed \in SUBSET Items /\ me.todo \subseteq me.claimed
    BY <1>1, PersonIs DEF Hold, Marking
  <1>5. delivered' \in [Items -> Nat] /\ \A i \in Items : delivered'[i] <= rows'[i].tries
    BY <1>1, <1>3 DEF TypeOK, HistoryTyped, Hold, Counted
  <1>6. TRUE \in BOOLEAN
    OBVIOUS
  <1>7. UNCHANGED pass \/ \E f \in PassStates : /\ PassGoes(p, f) /\ f.step = "serve"
                                                /\ f.at = pass[p].at /\ f.catchUp = pass[p].catchUp
    BY <1>1, <1>6, BadIs DEF MarkFailed
  <1>8. UNCHANGED pass \/ \E b \in BOOLEAN : PassGoes(p, [pass[p] EXCEPT !.bad = b])
    BY <1>6 DEF MarkFailed
  <1>9. CASE NextGroup(p, u)
    <2>1. Hold' /\ Batched'
      BY <1>1, <1>3, <1>7, <1>9, NextGroupHolds
    <2>2. [step |-> "send", todo |-> {}, claimed |-> me.claimed \ me.todo] \in PersonStates
      BY <1>4 DEF PersonStates
    <2> QED
      BY <1>1, <1>3, <1>5, <1>8, <1>9, <2>1, <2>2, PersonTyped DEF NextGroup
  <1>10. CASE Throws(p, u)
    <2>1. Hold' /\ Batched'
      BY <1>1, <1>3, <1>4, <1>5, <1>7, <1>10, QuietStep
    <2> QED
      BY <1>1, <1>3, <1>5, <1>8, <1>10, <2>1, PersonTyped
  <1> QED
    BY <1>9, <1>10 DEF MarkFailed

-----------------------------------------------------------------------------
\* The passes and the slots

\* A pass that moves on while none of its people is being processed, or that forgets them all.
LEMMA PassStep ==
  ASSUME TypeOK, Hold, Batched, NEW p \in Passes, NEW f, pass' = [pass EXCEPT ![p] = f] \/ UNCHANGED pass,
         UNCHANGED <<rows, delivered, base>>,
         \/ UNCHANGED person /\ \A u \in Users : ~ Busy(p, u)
         \/ person' = [person EXCEPT ![p] = [u \in Users |-> Nobody]]
  PROVE  Hold' /\ Batched'
  <1>1. \A u \in Users : person'[p][u].step \in {"wait", "done", "threw"} /\ person'[p][u].claimed = {}
    <2>1. CASE UNCHANGED person /\ \A u \in Users : ~ Busy(p, u)
      BY <2>1 DEF Batched, Busy
    <2>2. CASE person' = [person EXCEPT ![p] = [u \in Users |-> Nobody]]
      <3>1. person'[p] = [u \in Users |-> Nobody]
        BY <2>2 DEF TypeOK, PassesTyped
      <3> QED
        BY <3>1 DEF Nobody
    <2> QED
      BY <2>1, <2>2
  <1>2. \A q \in Passes \ {p} : person'[q] = person[q] /\ pass'[q] = pass[q]
    BY DEF TypeOK, PassesTyped
  <1>3. \A q \in Passes \ {p} : Batch(q)' = Batch(q)
    BY <1>2 DEF Batch, Start
  <1>4. Batched'
    BY <1>1, <1>2, <1>3 DEF Batched, Busy
  <1>5. Reserve'
    BY <1>1, <1>2 DEF Hold, Reserve
  <1>6. Apart'
    <2> SUFFICES ASSUME NEW q \in Passes, NEW t \in Passes, NEW v \in Users, NEW w \in Users,
                        <<q, v>> # <<t, w>>
                 PROVE  person'[q][v].claimed \cap person'[t][w].claimed = {}
      BY DEF Apart
    <2>1. CASE q = p \/ t = p
      BY <1>1, <2>1
    <2>2. CASE q # p /\ t # p
      BY <1>2, <2>2 DEF Hold, Apart
    <2> QED
      BY <2>1, <2>2
  <1>7. Marking' /\ Counted'
    BY <1>1, <1>2 DEF Hold, Marking, Counted, Spare
  <1> QED
    BY <1>4, <1>5, <1>6, <1>7 DEF Hold

LEMMA IdleQuiet ==
  ASSUME Batched, NEW p \in Passes, pass[p].step # "serve"
  PROVE  \A u \in Users : ~ Busy(p, u)
  BY DEF Batched

LEMMA RouteHolds ==
  ASSUME TypeOK, Hold, Batched, NEW p \in Passes,
         List(p) \/ Record(p) \/ Kill(p) \/ \E c \in BOOLEAN : Call(p, c)
  PROVE  TypeOK' /\ Hold' /\ Batched'
  <1>1. TypeOK'
    BY ListTyped, RecordTyped, KillTyped, CallTyped
  <1>2. UNCHANGED <<rows, delivered, base>>
    BY DEF List, Record, Kill, Call, external, history
  <1>3. UNCHANGED pass \/ \E f : pass' = [pass EXCEPT ![p] = f]
    BY DEF List, Record, Kill, Call, HandlerFails, PassGoes
  <1>4. \/ UNCHANGED person /\ \A u \in Users : ~ Busy(p, u)
        \/ person' = [person EXCEPT ![p] = [u \in Users |-> Nobody]]
    BY IdleQuiet DEF List, Record, Kill, Call
  <1> QED
    BY <1>1, <1>2, <1>3, <1>4, PassStep

\* Positions of the ring are people.
LEMMA RingPeople == ASSUME NEW x \in Nat PROVE x % N \in Users
  BY SizeAssumption DEF Users

LEMMA StartIs == ASSUME TypeOK, NEW c \in BOOLEAN PROVE Start(c) \in Users
  <1>1. base \in Nat /\ N \div 2 \in Nat
    BY SizeAssumption DEF TypeOK, Users
  <1> QED
    BY <1>1, RingPeople DEF Start

LEMMA BatchPeople == ASSUME TypeOK, NEW p \in Passes PROVE Batch(p) \subseteq Users
  <1>1. pass[p].at \in Nat /\ pass[p].catchUp \in BOOLEAN
    BY DEF TypeOK, PassesTyped, PassStates
  <1>2. Start(pass[p].catchUp) \in Nat
    BY <1>1, StartIs DEF Users
  <1>3. \A k \in Nat : Start(pass[p].catchUp) + k \in Nat
    BY <1>2
  <1>4. \A k \in pass[p].at .. (pass[p].at + Concurrency - 1) : k \in Nat
    BY <1>1, SizeAssumption
  <1> QED
    BY <1>3, <1>4, RingPeople DEF Batch

LEMMA NextBatchHolds ==
  ASSUME TypeOK, Hold, Batched, NEW p \in Passes, NextBatch(p) PROVE TypeOK' /\ Hold' /\ Batched'
  <1> DEFINE next == pass[p].at + Concurrency
  <1>1. /\ UNCHANGED <<rows, delivered, base, person>> /\ Kept /\ NoFault
        /\ served' = [served EXCEPT ![pass[p].catchUp] = @ \cup Batch(p)]
    BY DEF NextBatch, external, Kept
  <1>2. \A u \in Users : ~ Busy(p, u)
    BY DEF NextBatch, Batched, Busy
  <1>3. pass[p] \in PassStates /\ next \in Nat
    BY SizeAssumption DEF TypeOK, PassesTyped, PassStates
  <1>4. PICK f \in PassStates : PassGoes(p, f)
    <2>1. CASE Rejected(p)
      <3>1. FALSE \in BOOLEAN
        OBVIOUS
      <3> QED
        BY <2>1, <3>1, EndedTyped DEF Rejected, TypeOK
    <2>2. CASE PassGoes(p, [pass[p] EXCEPT !.step = "purge"])
      BY <1>3, <2>2, FieldsTyped
    <2>3. CASE PassGoes(p, [pass[p] EXCEPT !.at = next])
      BY <1>3, <2>3, FieldsTyped
    <2>4. CASE PassGoes(p, [pass[p] EXCEPT !.step = "purge", !.bad = TRUE])
      <3>1. TRUE \in BOOLEAN
        OBVIOUS
      <3> QED
        BY <1>3, <2>4, <3>1, FieldsTyped
    <2> QED
      BY <2>1, <2>2, <2>3, <2>4 DEF NextBatch
  <1>5. TypeOK'
    <2>1. PassesTyped'
      BY <1>1, <1>4, PassGoesTyped DEF TypeOK, PassesTyped
    <2>2. served' \in [BOOLEAN -> SUBSET Users]
      <3>1. pass[p].catchUp \in BOOLEAN /\ Batch(p) \subseteq Users
        BY BatchPeople DEF TypeOK, PassesTyped, PassStates
      <3>2. served \in [BOOLEAN -> SUBSET Users]
        BY DEF TypeOK, HistoryTyped
      <3> QED
        BY <1>1, <3>1, <3>2
    <2> QED
      BY <1>1, <2>1, <2>2, StepTyped DEF TypeOK, RowsTyped, HistoryTyped
  <1> QED
    BY <1>1, <1>2, <1>4, <1>5, PassStep DEF PassGoes

LEMMA PurgeHolds ==
  ASSUME TypeOK, Hold, Batched, NEW p \in Passes, Purge(p) PROVE TypeOK' /\ Hold' /\ Batched'
  <1>1. UNCHANGED <<rows, delivered, served, base, person>> /\ Kept /\ (Faulty \/ NoFault)
    BY DEF Purge, external, history, Kept
  <1>2. \A u \in Users : ~ Busy(p, u)
    BY IdleQuiet DEF Purge
  <1>3. Complete(p) \in BOOLEAN
    BY DEF Complete
  <1>4. PassesTyped
    BY DEF TypeOK
  <1>5. pass' \in [Passes -> PassStates]
    <2>1. CASE PassGoes(p, Ended(p, Complete(p)))
      <3>1. Ended(p, Complete(p)) \in PassStates
        BY <1>3, <1>4, EndedTyped
      <3> QED
        BY <1>4, <2>1, <3>1, PassGoesTyped
    <2> QED
      BY <1>4, <2>1, HandlerFailsTyped DEF Purge
  <1>6. TypeOK'
    BY <1>1, <1>5, StepTyped DEF TypeOK, RowsTyped, PassesTyped, HistoryTyped
  <1>7. \E f : pass' = [pass EXCEPT ![p] = f]
    BY DEF Purge, HandlerFails, PassGoes
  <1> QED
    BY <1>1, <1>2, <1>6, <1>7, PassStep

LEMMA NextSlotHolds ==
  ASSUME TypeOK, Hold, Batched, NextSlot PROVE TypeOK' /\ Hold' /\ Batched'
  <1>1. \A p \in Passes, u \in Users : ~ Busy(p, u) /\ person[p][u].claimed = {}
    BY IdleQuiet DEF NextSlot, Batched
  <1>2. ASSUME NEW r \in Rows, NEW b \in BOOLEAN
        PROVE  LET n == [r EXCEPT !.orphan = b]
               IN n \in Rows /\ n.tries = r.tries /\ n.status = r.status
    BY Zenon DEF Rows
  <1>3. \A i \in Items : rows[i] \in Rows
    BY DEF TypeOK, RowsTyped, Rows
  <1>4. /\ rows' \in [Items -> Rows]
        /\ \A i \in Items : rows'[i].tries = rows[i].tries /\ rows'[i].status = rows[i].status
    <2>1. ASSUME NEW i \in Items
          PROVE  LET n == [rows[i] EXCEPT !.orphan = rows[i].status = "pending"]
                 IN n \in Rows /\ n.tries = rows[i].tries /\ n.status = rows[i].status
      <3>1. (rows[i].status = "pending") \in BOOLEAN
        OBVIOUS
      <3> QED
        BY <1>2, <1>3, <3>1
    <2> QED
      BY <2>1 DEF NextSlot
  <1>5. TypeOK'
    <2>1. slot' \in 0 .. MaxSlots /\ calls' \in 0 .. 2
      BY SizeAssumption DEF NextSlot, TypeOK
    <2>2. situation' \in [Items -> Situations]
      BY DEF NextSlot, Possible
    <2>3. base' \in Users /\ succeeded' \in BOOLEAN /\ served' \in [BOOLEAN -> SUBSET Users]
      <3>1. CASE CatchUpSlot
        BY <3>1 DEF NextSlot
      <3>2. CASE ~ CatchUpSlot
        BY <3>2 DEF NextSlot, TypeOK, HistoryTyped
      <3> QED
        BY <3>1, <3>2
    <2>4. RowsTyped'
      BY <1>4 DEF TypeOK, RowsTyped, Rows
    <2>5. UNCHANGED <<story, pass, person, delivered, faults>>
      BY DEF NextSlot
    <2> QED
      BY <2>1, <2>2, <2>3, <2>4, <2>5 DEF TypeOK, PassesTyped, HistoryTyped
  <1>6. UNCHANGED <<person, delivered>>
    BY DEF NextSlot
  <1>7. Batched'
    BY <1>1, <1>6 DEF Batched, Busy
  <1>8. Hold'
    BY <1>1, <1>4, <1>6 DEF Hold, Reserve, Apart, Marking, Counted, Busy
  <1> QED
    BY <1>5, <1>7, <1>8

-----------------------------------------------------------------------------
\* The theorems

IInv == TypeOK /\ Hold /\ Batched

LEMMA InitHolds == Init => IInv
  <1> SUFFICES ASSUME Init PROVE IInv
    OBVIOUS
  <1>1. \A p \in Passes, u \in Users : person[p][u] = Nobody
    BY DEF Init
  <1>2. Nobody.step = "wait" /\ Nobody.claimed = {}
    BY DEF Nobody
  <1>3. RowsTyped
    <2>1. \A b \in BOOLEAN : [status |-> "absent", tries |-> 0, orphan |-> b] \in Rows
      BY SizeAssumption DEF Rows, Statuses
    <2>2. NoRow \in Rows /\ NoRow.status = "absent" /\ NoRow.tries = 0
      BY <2>1 DEF NoRow
    <2>3. rows = [i \in Items |-> NoRow]
      BY DEF Init
    <2> QED
      BY <2>2, <2>3 DEF RowsTyped, Rows
  <1>4. PassesTyped
    BY NoneTyped DEF Init, PassesTyped
  <1>5. HistoryTyped
    BY DEF Init, HistoryTyped
  <1>6. slot \in 0 .. MaxSlots /\ calls \in 0 .. 2 /\ faults \in 0 .. MaxFaults
    BY SizeAssumption DEF Init
  <1>7. situation \in [Items -> Situations]
    BY DEF Init, Possible
  <1>8. TypeOK
    BY <1>3, <1>4, <1>5, <1>6, <1>7 DEF Init, TypeOK
  <1>9. \A i \in Items : delivered[i] = 0 /\ rows[i].tries = 0
    BY DEF Init, NoRow
  <1> QED
    BY <1>1, <1>2, <1>8, <1>9 DEF IInv, Hold, Batched, Busy, Reserve, Apart, Marking, Counted

LEMMA NextHolds == IInv /\ [Next]_vars => IInv'
  <1> SUFFICES ASSUME IInv, [Next]_vars PROVE IInv'
    OBVIOUS
  <1>1. TypeOK /\ Hold /\ Batched
    BY DEF IInv
  <1>2. CASE UNCHANGED vars
    <2>1. UNCHANGED <<story, slot, base, calls, situation, rows, succeeded, pass, person, delivered,
                      served, faults>>
      BY <1>2 DEF vars, external, history
    <2> QED
      BY <1>1, <2>1 DEF IInv, TypeOK, RowsTyped, PassesTyped, HistoryTyped, Hold, Reserve, Apart,
         Marking, Counted, Batched, Busy, Batch, Start
  <1>3. CASE NextSlot
    BY <1>1, <1>3, NextSlotHolds DEF IInv
  <1>4. ASSUME NEW p \in Passes, List(p) \/ Record(p) \/ Kill(p) \/ \E c \in BOOLEAN : Call(p, c)
        PROVE  IInv'
    BY <1>1, <1>4, RouteHolds DEF IInv
  <1>5. ASSUME NEW p \in Passes, NextBatch(p) \/ Purge(p) PROVE IInv'
    BY <1>1, <1>5, NextBatchHolds, PurgeHolds DEF IInv
  <1>6. ASSUME NEW p \in Passes, NEW u \in Users, Serve(p, u) PROVE IInv'
    <2>1. CASE Detect(p, u)
      BY <1>1, <2>1, DetectTyped, DetectHolds DEF IInv
    <2>2. CASE Claim(p, u)
      BY <1>1, <2>2, ClaimTyped, ClaimHolds DEF IInv
    <2>3. CASE Claimed(p, u)
      BY <1>1, <2>3, ClaimedTyped, ClaimedHolds DEF IInv
    <2>4. CASE Address(p, u)
      BY <1>1, <2>4, AddressTyped, AddressHolds DEF IInv
    <2>5. CASE Send(p, u)
      BY <1>1, <2>5, SendTyped, SendHolds DEF IInv
    <2>6. CASE MarkSent(p, u) \/ MarkFailed(p, u)
      BY <1>1, <2>6, MarkSentHolds, MarkFailedHolds DEF IInv
    <2> QED
      BY <1>6, <2>1, <2>2, <2>3, <2>4, <2>5, <2>6 DEF Serve
  <1> QED
    BY <1>2, <1>3, <1>4, <1>5, <1>6 DEF Next

LEMMA Reachable == Spec => []IInv
  BY InitHolds, NextHolds, PTL DEF Spec

\* The types of the reminders: a row counts from its first attempt to the limit of the table.
THEOREM Typing == Spec => []TypeOK
  <1>1. IInv => TypeOK
    BY DEF IInv
  <1> QED
    BY <1>1, Reachable, PTL

\* Two executions of the route never hold the same reminder, for any number of them.
THEOREM HoldersApart == Spec => []OneHolder
  <1>1. IInv => OneHolder
    BY DEF IInv, Hold, Apart, OneHolder
  <1> QED
    BY <1>1, Reachable, PTL

\* No delivery of a reminder goes without an attempt of its row, and there are MaxTries of them.
THEOREM NoUncountedDelivery == Spec => []DeliveriesCounted
  <1>1. IInv => DeliveriesCounted
    BY DEF IInv, Hold, Counted, DeliveriesCounted
  <1> QED
    BY <1>1, Reachable, PTL

-----------------------------------------------------------------------------
\* What a step leaves of its pass

\* A step of a person leaves the place of its pass in the ring as it is, and forgets nothing that
\* the pass has seen or failed.
Continues(f, p) ==
    /\ f.step = "serve" /\ f.at = pass[p].at /\ f.catchUp = pass[p].catchUp
    /\ pass[p].bad => f.bad
    /\ pass[p].seen \subseteq f.seen

LEMMA BadContinues ==
  ASSUME TypeOK, NEW p \in Passes, NEW b \in BOOLEAN, pass[p].step = "serve", pass[p].bad => b
  PROVE  LET f == [pass[p] EXCEPT !.bad = b]
         IN f \in PassStates /\ Continues(f, p) /\ f.bad = b /\ f.seen = pass[p].seen
  <1>1. \A g \in PassStates : /\ [g EXCEPT !.bad = b] \in PassStates
                              /\ [g EXCEPT !.bad = b].step = g.step
                              /\ [g EXCEPT !.bad = b].at = g.at
                              /\ [g EXCEPT !.bad = b].catchUp = g.catchUp
                              /\ [g EXCEPT !.bad = b].bad = b
                              /\ [g EXCEPT !.bad = b].seen = g.seen
    BY DEF PassStates
  <1>2. pass[p] \in PassStates
    BY DEF TypeOK, PassesTyped
  <1> QED
    BY <1>1, <1>2 DEF Continues

LEMMA SameContinues ==
  ASSUME TypeOK, NEW p \in Passes, pass[p].step = "serve"
  PROVE  pass[p] \in PassStates /\ Continues(pass[p], p)
         /\ (UNCHANGED pass => pass' = [pass EXCEPT ![p] = pass[p]])
  BY DEF Continues, TypeOK, PassesTyped

\* What Detect makes of its pass, when the database answers.
LEMMA DetectPass ==
  ASSUME TypeOK, NEW p \in Passes, NEW u \in Users, Detect(p, u)
  PROVE  LET mine == {i \in Items : i[1] = u /\ situation[i] # "none"}
             todo == {i \in mine : situation[i] = "due"}
         IN \/ Throws(p, u) /\ UNCHANGED pass
            \/ \E f \in PassStates :
                  /\ PassGoes(p, f) /\ Continues(f, p) /\ f.bad = pass[p].bad
                  /\ f.seen = pass[p].seen \cup todo
                  /\ \/ todo = {} /\ Done(p, u)
                     \/ PersonGoes(p, u, [Nobody EXCEPT !.step = "claim", !.todo = todo])
  <1> DEFINE mine == {i \in Items : i[1] = u /\ situation[i] # "none"}
             todo == {i \in mine : situation[i] = "due"}
             hearings == mine \cap Audience
             n == pass[p].audience + Cardinality(hearings)
             k == pass[p].skipped + Cardinality(hearings \ todo)
             S == pass[p].seen \cup todo
             f == [pass[p] EXCEPT !.audience = n, !.skipped = k, !.seen = S]
  <1>1. pass[p] \in PassStates /\ pass[p].step = "serve"
    BY DEF TypeOK, PassesTyped, Detect, Works
  <1>2. n \in Nat /\ k \in Nat /\ S \in SUBSET Items
    <2>1. Cardinality(hearings) \in Nat /\ Cardinality(hearings \ todo) \in Nat
      BY ItemsCounted
    <2>2. pass[p].audience \in Nat /\ pass[p].skipped \in Nat /\ pass[p].seen \in SUBSET Items
      BY <1>1 DEF PassStates
    <2> QED
      BY <2>1, <2>2
  <1>3. \/ Throws(p, u) /\ UNCHANGED pass
        \/ /\ PassGoes(p, f)
           /\ \/ todo = {} /\ Done(p, u)
              \/ PersonGoes(p, u, [Nobody EXCEPT !.step = "claim", !.todo = todo])
    BY DEF Detect
  <1>4. f \in PassStates /\ Continues(f, p) /\ f.bad = pass[p].bad /\ f.seen = S
    <2> HIDE DEF n, k, S
    <2>1. \A g \in PassStates :
            LET q == [g EXCEPT !.audience = n, !.skipped = k, !.seen = S]
            IN /\ q.step = g.step /\ q.at = g.at /\ q.catchUp = g.catchUp /\ q.bad = g.bad /\ q.seen = S
      BY DEF PassStates
    <2>2. f \in PassStates
      BY <1>1, <1>2, FieldsTyped
    <2>3. pass[p].seen \subseteq S
      BY DEF S
    <2> QED
      BY <1>1, <2>1, <2>2, <2>3 DEF Continues
  <1> QED
    BY <1>3, <1>4

LEMMA NextGroupPerson ==
  ASSUME TypeOK, NEW p \in Passes, NEW u \in Users, NextGroup(p, u)
  PROVE  LET rest == person[p][u].claimed \ person[p][u].todo
         IN \E r \in PersonStates :
               /\ person' = [person EXCEPT ![p][u] = r] /\ r.claimed = rest
               /\ r.step \in {"done", "send"} /\ (rest # {} => r.step = "send")
  <1> DEFINE rest == person[p][u].claimed \ person[p][u].todo
  <1>1. CASE rest = {} /\ Done(p, u)
    <2>1. /\ [Nobody EXCEPT !.step = "done"] \in PersonStates
          /\ [Nobody EXCEPT !.step = "done"].claimed = {} /\ [Nobody EXCEPT !.step = "done"].step = "done"
      BY QuietIs
    <2> QED
      BY <1>1, <2>1 DEF Done, PersonGoes
  <1>2. CASE rest # {} /\ PersonGoes(p, u, [step |-> "send", todo |-> {}, claimed |-> rest])
    <2>1. rest \in SUBSET Items
      BY PersonIs
    <2> DEFINE r == [step |-> "send", todo |-> {}, claimed |-> rest]
    <2>2. r \in PersonStates /\ r.claimed = rest /\ r.step = "send"
      BY <2>1 DEF PersonStates
    <2>3. person' = [person EXCEPT ![p][u] = r]
      BY <1>2 DEF PersonGoes
    <2> HIDE DEF r, rest
    <2> QED
      BY <2>2, <2>3 DEF rest
  <1> QED
    BY <1>1, <1>2 DEF NextGroup

LEMMA ThrowsPerson ==
  ASSUME NEW p \in Passes, NEW u \in Users, Throws(p, u)
  PROVE  \E r \in PersonStates : person' = [person EXCEPT ![p][u] = r] /\ r.step = "threw"
  BY QuietIs DEF Throws, PersonGoes

\* The steps of a person, as its pass sees them.
LEMMA ServeContinues ==
  ASSUME TypeOK, NEW p \in Passes, NEW u \in Users, Serve(p, u)
  PROVE  /\ pass[p].step = "serve" /\ u \in Batch(p)
         /\ UNCHANGED <<story, base, calls, served>>
         /\ \E f \in PassStates : pass' = [pass EXCEPT ![p] = f] /\ Continues(f, p)
  <1>1. pass[p].step = "serve" /\ u \in Batch(p)
    BY DEF Serve, Works, Detect, Claim, Claimed, Address, Send, MarkSent, MarkFailed
  <1>2. UNCHANGED <<story, base, calls, served>>
    BY DEF Serve, Detect, Claim, Claimed, Address, Send, MarkSent, MarkFailed, external, history
  <1>3. CASE Detect(p, u)
    BY <1>1, <1>2, <1>3, DetectPass, SameContinues DEF PassGoes
  <1>4. CASE Claimed(p, u)
    <2> DEFINE b == pass[p].bad \/ person[p][u].todo # {}
    <2>1. b \in BOOLEAN /\ (pass[p].bad => b)
      OBVIOUS
    <2>2. PassGoes(p, [pass[p] EXCEPT !.bad = b])
      BY <1>4 DEF Claimed
    <2> HIDE DEF b
    <2> QED
      BY <1>1, <1>2, <2>1, <2>2, BadContinues DEF PassGoes
  <1>5. CASE MarkFailed(p, u)
    <2>1. TRUE \in BOOLEAN
      OBVIOUS
    <2>2. PassGoes(p, [pass[p] EXCEPT !.bad = TRUE]) \/ UNCHANGED pass
      BY <1>5 DEF MarkFailed
    <2> QED
      BY <1>1, <1>2, <2>1, <2>2, BadContinues, SameContinues DEF PassGoes
  <1>6. CASE Claim(p, u) \/ Address(p, u) \/ Send(p, u) \/ MarkSent(p, u)
    <2>1. UNCHANGED pass
      BY <1>6 DEF Claim, Address, Send, MarkSent
    <2> QED
      BY <1>1, <1>2, <2>1, SameContinues
  <1> QED
    BY <1>1, <1>2, <1>3, <1>4, <1>5, <1>6 DEF Serve

-----------------------------------------------------------------------------
\* Two halves of the ring

\* The first m people of the ring, from where the first pass or the catch-up starts.
Arc(c, m) == {(Start(c) + k) % N : k \in 0 .. (m - 1)}

\* What the passes of a kind went through is an arc that starts where they do; a pass that is
\* inside the ring went through all that precedes its batch.
RingInv ==
    /\ \A c \in BOOLEAN : \E m \in 0 .. N : served[c] = Arc(c, m)
    /\ \A p \in Passes :
        /\ pass[p].step = "list" => pass[p].at = 0
        /\ pass[p].step = "serve" =>
              pass[p].at < N /\ Arc(pass[p].catchUp, pass[p].at) \subseteq served[pass[p].catchUp]

\* A position that goes around the ring once at most.
Place(x) == IF x < N THEN x ELSE x - N

LEMMA RingPlace == \A x \in 0 .. (2 * N - 1) : x % N = Place(x)
  <1> SUFFICES ASSUME NEW x \in 0 .. (2 * N - 1) PROVE x % N = Place(x)
    OBVIOUS
  <1>1. CASE x < N
    BY <1>1, SizeAssumption DEF Place
  <1>2. CASE x >= N
    BY <1>2, SizeAssumption DEF Place
  <1> QED
    BY <1>1, <1>2, SizeAssumption

LEMMA EmptyArc == ASSUME NEW c PROVE Arc(c, 0) = {}
  BY DEF Arc

LEMMA ArcWithin ==
  ASSUME NEW c, NEW m \in Nat, NEW n \in Nat, m <= n PROVE Arc(c, m) \subseteq Arc(c, n)
  <1>1. 0 .. (m - 1) \subseteq 0 .. (n - 1)
    OBVIOUS
  <1> QED
    BY <1>1 DEF Arc

\* An arc of m positions has m people at most.
LEMMA ArcSize ==
  ASSUME NEW c, NEW m \in Nat PROVE IsFiniteSet(Arc(c, m)) /\ Cardinality(Arc(c, m)) <= m
  <1> DEFINE f == [k \in 0 .. (m - 1) |-> (Start(c) + k) % N]
  <1>1. f \in Surjection(0 .. (m - 1), Arc(c, m))
    BY DEF Arc, Surjection
  <1>2. IsFiniteSet(0 .. (m - 1)) /\ Cardinality(0 .. (m - 1)) = m
    BY FS_Interval
  <1> HIDE DEF f
  <1> QED
    BY <1>1, <1>2, FS_Surjection

\* A batch extends the arc that precedes it.
LEMMA BatchIs ==
  ASSUME TypeOK, NEW p \in Passes, pass[p].at < N
  PROVE  LET next == pass[p].at + Concurrency
             n == IF next < N THEN next ELSE N
         IN n \in 0 .. N /\ Arc(pass[p].catchUp, pass[p].at) \cup Batch(p) = Arc(pass[p].catchUp, n)
  <1> DEFINE next == pass[p].at + Concurrency
             n == IF next < N THEN next ELSE N
  <1>1. pass[p].at \in Nat /\ next \in Nat /\ n \in 0 .. N /\ N \in Nat /\ Concurrency \in Nat \ {0}
    BY SizeAssumption DEF TypeOK, PassesTyped, PassStates
  <1>2. {j \in pass[p].at .. (pass[p].at + Concurrency - 1) : j < N} = pass[p].at .. (n - 1)
    BY <1>1
  <1>3. 0 .. (n - 1) = (0 .. (pass[p].at - 1)) \cup (pass[p].at .. (n - 1))
    BY <1>1
  <1> HIDE DEF n
  <1> QED
    BY <1>1, <1>2, <1>3 DEF Arc, Batch, n, next

\* Two arcs of half the ring, one from half the ring further, are the whole ring.
LEMMA ArcsMeet ==
  ASSUME TypeOK, NEW m \in Nat, NEW n \in Nat, 2 * m >= N, 2 * n >= N
  PROVE  Users \subseteq Arc(FALSE, m) \cup Arc(TRUE, n)
  <1> DEFINE half == N \div 2
  <1>1. N \in Nat \ {0} /\ base \in 0 .. (N - 1)
    BY SizeAssumption DEF TypeOK, Users
  <1>2. half \in Nat /\ 2 * half <= N /\ N <= 2 * half + 1
    BY <1>1
  <1> HIDE DEF half
  <1>3. Start(FALSE) = base /\ Start(TRUE) = Place(base + half)
    <2>1. base + 0 \in 0 .. (2 * N - 1) /\ base + half \in 0 .. (2 * N - 1)
      BY <1>1, <1>2
    <2>2. (base + 0) % N = Place(base + 0) /\ (base + half) % N = Place(base + half)
      BY <2>1, RingPlace, Zenon
    <2>3. Place(base + 0) = base
      BY <1>1 DEF Place
    <2> QED
      BY <2>2, <2>3, Zenon DEF Start, half
  <1> SUFFICES ASSUME NEW u \in 0 .. (N - 1) PROVE u \in Arc(FALSE, m) \cup Arc(TRUE, n)
    BY DEF Users
  <1> DEFINE k == IF u < base THEN u - base + N ELSE u - base
  <1>4. k \in 0 .. (N - 1) /\ base + k \in 0 .. (2 * N - 1) /\ Place(base + k) = u
    BY <1>1 DEF Place
  <1> HIDE DEF k
  <1>5. CASE k < m
    <2>1. (Start(FALSE) + k) % N = u
      BY <1>3, <1>4, RingPlace, Zenon
    <2>2. k \in 0 .. (m - 1)
      BY <1>4, <1>5
    <2> QED
      BY <2>1, <2>2, Zenon DEF Arc
  <1>6. CASE k >= m
    <2> DEFINE s == Place(base + half)
    <2>1. k - half \in 0 .. (n - 1)
      BY <1>1, <1>2, <1>4, <1>6
    <2>2. s + (k - half) \in 0 .. (2 * N - 1) /\ Place(s + (k - half)) = u
      BY <1>1, <1>2, <1>4, <2>1 DEF Place
    <2>3. (s + (k - half)) % N = u
      BY <2>2, RingPlace, Zenon
    <2> QED
      BY <1>3, <2>1, <2>3, Zenon DEF Arc
  <1>7. k < m \/ k >= m
    BY <1>1, <1>4
  <1> QED
    BY <1>5, <1>6, <1>7

LEMMA RingHalves == ASSUME TypeOK, RingInv PROVE HalvesMeet
  <1>1. FALSE \in BOOLEAN /\ TRUE \in BOOLEAN
    OBVIOUS
  <1>2. PICK m \in 0 .. N : served[FALSE] = Arc(FALSE, m)
    BY <1>1 DEF RingInv
  <1>3. PICK n \in 0 .. N : served[TRUE] = Arc(TRUE, n)
    BY <1>1 DEF RingInv
  <1>4. m \in Nat /\ n \in Nat /\ N \in Nat
    BY SizeAssumption
  <1> SUFFICES ASSUME 2 * Cardinality(Arc(FALSE, m)) >= N, 2 * Cardinality(Arc(TRUE, n)) >= N
               PROVE  Arc(FALSE, m) \cup Arc(TRUE, n) = Users
    BY <1>2, <1>3 DEF HalvesMeet
  <1>5. 2 * m >= N /\ 2 * n >= N
    <2>1. ASSUME NEW c, NEW l \in Nat, 2 * Cardinality(Arc(c, l)) >= N PROVE 2 * l >= N
      <3>1. Cardinality(Arc(c, l)) \in Nat /\ Cardinality(Arc(c, l)) <= l
        BY ArcSize, FS_CardinalityType
      <3> QED
        BY <1>4, <2>1, <3>1
    <2> QED
      BY <1>4, <2>1
  <1>6. served[FALSE] \subseteq Users /\ served[TRUE] \subseteq Users
    BY <1>1 DEF TypeOK, HistoryTyped
  <1> QED
    BY <1>2, <1>3, <1>4, <1>5, <1>6, ArcsMeet

\* A step that moves no pass within the ring.
LEMMA RingKept ==
  ASSUME TypeOK, RingInv, UNCHANGED <<served, base>>,
         \A p \in Passes :
            /\ pass'[p].step = "list" => pass'[p].at = 0
            /\ pass'[p].step = "serve" =>
                  \/ pass[p].step = "serve" /\ pass'[p].at = pass[p].at /\ pass'[p].catchUp = pass[p].catchUp
                  \/ pass'[p].at = 0
  PROVE  RingInv'
  <1>1. \A c, m : Arc(c, m)' = Arc(c, m)
    BY DEF Arc, Start
  <1>2. 0 < N
    BY SizeAssumption
  <1> QED
    BY <1>1, <1>2, EmptyArc DEF RingInv

LEMMA NoPassIs ==
  ASSUME NEW c \in BOOLEAN, NEW n \in 0 .. MaxReruns
  PROVE  /\ NoPass.step = "idle" /\ NoPass.seen = {}
         /\ LET f == [NoPass EXCEPT !.step = "list", !.catchUp = c, !.reruns = n]
            IN f.step = "list" /\ f.at = 0 /\ f.seen = {} /\ f.bad = FALSE
         /\ LET f == [NoPass EXCEPT !.step = "list", !.catchUp = c]
            IN f.step = "list" /\ f.at = 0 /\ f.seen = {} /\ f.bad = FALSE
  BY DEF NoPass

LEMMA EndedIs ==
  ASSUME TypeOK, NEW p \in Passes, NEW ok \in BOOLEAN
  PROVE  LET f == Ended(p, ok)
         IN f.step = "record" /\ f.ok = ok /\ f.bad = pass[p].bad /\ f.seen = pass[p].seen
  <1>1. pass[p] \in PassStates
    BY DEF TypeOK, PassesTyped
  <1> QED
    BY <1>1 DEF Ended, PassStates

\* What a handler that fails leaves of its pass: an end without success, or a new start.
LEMMA FailedIs ==
  ASSUME TypeOK, NEW p \in Passes, HandlerFails(p)
  PROVE  \E f \in PassStates :
            /\ pass' = [pass EXCEPT ![p] = f]
            /\ \/ f.step = "record" /\ ~ f.ok
               \/ f.step = "list" /\ f.at = 0 /\ f.seen = {}
  <1>1. CASE PassGoes(p, Ended(p, FALSE))
    <2>1. FALSE \in BOOLEAN /\ PassesTyped
      BY DEF TypeOK
    <2>2. Ended(p, FALSE) \in PassStates /\ Ended(p, FALSE).step = "record" /\ Ended(p, FALSE).ok = FALSE
      BY <2>1, EndedIs, EndedTyped
    <2> QED
      BY <1>1, <2>2 DEF PassGoes
  <1>2. CASE /\ pass[p].reruns < MaxReruns
             /\ PassGoes(p, [NoPass EXCEPT !.step = "list", !.catchUp = pass[p].catchUp,
                                           !.reruns = pass[p].reruns + 1])
    <2>1. pass[p].catchUp \in BOOLEAN /\ pass[p].reruns + 1 \in 0 .. MaxReruns
      BY <1>2, SizeAssumption DEF TypeOK, PassesTyped, PassStates
    <2> QED
      BY <1>2, <2>1, NoPassIs, NoneTyped DEF PassGoes
  <1> QED
    BY <1>1, <1>2 DEF HandlerFails

\* What the steps of the route leave of a pass.
LEMMA RouteIs ==
  ASSUME TypeOK, NEW p \in Passes,
         List(p) \/ Record(p) \/ Kill(p) \/ Purge(p) \/ (\E c \in BOOLEAN : Call(p, c))
  PROVE  \/ UNCHANGED pass
         \/ \E f \in PassStates :
               /\ pass' = [pass EXCEPT ![p] = f]
               /\ \/ f.step \in {"idle", "record"}
                  \/ f.step = "list" /\ f.at = 0
                  \/ pass[p].step = "list" /\ f.step = "serve" /\ f.at = pass[p].at
  <1>1. CASE List(p)
    <2>1. CASE PassGoes(p, [pass[p] EXCEPT !.step = "serve"])
      <3>1. pass[p] \in PassStates
        BY DEF TypeOK, PassesTyped
      <3>2. [pass[p] EXCEPT !.step = "serve"] \in PassStates
            /\ [pass[p] EXCEPT !.step = "serve"].step = "serve"
            /\ [pass[p] EXCEPT !.step = "serve"].at = pass[p].at
        BY <3>1 DEF PassStates
      <3> QED
        BY <1>1, <2>1, <3>2 DEF PassGoes, List
    <2>2. CASE HandlerFails(p)
      BY <2>2, FailedIs
    <2> QED
      BY <1>1, <2>1, <2>2 DEF List
  <1>2. CASE Record(p) \/ Kill(p)
    <2>1. NoPass \in PassStates /\ NoPass.step = "idle"
      BY NoneTyped DEF NoPass
    <2> QED
      BY <1>2, <2>1 DEF Record, Kill, PassGoes
  <1>3. CASE Purge(p)
    <2>1. CASE PassGoes(p, Ended(p, Complete(p)))
      <3>1. Complete(p) \in BOOLEAN /\ PassesTyped
        BY DEF Complete, TypeOK
      <3>2. Ended(p, Complete(p)) \in PassStates /\ Ended(p, Complete(p)).step = "record"
        BY <3>1, EndedIs, EndedTyped
      <3> QED
        BY <2>1, <3>2 DEF PassGoes
    <2> QED
      BY <1>3, <2>1, FailedIs DEF Purge
  <1>4. ASSUME NEW c \in BOOLEAN, Call(p, c)
        PROVE  UNCHANGED pass \/ \E f \in PassStates : /\ pass' = [pass EXCEPT ![p] = f]
                                                       /\ f.step = "list" /\ f.at = 0
    <2> DEFINE f == [NoPass EXCEPT !.step = "list", !.catchUp = c]
    <2>1. f \in PassStates
      BY NoneTyped
    <2>2. f.step = "list" /\ f.at = 0
      BY DEF NoPass
    <2>3. UNCHANGED pass \/ pass' = [pass EXCEPT ![p] = f]
      BY <1>4 DEF Call, PassGoes
    <2> HIDE DEF f
    <2> QED
      BY <2>1, <2>2, <2>3
  <1> QED
    BY <1>1, <1>2, <1>3, <1>4

LEMMA RouteRing ==
  ASSUME TypeOK, RingInv, NEW p \in Passes,
         List(p) \/ Record(p) \/ Kill(p) \/ Purge(p) \/ (\E c \in BOOLEAN : Call(p, c))
  PROVE  RingInv'
  <1>1. UNCHANGED <<served, base>>
    BY DEF List, Record, Kill, Purge, Call, external, history
  <1>2. pass[p].step = "list" => pass[p].at = 0
    BY DEF RingInv
  <1>3. ASSUME NEW q \in Passes
        PROVE  /\ pass'[q].step = "list" => pass'[q].at = 0
               /\ pass'[q].step = "serve" =>
                    \/ pass[q].step = "serve" /\ pass'[q].at = pass[q].at /\ pass'[q].catchUp = pass[q].catchUp
                    \/ pass'[q].at = 0
    <2>1. CASE q # p \/ UNCHANGED pass
      BY <2>1, RouteIs DEF RingInv, TypeOK, PassesTyped
    <2>2. CASE q = p /\ ~ UNCHANGED pass
      BY <1>2, <2>2, RouteIs DEF TypeOK, PassesTyped
    <2> QED
      BY <2>1, <2>2
  <1> QED
    BY <1>1, <1>3, RingKept

LEMMA ServeRing ==
  ASSUME TypeOK, RingInv, NEW p \in Passes, NEW u \in Users, Serve(p, u) PROVE RingInv'
  <1>1. UNCHANGED <<served, base>> /\ pass[p].step = "serve"
    BY ServeContinues
  <1>2. PICK f \in PassStates : pass' = [pass EXCEPT ![p] = f] /\ Continues(f, p)
    BY ServeContinues
  <1>3. \A q \in Passes : pass'[q] = IF q = p THEN f ELSE pass[q]
    BY <1>2 DEF TypeOK, PassesTyped
  <1> QED
    BY <1>1, <1>2, <1>3, RingKept DEF RingInv, Continues

\* A batch that has settled moves its pass on, by no more than itself.
LEMMA NextBatchRing ==
  ASSUME TypeOK, RingInv, NEW p \in Passes, NextBatch(p) PROVE RingInv'
  <1> DEFINE c == pass[p].catchUp
             next == pass[p].at + Concurrency
             n == IF next < N THEN next ELSE N
  <1>1. pass[p].step = "serve" /\ UNCHANGED base /\ served' = [served EXCEPT ![c] = @ \cup Batch(p)]
    BY DEF NextBatch, external
  <1>2. pass[p].at < N /\ Arc(c, pass[p].at) \subseteq served[c]
    BY <1>1 DEF RingInv
  <1>3. n \in 0 .. N /\ Arc(c, pass[p].at) \cup Batch(p) = Arc(c, n)
    BY <1>2, BatchIs
  <1>4. c \in BOOLEAN /\ pass[p] \in PassStates /\ next \in Nat /\ N \in Nat
    BY SizeAssumption DEF TypeOK, PassesTyped, PassStates
  <1>5. served \in [BOOLEAN -> SUBSET Users]
    BY DEF TypeOK, HistoryTyped
  <1>6. served'[c] = served[c] \cup Batch(p) /\ \A d \in BOOLEAN : d # c => served'[d] = served[d]
    BY <1>1, <1>4, <1>5
  <1>7. \A d, m : Arc(d, m)' = Arc(d, m)
    BY <1>1 DEF Arc, Start
  <1>8. Arc(c, n) \subseteq served'[c]
    BY <1>2, <1>3, <1>6
  <1>9. \E m \in 0 .. N : served'[c] = Arc(c, m)
    <2>1. PICK m \in 0 .. N : served[c] = Arc(c, m)
      BY <1>4 DEF RingInv
    <2>2. CASE m <= n
      <3>1. served[c] \subseteq Arc(c, n)
        BY <1>3, <1>4, <2>1, <2>2, ArcWithin
      <3> QED
        BY <1>3, <1>6, <1>8, <3>1
    <2>3. CASE n <= m
      <3>1. Arc(c, n) \subseteq served[c]
        BY <1>3, <1>4, <2>1, <2>3, ArcWithin
      <3> QED
        BY <1>3, <1>6, <2>1, <3>1
    <2> QED
      BY <1>3, <1>4, <2>2, <2>3
  <1>10. PICK f \in PassStates :
            /\ pass' = [pass EXCEPT ![p] = f]
            /\ \/ f.step \in {"record", "purge"}
               \/ next < N /\ f.step = "serve" /\ f.at = next /\ f.catchUp = c
    <2>1. CASE Rejected(p)
      <3>1. FALSE \in BOOLEAN /\ PassesTyped
        BY DEF TypeOK
      <3>2. Ended(p, FALSE) \in PassStates /\ Ended(p, FALSE).step = "record"
        BY <3>1, EndedIs, EndedTyped
      <3> QED
        BY <2>1, <3>2 DEF Rejected, PassGoes
    <2>2. \A g \in PassStates :
            /\ [g EXCEPT !.step = "purge"].step = "purge"
            /\ [g EXCEPT !.step = "purge", !.bad = TRUE].step = "purge"
            /\ [g EXCEPT !.at = next].step = g.step /\ [g EXCEPT !.at = next].at = next
            /\ [g EXCEPT !.at = next].catchUp = g.catchUp
      BY DEF PassStates
    <2>3. CASE PassGoes(p, [pass[p] EXCEPT !.step = "purge"])
      BY <1>4, <2>2, <2>3, FieldsTyped DEF PassGoes
    <2>4. CASE next < N /\ PassGoes(p, [pass[p] EXCEPT !.at = next])
      <3>1. pass[p].step = "serve" /\ pass[p].catchUp = c /\ next \in Nat
        BY <1>4, SizeAssumption DEF NextBatch
      <3>2. [pass[p] EXCEPT !.at = next] \in PassStates
        BY <1>4, <3>1, FieldsTyped
      <3> QED
        BY <1>4, <2>2, <2>4, <3>1, <3>2 DEF PassGoes
    <2>5. CASE PassGoes(p, [pass[p] EXCEPT !.step = "purge", !.bad = TRUE])
      <3>1. TRUE \in BOOLEAN
        OBVIOUS
      <3> QED
        BY <1>4, <2>2, <2>5, <3>1, FieldsTyped DEF PassGoes
    <2>6. next >= N \/ next < N
      BY <1>4
    <2> QED
      BY <2>1, <2>3, <2>4, <2>5, <2>6 DEF NextBatch
  <1>11. \A q \in Passes : pass'[q] = IF q = p THEN f ELSE pass[q]
    BY <1>10 DEF TypeOK, PassesTyped
  <1>12. ASSUME NEW q \in Passes
         PROVE  /\ pass'[q].step = "list" => pass'[q].at = 0
                /\ pass'[q].step = "serve" =>
                     pass'[q].at < N /\ Arc(pass'[q].catchUp, pass'[q].at) \subseteq served'[pass'[q].catchUp]
    <2>1. CASE q # p
      <3>1. pass[q].catchUp \in BOOLEAN
        BY DEF TypeOK, PassesTyped, PassStates
      <3> QED
        BY <1>6, <1>11, <2>1, <3>1 DEF RingInv
    <2>2. CASE q = p
      <3>1. next < N => n = next
        OBVIOUS
      <3> QED
        BY <1>8, <1>10, <1>11, <2>2, <3>1
    <2> QED
      BY <2>1, <2>2
  <1>13. \A d \in BOOLEAN : \E m \in 0 .. N : served'[d] = Arc(d, m)
    BY <1>6, <1>9 DEF RingInv
  <1> HIDE DEF n
  <1> QED
    BY <1>7, <1>12, <1>13 DEF RingInv

LEMMA NextSlotRing == ASSUME TypeOK, RingInv, NextSlot PROVE RingInv'
  <1>1. \A p \in Passes : pass'[p].step = "idle" /\ UNCHANGED pass
    BY DEF NextSlot
  <1>2. CASE CatchUpSlot
    <2>1. served' = [c \in BOOLEAN |-> {}]
      BY <1>2 DEF NextSlot
    <2>2. 0 \in 0 .. N /\ \A c : Arc(c, 0)' = {}
      BY SizeAssumption DEF Arc
    <2> QED
      BY <1>1, <2>1, <2>2 DEF RingInv
  <1>3. CASE ~ CatchUpSlot
    <2>1. UNCHANGED <<served, base>>
      BY <1>3 DEF NextSlot
    <2> QED
      BY <1>1, <2>1, RingKept
  <1> QED
    BY <1>2, <1>3

LEMMA InitRing == Init => RingInv
  <1> SUFFICES ASSUME Init PROVE RingInv
    OBVIOUS
  <1>1. \A p \in Passes : pass[p].step = "idle"
    BY DEF Init, NoPass
  <1>2. 0 \in 0 .. N /\ \A c \in BOOLEAN : served[c] = {}
    BY SizeAssumption DEF Init
  <1> QED
    BY <1>1, <1>2, EmptyArc DEF RingInv

LEMMA NextRing == IInv /\ RingInv /\ [Next]_vars => RingInv'
  <1> SUFFICES ASSUME TypeOK, RingInv, [Next]_vars PROVE RingInv'
    BY DEF IInv
  <1>1. CASE UNCHANGED vars
    <2>1. UNCHANGED <<served, base, pass>>
      BY <1>1 DEF vars, external, history
    <2> QED
      BY <2>1, RingKept DEF RingInv
  <1>2. CASE NextSlot
    BY <1>2, NextSlotRing
  <1>3. ASSUME NEW p \in Passes, (\E c \in BOOLEAN : Call(p, c)) \/ List(p) \/ Purge(p) \/ Record(p) \/ Kill(p)
        PROVE  RingInv'
    BY <1>3, RouteRing
  <1>4. ASSUME NEW p \in Passes, NextBatch(p) PROVE RingInv'
    BY <1>4, NextBatchRing
  <1>5. ASSUME NEW p \in Passes, NEW u \in Users, Serve(p, u) PROVE RingInv'
    BY <1>5, ServeRing
  <1> QED
    BY <1>1, <1>2, <1>3, <1>4, <1>5 DEF Next

\* Two passes of a day that each go through half of the people miss nobody, for any number of
\* people, any batches, and wherever each of them is cut.
THEOREM NobodyMissed == Spec => []HalvesMeet
  <1>1. IInv /\ RingInv => HalvesMeet
    BY RingHalves DEF IInv
  <1> QED
    BY <1>1, InitRing, NextRing, Reachable, PTL DEF Spec

-----------------------------------------------------------------------------
\* What a pass that succeeds has settled

Idle(p) == pass[p].step = "idle"

\* A row that is claimed within its hour, one that its pass holds or has still to claim, and a pass
\* that can no longer succeed.
Fresh(i) == rows[i].status = "pending" /\ ~ rows[i].orphan
Held(p, i) == \E u \in Users : i \in person[p][u].claimed
Awaited(p, i) == \E u \in Users : person[p][u].step = "claim" /\ i \in person[p][u].todo
Lost(p) ==
    \/ pass[p].step = "serve" /\ \E u \in Batch(p) : person[p][u].step = "threw"
    \/ pass[p].step = "record" /\ ~ pass[p].ok

\* Without a second call in the slot, one pass runs;
Sole ==
    /\ \A p, q \in Passes : ~ Idle(p) /\ ~ Idle(q) => p = q
    /\ calls = 0 => \A p \in Passes : Idle(p)

\* a fresh row is one that the running pass holds;
Pursued ==
    \A i \in Items : Fresh(i) => calls # 0 /\ \A p \in Passes : Idle(p) \/ Lost(p) \/ Held(p, i)

\* what a pass has seen is settled, or it holds it, or it will claim it, or it will not succeed;
Owed ==
    \A p \in Passes : \A i \in pass[p].seen :
        Idle(p) \/ Settled(i) \/ pass[p].bad \/ Lost(p) \/ Held(p, i) \/ Awaited(p, i)

\* and it starts without having seen anything, and never succeeds after a failure.
Honest ==
    \A p \in Passes : /\ pass[p].step = "record" /\ pass[p].ok => ~ pass[p].bad
                      /\ pass[p].step = "list" => pass[p].seen = {}

Duty == ~ story.overlap => Sole /\ Pursued /\ Owed /\ Honest

\* The step of a person p, u: C1 says which rows it makes fresh, C2 what remains to do of what was
\* seen.
Pursues(me, r) ==
    \A i \in Items : Fresh(i)' => \/ r.step = "threw" \/ i \in r.claimed
                                  \/ Fresh(i) /\ i \notin me.claimed
Owes(p, me, r, f) ==
    \A i \in f.seen :
        \/ r.step = "threw" \/ f.bad \/ Settled(i)' \/ i \in r.claimed
        \/ r.step = "claim" /\ i \in r.todo
        \/ Fresh(i) /\ i \notin me.claimed
        \/ /\ i \in pass[p].seen /\ i \notin me.claimed /\ ~ (me.step = "claim" /\ i \in me.todo)
           /\ Settled(i) => Settled(i)'

LEMMA DutyStep ==
  ASSUME TypeOK, Duty, NEW p \in Passes, NEW u \in Users, NEW r, NEW f \in PassStates,
         pass[p].step = "serve", u \in Batch(p), person[p][u].step # "threw",
         UNCHANGED <<story, base, calls>>, Continues(f, p),
         person' = [person EXCEPT ![p][u] = r], pass' = [pass EXCEPT ![p] = f],
         Pursues(person[p][u], r), Owes(p, person[p][u], r, f)
  PROVE  Duty'
  <1> SUFFICES ASSUME ~ story.overlap PROVE (Sole /\ Pursued /\ Owed /\ Honest)'
    BY DEF Duty
  <1>1. Sole /\ Pursued /\ Owed /\ Honest
    BY DEF Duty
  <1>2. \A v \in Users : person'[p][v] = IF v = u THEN r ELSE person[p][v]
    BY DEF TypeOK, PassesTyped
  <1>3. pass'[p] = f /\ \A q \in Passes : q # p => pass'[q] = pass[q]
    BY DEF TypeOK, PassesTyped
  <1>4. f.step = "serve" /\ f.at = pass[p].at /\ f.catchUp = pass[p].catchUp /\ (pass[p].bad => f.bad)
    BY DEF Continues
  <1>5. \A q \in Passes : q # p => Idle(q) /\ Idle(q)'
    BY <1>1, <1>3 DEF Sole, Idle
  <1>6. ~ Idle(p) /\ ~ Idle(p)' /\ calls' # 0
    BY <1>1, <1>3, <1>4 DEF Sole, Idle
  <1>7. Batch(p)' = Batch(p)
    BY <1>3, <1>4 DEF Batch, Start
  <1>8. Batch(p) \subseteq Users
    BY BatchPeople
  <1>9. (Lost(p) => Lost(p)') /\ (r.step = "threw" => Lost(p)')
    BY <1>2, <1>3, <1>4, <1>7, <1>8 DEF Lost
  <1>10. \A i : /\ i \in r.claimed => Held(p, i)'
                /\ Held(p, i) /\ i \notin person[p][u].claimed => Held(p, i)'
    BY <1>2 DEF Held
  <1>11. \A i : /\ r.step = "claim" /\ i \in r.todo => Awaited(p, i)'
                /\ Awaited(p, i) /\ ~ (person[p][u].step = "claim" /\ i \in person[p][u].todo)
                     => Awaited(p, i)'
    BY <1>2 DEF Awaited
  <1>12. \A i \in Items : Fresh(i) => Lost(p) \/ Held(p, i)
    BY <1>1, <1>6 DEF Pursued
  <1>13. Sole'
    BY <1>5, <1>6 DEF Sole
  <1>14. Pursued'
    <2> SUFFICES ASSUME NEW i \in Items, Fresh(i)' PROVE Lost(p)' \/ Held(p, i)'
      BY <1>5, <1>6 DEF Pursued
    <2> QED
      BY <1>9, <1>10, <1>12 DEF Pursues
  <1>15. Owed'
    <2> SUFFICES ASSUME NEW i \in f.seen
                 PROVE  Settled(i)' \/ f.bad \/ Lost(p)' \/ Held(p, i)' \/ Awaited(p, i)'
      BY <1>3, <1>5 DEF Owed
    <2>1. i \in Items
      BY DEF PassStates
    <2>2. CASE Fresh(i) /\ i \notin person[p][u].claimed
      BY <1>9, <1>10, <1>12, <2>1, <2>2
    <2>3. CASE /\ i \in pass[p].seen /\ i \notin person[p][u].claimed
               /\ ~ (person[p][u].step = "claim" /\ i \in person[p][u].todo)
               /\ Settled(i) => Settled(i)'
      <3>1. Settled(i) \/ pass[p].bad \/ Lost(p) \/ Held(p, i) \/ Awaited(p, i)
        BY <1>1, <1>6, <2>3 DEF Owed
      <3> QED
        BY <1>4, <1>9, <1>10, <1>11, <2>3, <3>1
    <2> QED
      BY <1>9, <1>10, <1>11, <2>2, <2>3 DEF Owes
  <1>16. Honest'
    <2>1. \A q \in Passes : q # p => pass'[q].step = "idle"
      BY <1>5 DEF Idle
    <2> QED
      BY <1>3, <1>4, <2>1 DEF Honest
  <1> QED
    BY <1>13, <1>14, <1>15, <1>16

\* A step that leaves the rows as they are and keeps or defers what its person holds.
LEMMA SameRows ==
  ASSUME NEW p \in Passes, NEW me, NEW r, NEW f, UNCHANGED rows, me.claimed \subseteq r.claimed,
         \A i \in f.seen : \/ f.bad \/ i \in me.claimed
                           \/ r.step = "claim" /\ i \in r.todo
                           \/ i \in pass[p].seen /\ ~ (me.step = "claim" /\ i \in me.todo)
  PROVE  Pursues(me, r) /\ Owes(p, me, r, f)
  BY DEF Pursues, Owes, Fresh, Settled

LEMMA ThrowsDuty ==
  ASSUME TypeOK, Duty, NEW p \in Passes, NEW u \in Users, Throws(p, u), UNCHANGED pass,
         pass[p].step = "serve", u \in Batch(p), person[p][u].step # "threw",
         UNCHANGED <<story, base, calls>>
  PROVE  Duty'
  <1>1. PICK r \in PersonStates : person' = [person EXCEPT ![p][u] = r] /\ r.step = "threw"
    BY ThrowsPerson
  <1>2. Pursues(person[p][u], r) /\ Owes(p, person[p][u], r, pass[p])
    BY <1>1 DEF Pursues, Owes
  <1> QED
    BY <1>1, <1>2, SameContinues, DutyStep

LEMMA DonePerson ==
  ASSUME NEW p \in Passes, NEW u \in Users, Done(p, u)
  PROVE  \E r \in PersonStates : person' = [person EXCEPT ![p][u] = r] /\ r.claimed = {} /\ r.step = "done"
  BY QuietIs DEF Done, PersonGoes

\* The guard of every step of a person, and what it leaves of the pass.
LEMMA Serves ==
  ASSUME TypeOK, NEW p \in Passes, NEW u \in Users, Serve(p, u)
  PROVE  pass[p].step = "serve" /\ u \in Batch(p) /\ person[p][u].step # "threw"
         /\ UNCHANGED <<story, base, calls>>
  <1>1. person[p][u].step # "threw"
    BY DEF Serve, Works, Detect, Claim, Claimed, Address, Send, MarkSent, MarkFailed
  <1> QED
    BY <1>1, ServeContinues

LEMMA DetectDuty ==
  ASSUME IInv, Duty, NEW p \in Passes, NEW u \in Users, Detect(p, u) PROVE Duty'
  <1> DEFINE mine == {i \in Items : i[1] = u /\ situation[i] # "none"}
             todo == {i \in mine : situation[i] = "due"}
             me == person[p][u]
  <1>1. /\ pass[p].step = "serve" /\ u \in Batch(p) /\ person[p][u].step # "threw"
        /\ UNCHANGED <<story, base, calls>> /\ TypeOK
    BY Serves DEF Serve, IInv
  <1>2. me.claimed = {} /\ me.step = "wait" /\ UNCHANGED rows
    BY DEF Detect, Works, IInv, Batched, Busy
  <1>3. CASE Throws(p, u) /\ UNCHANGED pass
    BY <1>1, <1>3, ThrowsDuty
  <1>4. ASSUME NEW f \in PassStates, PassGoes(p, f), Continues(f, p), f.bad = pass[p].bad,
               f.seen = pass[p].seen \cup todo,
               \/ todo = {} /\ Done(p, u)
               \/ PersonGoes(p, u, [Nobody EXCEPT !.step = "claim", !.todo = todo])
        PROVE  Duty'
    <2>1. PICK r : /\ person' = [person EXCEPT ![p][u] = r]
                   /\ todo = {} \/ (r.step = "claim" /\ r.todo = todo)
      <3>1. CASE todo = {} /\ Done(p, u)
        BY <3>1, DonePerson
      <3>2. CASE PersonGoes(p, u, [Nobody EXCEPT !.step = "claim", !.todo = todo])
        <4> DEFINE r == [Nobody EXCEPT !.step = "claim", !.todo = todo]
        <4>1. r.step = "claim" /\ r.todo = todo
          BY DEF Nobody
        <4> QED
          BY <3>2, <4>1 DEF PersonGoes
      <3> QED
        BY <1>4, <3>1, <3>2
    <2> HIDE DEF todo
    <2>2. Pursues(me, r) /\ Owes(p, me, r, f)
      BY <1>2, <1>4, <2>1, SameRows
    <2> QED
      BY <1>1, <1>4, <2>1, <2>2, DutyStep DEF PassGoes
  <1> QED
    BY <1>1, <1>3, <1>4, DetectPass

LEMMA ClaimDuty ==
  ASSUME IInv, Duty, NEW p \in Passes, NEW u \in Users, Claim(p, u) PROVE Duty'
  <1> DEFINE me == person[p][u]
             After(i) == IF Claimable(i) THEN [rows EXCEPT ![i] = Reserved(i)] ELSE rows
             R(i) == [me EXCEPT !.todo = @ \ {i}, !.claimed = IF Claimable(i) THEN @ \cup {i} ELSE @]
  <1>1. /\ pass[p].step = "serve" /\ u \in Batch(p) /\ person[p][u].step # "threw"
        /\ UNCHANGED <<story, base, calls>> /\ TypeOK
    BY Serves DEF Serve, IInv
  <1>2. me.step = "claim" /\ UNCHANGED pass /\ me \in PersonStates
    BY <1>1, PersonIs DEF Claim, Works
  <1>3. CASE Throws(p, u)
    BY <1>1, <1>2, <1>3, ThrowsDuty
  <1>4. ASSUME NEW j \in MostUrgent(me.todo), rows' = After(j), PersonGoes(p, u, R(j)) PROVE Duty'
    <2> DEFINE r == R(j)
    <2>1. /\ r.step = "claim" /\ r.todo = me.todo \ {j}
          /\ r.claimed = IF Claimable(j) THEN me.claimed \cup {j} ELSE me.claimed
      BY <1>2 DEF PersonStates
    <2>2. person' = [person EXCEPT ![p][u] = r]
      BY <1>4 DEF PersonGoes
    <2>3. j \in Items /\ rows \in [Items -> Rows]
      BY <1>1, <1>2 DEF MostUrgent, PersonStates, TypeOK, RowsTyped, Rows
    <2>4. /\ \A i \in Items : i # j => rows'[i] = rows[i]
          /\ ~ Claimable(j) => rows' = rows
      BY <1>4, <2>3
    <2>5. ~ Claimable(j) => Settled(j) \/ Fresh(j)
      <3>1. /\ rows[j].status \in Statuses /\ rows[j].tries \in 0 .. MaxTries
            /\ MaxTries \in Nat
        BY <2>3, SizeAssumption DEF Rows
      <3> QED
        BY <3>1 DEF Claimable, Settled, Fresh, Statuses
    <2> HIDE DEF r
    <2>6. Pursues(me, r)
      BY <2>1, <2>4 DEF Pursues, Fresh
    <2>7. Owes(p, me, r, pass[p])
      <3> SUFFICES ASSUME NEW i \in pass[p].seen, i \notin r.claimed, i \notin r.todo
                   PROVE  Settled(i)' \/ (Fresh(i) /\ i \notin me.claimed)
                          \/ (i \notin me.todo /\ (Settled(i) => Settled(i)'))
        BY <2>1 DEF Owes
      <3>1. i \in Items
        BY <1>1 DEF TypeOK, PassesTyped, PassStates
      <3>2. CASE i = j
        BY <2>1, <2>4, <2>5, <3>2 DEF Settled
      <3>3. CASE i # j
        BY <2>1, <2>4, <3>1, <3>3 DEF Settled
      <3> QED
        BY <3>2, <3>3
    <2> QED
      BY <1>1, <1>2, <2>2, <2>6, <2>7, SameContinues, DutyStep
  <1> QED
    BY <1>3, <1>4 DEF Claim

LEMMA ClaimedDuty ==
  ASSUME IInv, Duty, NEW p \in Passes, NEW u \in Users, Claimed(p, u) PROVE Duty'
  <1> DEFINE me == person[p][u]
             b == pass[p].bad \/ me.todo # {}
             f == [pass[p] EXCEPT !.bad = b]
  <1>1. /\ pass[p].step = "serve" /\ u \in Batch(p) /\ person[p][u].step # "threw"
        /\ UNCHANGED <<story, base, calls>> /\ TypeOK
    BY Serves DEF Serve, IInv
  <1>2. me.step = "claim" /\ UNCHANGED rows /\ me \in PersonStates
    BY <1>1, PersonIs DEF Claimed, Works
  <1>3. f \in PassStates /\ Continues(f, p) /\ f.bad = b /\ f.seen = pass[p].seen
    <2>1. b \in BOOLEAN /\ (pass[p].bad => b)
      OBVIOUS
    <2> HIDE DEF b
    <2> QED
      BY <1>1, <2>1, BadContinues
  <1>4. pass' = [pass EXCEPT ![p] = f]
    BY DEF Claimed, PassGoes
  <1>5. PICK r : person' = [person EXCEPT ![p][u] = r] /\ r.claimed = me.claimed
    <2>1. CASE me.claimed = {} /\ Done(p, u)
      BY <2>1, DonePerson
    <2>2. CASE PersonGoes(p, u, [me EXCEPT !.step = "address", !.todo = {}])
      <3>1. [me EXCEPT !.step = "address", !.todo = {}].claimed = me.claimed
        BY <1>2 DEF PersonStates
      <3> QED
        BY <2>2, <3>1 DEF PersonGoes
    <2> QED
      BY <2>1, <2>2 DEF Claimed
  <1> HIDE DEF f
  <1>6. Pursues(me, r) /\ Owes(p, me, r, f)
    BY <1>2, <1>3, <1>5, SameRows
  <1> QED
    BY <1>1, <1>3, <1>4, <1>5, <1>6, DutyStep

\* Address and Send keep what the person holds.
LEMMA KeepsDuty ==
  ASSUME IInv, Duty, NEW p \in Passes, NEW u \in Users, Address(p, u) \/ Send(p, u) PROVE Duty'
  <1> DEFINE me == person[p][u]
  <1>1. /\ pass[p].step = "serve" /\ u \in Batch(p) /\ person[p][u].step # "threw"
        /\ UNCHANGED <<story, base, calls>> /\ TypeOK
    BY Serves DEF Serve, IInv
  <1>2. me.step # "claim" /\ UNCHANGED <<rows, pass>> /\ me \in PersonStates
    BY <1>1, PersonIs DEF Address, Send, Works
  <1>3. ASSUME NEW st, NEW S, PersonGoes(p, u, [me EXCEPT !.step = st, !.todo = S])
        PROVE  \E r : person' = [person EXCEPT ![p][u] = r] /\ r.claimed = me.claimed
    <2> DEFINE g == [me EXCEPT !.step = st, !.todo = S]
    <2>1. g.claimed = me.claimed
      BY <1>2 DEF PersonStates
    <2>2. person' = [person EXCEPT ![p][u] = g]
      BY <1>3 DEF PersonGoes
    <2> HIDE DEF g
    <2> QED
      BY <2>1, <2>2
  <1>4. PICK r : person' = [person EXCEPT ![p][u] = r] /\ r.claimed = me.claimed
    <2>1. CASE PersonGoes(p, u, [me EXCEPT !.step = "send"])
      <3>1. [me EXCEPT !.step = "send"].claimed = me.claimed
        BY <1>2 DEF PersonStates
      <3> QED
        BY <2>1, <3>1 DEF PersonGoes
    <2>2. CASE PersonGoes(p, u, [me EXCEPT !.step = "fail", !.todo = me.claimed])
      BY <1>3, <2>2
    <2>3. CASE Send(p, u)
      <3>1. PICK st \in {"mark", "fail"} :
              PersonGoes(p, u, [me EXCEPT !.step = st, !.todo = Group(me.claimed)])
        BY <2>3 DEF Send
      <3> QED
        BY <1>3, <3>1
    <2> QED
      BY <2>1, <2>2, <2>3 DEF Address
  <1>5. Pursues(me, r) /\ Owes(p, me, r, pass[p])
    BY <1>2, <1>4, SameRows
  <1> QED
    BY <1>1, <1>2, <1>4, <1>5, SameContinues, DutyStep

LEMMA MarkSentDuty ==
  ASSUME IInv, Duty, NEW p \in Passes, NEW u \in Users, MarkSent(p, u) PROVE Duty'
  <1> DEFINE me == person[p][u]
  <1>1. /\ pass[p].step = "serve" /\ u \in Batch(p) /\ person[p][u].step # "threw"
        /\ UNCHANGED <<story, base, calls>> /\ TypeOK /\ Hold
    BY Serves DEF Serve, IInv
  <1>2. me.step = "mark" /\ UNCHANGED pass /\ me \in PersonStates /\ me.todo \subseteq me.claimed
    BY <1>1, PersonIs DEF MarkSent, Works, Hold, Marking
  <1>3. rows' \in {rows, Marked(me.todo, "sent")}
    BY DEF MarkSent
  <1>4. \A i \in Items : i \notin me.todo => rows'[i] = rows[i]
    BY <1>1, <1>2, <1>3, MarkingRows
  <1>5. pass[p].seen \subseteq Items
    BY <1>1 DEF TypeOK, PassesTyped, PassStates
  <1>6. PICK r : /\ person' = [person EXCEPT ![p][u] = r]
                 /\ \A i \in me.claimed \cap Items : i \in r.claimed \/ (Settled(i)' /\ ~ Fresh(i)')
    <2>1. CASE NextGroup(p, u) /\ rows' = Marked(me.todo, "sent")
      <3>1. \A i \in me.todo \cap Items : rows'[i].status = "sent"
        <4>1. \A i \in Items : rows[i] \in Rows
          BY <1>1 DEF TypeOK, RowsTyped, Rows
        <4>2. \A x \in Rows : [x EXCEPT !.status = "sent", !.orphan = FALSE].status = "sent"
          BY DEF Rows
        <4> QED
          BY <2>1, <4>1, <4>2 DEF Marked
      <3> QED
        BY <1>1, <2>1, <3>1, NextGroupPerson DEF Settled, Fresh
    <2>2. CASE PersonGoes(p, u, [me EXCEPT !.step = "fail"])
      <3>1. [me EXCEPT !.step = "fail"].claimed = me.claimed
        BY <1>2, PersonFields DEF Steps
      <3> QED
        BY <2>2, <3>1 DEF PersonGoes
    <2> QED
      BY <2>1, <2>2 DEF MarkSent
  <1>7. Pursues(me, r)
    BY <1>2, <1>4, <1>6 DEF Pursues, Fresh
  <1>8. Owes(p, me, r, pass[p])
    BY <1>2, <1>4, <1>5, <1>6 DEF Owes, Settled
  <1> QED
    BY <1>1, <1>2, <1>6, <1>7, <1>8, SameContinues, DutyStep

LEMMA MarkFailedDuty ==
  ASSUME IInv, Duty, NEW p \in Passes, NEW u \in Users, MarkFailed(p, u) PROVE Duty'
  <1> DEFINE me == person[p][u]
             f == [pass[p] EXCEPT !.bad = TRUE]
  <1>1. /\ pass[p].step = "serve" /\ u \in Batch(p) /\ person[p][u].step # "threw"
        /\ UNCHANGED <<story, base, calls>> /\ TypeOK /\ Hold
    BY Serves DEF Serve, IInv
  <1>2. me.step = "fail" /\ me \in PersonStates /\ me.todo \subseteq me.claimed
    BY <1>1, PersonIs DEF MarkFailed, Works, Hold, Marking
  <1>3. CASE Throws(p, u) /\ UNCHANGED pass
    BY <1>1, <1>3, ThrowsDuty
  <1>4. CASE /\ rows' = Marked(me.todo, "failed") /\ NextGroup(p, u)
             /\ PassGoes(p, f)
    <2>1. \A i \in Items : i \notin me.todo => rows'[i] = rows[i]
      BY <1>1, <1>2, <1>4, MarkingRows
    <2>2. \A i \in me.todo \cap Items : rows'[i].status = "failed"
      <3>1. \A i \in Items : rows[i] \in Rows
        BY <1>1 DEF TypeOK, RowsTyped, Rows
      <3>2. \A x \in Rows : [x EXCEPT !.status = "failed", !.orphan = FALSE].status = "failed"
        BY DEF Rows
      <3> QED
        BY <1>4, <3>1, <3>2 DEF Marked
    <2>3. PICK r : person' = [person EXCEPT ![p][u] = r] /\ r.claimed = me.claimed \ me.todo
      BY <1>1, <1>4, NextGroupPerson
    <2>4. f \in PassStates /\ Continues(f, p) /\ f.bad
      <3>1. TRUE \in BOOLEAN
        OBVIOUS
      <3> QED
        BY <1>1, <3>1, BadContinues
    <2>5. Pursues(me, r)
      BY <1>2, <2>1, <2>2, <2>3 DEF Pursues, Fresh
    <2>6. Owes(p, me, r, f)
      BY <2>4 DEF Owes
    <2> QED
      BY <1>1, <1>4, <2>3, <2>4, <2>5, <2>6, DutyStep DEF PassGoes
  <1> QED
    BY <1>3, <1>4 DEF MarkFailed

LEMMA ServeDuty ==
  ASSUME IInv, Duty, NEW p \in Passes, NEW u \in Users, Serve(p, u) PROVE Duty'
  BY DetectDuty, ClaimDuty, ClaimedDuty, KeepsDuty, MarkSentDuty, MarkFailedDuty DEF Serve

\* A pass that is between two batches, or before or after them all, holds nothing any more: what it
\* saw is settled, unless something failed.
LEMMA NothingLeft ==
  ASSUME Batched, Duty, ~ story.overlap, NEW p \in Passes,
         \/ pass[p].step \in {"list", "purge"}
         \/ pass[p].step = "serve" /\ \A u \in Batch(p) : person[p][u].step = "done"
  PROVE  /\ \A i \in Items : ~ Fresh(i)
         /\ \A i \in pass[p].seen : Settled(i) \/ pass[p].bad
  <1>1. ~ Idle(p) /\ ~ Lost(p)
    BY DEF Idle, Lost
  <1>2. \A u \in Users : ~ Busy(p, u)
    BY DEF Batched, Busy
  <1>3. \A i : ~ Held(p, i) /\ ~ Awaited(p, i)
    BY <1>2 DEF Batched, Busy, Held, Awaited
  <1> QED
    BY <1>1, <1>3 DEF Duty, Pursued, Owed

\* A pass that moves on alone, with nothing left, or that cannot succeed any more, or ends.
LEMMA PassDuty ==
  ASSUME TypeOK, Duty, NEW p \in Passes, NEW f, pass' = [pass EXCEPT ![p] = f],
         UNCHANGED <<story, rows>>,
         ~ story.overlap => /\ calls' # 0 /\ \A q \in Passes \ {p} : Idle(q)
                            /\ \/ f.step = "idle"
                               \/ f.step = "record" /\ ~ f.ok
                               \/ /\ \A i \in Items : ~ Fresh(i)
                                  /\ \A i \in f.seen : Settled(i) \/ f.bad
                                  /\ f.step = "record" /\ f.ok => ~ f.bad
                                  /\ f.step = "list" => f.seen = {}
  PROVE  Duty'
  <1> SUFFICES ASSUME ~ story.overlap PROVE (Sole /\ Pursued /\ Owed /\ Honest)'
    BY DEF Duty
  <1>1. pass'[p] = f /\ \A q \in Passes \ {p} : pass'[q] = pass[q]
    BY DEF TypeOK, PassesTyped
  <1>2. calls' # 0 /\ \A q \in Passes \ {p} : Idle(q)' /\ pass'[q].step = "idle"
    BY <1>1 DEF Idle
  <1>3. \A i : (Fresh(i)' <=> Fresh(i)) /\ (Settled(i)' <=> Settled(i))
    BY DEF Fresh, Settled
  <1>4. Sole'
    BY <1>2 DEF Sole
  <1>5. Pursued'
    BY <1>1, <1>2, <1>3 DEF Pursued, Idle, Lost
  <1>6. Owed'
    BY <1>1, <1>2, <1>3 DEF Owed, Idle, Lost
  <1>7. Honest'
    BY <1>1, <1>2 DEF Honest
  <1> QED
    BY <1>4, <1>5, <1>6, <1>7

LEMMA CallDuty ==
  ASSUME TypeOK, Duty, NEW p \in Passes, NEW c \in BOOLEAN, Call(p, c) PROVE Duty'
  <1>1. pass[p].step = "idle" /\ UNCHANGED <<story, rows>> /\ calls' = calls + 1
    BY DEF Call
  <1>2. PICK f : pass' = [pass EXCEPT ![p] = f] /\ (f.step = "idle" \/ (f.step = "list" /\ f.seen = {}))
    <2> DEFINE g == [NoPass EXCEPT !.step = "list", !.catchUp = c]
    <2>1. g.step = "list" /\ g.seen = {}
      BY DEF NoPass
    <2>2. UNCHANGED pass => pass' = [pass EXCEPT ![p] = pass[p]]
      BY DEF TypeOK, PassesTyped
    <2>3. UNCHANGED pass \/ pass' = [pass EXCEPT ![p] = g]
      BY DEF Call, PassGoes
    <2> HIDE DEF g
    <2> QED
      BY <1>1, <2>1, <2>2, <2>3
  <1>3. ASSUME ~ story.overlap
        PROVE  calls' # 0 /\ (\A q \in Passes : Idle(q)) /\ \A i \in Items : ~ Fresh(i)
    BY <1>1, <1>3 DEF Call, Duty, Sole, Pursued
  <1> QED
    BY <1>1, <1>2, <1>3, PassDuty

\* What a step of the route leaves of its pass, when it leaves it running.
LEMMA RouteDuty ==
  ASSUME IInv, Duty, NEW p \in Passes, List(p) \/ Record(p) \/ Kill(p) \/ Purge(p) \/ NextBatch(p)
  PROVE  Duty'
  <1>1. TypeOK /\ Batched
    BY DEF IInv
  <1>2. pass[p] \in PassStates /\ pass[p].step # "idle" /\ UNCHANGED <<story, rows, calls>>
    BY <1>1 DEF TypeOK, PassesTyped, List, Record, Kill, Purge, NextBatch, external
  <1>3. ~ story.overlap => calls' # 0 /\ \A q \in Passes \ {p} : Idle(q)
    BY <1>2 DEF Duty, Sole, Idle
  <1>4. CASE Record(p) \/ Kill(p)
    <2>1. NoPass.step = "idle" /\ PassGoes(p, NoPass)
      BY <1>4 DEF NoPass, Record, Kill
    <2> QED
      BY <1>1, <1>2, <1>3, <2>1, PassDuty DEF PassGoes
  <1>5. CASE (List(p) \/ Purge(p)) /\ HandlerFails(p)
    <2>1. pass[p].step \in {"list", "purge"}
      BY <1>5 DEF List, Purge
    <2>2. PICK f \in PassStates : /\ pass' = [pass EXCEPT ![p] = f]
                                  /\ \/ f.step = "record" /\ ~ f.ok
                                     \/ f.step = "list" /\ f.seen = {}
      BY <1>1, <1>5, FailedIs
    <2> QED
      BY <1>1, <1>2, <1>3, <2>1, <2>2, NothingLeft, PassDuty
  <1>6. CASE List(p) /\ PassGoes(p, [pass[p] EXCEPT !.step = "serve"])
    <2> DEFINE f == [pass[p] EXCEPT !.step = "serve"]
    <2>1. f.step = "serve" /\ f.seen = pass[p].seen
      BY <1>2 DEF PassStates
    <2>2. pass[p].step = "list" /\ pass' = [pass EXCEPT ![p] = f]
      BY <1>6 DEF List, PassGoes
    <2>3. ~ story.overlap => pass[p].seen = {}
      BY <2>2 DEF Duty, Honest
    <2> HIDE DEF f
    <2> QED
      BY <1>1, <1>2, <1>3, <2>1, <2>2, <2>3, NothingLeft, PassDuty
  <1>7. CASE Purge(p) /\ PassGoes(p, Ended(p, Complete(p)))
    <2> DEFINE f == Ended(p, Complete(p))
    <2>1. Complete(p) \in BOOLEAN /\ (Complete(p) => ~ pass[p].bad)
      BY DEF Complete
    <2>2. f.step = "record" /\ f.ok = Complete(p) /\ f.bad = pass[p].bad /\ f.seen = pass[p].seen
      BY <1>1, <2>1, EndedIs
    <2>3. pass[p].step = "purge" /\ pass' = [pass EXCEPT ![p] = f]
      BY <1>7 DEF Purge, PassGoes
    <2> HIDE DEF f
    <2> QED
      BY <1>1, <1>2, <1>3, <2>1, <2>2, <2>3, NothingLeft, PassDuty
  <1>8. CASE NextBatch(p) /\ Rejected(p)
    <2>1. FALSE \in BOOLEAN
      OBVIOUS
    <2>2. Ended(p, FALSE).step = "record" /\ Ended(p, FALSE).ok = FALSE
      BY <1>1, <2>1, EndedIs
    <2> QED
      BY <1>1, <1>2, <1>3, <1>8, <2>2, PassDuty DEF Rejected, PassGoes
  <1>9. CASE NextBatch(p) /\ ~ \E u \in Batch(p) : person[p][u].step = "threw"
    <2> DEFINE next == pass[p].at + Concurrency
    <2>1. pass[p].step = "serve" /\ \A u \in Batch(p) : person[p][u].step = "done"
      BY <1>9 DEF NextBatch
    <2>2. PICK f : /\ pass' = [pass EXCEPT ![p] = f] /\ f.step \in {"serve", "purge"}
                   /\ f.seen = pass[p].seen /\ (pass[p].bad => f.bad)
      <3>1. ASSUME NEW g \in PassStates
            PROVE  /\ [g EXCEPT !.step = "purge"].step = "purge"
                   /\ [g EXCEPT !.step = "purge"].seen = g.seen
                   /\ [g EXCEPT !.step = "purge"].bad = g.bad
                   /\ [g EXCEPT !.step = "purge", !.bad = TRUE].step = "purge"
                   /\ [g EXCEPT !.step = "purge", !.bad = TRUE].seen = g.seen
                   /\ [g EXCEPT !.step = "purge", !.bad = TRUE].bad
                   /\ [g EXCEPT !.at = next].step = g.step
                   /\ [g EXCEPT !.at = next].seen = g.seen
                   /\ [g EXCEPT !.at = next].bad = g.bad
        BY DEF PassStates
      <3>2. \/ PassGoes(p, [pass[p] EXCEPT !.step = "purge"])
            \/ PassGoes(p, [pass[p] EXCEPT !.at = next])
            \/ PassGoes(p, [pass[p] EXCEPT !.step = "purge", !.bad = TRUE])
        BY <1>9 DEF NextBatch
      <3>3. CASE PassGoes(p, [pass[p] EXCEPT !.step = "purge"])
        BY <1>2, <3>1, <3>3 DEF PassGoes
      <3>4. CASE PassGoes(p, [pass[p] EXCEPT !.at = next])
        <4> DEFINE g == [pass[p] EXCEPT !.at = next]
        <4>1. g.step = "serve" /\ g.seen = pass[p].seen /\ g.bad = pass[p].bad
          BY <1>2, <2>1, <3>1
        <4>2. pass' = [pass EXCEPT ![p] = g]
          BY <3>4 DEF PassGoes
        <4> HIDE DEF g
        <4> QED
          BY <4>1, <4>2
      <3>5. CASE PassGoes(p, [pass[p] EXCEPT !.step = "purge", !.bad = TRUE])
        BY <1>2, <3>1, <3>5 DEF PassGoes
      <3> QED
        BY <3>2, <3>3, <3>4, <3>5
    <2> QED
      BY <1>1, <1>2, <1>3, <2>1, <2>2, NothingLeft, PassDuty
  <1> QED
    BY <1>4, <1>5, <1>6, <1>7, <1>8, <1>9 DEF List, Purge, NextBatch

\* A row that is left pending is an orphan in the next slot.
LEMMA NextSlotDuty == ASSUME TypeOK, Duty, NextSlot PROVE Duty'
  <1>1. \A p \in Passes : pass'[p].step = "idle"
    BY DEF NextSlot
  <1>2. \A i \in Items : ~ Fresh(i)'
    <2>1. ASSUME NEW r \in Rows, NEW b \in BOOLEAN
          PROVE  [r EXCEPT !.orphan = b].orphan = b /\ [r EXCEPT !.orphan = b].status = r.status
      BY Zenon DEF Rows
    <2>2. \A i \in Items : /\ rows'[i].orphan = (rows[i].status = "pending")
                           /\ rows'[i].status = rows[i].status
      BY <2>1 DEF NextSlot, TypeOK, RowsTyped, Rows
    <2> QED
      BY <2>2 DEF Fresh
  <1> QED
    BY <1>1, <1>2 DEF Duty, Sole, Pursued, Owed, Honest, Idle, NextSlot

LEMMA InitDuty == Init => Duty
  <1> SUFFICES ASSUME Init PROVE Duty
    OBVIOUS
  <1>1. \A p \in Passes : pass[p].step = "idle"
    BY DEF Init, NoPass
  <1>2. \A i \in Items : rows[i].status = "absent"
    BY DEF Init, NoRow
  <1> QED
    BY <1>1, <1>2 DEF Duty, Sole, Pursued, Owed, Honest, Idle, Fresh

LEMMA NextDuty == IInv /\ Duty /\ [Next]_vars => Duty'
  <1> SUFFICES ASSUME IInv, Duty, [Next]_vars PROVE Duty'
    OBVIOUS
  <1>1. TypeOK
    BY DEF IInv
  <1>2. CASE UNCHANGED vars
    <2>1. UNCHANGED <<story, calls, base, rows, pass, person>>
      BY <1>2 DEF vars, external
    <2> QED
      BY <2>1 DEF Duty, Sole, Pursued, Owed, Honest, Idle, Fresh, Settled, Held, Awaited, Lost, Batch,
         Start
  <1>3. CASE NextSlot
    BY <1>1, <1>3, NextSlotDuty
  <1>4. ASSUME NEW p \in Passes, NEW c \in BOOLEAN, Call(p, c) PROVE Duty'
    BY <1>1, <1>4, CallDuty
  <1>5. ASSUME NEW p \in Passes, List(p) \/ NextBatch(p) \/ Purge(p) \/ Record(p) \/ Kill(p)
        PROVE  Duty'
    BY <1>5, RouteDuty
  <1>6. ASSUME NEW p \in Passes, NEW u \in Users, Serve(p, u) PROVE Duty'
    BY <1>6, ServeDuty
  <1> QED
    BY <1>2, <1>3, <1>4, <1>5, <1>6 DEF Next

\* A pass that succeeds has settled all that it saw, for any people, groups, faults and attempts.
THEOREM SuccessIsComplete == Spec => []SuccessSettles
  <1>1. IInv /\ Duty => SuccessSettles
    <2> SUFFICES ASSUME Batched, Duty, ~ story.overlap, NEW p \in Passes, pass[p].step = "record",
                        pass[p].ok, NEW i \in pass[p].seen
                 PROVE  Settled(i)
      BY DEF IInv, SuccessSettles
    <2>1. ~ Idle(p) /\ ~ Lost(p) /\ ~ pass[p].bad
      BY DEF Idle, Lost, Duty, Honest
    <2>2. ~ Held(p, i) /\ ~ Awaited(p, i)
      BY DEF Batched, Busy, Held, Awaited
    <2> QED
      BY <2>1, <2>2 DEF Duty, Owed
  <1> QED
    BY <1>1, InitDuty, NextDuty, Reachable, PTL DEF Spec
=============================================================================
