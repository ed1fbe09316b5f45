-------------------------- MODULE MCSaleReminders ---------------------------
(* Three people in batches of two: one with a warning and a hearing, another *)
(* with a hearing, one with nothing.  All the reminders with one fault; those *)
(* of the first with two faults, deferred, in two e-mails, or in passes that *)
(* overlap; the warning alone with one fault in passes that overlap.         *)
EXTENDS SaleReminders, TLC

Hearings == {<<0, 2>>, <<1, 2>>}
Warning == {<<0, 1>>}
Two == Warning \cup {<<0, 2>>}
AllItems == Two \cup Hearings

OnFirstDay == [i \in Hearings |-> 0]

Alone == [overlap |-> FALSE, items |-> AllItems, group |-> 2, emails |-> 1, faults |-> 1]
AllStories ==
    {Alone,
     [Alone EXCEPT !.items = Two, !.faults = 2],
     [Alone EXCEPT !.items = Two, !.group = 1],
     [Alone EXCEPT !.items = Two, !.group = 1, !.emails = 2],
     [Alone EXCEPT !.items = Two, !.overlap = TRUE, !.faults = 0],
     [Alone EXCEPT !.items = Warning, !.overlap = TRUE]}

Interchangeable == Permutations(Passes)
=============================================================================
