-------------------------- MODULE MCStripeWebhooks --------------------------
(* The stories of StripeWebhooks that TLC plays.  One subscription: with    *)
(* its own events only, with a refund or a lost dispute, and with every     *)
(* reversal.  Two subscriptions: the events of one second in any order, and *)
(* a new subscription that starts while events of the old one are late.     *)
EXTENDS StripeWebhooks

Ordinary == [subs |-> 1, events |-> 3, faults |-> 1, sameSecond |-> FALSE, inTurn |-> FALSE,
             reversals |-> {}, rowFirst |-> FALSE]

Refunds ==
    {[Ordinary EXCEPT !.rowFirst = TRUE, !.reversals = {"refunded", "dispute_created", "dispute_lost"}],
     [Ordinary EXCEPT !.events = 4, !.faults = 0, !.rowFirst = TRUE,
                      !.reversals = {"dispute_created", "dispute_lost"}],
     [Ordinary EXCEPT !.reversals = ReversalKinds]}

Renewals ==
    {[Ordinary EXCEPT !.subs = 2, !.faults = 0, !.sameSecond = TRUE],
     [Ordinary EXCEPT !.subs = 2, !.inTurn = TRUE]}

AllStories == {Ordinary} \cup Renewals \cup Refunds

Disputed == {[Ordinary EXCEPT !.faults = 0, !.rowFirst = TRUE,
                              !.reversals = {"dispute_created"}]}
=============================================================================
