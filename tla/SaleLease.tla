------------------------------ MODULE SaleLease ------------------------------
(***************************************************************************)
(* What the enrichment queue promises to the sales: a sale is worked on    *)
(* under one lease at a time.  A claim takes a set of free sales under a   *)
(* lease that no sale holds; a lease ends sale by sale, when its work is   *)
(* settled or when it expires; a sale never passes from one lease to the   *)
(* next without being free in between.                                     *)
(***************************************************************************)
CONSTANTS Sales, LeaseIds, NoLease
VARIABLE holder     \* the lease under which each sale is worked on

Init == holder = [s \in Sales |-> NoLease]

Claim(S, lease) ==
    /\ \A s \in Sales : holder[s] # lease
    /\ \A s \in S : holder[s] = NoLease
    /\ holder' = [s \in Sales |-> IF s \in S THEN lease ELSE holder[s]]

End(S) == holder' = [s \in Sales |-> IF s \in S THEN NoLease ELSE holder[s]]

Next == \E S \in SUBSET Sales :
           \/ End(S)
           \/ \E lease \in LeaseIds \ {NoLease} : Claim(S, lease)

Spec == Init /\ [][Next]_holder
=============================================================================
