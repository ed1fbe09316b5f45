------------------------- MODULE MCEnrichmentQueue -------------------------
(* The instances of EnrichmentQueue that TLC checks.  Workers, requests and  *)
(* sales are interchangeable: no definition chooses among them except to     *)
(* read the stamp that all live rows of a sale share.  So are the revisions: *)
(* the one that an absent row is given is never read.                        *)
EXTENDS EnrichmentQueue, TLC

Interchangeable ==
    Permutations(Workers) \cup Permutations(Requests) \cup Permutations(Sales)
        \cup Permutations(Revisions)
=============================================================================
