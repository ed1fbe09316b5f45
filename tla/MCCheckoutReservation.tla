---------------------- MODULE MCCheckoutReservation ----------------------
(* The instances of CheckoutReservation that TLC checks.  Requests are      *)
(* interchangeable: no definition chooses among them.                       *)
EXTENDS CheckoutReservation, TLC

Interchangeable == Permutations(Requests)
=============================================================================
