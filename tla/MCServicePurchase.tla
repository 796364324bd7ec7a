--------------------------- MODULE MCServicePurchase ---------------------------
(***************************************************************************)
(* Values for the constants of ServicePurchase: a service that takes the   *)
(* whole land for a day, one that takes half of it for two, and one that   *)
(* outlasts the rental.                                                    *)
(***************************************************************************)
EXTENDS ServicePurchase

Offers == {[acreage |-> 2, end |-> 0], [acreage |-> 1, end |-> 1],
           [acreage |-> 1, end |-> 2]}
===============================================================================
