--------------------------- MODULE MCProductPurchase ---------------------------
(***************************************************************************)
(* Values for the constants of ProductPurchase: a service is inspected on  *)
(* the first day and expires after the second.  Failures are for calls     *)
(* that do not overlap.                                                    *)
(***************************************************************************)
EXTENDS ProductPurchase

Ends == [s \in Service |-> 2]
Accidents == [b \in BOOLEAN |-> IF b THEN 1 ELSE 0]
===============================================================================
