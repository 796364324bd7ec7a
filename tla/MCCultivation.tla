----------------------------- MODULE MCCultivation -----------------------------
(***************************************************************************)
(* Values for the constants of Cultivation: two stages that need the same  *)
(* rented material, and a content of the first.  The second begins when    *)
(* the clock has stopped.                                                  *)
(***************************************************************************)
EXTENDS Cultivation

CONSTANTS g1, g2, k1, m1

Stages     == {g1, g2}
Contents   == {k1}
StagesOf   == [k \in {k1} |-> g1]
Begins     == [i \in {g1, g2, k1} |-> IF i = g2 THEN 9 ELSE 2]
MaterialsOf == [g \in {g1, g2} |-> m1]
Stocks     == [m \in {m1} |-> 1]
Accidents  == [b \in BOOLEAN |-> IF b THEN 1 ELSE 0]
===============================================================================
