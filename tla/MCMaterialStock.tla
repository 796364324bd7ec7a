-------------------------- MODULE MCMaterialStock --------------------------
(* Instances of MaterialStock for TLC. *)
EXTENDS MaterialStock, TLC

\* Three pieces of each material.
Three == [m \in Material |-> 3]

L(no, m, q) == [no |-> no, m |-> m, q |-> q]

\* Baskets of one line, of two, and of two lines of the same material.
Baskets == {{L(1, m, 2)} : m \in Material}
             \cup {{L(1, m, 1), L(2, m, 2)} : m \in Material}

\* A process that takes one piece.
OneLess == {-1}

SymmDeal == Permutations(Call) \cup Permutations(Order) \cup Permutations(Rental)
===============================================================================
