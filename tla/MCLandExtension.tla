--------------------------- MODULE MCLandExtension ---------------------------
(* Instances of LandExtension for TLC. *)
EXTENDS LandExtension, TLC

CONSTANTS b1, b2

P(s, e) == [start |-> s, end |-> e]
Body(to, m) == [to |-> to, months |-> m]

\* b2 begins some days after b1 ends: one extend of two days fits between them.
OneAfterTheOther == (b1 :> P(1, 1)) @@ (b2 :> P(4, 5))
Alone == (b1 :> P(1, 3))

\* The branches of updateExtend, for an extend made by createExtend.
Branches == {Body("rejected", 0), Body("pending_sign", 0),
             Body("pending_payment", 0)}
\* With bodies that take an extend back, give it up, complete it, or change its
\* months.
AnyBody == Branches \cup {Body("pending", 0), Body("pending_contract", 1),
                          Body("canceled", 0), Body("completed", 0)}

Symm == Permutations(Call) \cup Permutations(Bill)
===============================================================================
