--------------------------- MODULE RentalLifecycle ---------------------------
(***************************************************************************)
(* What the booking of a land promises the renter and the owner of the     *)
(* platform, without requests, jobs or transactions: the order in which a  *)
(* booking goes through its statuses (BookingStatus of the bookings        *)
(* module), and that the land is granted for money received.               *)
(***************************************************************************)
CONSTANT Booking

VARIABLES phase,   \* where a booking is
          paid     \* bookings whose price, or first instalment, was received

vars == <<phase, paid>>

Phases == {"none", "pending", "pending_contract", "pending_sign",
           "pending_payment", "completed", "expired", "canceled", "rejected"}

Init == /\ phase = [b \in Booking |-> "none"]
        /\ paid = {}

Move(b, from, to) == /\ phase[b] \in from
                     /\ phase' = [phase EXCEPT ![b] = to]
                     /\ paid' = paid

Request(b)  == Move(b, {"none"}, "pending")
Accept(b)   == Move(b, {"pending"}, "pending_contract")
Schedule(b) == Move(b, {"pending_contract"}, "pending_sign")
Sign(b)     == Move(b, {"pending_sign"}, "pending_payment")
Reject(b)   == Move(b, {"pending", "pending_contract"}, "rejected")
Lapse(b)    == Move(b, {"pending_sign"}, "canceled")
Grant(b)    == b \in paid /\ Move(b, {"pending_payment"}, "completed")
End(b)      == Move(b, {"completed"}, "expired")
Inspect(b)  == Move(b, {"expired"}, "completed")

Pay(b) == /\ phase[b] = "pending_payment"
          /\ b \notin paid
          /\ paid' = paid \cup {b}
          /\ phase' = phase

Next == \E b \in Booking :
          \/ Request(b) \/ Accept(b) \/ Schedule(b) \/ Sign(b) \/ Reject(b)
          \/ Lapse(b) \/ Pay(b) \/ Grant(b) \/ End(b) \/ Inspect(b)

Spec == Init /\ [][Next]_vars
===============================================================================
