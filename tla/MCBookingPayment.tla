-------------------------- MODULE MCBookingPayment --------------------------
(* Instances of BookingPayment for TLC. *)
EXTENDS BookingPayment, TLC

P(s, e) == [start |-> s, end |-> e]

\* Periods that overlap, touch, contain one another and lie apart.
SomePeriods == {P(1, 1), P(2, 3), P(3, 4), P(2, 5)}
OverlappingPeriods == {P(1, 2), P(2, 3)}
OnePeriod == {P(1, 1)}
\* A rental that is over within the days of the run, and one that begins after them,
\* of which only the bill is of interest.
NowOrLater == {P(1, 1), P(4, 4)}

\* A rental that ends by the third day goes through its whole life, and its bills through
\* everything that may happen to them; beside another, or of another land or period,
\* it is followed to the day after its start, with one bill of a kind.
Alone == \A b \in Booking : booking[b] # Absent
           => \A o \in Booking \ {b} : /\ booking[o] = Absent
                                       /\ booking[b].end <= 3
InCompany == /\ now <= 1 /\ accidents = 0
             /\ \A t \in Txn : t.no > 1 => txn[t] = Absent
             /\ \A b \in Booking : extended[b] = 0
Followed == Alone \/ InCompany

\* Either one rental that goes through its whole life, or two with a bill each for the
\* list of the hourly job, paid at once, until the day they are overdue.  This is about
\* what is asked for, which of the interchangeable ids it gets, and the clock; nothing
\* that a handler or job goes on to do is cut off.
First == CHOOSE b \in Booking : TRUE
Asked == {booking[b] : b \in {x \in Booking : booking[x] # Absent}}
           \cup {call[c].row : c \in {x \in Call : call[x].op = "insertBooking"}}
OneWholeOrTwoBills ==
  /\ \A r \in Asked : r.start = 4 => ~r.multiple /\ now <= 2
  /\ (\E r \in Asked : r.start = 1) =>
       /\ Cardinality({b \in Booking : booking[b] # Absent})
            + Cardinality({c \in Call : call[c].op = "insertBooking"}) = 1
       /\ \A b \in Booking \ {First} : booking[b] = Absent
  /\ \A c \in Call : call[c].op = "insertBooking" => now = 0

\* Bookings and request slots are interchangeable.
Symm == Permutations(Land) \cup Permutations(Booking) \cup Permutations(Call)
===============================================================================
