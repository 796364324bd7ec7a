------------------------------- MODULE Periods -------------------------------
(***************************************************************************)
(* Rental periods and the date conditions the services put in their        *)
(* queries.  Dates are integers; a period is a record with the dates       *)
(* `start' and `end', both part of it, as the inclusive operators of the   *)
(* queries (LessThanOrEqual, MoreThanOrEqual) have it.                     *)
(***************************************************************************)
EXTENDS Integers

Period == [start: Int, end: Int]

WellFormed(p) == p.start <= p.end

\* What it means for two periods to share a date; the reference definition
\* the query of createBooking is compared with.
Overlap(p, q) == p.start <= q.end /\ q.start <= p.end

\* Mutant: the alternative for a rental that begins during the request is lost.
ConflictsButLast(p, q) ==
  \/ p.start >= q.start /\ p.end <= q.end
  \/ p.start <= q.start /\ p.end >= q.end
  \/ p.start <= q.start /\ p.end >= q.start

\* The four WHERE alternatives of createBooking's first query: booked period p
\* against the requested period q.
Conflicts(p, q) ==
  \/ p.start >= q.start /\ p.end <= q.end
  \/ p.start <= q.start /\ p.end >= q.end
  \/ p.start <= q.start /\ p.end >= q.start
  \/ p.start <= q.end   /\ p.end >= q.end

\* The date condition of createBooking's last query, and of the query for the
\* previous booking: p is over when q begins.
EndsBefore(p, q) == p.end <= q.start
===============================================================================
