---------------------------- MODULE LandExtension ----------------------------
(***************************************************************************)
(* The extension of a rental: rows of `extends' and of the transactions    *)
(* that bill them (extends.service.ts, and transactions.service.ts where a *)
(* transaction has purpose extend), for the bookings of one land.          *)
(*                                                                         *)
(* As in BookingPayment a handler reads, checks, and writes after awaits.  *)
(* Here transactions and extends are deleted as well, and the handlers     *)
(* meet the foreign key between them; save of a row that is gone inserts   *)
(* it again.  The bookings are seen from outside: their own handlers       *)
(* (BookingPayment) are one step each, as far as an extend reads them.     *)
(* Ids are never used twice.  price_per_month is one, amounts are months.  *)
(***************************************************************************)
EXTENDS Integers, FiniteSets, FiniteSetsExt, Periods

CONSTANTS
  Booking,        \* the bookings of one land
  Span,           \* the period of each
  Extend,         \* the extend rows there may be
  Bill,           \* the transactions there may be
  Call,           \* the requests that may be in flight together
  Job,            \* checkTransactionIsExpired, run every hour
  Months,         \* the total_month a land renter may ask for
  Put,            \* the bodies sent to updateExtend; months = 0: not given
  Horizon,        \* bound: the last day of the clock
  MaxAccidents,   \* bound: awaits that throw, process deaths
  Serial          \* TRUE: a request starts only when none is in flight

ExtendStatus == {"pending", "pending_contract", "pending_sign",
                 "pending_payment", "completed", "rejected", "canceled"}

ASSUME SpanAssumption == /\ Span \in [Booking -> Period]
                         /\ \A b \in Booking : WellFormed(Span[b])
ASSUME PutAssumption == /\ Months \subseteq Nat
                        /\ Put \subseteq [to: ExtendStatus, months: Nat]
ASSUME ExtendBoundAssumption == /\ Horizon \in Nat /\ MaxAccidents \in Nat
                                /\ Serial \in BOOLEAN
ASSUME JobAssumption == Job \notin Call

VARIABLES
  booking,    \* the status of bookings_land rows
  extend,     \* extends, by extend_id
  txn,        \* transactions of purpose extend, by transaction_id
  work,       \* what each request in flight, and the job, still has to do
  todo,       \* the rest of the job's list
  now,        \* the day
  received,   \* history: the payments saved
  declared,   \* history: the extends a body of updateExtend said were completed
  accidents   \* history: accidents so far

tables == <<booking, extend, txn>>
vars   == <<booking, extend, txn, work, todo, now, received, declared,
            accidents>>

-----------------------------------------------------------------------------
Absent == [status |-> "none"]     \* the id has not been given out
Gone   == [status |-> "gone"]     \* deleted

ExtendRow == [status: ExtendStatus, booking: Booking, months: Nat]
BillRow   == [status: {"approved", "succeed"}, extend: Extend, amount: Nat,
              due: Nat]
Payment   == [bill: Bill, extend: Extend, amount: Nat]

IsThere(row) == row.status \notin {"none", "gone"}

\* The work left to a process.  `row' is to be saved whole; `put' is the body of
\* the request, which the first of two writes sets alone.
Process == Call \cup {Job}
Idle == [op |-> "idle"]
InsertExtend == [op: {"insertExtend"}, row: ExtendRow]
PatchExtend  == [op: {"patch"}, e: Extend, row: ExtendRow, put: Put]
ChargeExtend == [op: {"charge"}, e: Extend, row: ExtendRow, amount: Nat]
SaveExtend   == [op: {"save"}, e: Extend, row: ExtendRow]
Payments     == [op: {"accept"}, t: Bill, row: BillRow]
DeleteBill   == [op: {"deleteBill"}, t: Bill, e: Extend]
OnExtend     == [op: {"settle", "complete", "seek", "deleteExtend"}, e: Extend]
Work == {Idle} \cup InsertExtend \cup PatchExtend \cup ChargeExtend
          \cup SaveExtend \cup Payments \cup DeleteBill \cup OnExtend

TypeOK ==
  /\ booking \in [Booking -> {"none", "pending", "completed", "expired"}]
  /\ extend \in [Extend -> ExtendRow \cup {Absent, Gone}]
  /\ txn \in [Bill -> BillRow \cup {Absent, Gone}]
  /\ work \in [Process -> Work]
  /\ todo \in SUBSET Bill
  /\ now \in Nat
  /\ received \in SUBSET Payment
  /\ declared \in SUBSET Extend
  /\ accidents \in Nat

Init ==
  /\ booking = [b \in Booking |-> "none"]
  /\ extend = [e \in Extend |-> Absent]
  /\ txn = [t \in Bill |-> Absent]
  /\ work = [p \in Process |-> Idle]
  /\ todo = {}
  /\ now = 0
  /\ received = {}
  /\ declared = {}
  /\ accidents = 0

-----------------------------------------------------------------------------
Quiet == todo = {} /\ \A p \in Process : work[p] = Idle

MayStart == Serial => Quiet

Goto(p, w) == work' = [work EXCEPT ![p] = w]

\* A request that arrives, reads, and has w to do: no row has changed yet.
Begin(c, w) ==
  /\ work[c] = Idle
  /\ MayStart
  /\ Goto(c, w)
  /\ UNCHANGED <<tables, todo, now, received, accidents>>

Start(c, w) == Begin(c, w) /\ UNCHANGED declared

\* Bounds: a request that will insert a row starts only when a row is left.
RoomForExtend == Cardinality({c \in Call : work[c].op = "insertExtend"})
                   < Cardinality({e \in Extend : extend[e] = Absent})
RoomForBill == Cardinality({c \in Call : work[c].op = "charge"})
                 < Cardinality({t \in Bill : txn[t] = Absent})

-----------------------------------------------------------------------------
\* createBooking, the payment of its bill, the daily job and the report of a
\* finished rental, as an extend sees them.
ExtendsOf(b) == {e \in Extend : IsThere(extend[e]) /\ extend[e].booking = b}
Completed(b) == {e \in ExtendsOf(b) : extend[e].status = "completed"}

\* The months the daily job adds to time_end.
Extension(b) == MapThenSumSet(LAMBDA e : extend[e].months, Completed(b))
LastDay(b) == Span[b].end + Extension(b)

SetBooking(b, from, to) ==
  /\ booking[b] = from
  /\ MayStart
  /\ booking' = [booking EXCEPT ![b] = to]
  /\ UNCHANGED <<extend, txn, work, todo, now, received, accidents, declared>>

CreateBooking(b) ==
  /\ Span[b].start > now
  /\ \A o \in Booking : booking[o] = "completed"
       => ~Conflicts(Span[o], Span[b]) /\ ~EndsBefore(Span[o], Span[b])
  /\ \A o \in Booking : booking[o] \notin {"none", "pending"}
       => ~EndsBefore(Span[o], Span[b])
  /\ SetBooking(b, "none", "pending")

BookingPaid(b) == SetBooking(b, "pending", "completed")

BookingExpired(b) ==
  /\ Span[b].end <= now /\ LastDay(b) < now
  /\ SetBooking(b, "completed", "expired")

BookingReported(b) == SetBooking(b, "expired", "completed")

-----------------------------------------------------------------------------
Active(e) == extend[e].status \in {"pending", "pending_contract",
                                   "pending_sign", "pending_payment"}

\* Mutant: the second alternative of the query is lost.
TakenAtTheEnd(b, end) ==
  {o \in Booking \ {b} :
     /\ booking[o] # "none"
     /\ Span[o].start <= end /\ Span[o].end >= end}

\* checkExistBookingByTimeAndLand: bookings of the land, of any status, that
\* meet one of its two alternatives for the new end.
TakenUntil(b, end) ==
  {o \in Booking \ {b} :
     /\ booking[o] # "none"
     /\ \/ Span[o].start <= end /\ Span[o].end >= end
        \/ Span[o].start <= end /\ Span[o].end <= end}

\* Mutant: an extend that is still in hand is not looked for.
CreateBesideAnother(c, b, m) ==
  /\ booking[b] = "completed"
  /\ TakenUntil(b, Span[b].end + m) = {}
  /\ RoomForExtend
  /\ Start(c, [op |-> "insertExtend",
               row |-> [status |-> "pending_contract", booking |-> b,
                        months |-> m]])

\* createExtend, down to the save.  A booking with a transaction that has not
\* succeeded (the second instalment never does) is refused: those here have none.
CreateExtend(c, b, m) ==
  /\ \A e \in ExtendsOf(b) : ~Active(e)
  /\ booking[b] = "completed"
  /\ TakenUntil(b, Span[b].end + m) = {}
  /\ RoomForExtend
  /\ Start(c, [op |-> "insertExtend",
               row |-> [status |-> "pending_contract", booking |-> b,
                        months |-> m]])

SaveNewExtend(p) ==
  /\ work[p].op = "insertExtend"
  /\ \E e \in Extend :
       /\ extend[e] = Absent
       /\ extend' = [extend EXCEPT ![e] = work[p].row]
  /\ Goto(p, Idle)
  /\ UNCHANGED <<booking, txn, todo, now, received, accidents, declared>>

\* {...extend, ...data}: the row read, with the columns the body gives.
With(row, put) ==
  [row EXCEPT !.status = put.to,
              !.months = IF put.months = 0 THEN @ ELSE put.months]

\* updateExtend.  Two branches write at once what the last save writes again.
UpdateToPendingContract(c, e, put) ==
  /\ put.to = "pending_contract" /\ put.months # 0
  /\ extend[e].status = "pending"
  /\ Start(c, [op |-> "patch", e |-> e, row |-> With(extend[e], put),
               put |-> put])

UpdateToRejected(c, e, put) ==
  /\ put.to = "rejected"
  /\ extend[e].status \in {"pending", "pending_contract"}
  /\ Start(c, [op |-> "patch", e |-> e, row |-> With(extend[e], put),
               put |-> put])

UpdateToPendingSign(c, e, put) ==
  /\ put.to = "pending_sign"
  /\ extend[e].status = "pending_contract"
  /\ Start(c, [op |-> "save", e |-> e, row |-> With(extend[e], put)])

\* Mutant: an extend that was paid is billed again.
BillCompleted(c, e, put) ==
  /\ put.to = "pending_payment"
  /\ extend[e].status \in {"pending_sign", "completed"}
  /\ RoomForBill
  /\ Start(c, [op |-> "charge", e |-> e, row |-> With(extend[e], put),
               amount |-> extend[e].months])

\* Mutant: the extend is complete when it is signed.
CompleteWhenSigned(c, e, put) ==
  /\ put.to = "pending_payment"
  /\ extend[e].status = "pending_sign"
  /\ RoomForBill
  /\ Start(c, [op |-> "charge", e |-> e,
               row |-> [With(extend[e], put) EXCEPT !.status = "completed"],
               amount |-> extend[e].months])

\* The bill is for the months read, not for those the body may give.
UpdateToPendingPayment(c, e, put) ==
  /\ put.to = "pending_payment"
  /\ extend[e].status = "pending_sign"
  /\ RoomForBill
  /\ Start(c, [op |-> "charge", e |-> e, row |-> With(extend[e], put),
               amount |-> extend[e].months])

\* A status without a branch of its own is saved as it is, completed included.
UpdateUnchecked(c, e, put) ==
  /\ put.to \in {"pending", "completed", "canceled"}
  /\ IsThere(extend[e])
  /\ Begin(c, [op |-> "save", e |-> e, row |-> With(extend[e], put)])
  /\ declared' = IF put.to = "completed" THEN declared \cup {e} ELSE declared

\* extendRepository.update(extend_id, data): no row, nothing to update.
WriteBody(p) ==
  /\ work[p].op = "patch"
  /\ LET e == work[p].e
     IN  extend' = IF IsThere(extend[e])
                   THEN [extend EXCEPT ![e] = With(@, work[p].put)]
                   ELSE extend
  /\ Goto(p, [op |-> "save", e |-> work[p].e, row |-> work[p].row])
  /\ UNCHANGED <<booking, txn, todo, now, received, accidents, declared>>

\* createTransaction: its save fails when the extend is gone, and the request
\* with it.
CreateTransaction(p) ==
  /\ work[p].op = "charge"
  /\ LET e == work[p].e
     IN  IF IsThere(extend[e])
         THEN /\ \E t \in Bill :
                   /\ txn[t] = Absent
                   /\ txn' = [txn EXCEPT ![t] =
                        [status |-> "approved", extend |-> e,
                         amount |-> work[p].amount, due |-> now + 1]]
              /\ Goto(p, [op |-> "save", e |-> e, row |-> work[p].row])
         ELSE Goto(p, Idle) /\ UNCHANGED txn
  /\ UNCHANGED <<booking, extend, todo, now, received, accidents, declared>>

\* The last save of updateExtend.
WriteExtend(p) ==
  /\ work[p].op = "save"
  /\ extend' = [extend EXCEPT ![work[p].e] = work[p].row]
  /\ Goto(p, Idle)
  /\ UNCHANGED <<booking, txn, todo, now, received, accidents, declared>>

-----------------------------------------------------------------------------
\* handleTransactionPayment: the bank channel names a transaction.
HandleTransactionPayment(c, t) ==
  /\ txn[t].status = "approved"
  /\ Start(c, [op |-> "accept", t |-> t,
               row |-> [txn[t] EXCEPT !.status = "succeed"]])

\* The save of a transaction deleted meanwhile inserts it again, if its extend
\* is still there; else it fails.
AcceptPayment(p) ==
  /\ work[p].op = "accept"
  /\ LET t == work[p].t
         row == work[p].row
     IN  IF IsThere(txn[t]) \/ IsThere(extend[row.extend])
         THEN /\ txn' = [txn EXCEPT ![t] = row]
              /\ received' = received \cup
                   {[bill |-> t, extend |-> row.extend, amount |-> row.amount]}
              /\ Goto(p, [op |-> "settle", e |-> row.extend])
         ELSE Goto(p, Idle) /\ UNCHANGED <<txn, received>>
  /\ UNCHANGED <<booking, extend, todo, now, accidents, declared>>

\* Mutant: the extend is looked for one status too early.
SettleWhenSigned(p) ==
  /\ work[p].op = "settle"
  /\ Goto(p, IF extend[work[p].e].status = "pending_sign"
             THEN [op |-> "complete", e |-> work[p].e] ELSE Idle)
  /\ UNCHANGED <<tables, todo, now, received, accidents, declared>>

\* updateExtendToComplete: the check, whose error the bank channel gets.
UpdateExtendToComplete(p) ==
  /\ work[p].op = "settle"
  /\ Goto(p, IF extend[work[p].e].status = "pending_payment"
             THEN [op |-> "complete", e |-> work[p].e] ELSE Idle)
  /\ UNCHANGED <<tables, todo, now, received, accidents, declared>>

SetCompleted(p) ==
  /\ work[p].op = "complete"
  /\ LET e == work[p].e
     IN  extend' = IF IsThere(extend[e])
                   THEN [extend EXCEPT ![e].status = "completed"]
                   ELSE extend
  /\ Goto(p, Idle)
  /\ UNCHANGED <<booking, txn, todo, now, received, accidents, declared>>

-----------------------------------------------------------------------------
\* cancelTransaction, for a user or for the job: the transaction is deleted,
\* then cancelExtend reads the extend and deletes it.
DeleteWork(t) == [op |-> "deleteBill", t |-> t, e |-> txn[t].extend]

CancelTransaction(c, t) ==
  /\ txn[t].status = "approved"
  /\ Start(c, DeleteWork(t))

DeleteTransaction(p) ==
  /\ work[p].op = "deleteBill"
  /\ txn' = [txn EXCEPT ![work[p].t] = Gone]
  /\ Goto(p, [op |-> "seek", e |-> work[p].e])
  /\ UNCHANGED <<booking, extend, todo, now, received, accidents, declared>>

\* Mutant: the extend of a canceled bill is left as it is.
LeaveExtend(p) ==
  /\ work[p].op = "seek"
  /\ Goto(p, Idle)
  /\ UNCHANGED <<tables, todo, now, received, accidents, declared>>

CancelExtend(p) ==
  /\ work[p].op = "seek"
  /\ Goto(p, IF extend[work[p].e].status = "pending_payment"
             THEN [op |-> "deleteExtend", e |-> work[p].e] ELSE Idle)
  /\ UNCHANGED <<tables, todo, now, received, accidents, declared>>

\* Refused by the database, and the error swallowed, when another transaction
\* still refers to the extend.
DeleteExtend(p) ==
  /\ work[p].op = "deleteExtend"
  /\ LET e == work[p].e
     IN  extend' = IF \E t \in Bill : IsThere(txn[t]) /\ txn[t].extend = e
                   THEN extend ELSE [extend EXCEPT ![e] = Gone]
  /\ Goto(p, Idle)
  /\ UNCHANGED <<booking, txn, todo, now, received, accidents, declared>>

Overdue(t) == txn[t].status = "approved" /\ txn[t].due < now

CheckTransactionIsExpired ==
  /\ work[Job] = Idle /\ todo = {}
  /\ MayStart
  /\ \E t \in Bill : Overdue(t)
  /\ todo' = {t \in Bill : Overdue(t)}
  /\ UNCHANGED <<tables, work, now, received, accidents, declared>>

\* Mutant: the job goes through its list and cancels nothing.
SkipNext ==
  /\ work[Job] = Idle
  /\ \E t \in todo : todo' = todo \ {t}
  /\ UNCHANGED <<tables, work, now, received, accidents, declared>>

\* The next of the list; one that is not approved any more throws, and the rest
\* is given up.
CancelNext ==
  /\ work[Job] = Idle
  /\ \E t \in todo :
       IF txn[t].status = "approved"
       THEN todo' = todo \ {t} /\ Goto(Job, DeleteWork(t))
       ELSE todo' = {} /\ UNCHANGED work
  /\ UNCHANGED <<tables, now, received, accidents, declared>>

-----------------------------------------------------------------------------
\* An await throws, or the process dies: what is written stays.  cancelExtend
\* swallows its errors and the job goes on; any other ends the job's list.
Fail(p) ==
  /\ work[p] # Idle
  /\ accidents < MaxAccidents /\ accidents' = accidents + 1
  /\ Goto(p, Idle)
  /\ todo' \in IF p = Job THEN {todo, {}} ELSE {todo}
  /\ UNCHANGED <<tables, now, received, declared>>

Tick ==
  /\ MayStart
  /\ now < Horizon
  /\ now' = now + 1
  /\ UNCHANGED <<tables, work, todo, received, accidents, declared>>

Arrive(c) ==
  \/ \E b \in Booking, m \in Months : CreateExtend(c, b, m)
  \/ \E e \in Extend, put \in Put :
       \/ UpdateToPendingContract(c, e, put) \/ UpdateToRejected(c, e, put)
       \/ UpdateToPendingSign(c, e, put) \/ UpdateToPendingPayment(c, e, put)
       \/ UpdateUnchecked(c, e, put)
  \/ \E t \in Bill : HandleTransactionPayment(c, t) \/ CancelTransaction(c, t)

Continue(p) ==
  \/ SaveNewExtend(p) \/ WriteBody(p) \/ CreateTransaction(p) \/ WriteExtend(p)
  \/ AcceptPayment(p) \/ UpdateExtendToComplete(p) \/ SetCompleted(p)
  \/ DeleteTransaction(p) \/ CancelExtend(p) \/ DeleteExtend(p)

Next ==
  \/ \E b \in Booking : \/ CreateBooking(b) \/ BookingPaid(b)
                        \/ BookingExpired(b) \/ BookingReported(b)
  \/ \E c \in Call : Arrive(c)
  \/ \E p \in Process : Continue(p) \/ Fail(p)
  \/ CheckTransactionIsExpired \/ CancelNext
  \/ Tick

Spec == Init /\ [][Next]_vars

\* As in BookingPayment: what is in flight goes on, the job runs every hour.
Fairness == /\ \A p \in Process : WF_vars(Continue(p))
            /\ WF_vars(CheckTransactionIsExpired \/ CancelNext)

FairSpec == Spec /\ Fairness

-----------------------------------------------------------------------------
PaidFor(e) == \E r \in received : r.extend = e

\* However requests, cancellations and the job interleave, and rows deleted are
\* saved again, a rental is extended by a payment, or because a body of
\* updateExtend said completed, which is saved unchecked; by nothing else.
ExtendedHasCause ==
  \A e \in Extend : extend[e].status = "completed" => PaidFor(e) \/ e \in declared

\* Why it holds: the settling of a payment follows it, and no other work in
\* flight carries a completed row but what such a body left.
ExtendInductive ==
  /\ TypeOK
  /\ ExtendedHasCause
  /\ \A p \in Process :
       /\ work[p].op \in {"settle", "complete"} => PaidFor(work[p].e)
       /\ work[p].op \in {"insertExtend", "patch", "charge"}
            => work[p].row.status # "completed"
       /\ work[p].op = "patch" => work[p].put.to # "completed"
       /\ work[p].op = "save" /\ work[p].row.status = "completed"
            => work[p].e \in declared

\* createExtend (extends.service.ts:67): an extend has to be handled before the
\* next is made.  So it is when requests do not overlap and the statuses follow
\* the branches of updateExtend.
OneExtendInHand ==
  \A d, e \in Extend : d # e /\ Active(d) /\ Active(e)
    => extend[d].booking # extend[e].booking

\* When requests do not overlap, none fails half way and the statuses follow the
\* branches of updateExtend: an extend waits for its payment exactly as long as it
\* has a bill that can be paid or lapse.
BillAndExtendAgree ==
  Quiet /\ accidents = 0
  => \A e \in Extend : extend[e].status = "pending_payment"
       <=> \E t \in Bill : txn[t].status = "approved" /\ txn[t].extend = e

\* When requests do not overlap, none fails half way and the statuses follow the
\* branches of updateExtend: a payment extends the rental.
PaidIsExtended ==
  Quiet /\ accidents = 0
  => \A e \in Extend : PaidFor(e) => extend[e].status = "completed"

\* When requests do not overlap and the statuses follow the branches of
\* updateExtend: a completed extend stays as it is, so the day the daily job
\* computes for the end of a rental only moves on.  A body that says canceled, or
\* any status without a branch, would take it back.
CompletedStays ==
  [][\A e \in Extend : extend[e].status = "completed"
                         => extend'[e] = extend[e]]_vars

\* When requests do not overlap, the statuses follow the branches of updateExtend
\* and only the renter changes the months: what was paid is the price of the months
\* the rental is extended by.
PaidForItsMonths ==
  \A e \in Extend : extend[e].status = "completed"
    => \E r \in received : r.extend = e /\ r.amount = extend[e].months

\* When requests do not overlap and the statuses follow the branches of
\* updateExtend: money extends the rental, by what it is the price of.
PaymentExtends == PaidIsExtended /\ PaidForItsMonths

Meets(b, months, o) ==
  Overlap([start |-> Span[b].start, end |-> Span[b].end + months], Span[o])

\* When requests do not overlap and the statuses follow the branches of
\* updateExtend: no completed extend runs, on its own, into another rental of the
\* land, whenever that was booked.
ExtendIsFree ==
  \A e \in Extend, o \in Booking :
    /\ extend[e].status = "completed"
    /\ o # extend[e].booking /\ booking[o] # "none"
    => ~Meets(extend[e].booking, extend[e].months, o)

\* When requests do not overlap and the statuses follow the branches of
\* updateExtend: an extend nobody pays for does not stand in the way of the next
\* one for ever, unless an accident ends what would delete it.
UnpaidExtendCloses ==
  \A e \in Extend :
    (\E t \in Bill : Overdue(t) /\ txn[t].extend = e)
      ~> extend[e].status # "pending_payment" \/ accidents > 0
===============================================================================
