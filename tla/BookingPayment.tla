--------------------------- MODULE BookingPayment ---------------------------
(***************************************************************************)
(* The rental of a land: rows of bookings_land and transactions, the       *)
(* handlers that change them (bookings.service.ts, transactions.service.   *)
(* ts, the report and refund of a finished rental) and the two cron jobs.  *)
(*                                                                         *)
(* No handler uses a database transaction: each reads a row, checks it,    *)
(* and writes later, after an await, so anything may run in between.  A    *)
(* request in flight is call[c]: the work it still has to do, with the row *)
(* it has read.  save({...row}) writes every column back as it was read.   *)
(* Consecutive reads of a handler are one step, and so is one SQL          *)
(* statement.  A request a guard refuses changes nothing and is left out,  *)
(* with the guards on roles, reasons and amounts: the request modelled is  *)
(* one its author may make.  Notifications, mail and logs are left out;    *)
(* that one of them may throw is Fail.                                     *)
(***************************************************************************)
EXTENDS Integers, FiniteSets, Periods

CONSTANTS
  Booking,        \* the booking rows there may be
  Land,           \* lands that have a staff (others refuse every booking)
  Call,           \* the requests that may be in flight together
  RentPeriod,     \* the periods a land renter may ask for
  LongTerm,       \* the length from which two instalments are allowed
  Horizon,        \* bound: the last day of the clock
  MaxCopies,      \* bound: transactions of one kind for one booking
  MaxExtend,      \* bound: days the completed extends add to a booking
  MaxAccidents,   \* bound: awaits that throw, process deaths, code collisions
  Serial          \* TRUE: a request starts only when none is in flight

ASSUME RentPeriodAssumption == /\ RentPeriod \subseteq Period
                               /\ \A p \in RentPeriod : WellFormed(p)
ASSUME BoundAssumption == /\ LongTerm \in Nat /\ Horizon \in Nat
                          /\ MaxCopies \in Nat /\ MaxExtend \in Nat
                          /\ MaxAccidents \in Nat
ASSUME SerialAssumption == Serial \in BOOLEAN

VARIABLES
  booking,      \* bookings_land, by booking_id
  txn,          \* transactions, by transaction_id
  landStatus,   \* the status column of lands
  request,      \* the status of the report_land request of a booking
  extended,     \* days added by the completed extends of a booking
  call,         \* requests in flight
  daily,        \* checkBookingIsExpired, run every day
  hourly,       \* checkTransactionIsExpired, run every hour
  now,          \* the day
  accepted,     \* history: payment messages accepted for a transaction
  accidents     \* history: accidents so far

rows  == <<booking, txn, landStatus, request, extended>>
jobs  == <<daily, hourly>>
vars  == <<booking, txn, landStatus, request, extended, call, daily, hourly,
           now, accepted, accidents>>

-----------------------------------------------------------------------------
BookingStatus == {"pending", "pending_contract", "pending_sign",
                  "pending_payment", "completed", "expired", "canceled",
                  "rejected"}

NoDate == -1

BookingRow == [status: BookingStatus, land: Land, start: Int, end: Int,
               multiple: BOOLEAN, sched: Int, contract: BOOLEAN]

\* A transaction is named by its booking, what it is for, and a number.
\* "bill" is the whole price or the first instalment, "second" the second
\* instalment, "refund" the deposit handed back.  Bill and refund are saved
\* with purpose booking_land; the second instalment is saved with none and
\* gets the column's default, order.
Kind == {"bill", "second", "refund"}
Txn  == [booking: Booking, kind: Kind, no: 1 .. MaxCopies]

TransactionStatus == {"pending", "approved", "succeed", "expired"}
TxnRow == [status: TransactionStatus, due: Int]

Absent == [status |-> "none"]           \* there is no such row

RequestStatus == {"none", "pending", "pending_approval", "completed",
                  "rejected"}

\* The work left to a request in flight.
Idle == [op |-> "idle"]
InsertBooking  == [op: {"insertBooking"}, row: BookingRow]
MarkLand       == [op: {"markLand"}, land: Land]
SaveBooking    == [op: {"saveBooking"}, b: Booking, row: BookingRow,
                   then: {"done", "bill", "fileReport"}]
OnBooking      == [op: {"bill", "second", "settle", "fileReport", "refund"},
                   b: Booking]
CloseRequest   == [op: {"closeRequest"}, b: Booking,
                   to: {"completed", "rejected"}]
OnTxn          == [op: {"acceptPayment", "expireTxn", "confirmRefund"}, t: Txn]
Work == {Idle} \cup InsertBooking \cup MarkLand \cup SaveBooking
          \cup OnBooking \cup CloseRequest \cup OnTxn

\* checkBookingIsExpired: `cancel' are the rows read by its first query that
\* are still to be saved, `expire' the ids of its second list, `report' those
\* set to expired whose report request is still to be made.
Snapshot == [b: Booking, row: BookingRow]
DailyIdle == [pc |-> "idle", cancel |-> {}, expire |-> {}, report |-> {}]
Daily == [pc: {"idle", "listing"}, cancel: SUBSET Snapshot,
          expire: SUBSET Booking, report: SUBSET Booking]

\* checkTransactionIsExpired: `todo' is the rest of its list, `cur' holds the
\* transaction cancelTransaction has read and not yet written.
HourlyIdle == [todo |-> {}, cur |-> {}]
Hourly == [todo: SUBSET Txn, cur: SUBSET Txn]

TypeOK ==
  /\ booking \in [Booking -> BookingRow \cup {Absent}]
  /\ txn \in [Txn -> TxnRow \cup {Absent}]
  /\ landStatus \in [Land -> {"free", "booked"}]
  /\ request \in [Booking -> RequestStatus]
  /\ extended \in [Booking -> Nat]
  /\ call \in [Call -> Work]
  /\ daily \in Daily
  /\ hourly \in Hourly
  /\ now \in Nat
  /\ accepted \in [Txn -> Nat]
  /\ accidents \in Nat

Init ==
  /\ booking = [b \in Booking |-> Absent]
  /\ txn = [t \in Txn |-> Absent]
  /\ landStatus = [l \in Land |-> "free"]
  /\ request = [b \in Booking |-> "none"]
  /\ extended = [b \in Booking |-> 0]
  /\ call = [c \in Call |-> Idle]
  /\ daily = DailyIdle
  /\ hourly = HourlyIdle
  /\ now = 0
  /\ accepted = [t \in Txn |-> 0]
  /\ accidents = 0

-----------------------------------------------------------------------------
Quiet == /\ \A c \in Call : call[c] = Idle
         /\ daily = DailyIdle
         /\ hourly = HourlyIdle

MayStart == Serial => Quiet

Goto(c, work) == call' = [call EXCEPT ![c] = work]

\* A request that arrives, reads, and has `work' to do: no row has changed yet.
Start(c, work) ==
  /\ call[c] = Idle
  /\ MayStart
  /\ Goto(c, work)
  /\ UNCHANGED <<rows, jobs, now, accepted, accidents>>

Save(b, row, then) == [op |-> "saveBooking", b |-> b, row |-> row, then |-> then]

\* Bounds: a request that will insert a row starts only when a row is left.
RoomForBooking ==
  Cardinality({c \in Call : call[c].op = "insertBooking"})
    < Cardinality({b \in Booking : booking[b] = Absent})
Free(b, kind) == {t \in Txn : t.booking = b /\ t.kind = kind /\ txn[t] = Absent}
FirstFree(b, kind) == {t \in Free(b, kind) : \A u \in Free(b, kind) : t.no <= u.no}
Billing(b) == {c \in Call : \/ call[c].op = "bill" /\ call[c].b = b
                            \/ /\ call[c].op = "saveBooking" /\ call[c].b = b
                               /\ call[c].then = "bill"}
RoomForBill(b) == Cardinality(Billing(b)) < Cardinality(Free(b, "bill"))
Refunding(b) == {c \in Call : call[c].op = "refund" /\ call[c].b = b}
RoomForRefund(b) == Cardinality(Refunding(b)) < Cardinality(Free(b, "refund"))

\* createBooking, down to the save.  A previous completed booking sends it into
\* createRequestExtend, which cannot insert its row (price_per_month is not
\* null and not given) and throws; the last query refuses the same requests.
CreateBooking(c, l, p, multiple) ==
  /\ p.start > now
  /\ \A b \in Booking : booking[b].status = "completed" /\ booking[b].land = l
       => ~Conflicts(booking[b], p) /\ ~EndsBefore(booking[b], p)
  /\ \A b \in Booking : booking[b].status \notin {"none", "pending", "rejected"}
       => ~(booking[b].land = l /\ EndsBefore(booking[b], p))
  /\ multiple => p.end - p.start >= LongTerm
  /\ RoomForBooking
  /\ Start(c, [op |-> "insertBooking",
               row |-> [status |-> "pending", land |-> l, start |-> p.start,
                        end |-> p.end, multiple |-> multiple,
                        sched |-> NoDate, contract |-> FALSE]])

\* createBooking: the save of the new row.
SaveNewBooking(c) ==
  /\ call[c].op = "insertBooking"
  /\ \E b \in Booking :
       /\ booking[b] = Absent
       /\ booking' = [booking EXCEPT ![b] = call[c].row]
  /\ Goto(c, [op |-> "markLand", land |-> call[c].row.land])
  /\ UNCHANGED <<txn, landStatus, request, extended, jobs, now, accepted,
                 accidents>>

\* createBooking: updateLandStatus, after the notifications and the mail.
UpdateLandStatus(c) ==
  /\ call[c].op = "markLand"
  /\ landStatus' = [landStatus EXCEPT ![call[c].land] = "booked"]
  /\ Goto(c, Idle)
  /\ UNCHANGED <<booking, txn, request, extended, jobs, now, accepted,
                 accidents>>

\* Mutant: a booking is signed before it has an appointment.
SignedUnscheduled(c, b) ==
  /\ booking[b].status \in {"pending_contract", "pending_sign"}
  /\ RoomForBill(b)
  /\ Start(c, Save(b, [booking[b] EXCEPT !.status = "pending_payment",
                                         !.contract = TRUE], "bill"))

\* The four strategies of updateStatusBookingStrategy: the row read, checked,
\* and to be saved with the new status.
UpdateStatusToPendingContract(c, b) ==
  /\ booking[b].status = "pending"
  /\ Start(c, Save(b, [booking[b] EXCEPT !.status = "pending_contract"], "done"))

UpdateStatusToPendingSign(c, b) ==
  /\ booking[b].status = "pending_contract"
  /\ Start(c, Save(b, [booking[b] EXCEPT !.status = "pending_sign",
                                         !.sched = now + 2], "done"))

UpdateStatusToPendingPayment(c, b) ==
  /\ booking[b].status = "pending_sign"
  /\ RoomForBill(b)
  /\ Start(c, Save(b, [booking[b] EXCEPT !.status = "pending_payment",
                                         !.contract = TRUE], "bill"))

UpdateStatusToRejected(c, b) ==
  /\ booking[b].status \in {"pending", "pending_contract"}
  /\ Start(c, Save(b, [booking[b] EXCEPT !.status = "rejected"], "done"))

\* bookingRepository.save({...booking_exist}): every column, as it was read.
WriteBooking(c) ==
  /\ call[c].op = "saveBooking"
  /\ booking' = [booking EXCEPT ![call[c].b] = call[c].row]
  /\ Goto(c, IF call[c].then = "done" THEN Idle
             ELSE [op |-> call[c].then, b |-> call[c].b])
  /\ UNCHANGED <<txn, landStatus, request, extended, jobs, now, accepted,
                 accidents>>

-----------------------------------------------------------------------------
Insert(t, row) == txn' = [txn EXCEPT ![t] = row]
SetStatus(t, status) == txn' = [txn EXCEPT ![t].status = status]

\* createTransactionPaymentBookingLand: the bill, or the first instalment.
SaveBill(c) ==
  /\ call[c].op = "bill"
  /\ \E t \in FirstFree(call[c].b, "bill") :
       Insert(t, [status |-> "approved", due |-> now + 1])
  /\ Goto(c, IF booking[call[c].b].multiple
             THEN [op |-> "second", b |-> call[c].b] ELSE Idle)
  /\ UNCHANGED <<booking, landStatus, request, extended, jobs, now, accepted,
                 accidents>>

\* The second instalment.  Nothing reads its expired_at while it is pending.
SaveSecondInstalment(c) ==
  /\ call[c].op = "second"
  /\ \E t \in FirstFree(call[c].b, "second") :
       Insert(t, [status |-> "pending", due |-> now])
  /\ Goto(c, Idle)
  /\ UNCHANGED <<booking, landStatus, request, extended, jobs, now, accepted,
                 accidents>>

\* The code drawn for the second instalment is taken: the whole function runs
\* again, and the first instalment it has saved stays.
RestartOnDuplicateCode(c) ==
  /\ call[c].op = "second"
  /\ accidents < MaxAccidents /\ accidents' = accidents + 1
  /\ RoomForBill(call[c].b)
  /\ Goto(c, [op |-> "bill", b |-> call[c].b])
  /\ UNCHANGED <<rows, jobs, now, accepted>>

\* Mutant: a message delivered again is handled again.
HandleRedelivered(c, t) ==
  /\ txn[t].status \in {"approved", "succeed"}
  /\ Start(c, [op |-> "acceptPayment", t |-> t])

\* handleTransactionPayment: a message of the bank channel with the code and the
\* price of t, for a payment or (nothing looks at the type) for a refund.
HandleTransactionPayment(c, t) ==
  /\ txn[t].status = "approved"
  /\ Start(c, [op |-> "acceptPayment", t |-> t])

AcceptPayment(c) ==
  /\ call[c].op = "acceptPayment"
  /\ SetStatus(call[c].t, "succeed")
  /\ accepted' = [accepted EXCEPT ![call[c].t] = @ + 1]
  /\ Goto(c, [op |-> "settle", b |-> call[c].t.booking])
  /\ UNCHANGED <<booking, landStatus, request, extended, jobs, now, accidents>>

\* Mutant: the payment is looked for one status too early.
SettleAtSigning(c) ==
  /\ call[c].op = "settle"
  /\ LET b == call[c].b
     IN  Goto(c, IF booking[b].status = "pending_sign"
                 THEN Save(b, [booking[b] EXCEPT !.status = "completed"], "done")
                 ELSE Idle)
  /\ UNCHANGED <<rows, jobs, now, accepted, accidents>>

\* updateStatusToCompleted: the read and the check, whose error
\* handlePaymentBookingLand swallows.
UpdateStatusToCompleted(c) ==
  /\ call[c].op = "settle"
  /\ LET b == call[c].b
     IN  Goto(c, IF booking[b].status = "pending_payment"
                 THEN Save(b, [booking[b] EXCEPT !.status = "completed"], "done")
                 ELSE Idle)
  /\ UNCHANGED <<rows, jobs, now, accepted, accidents>>

\* Mutant: cancelTransaction without its check of the status.
CancelAnyTransaction(c, t) ==
  /\ txn[t] # Absent
  /\ Start(c, [op |-> "expireTxn", t |-> t])

\* cancelTransaction by a user.  Every transaction here that can be approved
\* has purpose booking_land: its status is set, nothing else happens.
CancelTransaction(c, t) ==
  /\ txn[t].status = "approved"
  /\ Start(c, [op |-> "expireTxn", t |-> t])

ExpireTransaction(c) ==
  /\ call[c].op = "expireTxn"
  /\ SetStatus(call[c].t, "expired")
  /\ Goto(c, Idle)
  /\ UNCHANGED <<booking, landStatus, request, extended, jobs, now, accepted,
                 accidents>>

\* updateRefundTransactionToConfirm.
UpdateRefundTransactionToConfirm(c, t) ==
  /\ t.kind = "refund" /\ txn[t].status = "approved"
  /\ Start(c, [op |-> "confirmRefund", t |-> t])

SaveRefundConfirmed(c) ==
  /\ call[c].op = "confirmRefund"
  /\ SetStatus(call[c].t, "succeed")
  /\ Goto(c, Idle)
  /\ UNCHANGED <<booking, landStatus, request, extended, jobs, now, accepted,
                 accidents>>

-----------------------------------------------------------------------------
\* Mutant: a report needs no request.
ReportUnrequested(c, b) ==
  /\ booking[b] # Absent
  /\ Start(c, Save(b, [booking[b] EXCEPT !.status = "completed"], "fileReport"))

\* createReport on the report_land request of b; nothing asks for its status.
\* updateBookingByReport saves the booking it has read as completed.
CreateReport(c, b) ==
  /\ request[b] # "none"
  /\ Start(c, Save(b, [booking[b] EXCEPT !.status = "completed"], "fileReport"))

UpdateRequestStatus(c) ==
  /\ call[c].op = "fileReport"
  /\ request' = [request EXCEPT ![call[c].b] = "pending_approval"]
  /\ Goto(c, Idle)
  /\ UNCHANGED <<booking, txn, landStatus, extended, jobs, now, accepted,
                 accidents>>

\* assignTask, at any time, and startTask: the request is with its staff again.
\* The statuses assigned and in_progress count as pending here: nothing in these
\* handlers tells them apart.
AssignTask(b) ==
  /\ MayStart
  /\ request[b] # "none"
  /\ request' = [request EXCEPT ![b] = "pending"]
  /\ UNCHANGED <<booking, txn, landStatus, extended, call, jobs, now, accepted,
                 accidents>>

\* approveTask: the task is sent for approval, with a report or without.
ApproveTask(c, b) ==
  /\ request[b] = "pending"
  /\ Start(c, [op |-> "fileReport", b |-> b])

\* Mutant: a request is confirmed without a report on it.
ConfirmUnreported(c, b, outcome) ==
  /\ outcome = "completed" => RoomForRefund(b)
  /\ Start(c, IF outcome = "completed" THEN [op |-> "refund", b |-> b]
              ELSE [op |-> "closeRequest", b |-> b, to |-> outcome])

\* confirmRequest: the refund comes before the request is closed.
ConfirmRequest(c, b, outcome) ==
  /\ request[b] = "pending_approval"
  /\ outcome = "completed" => RoomForRefund(b)
  /\ Start(c, IF outcome = "completed" THEN [op |-> "refund", b |-> b]
              ELSE [op |-> "closeRequest", b |-> b, to |-> outcome])

CreateRefundBooking(c) ==
  /\ call[c].op = "refund"
  /\ \E t \in FirstFree(call[c].b, "refund") :
       Insert(t, [status |-> "approved", due |-> now + 1])
  /\ Goto(c, [op |-> "closeRequest", b |-> call[c].b, to |-> "completed"])
  /\ UNCHANGED <<booking, landStatus, request, extended, jobs, now, accepted,
                 accidents>>

SaveRequestClosed(c) ==
  /\ call[c].op = "closeRequest"
  /\ request' = [request EXCEPT ![call[c].b] = call[c].to]
  /\ Goto(c, Idle)
  /\ UNCHANGED <<booking, txn, landStatus, extended, jobs, now, accepted,
                 accidents>>

\* updateExtendToComplete of the extends service, as far as a booking sees it:
\* an extend is created for a completed booking, and is completed by its payment
\* (or by updateExtend), which may come after the booking was set to expired.
CompleteExtend(b) ==
  /\ MayStart
  /\ booking[b].status \in {"completed", "expired"}
  /\ extended[b] < MaxExtend
  /\ extended' = [extended EXCEPT ![b] = @ + 1]
  /\ UNCHANGED <<booking, txn, landStatus, request, call, jobs, now, accepted,
                 accidents>>

-----------------------------------------------------------------------------
\* The daily job.  Its two lists are read one after the other; the saves of
\* each are started together and nobody waits for them.
ScheduleOver(b) == booking[b].status = "pending_sign" /\ booking[b].sched <= now
RentOver(b) == booking[b].status = "completed"
               /\ booking[b].end <= now /\ booking[b].end + extended[b] < now

ListExpiredSchedule ==
  /\ daily = DailyIdle
  /\ MayStart
  /\ \E b \in Booking : ScheduleOver(b) \/ RentOver(b)
  /\ daily' = [daily EXCEPT !.pc = "listing",
                 !.cancel = {[b |-> b, row |-> booking[b]] :
                               b \in {x \in Booking : ScheduleOver(x)}}]
  /\ UNCHANGED <<rows, call, hourly, now, accepted, accidents>>

CancelBooking ==
  /\ \E s \in daily.cancel :
       /\ booking' = [booking EXCEPT ![s.b] = [s.row EXCEPT !.status = "canceled"]]
       /\ daily' = [daily EXCEPT !.cancel = @ \ {s}]
  /\ UNCHANGED <<txn, landStatus, request, extended, call, hourly, now,
                 accepted, accidents>>

ListExpired ==
  /\ daily.pc = "listing"
  /\ daily' = [daily EXCEPT !.pc = "idle",
                            !.expire = {b \in Booking : RentOver(b)}]
  /\ UNCHANGED <<rows, call, hourly, now, accepted, accidents>>

ExpireBooking ==
  /\ \E b \in daily.expire :
       /\ booking' = [booking EXCEPT ![b].status = "expired"]
       /\ daily' = [daily EXCEPT !.expire = @ \ {b}, !.report = @ \cup {b}]
  /\ UNCHANGED <<txn, landStatus, request, extended, call, hourly, now,
                 accepted, accidents>>

CreateRequestReportLand ==
  /\ \E b \in daily.report :
       /\ request' = [request EXCEPT ![b] = IF @ = "none" THEN "pending" ELSE @]
       /\ daily' = [daily EXCEPT !.report = @ \ {b}]
  /\ UNCHANGED <<booking, txn, landStatus, extended, call, hourly, now,
                 accepted, accidents>>

\* The hourly job: a list, and cancelTransaction for each, one at a time.
Overdue(t) == txn[t].status = "approved" /\ txn[t].due < now /\ t.kind # "refund"

CheckTransactionIsExpired ==
  /\ hourly = HourlyIdle
  /\ MayStart
  /\ \E t \in Txn : Overdue(t)
  /\ hourly' = [hourly EXCEPT !.todo = {t \in Txn : Overdue(t)}]
  /\ UNCHANGED <<rows, call, daily, now, accepted, accidents>>

\* Mutant: the job tries the bill it threw at again, instead of giving up its list.
RetryNext ==
  /\ hourly.cur = {}
  /\ \E t \in hourly.todo :
       hourly' = IF txn[t].status = "approved"
                 THEN [todo |-> hourly.todo \ {t}, cur |-> {t}]
                 ELSE [todo |-> {t}, cur |-> {}]
  /\ UNCHANGED <<rows, call, daily, now, accepted, accidents>>

\* cancelTransaction throws for one that is no longer approved, and the rest
\* of the list is given up with it.
CancelNext ==
  /\ hourly.cur = {}
  /\ \E t \in hourly.todo :
       hourly' = IF txn[t].status = "approved"
                 THEN [todo |-> hourly.todo \ {t}, cur |-> {t}]
                 ELSE HourlyIdle
  /\ UNCHANGED <<rows, call, daily, now, accepted, accidents>>

ExpireNext ==
  /\ \E t \in hourly.cur :
       /\ SetStatus(t, "expired")
       /\ hourly' = [hourly EXCEPT !.cur = {}]
  /\ UNCHANGED <<booking, landStatus, request, extended, call, daily, now,
                 accepted, accidents>>

-----------------------------------------------------------------------------
\* An await of a request throws (a query, a mail, a notification), or the
\* process dies: what the request has written stays, the rest is not done.
Accident == accidents < MaxAccidents /\ accidents' = accidents + 1

Fail(c) ==
  /\ call[c] # Idle
  /\ Accident
  /\ Goto(c, Idle)
  /\ UNCHANGED <<rows, jobs, now, accepted>>

FailDaily ==
  /\ daily # DailyIdle
  /\ Accident
  /\ daily' = DailyIdle
  /\ UNCHANGED <<rows, call, hourly, now, accepted>>

FailHourly ==
  /\ hourly # HourlyIdle
  /\ Accident
  /\ hourly' = HourlyIdle
  /\ UNCHANGED <<rows, call, daily, now, accepted>>

Tick ==
  /\ MayStart
  /\ now < Horizon
  /\ now' = now + 1
  /\ UNCHANGED <<rows, call, jobs, accepted, accidents>>

Arrive(c) ==
  \/ \E l \in Land, p \in RentPeriod, m \in BOOLEAN : CreateBooking(c, l, p, m)
  \/ \E b \in Booking : \/ UpdateStatusToPendingContract(c, b)
                        \/ UpdateStatusToPendingSign(c, b)
                        \/ UpdateStatusToPendingPayment(c, b)
                        \/ UpdateStatusToRejected(c, b)
                        \/ CreateReport(c, b) \/ ApproveTask(c, b)
                        \/ \E o \in {"completed", "rejected"} :
                             ConfirmRequest(c, b, o)
  \/ \E t \in Txn : \/ HandleTransactionPayment(c, t)
                    \/ CancelTransaction(c, t)
                    \/ UpdateRefundTransactionToConfirm(c, t)

\* The next step of a request in flight.
Continue(c) ==
  \/ SaveNewBooking(c) \/ UpdateLandStatus(c)
  \/ WriteBooking(c)
  \/ SaveBill(c) \/ SaveSecondInstalment(c) \/ RestartOnDuplicateCode(c)
  \/ AcceptPayment(c) \/ UpdateStatusToCompleted(c)
  \/ ExpireTransaction(c) \/ SaveRefundConfirmed(c)
  \/ UpdateRequestStatus(c) \/ CreateRefundBooking(c) \/ SaveRequestClosed(c)

DailyJob == \/ ListExpiredSchedule \/ CancelBooking \/ ListExpired
            \/ ExpireBooking \/ CreateRequestReportLand

HourlyJob == CheckTransactionIsExpired \/ CancelNext \/ ExpireNext

Next ==
  \/ \E c \in Call : Arrive(c) \/ Continue(c) \/ Fail(c)
  \/ \E b \in Booking : AssignTask(b) \/ CompleteExtend(b)
  \/ DailyJob \/ HourlyJob \/ FailDaily \/ FailHourly
  \/ Tick

Spec == Init /\ [][Next]_vars

\* A request in flight goes on (the event loop runs it, the database answers),
\* and @nestjs/schedule runs the two jobs again and again.
Fairness == /\ \A c \in Call : WF_vars(Continue(c))
            /\ WF_vars(DailyJob)
            /\ WF_vars(HourlyJob)

FairSpec == Spec /\ Fairness

-----------------------------------------------------------------------------
Bills(b) == {t \in Txn : t.booking = b /\ t.kind = "bill"}
PaidFor(b) == \E t \in Bills(b) : accepted[t] > 0
Granted == {"completed", "expired"}

\* However requests and jobs interleave and fail, a land is rented out (or was)
\* only to a renter whose bill was accepted: the report that sets a booking to
\* completed again cannot reach one that never was.
GrantedWasPaid ==
  \A b \in Booking : booking[b].status \in Granted => PaidFor(b)

\* No deposit is handed back for a booking nobody paid for, whatever order
\* report, confirmation and payment are handled in.
RefundWasPaid ==
  \A t \in Txn : t.kind = "refund" /\ txn[t] # Absent => PaidFor(t.booking)

\* Why the two hold: work in flight, and the lists of the jobs, only ever name
\* rows that exist, and whatever may grant a land, report on it or refund it is
\* work for a booking that was paid; the second instalment is never touched.
Present(b) == booking[b] # Absent
Payable(t) == t.kind # "second" /\ txn[t] # Absent

Legit(w) ==
  /\ w.op \in {"acceptPayment", "expireTxn", "confirmRefund"} => Payable(w.t)
  /\ w.op \in {"saveBooking", "fileReport", "refund", "closeRequest"}
       => Present(w.b)
  /\ w.op \in {"settle", "fileReport", "refund", "closeRequest"}
       => PaidFor(w.b)
  /\ w.op = "insertBooking" => w.row.status = "pending"
  /\ w.op = "saveBooking" /\ (w.row.status \in Granted \/ w.then = "fileReport")
       => PaidFor(w.b)

Inductive ==
  /\ TypeOK
  /\ \A c \in Call : Legit(call[c])
  /\ \A s \in daily.cancel : Present(s.b)
  /\ \A b \in daily.expire \cup daily.report : Present(b) /\ PaidFor(b)
  /\ \A t \in hourly.todo \cup hourly.cur : Payable(t)
  /\ \A b \in Booking : request[b] # "none" => Present(b) /\ PaidFor(b)
  /\ \A t \in Txn : t.kind = "second" => txn[t].status \in {"none", "pending"}
  /\ GrantedWasPaid
  /\ RefundWasPaid

\* When requests do not overlap: the booking a bill was made for is signed and
\* is not canceled by the daily job, rejected, or sent back afterwards.
BilledBookingStands ==
  \A t \in Txn : t.kind = "bill" /\ txn[t] # Absent
    => /\ booking[t.booking].status \in {"pending_payment"} \cup Granted
       /\ booking[t.booking].contract

\* When requests do not overlap, a transaction takes the renter's money once.
AcceptedOnce == \A t \in Txn : accepted[t] <= 1

\* When requests do not overlap and none fails half way, a renter whose bill was
\* accepted has the land as soon as the handlers are done.
PaidIsGranted ==
  Quiet /\ accidents = 0
  => \A b \in Booking : PaidFor(b) => booking[b].status \in Granted

\* When requests do not overlap: a bill has a signed booking, and money has a land.
BillAndBookingAgree == BilledBookingStands /\ PaidIsGranted

\* When requests do not overlap, money received stays on the books and a bill
\* that lapsed is never accepted: succeed and expired are final.
SettledStays ==
  [][\A t \in Txn : txn[t].status \in {"succeed", "expired"}
                      => txn'[t].status = txn[t].status]_vars

\* When requests do not overlap, a booking row that appears ends before every
\* rental then granted on its land begins: createBooking's two queries together
\* leave no date during a granted rental, nor any after it.
NewBookingIsClear ==
  [][\A b, o \in Booking :
       /\ booking[b] = Absent /\ booking'[b] # Absent
       /\ booking[o].status = "completed" /\ booking[o].land = booking'[b].land
       => /\ ~Overlap(booking[o], booking'[b])
          /\ booking'[b].end < booking[o].start]_vars

\* When requests do not overlap, the tables do what a rental promises: seen
\* through the status column and the bills accepted, every step of a handler or
\* job, and every accident, is a step of the lifecycle or none.
Lifecycle == INSTANCE RentalLifecycle
               WITH phase <- [b \in Booking |-> booking[b].status],
                    paid  <- {b \in Booking : PaidFor(b)}
FollowsLifecycle == Lifecycle!Spec

\* createBooking (bookings.service.ts:88, 118): a land is not booked twice for
\* the same time.
NoDoubleBooking ==
  \A b, o \in Booking :
    b # o /\ booking[b].status = "completed" /\ booking[o].status = "completed"
    => ~(booking[b].land = booking[o].land /\ Overlap(booking[b], booking[o]))

\* The hourly job closes every bill that is overdue, though a bill of its list that
\* is paid or canceled under its feet, or an accident, makes it give up the rest.
OverdueBillCloses ==
  \A t \in Txn : Overdue(t) ~> txn[t].status # "approved"

\* A renter who does not come to sign loses the booking, or has signed it.
MissedScheduleCloses ==
  \A b \in Booking : ScheduleOver(b) ~> booking[b].status # "pending_sign"

\* Unless an accident comes between, a rental that is over has its report request
\* in the end, the only way its deposit comes back; no job looks for an expired
\* booking without one.
ExpiredGetsReport ==
  \A b \in Booking : booking[b].status = "expired"
                       ~> request[b] # "none" \/ accidents > 0

\* Both jobs, under every interleaving and whatever accident: nothing that has lapsed
\* stays open, and what ended unharmed is inspected.
JobsKeepUp == OverdueBillCloses /\ MissedScheduleCloses /\ ExpiredGetsReport

\* createTransactionPaymentBookingLand (transactions.service.ts:120, 132): the
\* second instalment is collected later, so it has to become payable.
SecondInstalmentBecomesPayable ==
  \A t \in Txn : txn[t].status = "pending" ~> txn[t].status = "approved"
===============================================================================
