------------------------ MODULE BookingPaymentProofs ------------------------
(***************************************************************************)
(* Proofs about Periods and BookingPayment, for every value of the         *)
(* constants: any number of bookings, requests in flight and accidents.    *)
(***************************************************************************)
EXTENDS BookingPayment, TLAPS

\* The four WHERE alternatives of createBooking's first query miss no period
\* that shares a date with the one asked for, and match no other.
THEOREM ConflictsIsOverlap ==
  ASSUME NEW p \in Period, NEW q \in Period, WellFormed(p), WellFormed(q)
  PROVE  Conflicts(p, q) <=> Overlap(p, q)
BY DEF Period, WellFormed, Conflicts, Overlap

\* What createBooking's two queries leave of a granted rental p for a request
\* q: it has to end before p begins.
THEOREM OnlyEarlierPeriodsAreLeft ==
  ASSUME NEW p \in Period, NEW q \in Period, WellFormed(p), WellFormed(q)
  PROVE  ~Conflicts(p, q) /\ ~EndsBefore(p, q) <=> q.end < p.start
BY DEF Period, WellFormed, Conflicts, EndsBefore

-----------------------------------------------------------------------------
\* Rows are never deleted and accepted payments never forgotten.
Grows ==
  /\ \A b \in Booking : Present(b) => Present(b)'
  /\ \A t \in Txn : txn[t] # Absent => (txn[t] # Absent)'
  /\ \A t \in Txn : accepted[t] > 0 => accepted'[t] > 0

LEMMA PaidForStays ==
  ASSUME NEW b \in Booking, Grows, PaidFor(b)
  PROVE  PaidFor(b)'
BY DEF Grows, PaidFor, Bills

\* Work that was legitimate when it was put in flight stays so.
LEMMA LegitStays ==
  ASSUME NEW w \in Work, Grows, Legit(w)
  PROVE  Legit(w)'
<1>1. w.op \in {"acceptPayment", "expireTxn", "confirmRefund"} => Payable(w.t)'
  BY DEF Legit, Payable, Grows, Work, Idle, InsertBooking, MarkLand,
         SaveBooking, OnBooking, CloseRequest, OnTxn
<1>2. w.op \in {"saveBooking", "settle", "fileReport", "refund",
                "closeRequest"} => w.b \in Booking
  BY DEF Work, Idle, InsertBooking, MarkLand, SaveBooking, OnBooking,
         CloseRequest, OnTxn
<1>3. w.op \in {"saveBooking", "fileReport", "refund", "closeRequest"}
        => Present(w.b)'
  BY <1>2 DEF Legit, Grows
<1>4. w.op \in {"settle", "fileReport", "refund", "closeRequest"}
        => PaidFor(w.b)'
  BY <1>2, PaidForStays DEF Legit
<1>5. w.op = "saveBooking" /\ (w.row.status \in Granted \/ w.then = "fileReport")
        => PaidFor(w.b)'
  BY <1>2, PaidForStays DEF Legit
<1>6. w.op = "insertBooking" => w.row.status = "pending"
  BY DEF Legit
<1> QED BY <1>1, <1>3, <1>4, <1>5, <1>6 DEF Legit

\* The part of the invariant about the request slots.
CallsOK == /\ call \in [Call -> Work]
           /\ \A c \in Call : Legit(call[c])

\* A slot is given legitimate work, or becomes idle.
LEMMA GotoKeepsCalls ==
  ASSUME NEW c \in Call, NEW w \in Work, CallsOK, Grows, Legit(w)', Goto(c, w)
  PROVE  CallsOK'
<1>1. call' \in [Call -> Work]
  BY DEF CallsOK, Goto
<1>2. ASSUME NEW d \in Call PROVE Legit(call[d])'
  <2>1. CASE d = c
    <3>1. call'[d] = w  BY <2>1 DEF CallsOK, Goto
    <3> QED BY <3>1 DEF Legit, Present, Payable, PaidFor, Bills
  <2>2. CASE d # c
    <3>1. call'[d] = call[d] /\ call[d] \in Work /\ Legit(call[d])
      BY <2>2 DEF CallsOK, Goto
    <3>2. PICK v \in Work : v = call[d]
      BY <3>1
    <3>3. Legit(v)'
      BY <3>1, <3>2, LegitStays
    <3> QED BY <3>1, <3>2, <3>3 DEF Legit, Present, Payable, PaidFor, Bills
  <2> QED BY <2>1, <2>2
<1> QED BY <1>1, <1>2 DEF CallsOK

\* The rest of the invariant: the tables, the jobs, and what was paid.
TablesOK ==
  /\ booking \in [Booking -> BookingRow \cup {Absent}]
  /\ txn \in [Txn -> TxnRow \cup {Absent}]
  /\ landStatus \in [Land -> {"free", "booked"}]
  /\ request \in [Booking -> RequestStatus]
  /\ extended \in [Booking -> Nat]
  /\ now \in Nat
  /\ accepted \in [Txn -> Nat]
  /\ accidents \in Nat

JobsOK ==
  /\ daily \in Daily
  /\ hourly \in Hourly
  /\ \A s \in daily.cancel : Present(s.b)
  /\ \A b \in daily.expire \cup daily.report : Present(b) /\ PaidFor(b)
  /\ \A t \in hourly.todo \cup hourly.cur : Payable(t)

MoneyOK ==
  /\ \A b \in Booking : request[b] # "none" => Present(b) /\ PaidFor(b)
  /\ \A t \in Txn : t.kind = "second" => txn[t].status \in {"none", "pending"}
  /\ GrantedWasPaid
  /\ RefundWasPaid

LEMMA InductiveParts == Inductive <=> TablesOK /\ CallsOK /\ JobsOK /\ MoneyOK
BY DEF Inductive, TypeOK, TablesOK, CallsOK, JobsOK, MoneyOK

LEMMA JobsStay ==
  ASSUME JobsOK, Grows, UNCHANGED jobs
  PROVE  JobsOK'
<1>1. daily' = daily /\ hourly' = hourly
  BY DEF jobs
<1>2. \A s \in daily.cancel : s.b \in Booking /\ Present(s.b)'
  BY DEF JobsOK, Daily, Snapshot, Grows
<1>3. \A b \in daily.expire \cup daily.report :
        b \in Booking /\ Present(b)' /\ PaidFor(b)'
  BY PaidForStays DEF JobsOK, Daily, Grows
<1>4. \A t \in hourly.todo \cup hourly.cur : Payable(t)'
  BY DEF JobsOK, Hourly, Payable, Grows
<1> QED BY <1>1, <1>2, <1>3, <1>4 DEF JobsOK

\* No table changes: requests that arrive, and everything that only plans.
LEMMA MoneyStays ==
  ASSUME MoneyOK, UNCHANGED <<rows, accepted>>
  PROVE  MoneyOK' /\ Grows
BY DEF MoneyOK, rows, Grows, Present, PaidFor, Bills, GrantedWasPaid,
       RefundWasPaid

LEMMA StartKeepsInductive ==
  ASSUME NEW c \in Call, NEW w \in Work, Inductive, Legit(w), Start(c, w)
  PROVE  Inductive'
<1>1. TablesOK /\ CallsOK /\ JobsOK /\ MoneyOK
  BY InductiveParts
<1>2. UNCHANGED <<rows, jobs, now, accepted, accidents>> /\ Goto(c, w)
  BY DEF Start
<1>3. MoneyOK' /\ Grows
  BY <1>1, <1>2, MoneyStays
<1>4. TablesOK'
  BY <1>1, <1>2 DEF TablesOK, rows
<1>5. JobsOK'
  BY <1>1, <1>2, <1>3, JobsStay
<1>6. CallsOK'
  BY <1>1, <1>2, <1>3, LegitStays, GotoKeepsCalls
<1> QED BY <1>3, <1>4, <1>5, <1>6 DEF Inductive, TypeOK, TablesOK, CallsOK,
        JobsOK, MoneyOK

LEMMA ArriveKeepsInductive ==
  ASSUME NEW c \in Call, Inductive, Arrive(c)
  PROVE  Inductive'
<1>1. ASSUME NEW l \in Land, NEW p \in RentPeriod, NEW m \in BOOLEAN,
             CreateBooking(c, l, p, m)
      PROVE  Inductive'
  <2> DEFINE w == [op |-> "insertBooking",
                   row |-> [status |-> "pending", land |-> l,
                            start |-> p.start, end |-> p.end, multiple |-> m,
                            sched |-> NoDate, contract |-> FALSE]]
  <2>1. p.start \in Int /\ p.end \in Int
    BY RentPeriodAssumption DEF Period
  <2>2. w \in Work /\ Legit(w)
    BY <2>1 DEF Work, InsertBooking, BookingRow, BookingStatus, NoDate, Legit
  <2>3. Start(c, w)
    BY <1>1 DEF CreateBooking
  <2> QED BY <2>2, <2>3, StartKeepsInductive
<1>2. ASSUME NEW b \in Booking, NEW row \in BookingRow,
             NEW then \in {"done", "bill", "fileReport"}, Present(b),
             row.status \in Granted \/ then = "fileReport" => PaidFor(b),
             Start(c, Save(b, row, then))
      PROVE  Inductive'
  <2>1. Save(b, row, then) \in Work
    BY DEF Save, Work, SaveBooking
  <2>2. Legit(Save(b, row, then))
    BY <1>2 DEF Legit, Save, Present
  <2> QED BY <1>2, <2>1, <2>2, StartKeepsInductive
<1>3. ASSUME NEW b \in Booking, Present(b)
      PROVE  booking[b] \in BookingRow
  BY <1>3, InductiveParts DEF TablesOK, Present
<1>4. ASSUME NEW b \in Booking, UpdateStatusToPendingContract(c, b)
      PROVE  Inductive'
  <2>1. Present(b)
    BY <1>4 DEF UpdateStatusToPendingContract, Present, Absent
  <2> DEFINE row == [booking[b] EXCEPT !.status = "pending_contract"]
  <2>2. row \in BookingRow /\ row.status = "pending_contract"
    BY <2>1, <1>3 DEF BookingRow, BookingStatus
  <2> QED BY <1>2, <1>4, <2>1, <2>2 DEF UpdateStatusToPendingContract, Granted
<1>5. ASSUME NEW b \in Booking, UpdateStatusToPendingSign(c, b)
      PROVE  Inductive'
  <2>1. Present(b)
    BY <1>5 DEF UpdateStatusToPendingSign, Present, Absent
  <2> DEFINE row == [booking[b] EXCEPT !.status = "pending_sign", !.sched = now + 2]
  <2>2. now + 2 \in Int
    BY InductiveParts DEF TablesOK
  <2>3. row \in BookingRow /\ row.status = "pending_sign"
    BY <2>1, <2>2, <1>3 DEF BookingRow, BookingStatus
  <2> QED BY <1>2, <1>5, <2>1, <2>3 DEF UpdateStatusToPendingSign, Granted
<1>6. ASSUME NEW b \in Booking, UpdateStatusToPendingPayment(c, b)
      PROVE  Inductive'
  <2>1. Present(b)
    BY <1>6 DEF UpdateStatusToPendingPayment, Present, Absent
  <2> DEFINE row == [booking[b] EXCEPT !.status = "pending_payment", !.contract = TRUE]
  <2>2. row \in BookingRow /\ row.status = "pending_payment"
    BY <2>1, <1>3 DEF BookingRow, BookingStatus
  <2> QED BY <1>2, <1>6, <2>1, <2>2 DEF UpdateStatusToPendingPayment, Granted
<1>7. ASSUME NEW b \in Booking, UpdateStatusToRejected(c, b)
      PROVE  Inductive'
  <2>1. Present(b)
    BY <1>7 DEF UpdateStatusToRejected, Present, Absent
  <2> DEFINE row == [booking[b] EXCEPT !.status = "rejected"]
  <2>2. row \in BookingRow /\ row.status = "rejected"
    BY <2>1, <1>3 DEF BookingRow, BookingStatus
  <2> QED BY <1>2, <1>7, <2>1, <2>2 DEF UpdateStatusToRejected, Granted
<1>8. ASSUME NEW b \in Booking, CreateReport(c, b)
      PROVE  Inductive'
  <2>1. Present(b) /\ PaidFor(b)
    BY <1>8, InductiveParts DEF CreateReport, MoneyOK
  <2> DEFINE row == [booking[b] EXCEPT !.status = "completed"]
  <2>2. row \in BookingRow
    BY <2>1, <1>3 DEF BookingRow, BookingStatus
  <2> QED BY <1>2, <1>8, <2>1, <2>2 DEF CreateReport
<1>9. ASSUME NEW b \in Booking, ApproveTask(c, b)
      PROVE  Inductive'
  <2> DEFINE w == [op |-> "fileReport", b |-> b]
  <2>1. Present(b) /\ PaidFor(b)
    BY <1>9, InductiveParts DEF ApproveTask, MoneyOK
  <2>2. w \in Work /\ Legit(w)
    BY <2>1 DEF Work, OnBooking, Legit
  <2> QED BY <1>9, <2>2, StartKeepsInductive DEF ApproveTask
<1>10. ASSUME NEW b \in Booking, NEW o \in {"completed", "rejected"},
             ConfirmRequest(c, b, o)
      PROVE  Inductive'
  <2>1. Present(b) /\ PaidFor(b)
    BY <1>10, InductiveParts DEF ConfirmRequest, MoneyOK
  <2>2. CASE o = "completed"
    <3> DEFINE w == [op |-> "refund", b |-> b]
    <3>1. w \in Work
      BY DEF Work, OnBooking
    <3>2. Legit(w)
      BY <2>1 DEF Legit
    <3>3. Start(c, w)
      BY <1>10, <2>2 DEF ConfirmRequest
    <3> QED BY <3>1, <3>2, <3>3, StartKeepsInductive
  <2>3. CASE o = "rejected"
    <3> DEFINE w == [op |-> "closeRequest", b |-> b, to |-> o]
    <3>1. w \in Work
      BY <2>3 DEF Work, CloseRequest
    <3>2. Legit(w)
      BY <2>1 DEF Legit
    <3>3. Start(c, w)
      BY <1>10, <2>3 DEF ConfirmRequest
    <3> QED BY <3>1, <3>2, <3>3, StartKeepsInductive
  <2> QED BY <2>2, <2>3
<1>11. ASSUME NEW t \in Txn, txn[t].status = "approved",
              NEW op \in {"acceptPayment", "expireTxn", "confirmRefund"},
              Start(c, [op |-> op, t |-> t])
       PROVE  Inductive'
  <2>1. Payable(t)
    BY <1>11, InductiveParts DEF Payable, MoneyOK, Absent
  <2> DEFINE w == [op |-> op, t |-> t]
  <2>2. w \in Work
    BY DEF Work, OnTxn
  <2>3. Legit(w)
    BY <2>1 DEF Legit
  <2> QED BY <1>11, <2>2, <2>3, StartKeepsInductive
<1> QED
  BY <1>1, <1>4, <1>5, <1>6, <1>7, <1>8, <1>9, <1>10, <1>11
     DEF Arrive, HandleTransactionPayment, CancelTransaction,
         UpdateRefundTransactionToConfirm

-----------------------------------------------------------------------------
\* The tag of a piece of work tells its shape.
LEMMA WorkShape ==
  ASSUME NEW w \in Work
  PROVE  /\ w.op = "insertBooking" => w.row \in BookingRow
         /\ w.op = "markLand" => w.land \in Land
         /\ w.op = "saveBooking" =>
              /\ w.b \in Booking /\ w.row \in BookingRow
              /\ w.then \in {"done", "bill", "fileReport"}
         /\ w.op \in {"bill", "second", "settle", "fileReport", "refund"} =>
              w.b \in Booking
         /\ w.op = "closeRequest" =>
              w.b \in Booking /\ w.to \in {"completed", "rejected"}
         /\ w.op \in {"acceptPayment", "expireTxn", "confirmRefund"} =>
              w.t \in Txn
BY DEF Work, Idle, InsertBooking, MarkLand, SaveBooking, OnBooking,
       CloseRequest, OnTxn

LEMMA IdleIsLegit == Idle \in Work /\ Legit(Idle) /\ Legit(Idle)'
BY DEF Idle, Work, Legit

LEMMA OnBookingIsWork ==
  ASSUME NEW b \in Booking,
         NEW op \in {"bill", "second", "settle", "fileReport", "refund"}
  PROVE  [op |-> op, b |-> b] \in Work
BY DEF Work, OnBooking

\* What a step has to show: it gives its slot legitimate work, leaves the jobs
\* alone, and keeps the tables and the money right.
LEMMA StepKeepsInductive ==
  ASSUME NEW c \in Call, NEW w \in Work, Inductive, UNCHANGED jobs,
         Goto(c, w), Legit(w)', Grows, TablesOK', MoneyOK'
  PROVE  Inductive'
<1>1. CallsOK' /\ JobsOK'
  BY InductiveParts, GotoKeepsCalls, JobsStay
<1> QED BY <1>1 DEF Inductive, TypeOK, TablesOK, CallsOK, JobsOK, MoneyOK

\* What is granted, reported on or refunded after a step was before it, or is of
\* a booking that was paid.
LEMMA MoneyStep ==
  ASSUME MoneyOK, Grows,
         \A b \in Booking : request'[b] # "none" =>
            request[b] # "none" \/ (Present(b) /\ PaidFor(b)),
         \A b \in Booking : booking'[b].status \in Granted =>
            booking[b].status \in Granted \/ PaidFor(b),
         \A t \in Txn : t.kind = "second" => txn'[t].status \in {"none", "pending"},
         \A t \in Txn : t.kind = "refund" /\ txn'[t] # Absent =>
            txn[t] # Absent \/ PaidFor(t.booking)
  PROVE  MoneyOK'
<1>1. \A b \in Booking : request'[b] # "none" => Present(b)' /\ PaidFor(b)'
  BY PaidForStays DEF MoneyOK, Grows
<1>2. \A b \in Booking : booking'[b].status \in Granted => PaidFor(b)'
  BY PaidForStays DEF MoneyOK, GrantedWasPaid
<1>3. \A t \in Txn : t.kind = "refund" /\ txn'[t] # Absent => PaidFor(t.booking)'
  BY PaidForStays DEF MoneyOK, RefundWasPaid, Txn
<1> QED BY <1>1, <1>2, <1>3 DEF MoneyOK, GrantedWasPaid, RefundWasPaid

\* The steps of a request in flight, one lemma each.
LEMMA SaveNewBookingKeepsInductive ==
  ASSUME NEW c \in Call, Inductive, SaveNewBooking(c)
  PROVE  Inductive'
<1>1. TablesOK /\ CallsOK /\ JobsOK /\ MoneyOK
  BY InductiveParts
<1>2. /\ call[c].row \in BookingRow /\ call[c].row.land \in Land
      /\ call[c].row.status = "pending"
  BY <1>1, WorkShape DEF SaveNewBooking, CallsOK, Legit, BookingRow
<1>3. PICK w \in Work : w = [op |-> "markLand", land |-> call[c].row.land]
  BY <1>2 DEF Work, MarkLand
<1>4. Legit(w)' /\ Goto(c, w) /\ UNCHANGED jobs
  BY <1>3 DEF Legit, SaveNewBooking
<1>5. UNCHANGED <<txn, landStatus, request, extended, now, accepted, accidents>>
  BY DEF SaveNewBooking
<1>6. PICK b \in Booking : /\ booking[b] = Absent
                           /\ booking' = [booking EXCEPT ![b] = call[c].row]
  BY DEF SaveNewBooking
<1>7. TablesOK'
  BY <1>1, <1>2, <1>5, <1>6 DEF TablesOK
<1>8. Grows
  BY <1>1, <1>2, <1>5, <1>6 DEF Grows, Present, TablesOK, Absent
<1>9. MoneyOK'
  BY <1>1, <1>2, <1>5, <1>6, <1>8, MoneyStep DEF TablesOK, MoneyOK, Granted
<1> QED BY <1>4, <1>7, <1>8, <1>9, StepKeepsInductive

LEMMA UpdateLandStatusKeepsInductive ==
  ASSUME NEW c \in Call, Inductive, UpdateLandStatus(c)
  PROVE  Inductive'
<1>1. TablesOK /\ CallsOK /\ JobsOK /\ MoneyOK
  BY InductiveParts
<1>2. Idle \in Work /\ Legit(Idle)' /\ Goto(c, Idle) /\ UNCHANGED jobs
  BY IdleIsLegit DEF UpdateLandStatus
<1>3. UNCHANGED <<booking, txn, request, extended, now, accepted, accidents>>
  BY DEF UpdateLandStatus
<1>4. TablesOK'
  BY <1>1, <1>3 DEF TablesOK, UpdateLandStatus
<1>5. Grows /\ MoneyOK'
  BY <1>1, <1>3 DEF Grows, MoneyOK, Present, PaidFor, Bills, GrantedWasPaid,
     RefundWasPaid
<1> QED BY <1>2, <1>4, <1>5, StepKeepsInductive

\* A row of bookings is written over a row of bookings, and grants nothing that
\* was not paid.
LEMMA BookingWrite ==
  ASSUME NEW b \in Booking, NEW row \in BookingRow, TablesOK, MoneyOK,
         booking' = [booking EXCEPT ![b] = row],
         row.status \in Granted => PaidFor(b),
         UNCHANGED <<txn, landStatus, request, extended, now, accepted, accidents>>
  PROVE  TablesOK' /\ Grows /\ MoneyOK'
<1>1. TablesOK'
  BY DEF TablesOK
<1>2. row # Absent
  BY DEF BookingRow, BookingStatus, Absent
<1>3. Grows
  BY <1>2 DEF Grows, Present, TablesOK
<1>4. MoneyOK'
  BY <1>3, MoneyStep DEF TablesOK, MoneyOK
<1> QED BY <1>1, <1>3, <1>4

LEMMA WriteBookingKeepsInductive ==
  ASSUME NEW c \in Call, Inductive, WriteBooking(c)
  PROVE  Inductive'
<1>1. TablesOK /\ CallsOK /\ JobsOK /\ MoneyOK
  BY InductiveParts
<1>2. PICK v \in Work : v = call[c]
  BY <1>1 DEF CallsOK
<1>3. v.op = "saveBooking" /\ Legit(v)
  BY <1>1, <1>2 DEF WriteBooking, CallsOK
<1>4. v.b \in Booking /\ v.row \in BookingRow /\ v.then \in {"done", "bill", "fileReport"}
  BY <1>3, WorkShape
<1>5. /\ booking' = [booking EXCEPT ![v.b] = v.row]
      /\ UNCHANGED <<txn, landStatus, request, extended, now, accepted, accidents>>
      /\ UNCHANGED jobs
      /\ Goto(c, IF v.then = "done" THEN Idle ELSE [op |-> v.then, b |-> v.b])
  BY <1>2 DEF WriteBooking
<1>6. TablesOK' /\ Grows /\ MoneyOK'
  BY <1>1, <1>3, <1>4, <1>5, BookingWrite DEF Legit
<1>7. CASE v.then = "done"
  BY <1>5, <1>6, <1>7, IdleIsLegit, StepKeepsInductive
<1>8. CASE v.then # "done"
  <2> DEFINE w == [op |-> v.then, b |-> v.b]
  <2>1. w \in Work /\ w.op \in {"bill", "fileReport"}
    BY <1>4, <1>8, OnBookingIsWork
  <2>2. Legit(w)
    BY <1>3, <2>1 DEF Legit
  <2>3. Legit(w)'
    BY <1>6, <2>1, <2>2, LegitStays
  <2> HIDE DEF w
  <2> QED BY <1>5, <1>6, <1>8, <2>1, <2>3, StepKeepsInductive DEF w
<1> QED BY <1>7, <1>8

-----------------------------------------------------------------------------
\* A row of transactions is inserted or updated.
LEMMA TxnWrite ==
  ASSUME NEW t \in Txn, NEW row \in TxnRow, TablesOK, MoneyOK, Insert(t, row),
         t.kind = "second" => row.status = "pending",
         t.kind = "refund" => txn[t] # Absent \/ PaidFor(t.booking),
         UNCHANGED <<booking, landStatus, request, extended, now, accidents>>,
         accepted' \in [Txn -> Nat],
         \A u \in Txn : accepted[u] > 0 => accepted'[u] > 0
  PROVE  TablesOK' /\ Grows /\ MoneyOK'
<1>1. TablesOK'
  BY DEF TablesOK, Insert
<1>2. row # Absent
  BY DEF TxnRow, TransactionStatus, Absent
<1>3. Grows
  BY <1>2 DEF Grows, Present, TablesOK, Insert
<1>4. MoneyOK'
  BY <1>3, MoneyStep DEF TablesOK, MoneyOK, Insert
<1> QED BY <1>1, <1>3, <1>4

LEMMA NewTxnRow ==
  ASSUME TablesOK, NEW s \in TransactionStatus
  PROVE  /\ [status |-> s, due |-> now + 1] \in TxnRow
         /\ [status |-> s, due |-> now] \in TxnRow
<1>1. now + 1 \in Int /\ now \in Int
  BY DEF TablesOK
<1> QED BY <1>1 DEF TxnRow

\* The status of a transaction that exists and is no second instalment is set.
LEMMA StatusWrite ==
  ASSUME NEW t \in Txn, NEW s \in TransactionStatus, TablesOK, MoneyOK,
         Payable(t), SetStatus(t, s),
         UNCHANGED <<booking, landStatus, request, extended, now, accidents>>,
         accepted' \in [Txn -> Nat],
         \A u \in Txn : accepted[u] > 0 => accepted'[u] > 0
  PROVE  TablesOK' /\ Grows /\ MoneyOK'
<1>1. txn[t] \in TxnRow
  BY DEF TablesOK, Payable
<1>2. PICK row \in TxnRow : row = [txn[t] EXCEPT !.status = s]
  BY <1>1 DEF TxnRow
<1>3. Insert(t, row)
  BY <1>2 DEF SetStatus, Insert
<1> QED BY <1>3, TxnWrite DEF Payable

LEMMA SaveBillKeepsInductive ==
  ASSUME NEW c \in Call, Inductive, SaveBill(c)
  PROVE  Inductive'
<1>1. TablesOK /\ CallsOK /\ JobsOK /\ MoneyOK
  BY InductiveParts
<1>2. PICK b \in Booking : b = call[c].b
  BY <1>1, WorkShape DEF SaveBill, CallsOK
<1>3. PICK t \in FirstFree(b, "bill") :
        Insert(t, [status |-> "approved", due |-> now + 1])
  BY <1>2 DEF SaveBill
<1>4. t \in Txn /\ t.kind = "bill"
  BY DEF FirstFree, Free
<1>5. PICK row \in TxnRow : row = [status |-> "approved", due |-> now + 1]
  BY <1>1, NewTxnRow DEF TransactionStatus
<1>6. UNCHANGED <<booking, landStatus, request, extended, now, accidents>>
      /\ UNCHANGED accepted /\ UNCHANGED jobs
  BY DEF SaveBill
<1>7. TablesOK' /\ Grows /\ MoneyOK'
  BY <1>1, <1>3, <1>4, <1>5, <1>6, TxnWrite DEF TablesOK
<1>8. CASE booking[b].multiple
  <2>1. PICK w \in Work : w = [op |-> "second", b |-> b]
    BY OnBookingIsWork
  <2>2. Legit(w)' /\ Goto(c, w)
    BY <1>2, <1>8, <2>1 DEF Legit, SaveBill
  <2> QED BY <1>6, <1>7, <2>2, StepKeepsInductive
<1>9. CASE ~booking[b].multiple
  <2>1. Goto(c, Idle)
    BY <1>2, <1>9 DEF SaveBill
  <2> QED BY <1>6, <1>7, <2>1, IdleIsLegit, StepKeepsInductive
<1> QED BY <1>8, <1>9

LEMMA SaveSecondInstalmentKeepsInductive ==
  ASSUME NEW c \in Call, Inductive, SaveSecondInstalment(c)
  PROVE  Inductive'
<1>1. TablesOK /\ CallsOK /\ JobsOK /\ MoneyOK
  BY InductiveParts
<1>2. PICK t \in FirstFree(call[c].b, "second") :
        Insert(t, [status |-> "pending", due |-> now])
  BY DEF SaveSecondInstalment
<1>3. t \in Txn /\ t.kind = "second"
  BY DEF FirstFree, Free
<1>4. PICK row \in TxnRow : row = [status |-> "pending", due |-> now]
  BY <1>1, NewTxnRow DEF TransactionStatus
<1>5. /\ UNCHANGED <<booking, landStatus, request, extended, now, accidents>>
      /\ UNCHANGED accepted /\ UNCHANGED jobs /\ Goto(c, Idle)
  BY DEF SaveSecondInstalment
<1>6. TablesOK' /\ Grows /\ MoneyOK'
  BY <1>1, <1>2, <1>3, <1>4, <1>5, TxnWrite DEF TablesOK
<1> QED BY <1>5, <1>6, IdleIsLegit, StepKeepsInductive

LEMMA RestartOnDuplicateCodeKeepsInductive ==
  ASSUME NEW c \in Call, Inductive, RestartOnDuplicateCode(c)
  PROVE  Inductive'
<1>1. TablesOK /\ CallsOK /\ JobsOK /\ MoneyOK
  BY InductiveParts
<1>2. call[c].b \in Booking
  BY <1>1, WorkShape DEF RestartOnDuplicateCode, CallsOK
<1>3. PICK w \in Work : w = [op |-> "bill", b |-> call[c].b]
  BY <1>2, OnBookingIsWork
<1>4. Goto(c, w) /\ Legit(w)' /\ UNCHANGED <<rows, jobs, now, accepted>>
  BY <1>3 DEF RestartOnDuplicateCode, Legit
<1>5. TablesOK'
  BY <1>1, <1>4 DEF TablesOK, rows, RestartOnDuplicateCode
<1>6. MoneyOK' /\ Grows
  BY <1>1, <1>4, MoneyStays
<1> QED BY <1>4, <1>5, <1>6, StepKeepsInductive

LEMMA AcceptPaymentKeepsInductive ==
  ASSUME NEW c \in Call, Inductive, AcceptPayment(c)
  PROVE  Inductive'
<1>1. TablesOK /\ CallsOK /\ JobsOK /\ MoneyOK
  BY InductiveParts
<1>2. PICK t \in Txn : t = call[c].t
  BY <1>1, WorkShape DEF AcceptPayment, CallsOK
<1>3. Payable(t)
  BY <1>1, <1>2 DEF AcceptPayment, CallsOK, Legit
<1>4. /\ SetStatus(t, "succeed")
      /\ accepted' = [accepted EXCEPT ![t] = @ + 1]
      /\ UNCHANGED <<booking, landStatus, request, extended, now, accidents>>
      /\ UNCHANGED jobs
      /\ Goto(c, [op |-> "settle", b |-> t.booking])
  BY <1>2 DEF AcceptPayment
<1>5. accepted' \in [Txn -> Nat] /\ \A u \in Txn : accepted[u] > 0 => accepted'[u] > 0
  BY <1>1, <1>4 DEF TablesOK
<1>6. TablesOK' /\ Grows /\ MoneyOK'
  BY <1>1, <1>3, <1>4, <1>5, StatusWrite DEF TransactionStatus
<1>7. accepted'[t] > 0
  BY <1>1, <1>4 DEF TablesOK
<1>8. PICK w \in Work : w = [op |-> "settle", b |-> t.booking]
  BY OnBookingIsWork DEF Txn
<1>9. PaidFor(t.booking)'
  <2>1. CASE t.kind = "bill"
    BY <1>7, <2>1 DEF PaidFor, Bills
  <2>2. CASE t.kind = "refund"
    <3>1. PaidFor(t.booking)
      BY <1>1, <1>3, <2>2 DEF Payable, MoneyOK, RefundWasPaid
    <3> QED BY <1>6, <3>1, PaidForStays DEF Txn
  <2> QED BY <1>3, <2>1, <2>2 DEF Payable, Txn, Kind
<1>10. Legit(w)'
  BY <1>8, <1>9 DEF Legit
<1> QED BY <1>4, <1>6, <1>8, <1>10, StepKeepsInductive

LEMMA UpdateStatusToCompletedKeepsInductive ==
  ASSUME NEW c \in Call, Inductive, UpdateStatusToCompleted(c)
  PROVE  Inductive'
<1>1. TablesOK /\ CallsOK /\ JobsOK /\ MoneyOK
  BY InductiveParts
<1>2. PICK b \in Booking : b = call[c].b
  BY <1>1, WorkShape DEF UpdateStatusToCompleted, CallsOK
<1>3. PaidFor(b)
  BY <1>1, <1>2 DEF UpdateStatusToCompleted, CallsOK, Legit
<1>4. UNCHANGED <<rows, jobs, now, accepted, accidents>> /\ UNCHANGED jobs
  BY DEF UpdateStatusToCompleted
<1>5. TablesOK' /\ Grows /\ MoneyOK'
  BY <1>1, <1>4, MoneyStays DEF TablesOK, rows
<1>6. CASE booking[b].status = "pending_payment"
  <2>1. Present(b) /\ booking[b] \in BookingRow
    BY <1>1, <1>6 DEF Present, Absent, TablesOK
  <2>2. PICK row \in BookingRow : row = [booking[b] EXCEPT !.status = "completed"]
    BY <2>1 DEF BookingRow, BookingStatus
  <2>3. PICK w \in Work : w = [op |-> "saveBooking", b |-> b, row |-> row,
                               then |-> "done"]
    BY DEF Work, SaveBooking
  <2>4. Goto(c, w)
    BY <1>2, <1>6, <2>2, <2>3 DEF UpdateStatusToCompleted, Save
  <2>5. Legit(w)
    BY <1>3, <2>1, <2>3 DEF Legit
  <2> QED BY <1>4, <1>5, <2>4, <2>5, LegitStays, StepKeepsInductive
<1>7. CASE booking[b].status # "pending_payment"
  <2>1. Goto(c, Idle)
    BY <1>2, <1>7 DEF UpdateStatusToCompleted
  <2> QED BY <1>4, <1>5, <2>1, IdleIsLegit, StepKeepsInductive
<1> QED BY <1>6, <1>7

LEMMA ExpireTransactionKeepsInductive ==
  ASSUME NEW c \in Call, Inductive, ExpireTransaction(c)
  PROVE  Inductive'
<1>1. TablesOK /\ CallsOK /\ JobsOK /\ MoneyOK
  BY InductiveParts
<1>2. call[c].t \in Txn /\ Payable(call[c].t)
  BY <1>1, WorkShape DEF ExpireTransaction, CallsOK, Legit
<1>3. /\ SetStatus(call[c].t, "expired")
      /\ UNCHANGED <<booking, landStatus, request, extended, now, accidents>>
      /\ UNCHANGED accepted /\ UNCHANGED jobs /\ Goto(c, Idle)
  BY DEF ExpireTransaction
<1>4. TablesOK' /\ Grows /\ MoneyOK'
  <2>1. PICK t \in Txn : t = call[c].t
    BY <1>2
  <2> QED BY <1>1, <1>2, <1>3, <2>1, StatusWrite DEF TransactionStatus, TablesOK
<1> QED BY <1>3, <1>4, IdleIsLegit, StepKeepsInductive

LEMMA SaveRefundConfirmedKeepsInductive ==
  ASSUME NEW c \in Call, Inductive, SaveRefundConfirmed(c)
  PROVE  Inductive'
<1>1. TablesOK /\ CallsOK /\ JobsOK /\ MoneyOK
  BY InductiveParts
<1>2. call[c].t \in Txn /\ Payable(call[c].t)
  BY <1>1, WorkShape DEF SaveRefundConfirmed, CallsOK, Legit
<1>3. /\ SetStatus(call[c].t, "succeed")
      /\ UNCHANGED <<booking, landStatus, request, extended, now, accidents>>
      /\ UNCHANGED accepted /\ UNCHANGED jobs /\ Goto(c, Idle)
  BY DEF SaveRefundConfirmed
<1>4. TablesOK' /\ Grows /\ MoneyOK'
  <2>1. PICK t \in Txn : t = call[c].t
    BY <1>2
  <2> QED BY <1>1, <1>2, <1>3, <2>1, StatusWrite DEF TransactionStatus, TablesOK
<1> QED BY <1>3, <1>4, IdleIsLegit, StepKeepsInductive

-----------------------------------------------------------------------------
\* The request of a booking that was paid, and exists, is given a status.
LEMMA RequestWrite ==
  ASSUME NEW b \in Booking, NEW s \in RequestStatus, TablesOK, MoneyOK,
         Present(b), PaidFor(b), request' = [request EXCEPT ![b] = s],
         UNCHANGED <<booking, txn, landStatus, extended, now, accepted, accidents>>
  PROVE  TablesOK' /\ Grows /\ MoneyOK'
<1>1. TablesOK'
  BY DEF TablesOK
<1>2. Grows
  BY DEF Grows, Present
<1>3. MoneyOK'
  BY <1>2, MoneyStep DEF TablesOK, MoneyOK
<1> QED BY <1>1, <1>2, <1>3

LEMMA UpdateRequestStatusKeepsInductive ==
  ASSUME NEW c \in Call, Inductive, UpdateRequestStatus(c)
  PROVE  Inductive'
<1>1. TablesOK /\ CallsOK /\ JobsOK /\ MoneyOK
  BY InductiveParts
<1>2. PICK b \in Booking : b = call[c].b
  BY <1>1, WorkShape DEF UpdateRequestStatus, CallsOK
<1>3. Present(b) /\ PaidFor(b)
  BY <1>1, <1>2 DEF UpdateRequestStatus, CallsOK, Legit
<1>4. /\ request' = [request EXCEPT ![b] = "pending_approval"]
      /\ UNCHANGED <<booking, txn, landStatus, extended, now, accepted, accidents>>
      /\ UNCHANGED jobs /\ Goto(c, Idle)
  BY <1>2 DEF UpdateRequestStatus
<1>5. TablesOK' /\ Grows /\ MoneyOK'
  BY <1>1, <1>3, <1>4, RequestWrite DEF RequestStatus
<1> QED BY <1>4, <1>5, IdleIsLegit, StepKeepsInductive

LEMMA SaveRequestClosedKeepsInductive ==
  ASSUME NEW c \in Call, Inductive, SaveRequestClosed(c)
  PROVE  Inductive'
<1>1. TablesOK /\ CallsOK /\ JobsOK /\ MoneyOK
  BY InductiveParts
<1>2. PICK v \in Work : v = call[c]
  BY <1>1 DEF CallsOK
<1>3. v.b \in Booking /\ v.to \in {"completed", "rejected"}
  BY <1>2, WorkShape DEF SaveRequestClosed
<1>4. Present(v.b) /\ PaidFor(v.b)
  BY <1>1, <1>2 DEF SaveRequestClosed, CallsOK, Legit
<1>5. /\ request' = [request EXCEPT ![v.b] = v.to]
      /\ UNCHANGED <<booking, txn, landStatus, extended, now, accepted, accidents>>
      /\ UNCHANGED jobs /\ Goto(c, Idle)
  BY <1>2 DEF SaveRequestClosed
<1>6. TablesOK' /\ Grows /\ MoneyOK'
  BY <1>1, <1>3, <1>4, <1>5, RequestWrite DEF RequestStatus
<1> QED BY <1>5, <1>6, IdleIsLegit, StepKeepsInductive

LEMMA CreateRefundBookingKeepsInductive ==
  ASSUME NEW c \in Call, Inductive, CreateRefundBooking(c)
  PROVE  Inductive'
<1>1. TablesOK /\ CallsOK /\ JobsOK /\ MoneyOK
  BY InductiveParts
<1>2. PICK b \in Booking : b = call[c].b
  BY <1>1, WorkShape DEF CreateRefundBooking, CallsOK
<1>3. Present(b) /\ PaidFor(b)
  BY <1>1, <1>2 DEF CreateRefundBooking, CallsOK, Legit
<1>4. PICK t \in FirstFree(b, "refund") :
        Insert(t, [status |-> "approved", due |-> now + 1])
  BY <1>2 DEF CreateRefundBooking
<1>5. t \in Txn /\ t.kind = "refund" /\ t.booking = b
  BY DEF FirstFree, Free
<1>6. PICK row \in TxnRow : row = [status |-> "approved", due |-> now + 1]
  BY <1>1, NewTxnRow DEF TransactionStatus
<1>7. /\ UNCHANGED <<booking, landStatus, request, extended, now, accidents>>
      /\ UNCHANGED accepted /\ UNCHANGED jobs
  BY DEF CreateRefundBooking
<1>8. TablesOK' /\ Grows /\ MoneyOK'
  BY <1>1, <1>3, <1>4, <1>5, <1>6, <1>7, TxnWrite DEF TablesOK
<1>9. PICK w \in Work : w = [op |-> "closeRequest", b |-> b, to |-> "completed"]
  BY DEF Work, CloseRequest
<1>10. Goto(c, w)
  BY <1>2, <1>9 DEF CreateRefundBooking
<1>11. Legit(w)
  BY <1>3, <1>9 DEF Legit
<1> QED BY <1>7, <1>8, <1>10, <1>11, LegitStays, StepKeepsInductive

-----------------------------------------------------------------------------
\* What a step of a job, or of nobody, has to show: requests in flight are left
\* alone, and stay legitimate because the tables grow.
LEMMA CallsStay ==
  ASSUME CallsOK, Grows, UNCHANGED call
  PROVE  CallsOK'
<1>1. ASSUME NEW d \in Call PROVE Legit(call[d])'
  <2>1. PICK v \in Work : v = call[d]
    BY DEF CallsOK
  <2>2. Legit(v)'
    BY <2>1, LegitStays DEF CallsOK
  <2> QED BY <2>1, <2>2 DEF Legit, Present, Payable, PaidFor, Bills
<1> QED BY <1>1 DEF CallsOK

LEMMA JobStepKeepsInductive ==
  ASSUME Inductive, UNCHANGED call, Grows, TablesOK', MoneyOK', JobsOK'
  PROVE  Inductive'
<1>1. CallsOK'
  BY InductiveParts, CallsStay
<1> QED BY <1>1 DEF Inductive, TypeOK, TablesOK, CallsOK, JobsOK, MoneyOK

\* A job that only reads.
LEMMA ListingKeepsInductive ==
  ASSUME Inductive, UNCHANGED <<rows, call, now, accepted, accidents>>, JobsOK'
  PROVE  Inductive'
<1>1. TablesOK' /\ MoneyOK' /\ Grows
  BY InductiveParts, MoneyStays DEF TablesOK, rows
<1> QED BY <1>1, JobStepKeepsInductive

LEMMA ListExpiredScheduleKeepsInductive ==
  ASSUME Inductive, ListExpiredSchedule
  PROVE  Inductive'
<1>1. TablesOK /\ CallsOK /\ JobsOK /\ MoneyOK
  BY InductiveParts
<1>2. UNCHANGED <<rows, call, hourly, now, accepted, accidents>>
  BY DEF ListExpiredSchedule
<1> DEFINE listed == {[b |-> b, row |-> booking[b]] :
                        b \in {x \in Booking : ScheduleOver(x)}}
<1>3. \A b \in Booking : ScheduleOver(b) => Present(b) /\ booking[b] \in BookingRow
  BY <1>1 DEF ScheduleOver, Present, TablesOK, Absent
<1>4. listed \in SUBSET Snapshot /\ \A s \in listed : Present(s.b)
  BY <1>3 DEF Snapshot
<1>5. daily' = [daily EXCEPT !.pc = "listing", !.cancel = listed]
  BY DEF ListExpiredSchedule
<1>6. daily' \in Daily /\ daily'.cancel = listed /\ daily'.expire = daily.expire
      /\ daily'.report = daily.report
  BY <1>1, <1>4, <1>5 DEF JobsOK, Daily
<1>7. JobsOK'
  BY <1>1, <1>2, <1>4, <1>6 DEF JobsOK, rows, Present, Payable, PaidFor, Bills
<1> QED BY <1>2, <1>7, ListingKeepsInductive

LEMMA ListExpiredKeepsInductive ==
  ASSUME Inductive, ListExpired
  PROVE  Inductive'
<1>1. TablesOK /\ CallsOK /\ JobsOK /\ MoneyOK
  BY InductiveParts
<1>2. UNCHANGED <<rows, call, hourly, now, accepted, accidents>>
  BY DEF ListExpired
<1> DEFINE listed == {b \in Booking : RentOver(b)}
<1>3. \A b \in listed : Present(b) /\ PaidFor(b)
  BY <1>1 DEF RentOver, Present, Absent, MoneyOK, GrantedWasPaid, Granted
<1>4. daily' = [daily EXCEPT !.pc = "idle", !.expire = listed]
  BY DEF ListExpired
<1>5. daily' \in Daily /\ daily'.cancel = daily.cancel /\ daily'.expire = listed
      /\ daily'.report = daily.report
  BY <1>1, <1>4 DEF JobsOK, Daily
<1>6. JobsOK'
  BY <1>1, <1>2, <1>3, <1>5 DEF JobsOK, rows, Present, Payable, PaidFor, Bills
<1> QED BY <1>2, <1>6, ListingKeepsInductive

\* The lists of the daily job shrink, or name rows that are legitimate.
LEMMA DailyStays ==
  ASSUME JobsOK, Grows, UNCHANGED hourly, daily' \in Daily,
         daily'.cancel \subseteq daily.cancel,
         \A b \in daily'.expire \cup daily'.report :
            b \in daily.expire \cup daily.report
  PROVE  JobsOK'
<1>1. \A s \in daily'.cancel : Present(s.b)'
  BY DEF JobsOK, Daily, Snapshot, Grows
<1>2. \A b \in daily'.expire \cup daily'.report : Present(b)' /\ PaidFor(b)'
  BY PaidForStays DEF JobsOK, Daily, Grows
<1>3. \A t \in hourly'.todo \cup hourly'.cur : Payable(t)'
  BY DEF JobsOK, Hourly, Payable, Grows
<1> QED BY <1>1, <1>2, <1>3 DEF JobsOK

LEMMA CancelBookingKeepsInductive ==
  ASSUME Inductive, CancelBooking
  PROVE  Inductive'
<1>1. TablesOK /\ CallsOK /\ JobsOK /\ MoneyOK
  BY InductiveParts
<1>2. PICK s \in daily.cancel :
        /\ booking' = [booking EXCEPT ![s.b] = [s.row EXCEPT !.status = "canceled"]]
        /\ daily' = [daily EXCEPT !.cancel = @ \ {s}]
  BY DEF CancelBooking
<1>3. s.b \in Booking /\ s.row \in BookingRow
  BY <1>1 DEF JobsOK, Daily, Snapshot
<1>4. PICK row \in BookingRow : row = [s.row EXCEPT !.status = "canceled"]
  BY <1>3 DEF BookingRow, BookingStatus
<1>5. row.status = "canceled"
  BY <1>3, <1>4 DEF BookingRow
<1>6. UNCHANGED <<txn, landStatus, request, extended, now, accepted, accidents>>
      /\ UNCHANGED hourly /\ UNCHANGED call
  BY DEF CancelBooking
<1>7. TablesOK' /\ Grows /\ MoneyOK'
  BY <1>1, <1>2, <1>3, <1>4, <1>5, <1>6, BookingWrite DEF Granted
<1>8. daily' \in Daily /\ daily'.cancel \subseteq daily.cancel
      /\ daily'.expire = daily.expire /\ daily'.report = daily.report
  BY <1>1, <1>2 DEF JobsOK, Daily
<1>9. JobsOK'
  BY <1>1, <1>6, <1>7, <1>8, DailyStays
<1> QED BY <1>6, <1>7, <1>9, JobStepKeepsInductive

LEMMA ExpireBookingKeepsInductive ==
  ASSUME Inductive, ExpireBooking
  PROVE  Inductive'
<1>1. TablesOK /\ CallsOK /\ JobsOK /\ MoneyOK
  BY InductiveParts
<1>2. PICK b \in daily.expire :
        /\ booking' = [booking EXCEPT ![b].status = "expired"]
        /\ daily' = [daily EXCEPT !.expire = @ \ {b}, !.report = @ \cup {b}]
  BY DEF ExpireBooking
<1>3. b \in Booking /\ Present(b) /\ PaidFor(b)
  BY <1>1 DEF JobsOK, Daily
<1>4. booking[b] \in BookingRow
  BY <1>1, <1>3 DEF TablesOK, Present
<1>5. PICK row \in BookingRow : row = [booking[b] EXCEPT !.status = "expired"]
  BY <1>4 DEF BookingRow, BookingStatus
<1>6. booking' = [booking EXCEPT ![b] = row]
  BY <1>2, <1>5
<1>7. UNCHANGED <<txn, landStatus, request, extended, now, accepted, accidents>>
      /\ UNCHANGED hourly /\ UNCHANGED call
  BY DEF ExpireBooking
<1>8. TablesOK' /\ Grows /\ MoneyOK'
  BY <1>1, <1>3, <1>6, <1>7, BookingWrite
<1>9. daily' \in Daily /\ daily'.cancel = daily.cancel
      /\ daily'.expire = daily.expire \ {b} /\ daily'.report = daily.report \cup {b}
  BY <1>1, <1>2, <1>3 DEF JobsOK, Daily
<1>10. JobsOK'
  BY <1>1, <1>7, <1>8, <1>9, DailyStays
<1> QED BY <1>7, <1>8, <1>10, JobStepKeepsInductive

LEMMA CreateRequestReportLandKeepsInductive ==
  ASSUME Inductive, CreateRequestReportLand
  PROVE  Inductive'
<1>1. TablesOK /\ CallsOK /\ JobsOK /\ MoneyOK
  BY InductiveParts
<1>2. PICK b \in daily.report :
        /\ request' = [request EXCEPT ![b] = IF @ = "none" THEN "pending" ELSE @]
        /\ daily' = [daily EXCEPT !.report = @ \ {b}]
  BY DEF CreateRequestReportLand
<1>3. b \in Booking /\ Present(b) /\ PaidFor(b)
  BY <1>1 DEF JobsOK, Daily
<1>4. PICK s \in RequestStatus :
        s = IF request[b] = "none" THEN "pending" ELSE request[b]
  BY <1>1, <1>3 DEF TablesOK, RequestStatus
<1>5. request' = [request EXCEPT ![b] = s]
  BY <1>2, <1>4
<1>6. UNCHANGED <<booking, txn, landStatus, extended, now, accepted, accidents>>
      /\ UNCHANGED hourly /\ UNCHANGED call
  BY DEF CreateRequestReportLand
<1>7. TablesOK' /\ Grows /\ MoneyOK'
  BY <1>1, <1>3, <1>5, <1>6, RequestWrite
<1>8. daily' \in Daily /\ daily'.cancel = daily.cancel
      /\ daily'.expire = daily.expire /\ daily'.report \subseteq daily.report
  BY <1>1, <1>2 DEF JobsOK, Daily
<1>9. JobsOK'
  BY <1>1, <1>6, <1>7, <1>8, DailyStays
<1> QED BY <1>6, <1>7, <1>9, JobStepKeepsInductive

-----------------------------------------------------------------------------
LEMMA CheckTransactionIsExpiredKeepsInductive ==
  ASSUME Inductive, CheckTransactionIsExpired
  PROVE  Inductive'
<1>1. TablesOK /\ CallsOK /\ JobsOK /\ MoneyOK
  BY InductiveParts
<1>2. UNCHANGED <<rows, call, daily, now, accepted, accidents>>
  BY DEF CheckTransactionIsExpired
<1> DEFINE listed == {t \in Txn : Overdue(t)}
<1>3. \A t \in listed : Payable(t)
  BY <1>1 DEF Overdue, Payable, MoneyOK, Absent
<1>4. hourly' = [hourly EXCEPT !.todo = listed]
  BY DEF CheckTransactionIsExpired
<1>5. hourly' \in Hourly /\ hourly'.todo = listed /\ hourly'.cur = hourly.cur
  BY <1>1, <1>4 DEF JobsOK, Hourly
<1>6. JobsOK'
  BY <1>1, <1>2, <1>3, <1>5 DEF JobsOK, rows, Present, Payable, PaidFor, Bills
<1> QED BY <1>2, <1>6, ListingKeepsInductive

LEMMA CancelNextKeepsInductive ==
  ASSUME Inductive, CancelNext
  PROVE  Inductive'
<1>1. TablesOK /\ CallsOK /\ JobsOK /\ MoneyOK
  BY InductiveParts
<1>2. UNCHANGED <<rows, call, daily, now, accepted, accidents>>
  BY DEF CancelNext
<1>3. PICK t \in hourly.todo :
        hourly' = IF txn[t].status = "approved"
                  THEN [todo |-> hourly.todo \ {t}, cur |-> {t}]
                  ELSE HourlyIdle
  BY DEF CancelNext
<1>4. hourly' \in Hourly /\ hourly'.todo \cup hourly'.cur \subseteq hourly.todo
  BY <1>1, <1>3 DEF JobsOK, Hourly, HourlyIdle
<1>5. JobsOK'
  BY <1>1, <1>2, <1>4 DEF JobsOK, rows, Present, Payable, PaidFor, Bills
<1> QED BY <1>2, <1>5, ListingKeepsInductive

LEMMA ExpireNextKeepsInductive ==
  ASSUME Inductive, ExpireNext
  PROVE  Inductive'
<1>1. TablesOK /\ CallsOK /\ JobsOK /\ MoneyOK
  BY InductiveParts
<1>2. PICK t \in hourly.cur : /\ SetStatus(t, "expired")
                              /\ hourly' = [hourly EXCEPT !.cur = {}]
  BY DEF ExpireNext
<1>3. t \in Txn /\ Payable(t)
  BY <1>1 DEF JobsOK, Hourly
<1>4. UNCHANGED <<booking, landStatus, request, extended, now, accidents>>
      /\ UNCHANGED accepted /\ UNCHANGED daily /\ UNCHANGED call
  BY DEF ExpireNext
<1>5. TablesOK' /\ Grows /\ MoneyOK'
  BY <1>1, <1>2, <1>3, <1>4, StatusWrite DEF TransactionStatus, TablesOK
<1>6. hourly' \in Hourly /\ hourly'.todo \cup hourly'.cur
                              \subseteq hourly.todo \cup hourly.cur
  BY <1>1, <1>2 DEF JobsOK, Hourly
<1>7. \A s \in daily.cancel : Present(s.b)'
  BY <1>1, <1>5 DEF JobsOK, Daily, Snapshot, Grows
<1>8. \A b \in daily.expire \cup daily.report : Present(b)' /\ PaidFor(b)'
  BY <1>1, <1>5, PaidForStays DEF JobsOK, Daily, Grows
<1>9. \A u \in hourly.todo \cup hourly.cur : Payable(u)'
  BY <1>1, <1>5 DEF JobsOK, Hourly, Payable, Grows
<1>10. JobsOK'
  BY <1>1, <1>4, <1>6, <1>7, <1>8, <1>9 DEF JobsOK
<1> QED BY <1>4, <1>5, <1>10, JobStepKeepsInductive

\* A request that fails leaves its slot, and what it has written stays.
LEMMA FailKeepsInductive ==
  ASSUME NEW c \in Call, Inductive, Fail(c)
  PROVE  Inductive'
<1>1. /\ UNCHANGED <<rows, jobs, now, accepted>> /\ UNCHANGED jobs
      /\ Goto(c, Idle) /\ accidents' = accidents + 1
  BY DEF Fail, Accident
<1>2. TablesOK' /\ MoneyOK' /\ Grows
  BY <1>1, InductiveParts, MoneyStays DEF TablesOK, rows
<1> QED BY <1>1, <1>2, IdleIsLegit, StepKeepsInductive

LEMMA JobFailKeepsInductive ==
  ASSUME Inductive, FailDaily \/ FailHourly
  PROVE  Inductive'
<1>1. UNCHANGED <<rows, call, now, accepted>> /\ UNCHANGED call
      /\ accidents' = accidents + 1
  BY DEF FailDaily, FailHourly, Accident
<1>2. TablesOK' /\ MoneyOK' /\ Grows
  BY <1>1, InductiveParts, MoneyStays DEF TablesOK, rows
<1>3. JobsOK
  BY InductiveParts
<1>4. /\ daily' = daily \/ daily' = DailyIdle
      /\ hourly' = hourly \/ hourly' = HourlyIdle
  BY DEF FailDaily, FailHourly
<1>5. DailyIdle \in Daily /\ HourlyIdle \in Hourly
  BY DEF DailyIdle, Daily, HourlyIdle, Hourly
<1>6. /\ daily' \in Daily /\ hourly' \in Hourly
      /\ daily'.cancel \subseteq daily.cancel
      /\ daily'.expire \cup daily'.report \subseteq daily.expire \cup daily.report
      /\ hourly'.todo \cup hourly'.cur \subseteq hourly.todo \cup hourly.cur
  BY <1>3, <1>4, <1>5 DEF JobsOK, DailyIdle, HourlyIdle
<1>7. JobsOK'
  BY <1>1, <1>3, <1>6 DEF JobsOK, rows, Present, Payable, PaidFor, Bills
<1> QED BY <1>1, <1>2, <1>7, JobStepKeepsInductive

LEMMA RestKeepsInductive ==
  ASSUME Inductive, (\E b \in Booking : AssignTask(b) \/ CompleteExtend(b)) \/ Tick
  PROVE  Inductive'
<1>1. UNCHANGED <<booking, txn, landStatus, accepted, accidents>>
      /\ UNCHANGED call /\ UNCHANGED jobs
  BY DEF AssignTask, CompleteExtend, Tick, rows
<1>2. TablesOK /\ MoneyOK /\ JobsOK
  BY InductiveParts
<1>3. /\ request' \in [Booking -> RequestStatus]
      /\ \A b \in Booking : request[b] = "none" => request'[b] = "none"
  BY <1>2 DEF TablesOK, RequestStatus, AssignTask, CompleteExtend, Tick, rows
<1>4. TablesOK'
  BY <1>1, <1>2, <1>3 DEF TablesOK, AssignTask, CompleteExtend, Tick, rows
<1>5. MoneyOK' /\ Grows
  BY <1>1, <1>2, <1>3 DEF MoneyOK, Grows, Present, PaidFor, Bills, GrantedWasPaid,
     RefundWasPaid
<1>6. JobsOK'
  BY <1>1, <1>2, <1>5, JobsStay
<1> QED BY <1>1, <1>4, <1>5, <1>6, JobStepKeepsInductive

-----------------------------------------------------------------------------
\* The three facts of the inductive invariant.
LEMMA InitIsInductive == Init => Inductive
<1> SUFFICES ASSUME Init PROVE Inductive
  OBVIOUS
<1>1. TablesOK
  BY DEF Init, TablesOK, RequestStatus
<1>2. CallsOK
  BY DEF Init, CallsOK, Work, Idle, Legit
<1>3. JobsOK
  BY DEF Init, JobsOK, Daily, DailyIdle, Hourly, HourlyIdle
<1>4. MoneyOK
  BY DEF Init, MoneyOK, Absent, GrantedWasPaid, RefundWasPaid, Granted
<1> QED BY <1>1, <1>2, <1>3, <1>4, InductiveParts

LEMMA NextKeepsInductive ==
  ASSUME Inductive, [Next]_vars
  PROVE  Inductive'
<1>1. ASSUME NEW c \in Call, Continue(c) PROVE Inductive'
  BY <1>1, SaveNewBookingKeepsInductive, UpdateLandStatusKeepsInductive,
     WriteBookingKeepsInductive, SaveBillKeepsInductive,
     SaveSecondInstalmentKeepsInductive, RestartOnDuplicateCodeKeepsInductive,
     AcceptPaymentKeepsInductive, UpdateStatusToCompletedKeepsInductive,
     ExpireTransactionKeepsInductive, SaveRefundConfirmedKeepsInductive,
     UpdateRequestStatusKeepsInductive, CreateRefundBookingKeepsInductive,
     SaveRequestClosedKeepsInductive DEF Continue
<1>2. CASE DailyJob
  BY <1>2, ListExpiredScheduleKeepsInductive, CancelBookingKeepsInductive,
     ListExpiredKeepsInductive, ExpireBookingKeepsInductive,
     CreateRequestReportLandKeepsInductive DEF DailyJob
<1>3. CASE HourlyJob
  BY <1>3, CheckTransactionIsExpiredKeepsInductive, CancelNextKeepsInductive,
     ExpireNextKeepsInductive DEF HourlyJob
<1>4. CASE UNCHANGED vars
  BY <1>4 DEF vars, Inductive, TypeOK, Legit, Present, Payable, PaidFor, Bills,
     GrantedWasPaid, RefundWasPaid
<1> QED
  BY <1>1, <1>2, <1>3, <1>4, ArriveKeepsInductive, FailKeepsInductive,
     JobFailKeepsInductive, RestKeepsInductive DEF Next

\* In every reachable state, whatever requests and jobs are in flight, the work
\* they still have to do is legitimate and the tables agree with what was paid.
THEOREM InductiveHolds == Spec => []Inductive
<1>1. Init => Inductive
  BY InitIsInductive
<1>2. Inductive /\ [Next]_vars => Inductive'
  BY NextKeepsInductive
<1> QED BY <1>1, <1>2, PTL DEF Spec

\* The tables, the requests in flight and the lists of the jobs are well formed.
THEOREM TypeCorrect == Spec => []TypeOK
<1>1. Inductive => TypeOK
  BY DEF Inductive
<1> QED BY <1>1, InductiveHolds, PTL

\* A land is rented out only to a renter whose bill was accepted, for any number
\* of bookings, overlapping requests, job runs and failures.
THEOREM OnlyPaidIsGranted == Spec => []GrantedWasPaid
<1>1. Inductive => GrantedWasPaid
  BY DEF Inductive
<1> QED BY <1>1, InductiveHolds, PTL

\* A deposit is handed back only for a booking that was paid.
THEOREM OnlyPaidIsRefunded == Spec => []RefundWasPaid
<1>1. Inductive => RefundWasPaid
  BY DEF Inductive
<1> QED BY <1>1, InductiveHolds, PTL

-----------------------------------------------------------------------------
\* The second invariant, for requests that do not overlap (Serial): what the one
\* request, or job, in flight has read is still so, and the tables tell the same
\* of a booking, its bills and its report.
\* At most one request is in flight, or one job runs.
OneAtATime ==
  /\ \A c, d \in Call : call[c] # Idle /\ call[d] # Idle => c = d
  /\ daily # DailyIdle \/ hourly # HourlyIdle => \A c \in Call : call[c] = Idle
  /\ daily = DailyIdle \/ hourly = HourlyIdle

\* What a booking that has a bill is.
Signed(b) == /\ booking[b].status \in {"pending_payment"} \cup Granted
             /\ booking[b].contract

\* Where the four strategies take a booking before it is signed.
BeforeSigning == {<<"pending", "pending_contract">>,
                  <<"pending_contract", "pending_sign">>,
                  <<"pending", "rejected">>, <<"pending_contract", "rejected">>}

\* The row to be saved is the row in the table, one status further.
RowFits(w, row) ==
  /\ w.row.start = row.start /\ w.row.end = row.end
  /\ \/ /\ w.then = "done"
        /\ <<row.status, w.row.status>> \in BeforeSigning
     \/ /\ w.then = "done" /\ row.status = "pending_payment"
        /\ w.row.status = "completed" /\ w.row.contract = row.contract
     \/ /\ w.then = "bill" /\ row.status = "pending_sign"
        /\ w.row.status = "pending_payment" /\ w.row.contract
     \/ /\ w.then = "fileReport" /\ row.status \in Granted
        /\ w.row.status = "completed" /\ w.row.contract = row.contract

\* No granted rental of the land of p begins before p is over.
Clear(p) == \A b \in Booking :
              booking[b].status = "completed" /\ booking[b].land = p.land
                => p.end < booking[b].start

\* What the work in flight has read is still so.
Fits(w) ==
  /\ w.op = "insertBooking" => WellFormed(w.row) /\ Clear(w.row)
  /\ w.op = "saveBooking" => RowFits(w, booking[w.b])
  /\ w.op \in {"bill", "second"}
       => booking[w.b].status = "pending_payment" /\ booking[w.b].contract
  /\ w.op = "settle"
       => booking[w.b].status \in {"pending_payment"} \cup Granted
  /\ w.op \in {"fileReport", "refund", "closeRequest"}
       => booking[w.b].status \in Granted
  /\ w.op \in {"acceptPayment", "expireTxn", "confirmRefund"}
       => txn[w.t].status = "approved"

\* And what the jobs have read.
ListsFit ==
  /\ \A s \in daily.cancel : booking[s.b] = s.row /\ s.row.status = "pending_sign"
  /\ \A b \in daily.expire : booking[b].status = "completed"
  /\ \A b \in daily.report : booking[b].status = "expired"
  /\ \A t \in hourly.cur : txn[t].status = "approved"

\* What the tables tell of each other.
TablesAgree ==
  /\ \A b \in Booking : Present(b) => WellFormed(booking[b])
  /\ \A b \in Booking : request[b] # "none" => booking[b].status \in Granted
  /\ \A t \in Txn : t.kind = "bill" /\ txn[t] # Absent => Signed(t.booking)
  /\ \A t \in Txn : \/ accepted[t] = 0
                    \/ accepted[t] = 1 /\ txn[t].status = "succeed"

\* The request w still has to give b the land.
Settles(w, b) ==
  /\ \/ w.op = "settle"
     \/ w.op = "saveBooking" /\ w.row.status = "completed"
  /\ w.b = b

PaidSettles ==
  accidents = 0 => \A b \in Booking : PaidFor(b)
    => booking[b].status \in Granted \/ \E c \in Call : Settles(call[c], b)

SerialInv ==
  /\ OneAtATime
  /\ \A c \in Call : Fits(call[c])
  /\ ListsFit
  /\ TablesAgree
  /\ PaidSettles

LEMMA IdleFits == Fits(Idle) /\ Fits(Idle)' /\ \A b : ~Settles(Idle, b)
BY DEF Fits, Settles, Idle

\* A step of the only request in flight leaves it the work w.
LEMMA OnlyOneGoesOn ==
  ASSUME Inductive, OneAtATime, NEW c \in Call, call[c] # Idle, NEW w, Goto(c, w),
         UNCHANGED jobs
  PROVE  /\ OneAtATime'
         /\ call'[c] = w
         /\ \A d \in Call \ {c} : call'[d] = Idle
         /\ daily' = DailyIdle /\ hourly' = HourlyIdle
<1>1. call \in [Call -> Work] /\ daily' = daily /\ hourly' = hourly
  BY DEF Inductive, TypeOK, jobs
<1>2. call'[c] = w /\ \A d \in Call \ {c} : call'[d] = Idle
  BY <1>1 DEF Goto, OneAtATime
<1>3. daily' = DailyIdle /\ hourly' = HourlyIdle
  BY <1>1 DEF OneAtATime
<1> QED BY <1>2, <1>3 DEF OneAtATime

LEMMA QuietListsFit ==
  ASSUME daily' = DailyIdle, hourly' = HourlyIdle
  PROVE  ListsFit'
BY DEF ListsFit, DailyIdle, HourlyIdle

LEMMA StepKeepsSerial ==
  ASSUME Inductive, SerialInv, NEW c \in Call, call[c] # Idle, NEW w, Goto(c, w),
         UNCHANGED jobs, Fits(w)', TablesAgree',
         accidents' = 0 => \A b \in Booking : PaidFor(b)'
            => booking'[b].status \in Granted \/ Settles(w, b)
  PROVE  SerialInv'
<1>1. /\ OneAtATime' /\ call'[c] = w
      /\ \A d \in Call \ {c} : call'[d] = Idle
      /\ daily' = DailyIdle /\ hourly' = HourlyIdle
  BY OnlyOneGoesOn DEF SerialInv
<1>2. ASSUME NEW d \in Call
      PROVE  Fits(call[d])'
  <2>1. CASE d = c
    BY <1>1, <2>1 DEF Fits, Clear
  <2>2. CASE d # c
    BY <1>1, <2>2, IdleFits DEF Fits, Clear
  <2> QED BY <2>1, <2>2
<1>3. PaidSettles'
  BY <1>1 DEF PaidSettles
<1>4. ListsFit'
  BY <1>1, QuietListsFit
<1> QED BY <1>1, <1>2, <1>3, <1>4 DEF SerialInv

LEMMA StartKeepsSerial ==
  ASSUME Serial, Inductive, SerialInv, NEW c \in Call, NEW w, Start(c, w), Fits(w)
  PROVE  SerialInv'
<1>1. /\ Quiet /\ Goto(c, w) /\ call \in [Call -> Work]
      /\ UNCHANGED <<booking, txn, landStatus, request, extended, daily, hourly, now,
                     accepted, accidents>>
  BY DEF Start, MayStart, rows, jobs, Inductive, TypeOK
<1>2. call'[c] = w /\ \A d \in Call \ {c} : call'[d] = Idle
  BY <1>1 DEF Goto, Quiet
<1>3. OneAtATime'
  BY <1>1, <1>2 DEF OneAtATime, Quiet
<1>4. Fits(w)' /\ TablesAgree'
  BY <1>1 DEF Fits, Clear, RowFits, SerialInv, TablesAgree, Present, Signed
<1>5. ASSUME NEW d \in Call
      PROVE  Fits(call[d])'
  <2>1. CASE d = c
    BY <1>2, <1>4, <2>1 DEF Fits, Clear
  <2>2. CASE d # c
    BY <1>2, <2>2, IdleFits DEF Fits, Clear
  <2> QED BY <2>1, <2>2
<1>6. PaidSettles'
  <2>1. accidents = 0 => \A b \in Booking : PaidFor(b) => booking[b].status \in Granted
    BY <1>1, IdleFits DEF SerialInv, PaidSettles, Quiet
  <2> QED BY <1>1, <2>1 DEF PaidSettles, PaidFor, Bills
<1>7. ListsFit'
  BY <1>1, QuietListsFit DEF Quiet
<1> QED BY <1>3, <1>4, <1>5, <1>6, <1>7 DEF SerialInv

\* One row of a booking is written, a new one or one with its dates kept.
LEMMA BookingWritten ==
  ASSUME Inductive, TablesAgree, NEW b \in Booking, NEW row \in BookingRow,
         booking' = [booking EXCEPT ![b] = row],
         UNCHANGED <<txn, request, accepted>>,
         WellFormed(row),
         booking[b].status \in Granted => row.status \in Granted,
         Signed(b) => /\ row.status \in {"pending_payment"} \cup Granted
                      /\ row.contract
  PROVE  TablesAgree'
<1>1. /\ \A x \in Booking \ {b} : booking'[x] = booking[x]
      /\ booking'[b] = row
  BY DEF Inductive, TypeOK
<1>2. \A x \in Booking : Present(x)' => WellFormed(booking'[x])
  BY <1>1 DEF TablesAgree, Present
<1>3. \A x \in Booking : request'[x] # "none" => booking'[x].status \in Granted
  BY <1>1 DEF TablesAgree
<1>4. \A x \in Booking : Signed(x) => Signed(x)'
  BY <1>1 DEF Signed
<1>5. \A t \in Txn : t.kind = "bill" /\ txn'[t] # Absent => Signed(t.booking)'
  BY <1>4 DEF TablesAgree, Txn
<1> QED BY <1>2, <1>3, <1>5 DEF TablesAgree

\* One row of a transaction is written.
LEMMA TxnWritten ==
  ASSUME Inductive, TablesAgree, NEW t \in Txn, NEW row \in TxnRow,
         txn' = [txn EXCEPT ![t] = row],
         UNCHANGED <<booking, request>>,
         accepted' \in [Txn -> Nat], \A u \in Txn \ {t} : accepted'[u] = accepted[u],
         t.kind = "bill" => Signed(t.booking),
         accepted'[t] = 0 \/ (accepted'[t] = 1 /\ row.status = "succeed")
  PROVE  TablesAgree'
<1>1. txn'[t] = row /\ \A u \in Txn \ {t} : txn'[u] = txn[u]
  BY DEF Inductive, TypeOK
<1>2. \A u \in Txn : u.kind = "bill" /\ txn'[u] # Absent => Signed(u.booking)'
  BY <1>1 DEF TablesAgree, Signed
<1>3. \A u \in Txn : \/ accepted'[u] = 0
                     \/ accepted'[u] = 1 /\ txn'[u].status = "succeed"
  BY <1>1 DEF TablesAgree
<1>4. /\ \A b \in Booking : Present(b)' => WellFormed(booking'[b])
      /\ \A b \in Booking : request'[b] # "none" => booking'[b].status \in Granted
  BY DEF TablesAgree, Present
<1> QED BY <1>2, <1>3, <1>4 DEF TablesAgree

LEMMA ArriveKeepsSerial ==
  ASSUME Serial, Inductive, SerialInv, NEW c \in Call, Arrive(c)
  PROVE  SerialInv'
<1>0. TablesAgree /\ booking \in [Booking -> BookingRow \cup {Absent}]
  BY DEF SerialInv, Inductive, TypeOK
<1>1. ASSUME NEW w, Start(c, w), Fits(w)
      PROVE  SerialInv'
  BY <1>1, StartKeepsSerial
<1>2. ASSUME NEW l \in Land, NEW p \in RentPeriod, NEW m \in BOOLEAN,
             CreateBooking(c, l, p, m)
      PROVE  SerialInv'
  <2>1. PICK w : /\ w = [op |-> "insertBooking",
                         row |-> [status |-> "pending", land |-> l, start |-> p.start,
                                  end |-> p.end, multiple |-> m,
                                  sched |-> NoDate, contract |-> FALSE]]
                 /\ Start(c, w)
    BY <1>2 DEF CreateBooking
  <2>2. p.start \in Int /\ p.end \in Int /\ p.start <= p.end
    BY RentPeriodAssumption DEF Period, WellFormed
  <2>3. ASSUME NEW b \in Booking, booking[b].status = "completed", booking[b].land = l
        PROVE  p.end < booking[b].start
    <3>1. booking[b] \in BookingRow /\ WellFormed(booking[b])
      BY <1>0, <2>3 DEF TablesAgree, Present, Absent
    <3>2. /\ booking[b].start \in Int /\ booking[b].end \in Int
          /\ booking[b].start <= booking[b].end
      BY <3>1 DEF BookingRow, WellFormed
    <3>3. ~Conflicts(booking[b], p) /\ ~EndsBefore(booking[b], p)
      BY <1>2, <2>3 DEF CreateBooking
    <3> QED BY <2>2, <3>2, <3>3 DEF Conflicts, EndsBefore
  <2>4. Fits(w)
    BY <2>1, <2>2, <2>3 DEF Fits, Clear, WellFormed
  <2> QED BY <1>1, <2>1, <2>4
<1>3. ASSUME NEW b \in Booking,
             \/ UpdateStatusToPendingContract(c, b) \/ UpdateStatusToPendingSign(c, b)
             \/ UpdateStatusToPendingPayment(c, b) \/ UpdateStatusToRejected(c, b)
             \/ CreateReport(c, b)
      PROVE  SerialInv'
  <2>1. booking[b] \in BookingRow
    <3>1. request[b] # "none" => booking[b].status \in Granted
      BY <1>0 DEF TablesAgree
    <3>2. booking[b] # Absent
      BY <1>3, <3>1 DEF UpdateStatusToPendingContract, UpdateStatusToPendingSign,
           UpdateStatusToPendingPayment, UpdateStatusToRejected, CreateReport, Absent,
           Granted
    <3> QED BY <1>0, <3>2
  <2>2. ASSUME NEW row, NEW then, Start(c, Save(b, row, then)),
               RowFits(Save(b, row, then), booking[b])
        PROVE  SerialInv'
    <3>1. PICK w : w = Save(b, row, then)
      OBVIOUS
    <3>2. w.op = "saveBooking" /\ w.b = b
      BY <3>1 DEF Save
    <3>3. Fits(w)
      BY <2>2, <3>1, <3>2 DEF Fits
    <3> QED BY <1>1, <2>2, <3>1, <3>3
  <2>3. CASE UpdateStatusToPendingContract(c, b)
    BY <2>1, <2>2, <2>3 DEF UpdateStatusToPendingContract, Save, RowFits, BeforeSigning,
         BookingRow
  <2>4. CASE UpdateStatusToPendingSign(c, b)
    BY <2>1, <2>2, <2>4 DEF UpdateStatusToPendingSign, Save, RowFits, BeforeSigning,
         BookingRow
  <2>5. CASE UpdateStatusToPendingPayment(c, b)
    BY <2>1, <2>2, <2>5 DEF UpdateStatusToPendingPayment, Save, RowFits, BookingRow
  <2>6. CASE UpdateStatusToRejected(c, b)
    BY <2>1, <2>2, <2>6 DEF UpdateStatusToRejected, Save, RowFits, BeforeSigning,
         BookingRow
  <2>7. CASE CreateReport(c, b)
    <3>1. booking[b].status \in Granted
      BY <1>0, <2>7 DEF CreateReport, TablesAgree
    <3> QED BY <2>1, <2>2, <2>7, <3>1 DEF CreateReport, Save, RowFits, BookingRow
  <2> QED BY <1>3, <2>3, <2>4, <2>5, <2>6, <2>7
<1>4. ASSUME NEW b \in Booking, NEW o \in {"completed", "rejected"},
             ApproveTask(c, b) \/ ConfirmRequest(c, b, o)
      PROVE  SerialInv'
  <2>1. booking[b].status \in Granted
    BY <1>0, <1>4 DEF TablesAgree, ApproveTask, ConfirmRequest
  <2>2. PICK w : /\ Start(c, w)
                 /\ w \in {[op |-> "fileReport", b |-> b], [op |-> "refund", b |-> b],
                           [op |-> "closeRequest", b |-> b, to |-> o]}
    BY <1>4 DEF ApproveTask, ConfirmRequest
  <2>3. Fits(w)
    BY <2>1, <2>2 DEF Fits
  <2> QED BY <1>1, <2>2, <2>3
<1>5. ASSUME NEW t \in Txn,
             \/ HandleTransactionPayment(c, t) \/ CancelTransaction(c, t)
             \/ UpdateRefundTransactionToConfirm(c, t)
      PROVE  SerialInv'
  <2>1. PICK w : /\ Start(c, w)
                 /\ w \in {[op |-> "acceptPayment", t |-> t], [op |-> "expireTxn", t |-> t],
                           [op |-> "confirmRefund", t |-> t]}
    BY <1>5 DEF HandleTransactionPayment, CancelTransaction,
         UpdateRefundTransactionToConfirm
  <2>2. txn[t].status = "approved"
    BY <1>5 DEF HandleTransactionPayment, CancelTransaction,
         UpdateRefundTransactionToConfirm
  <2>3. Fits(w)
    BY <2>1, <2>2 DEF Fits
  <2> QED BY <1>1, <2>1, <2>3
<1>6. \/ \E l \in Land, p \in RentPeriod, m \in BOOLEAN : CreateBooking(c, l, p, m)
      \/ \E b \in Booking :
           \/ UpdateStatusToPendingContract(c, b) \/ UpdateStatusToPendingSign(c, b)
           \/ UpdateStatusToPendingPayment(c, b) \/ UpdateStatusToRejected(c, b)
           \/ CreateReport(c, b)
      \/ \E b \in Booking, o \in {"completed", "rejected"} :
           ApproveTask(c, b) \/ ConfirmRequest(c, b, o)
      \/ \E t \in Txn : \/ HandleTransactionPayment(c, t) \/ CancelTransaction(c, t)
                        \/ UpdateRefundTransactionToConfirm(c, t)
  BY DEF Arrive
<1> QED BY <1>2, <1>3, <1>4, <1>5, <1>6

LEMMA SameTablesAgree ==
  ASSUME TablesAgree, UNCHANGED <<booking, txn, request, accepted>>
  PROVE  TablesAgree'
BY DEF TablesAgree, Present, Signed

LEMMA OnlyOneSettles ==
  ASSUME SerialInv, NEW c \in Call, call[c] # Idle
  PROVE  accidents = 0 => \A b \in Booking : PaidFor(b)
           => booking[b].status \in Granted \/ Settles(call[c], b)
BY IdleFits DEF SerialInv, PaidSettles, OneAtATime

\* A step after which no more was paid and that settles nothing.
LEMMA PlainStepKeepsSerial ==
  ASSUME Inductive, SerialInv, NEW c \in Call, NEW v, v = call[c], NEW w, Goto(c, w),
         v.op \notin {"idle", "settle", "saveBooking"},
         UNCHANGED jobs, Fits(w)', TablesAgree',
         UNCHANGED accepted, accidents' = 0 => accidents = 0,
         \A b \in Booking : booking[b].status \in Granted
                              => booking'[b].status \in Granted
  PROVE  SerialInv'
<1>1. call[c] # Idle
  BY DEF Idle
<1>2. \A b \in Booking : ~Settles(v, b)
  BY DEF Settles
<1>3. \A b \in Booking : PaidFor(b)' => PaidFor(b)
  BY DEF PaidFor, Bills
<1>4. accidents' = 0 => \A b \in Booking : PaidFor(b)'
        => booking'[b].status \in Granted \/ Settles(w, b)
  BY <1>1, <1>2, <1>3, OnlyOneSettles
<1> QED BY <1>1, <1>4, StepKeepsSerial

LEMMA SaveNewBookingKeepsSerial ==
  ASSUME Inductive, SerialInv, NEW c \in Call, SaveNewBooking(c)
  PROVE  SerialInv'
<1>1. PICK v \in Work : v = call[c] /\ v.op = "insertBooking" /\ Fits(v) /\ Legit(v)
  BY DEF Inductive, TypeOK, SerialInv, SaveNewBooking
<1>2. v.row \in BookingRow /\ WellFormed(v.row)
  BY <1>1, WorkShape DEF Fits
<1>3. PICK b \in Booking : /\ booking[b] = Absent
                           /\ booking' = [booking EXCEPT ![b] = v.row]
  BY <1>1 DEF SaveNewBooking
<1>4. booking[b].status = "none"
  BY <1>3 DEF Absent
<1>5. TablesAgree'
  BY <1>2, <1>3, <1>4, BookingWritten DEF SerialInv, SaveNewBooking, Signed, Granted
<1>6. PICK w : w = [op |-> "markLand", land |-> call[c].row.land] /\ Goto(c, w)
  BY DEF SaveNewBooking
<1>7. Fits(w)'
  BY <1>6 DEF Fits
<1>8. \A x \in Booking : booking[x].status \in Granted => booking'[x].status \in Granted
  BY <1>3, <1>4 DEF Inductive, TypeOK, Granted
<1> QED BY <1>1, <1>5, <1>6, <1>7, <1>8, PlainStepKeepsSerial DEF SaveNewBooking

LEMMA UpdateLandStatusKeepsSerial ==
  ASSUME Inductive, SerialInv, NEW c \in Call, UpdateLandStatus(c)
  PROVE  SerialInv'
<1>1. TablesAgree'
  BY SameTablesAgree DEF UpdateLandStatus, SerialInv
<1>2. PICK v : v = call[c]
  OBVIOUS
<1> QED BY <1>1, <1>2, IdleFits, PlainStepKeepsSerial DEF UpdateLandStatus

LEMMA WriteBookingKeepsSerial ==
  ASSUME Inductive, SerialInv, NEW c \in Call, WriteBooking(c)
  PROVE  SerialInv'
<1>1. PICK v \in Work : v = call[c] /\ v.op = "saveBooking" /\ Fits(v) /\ Legit(v)
  BY DEF Inductive, TypeOK, SerialInv, WriteBooking
<1>2. PICK b \in Booking : b = v.b
  BY <1>1, WorkShape
<1>3. /\ v.row \in BookingRow /\ RowFits(v, booking[b])
      /\ booking' = [booking EXCEPT ![b] = v.row]
  BY <1>1, <1>2, WorkShape DEF Fits, WriteBooking
<1>4. /\ booking'[b] = v.row
      /\ \A x \in Booking \ {b} : booking'[x] = booking[x]
  BY <1>3 DEF Inductive, TypeOK
<1>5. booking[b].status \in Granted => v.row.status \in Granted
  BY <1>3 DEF RowFits, Granted, BeforeSigning
<1>6. TablesAgree'
  <2>1. WellFormed(booking[b])
    BY <1>1, <1>2 DEF Legit, SerialInv, TablesAgree
  <2>2. WellFormed(v.row)
    BY <1>3, <2>1 DEF RowFits, WellFormed
  <2>3. Signed(b) => /\ v.row.status \in {"pending_payment"} \cup Granted
                     /\ v.row.contract
    BY <1>3 DEF RowFits, Signed, Granted, BeforeSigning
  <2> QED BY <1>3, <1>5, <2>2, <2>3, BookingWritten DEF SerialInv, WriteBooking
<1>7. PICK w : /\ Goto(c, w)
               /\ w = IF v.then = "done" THEN Idle ELSE [op |-> v.then, b |-> b]
  BY <1>1, <1>2 DEF WriteBooking
<1>8. Fits(w)'
  <2>1. CASE v.then = "done"
    BY <1>7, <2>1, IdleFits
  <2>2. CASE v.then = "bill"
    BY <1>3, <1>4, <1>7, <2>2 DEF Fits, RowFits
  <2>3. CASE v.then = "fileReport"
    BY <1>3, <1>4, <1>7, <2>3 DEF Fits, RowFits, Granted
  <2> QED BY <1>3, <2>1, <2>2, <2>3 DEF RowFits
<1>9. ASSUME accidents' = 0, NEW x \in Booking, PaidFor(x)'
      PROVE  booking'[x].status \in Granted \/ Settles(w, x)
  <2>1. accidents = 0 /\ PaidFor(x)
    BY <1>9 DEF WriteBooking, PaidFor, Bills
  <2>2. booking[x].status \in Granted \/ Settles(v, x)
    BY <1>1, <2>1, OnlyOneSettles DEF Idle
  <2>3. Settles(v, x) => x = b /\ v.row.status = "completed"
    BY <1>1, <1>2 DEF Settles
  <2> QED BY <1>4, <1>5, <2>2, <2>3 DEF Granted
<1>10. call[c] # Idle /\ UNCHANGED jobs
  BY DEF WriteBooking, Idle
<1> QED BY <1>6, <1>7, <1>8, <1>9, <1>10, StepKeepsSerial

\* A new row of a transaction: no money came for it yet.
LEMMA TxnInserted ==
  ASSUME Inductive, TablesAgree, NEW t \in Txn, NEW row \in TxnRow,
         txn[t] = Absent, Insert(t, row), UNCHANGED <<booking, request, accepted>>,
         t.kind = "bill" => Signed(t.booking)
  PROVE  TablesAgree'
<1>1. accepted[t] = 0
  BY DEF TablesAgree, Absent
<1>2. /\ accepted' = accepted /\ accepted \in [Txn -> Nat]
      /\ txn' = [txn EXCEPT ![t] = row]
  BY DEF Insert, Inductive, TypeOK
<1>3. /\ accepted' \in [Txn -> Nat] /\ accepted'[t] = 0
      /\ \A u \in Txn \ {t} : accepted'[u] = accepted[u]
  BY <1>1, <1>2
<1>4. UNCHANGED <<booking, request>>
  OBVIOUS
<1> QED BY <1>2, <1>3, <1>4, TxnWritten

LEMMA SaveBillKeepsSerial ==
  ASSUME Inductive, SerialInv, NEW c \in Call, SaveBill(c)
  PROVE  SerialInv'
<1>1. PICK v \in Work : v = call[c] /\ v.op = "bill" /\ Fits(v)
  BY DEF Inductive, TypeOK, SerialInv, SaveBill
<1>2. PICK b \in Booking : b = v.b
  BY <1>1, WorkShape
<1>3. booking[b].status = "pending_payment" /\ booking[b].contract
  BY <1>1, <1>2 DEF Fits
<1>4. PICK t \in FirstFree(b, "bill") :
        Insert(t, [status |-> "approved", due |-> now + 1])
  BY <1>1, <1>2 DEF SaveBill
<1>5. t \in Txn /\ txn[t] = Absent /\ t.booking = b
  BY DEF FirstFree, Free
<1>6. [status |-> "approved", due |-> now + 1] \in TxnRow
  BY NewTxnRow, InductiveParts DEF TransactionStatus
<1>7. TablesAgree'
  BY <1>3, <1>4, <1>5, <1>6, TxnInserted DEF SerialInv, Signed, SaveBill
<1>8. PICK w : /\ Goto(c, w)
               /\ w = IF booking[b].multiple THEN [op |-> "second", b |-> b] ELSE Idle
  BY <1>1, <1>2 DEF SaveBill
<1>9. Fits(w)'
  BY <1>3, <1>8, IdleFits DEF Fits, SaveBill
<1> QED BY <1>1, <1>7, <1>8, <1>9, PlainStepKeepsSerial DEF SaveBill

LEMMA SaveSecondInstalmentKeepsSerial ==
  ASSUME Inductive, SerialInv, NEW c \in Call, SaveSecondInstalment(c)
  PROVE  SerialInv'
<1>1. PICK v \in Work : v = call[c] /\ v.op = "second"
  BY DEF Inductive, TypeOK, SaveSecondInstalment
<1>2. PICK t \in FirstFree(v.b, "second") :
        Insert(t, [status |-> "pending", due |-> now])
  BY <1>1 DEF SaveSecondInstalment
<1>3. t \in Txn /\ txn[t] = Absent /\ t.kind = "second"
  BY DEF FirstFree, Free
<1>4. [status |-> "pending", due |-> now] \in TxnRow
  BY NewTxnRow, InductiveParts DEF TransactionStatus
<1>5. TablesAgree'
  BY <1>2, <1>3, <1>4, TxnInserted DEF SerialInv, SaveSecondInstalment
<1> QED BY <1>1, <1>5, IdleFits, PlainStepKeepsSerial DEF SaveSecondInstalment

LEMMA CreateRefundBookingKeepsSerial ==
  ASSUME Inductive, SerialInv, NEW c \in Call, CreateRefundBooking(c)
  PROVE  SerialInv'
<1>1. PICK v \in Work : v = call[c] /\ v.op = "refund" /\ Fits(v)
  BY DEF Inductive, TypeOK, SerialInv, CreateRefundBooking
<1>2. PICK t \in FirstFree(v.b, "refund") :
        Insert(t, [status |-> "approved", due |-> now + 1])
  BY <1>1 DEF CreateRefundBooking
<1>3. t \in Txn /\ txn[t] = Absent /\ t.kind = "refund"
  BY DEF FirstFree, Free
<1>4. [status |-> "approved", due |-> now + 1] \in TxnRow
  BY NewTxnRow, InductiveParts DEF TransactionStatus
<1>5. TablesAgree'
  BY <1>2, <1>3, <1>4, TxnInserted DEF SerialInv, CreateRefundBooking
<1>6. PICK w : w = [op |-> "closeRequest", b |-> v.b, to |-> "completed"] /\ Goto(c, w)
  BY <1>1 DEF CreateRefundBooking
<1>7. Fits(w)'
  BY <1>1, <1>6 DEF Fits, CreateRefundBooking
<1> QED BY <1>1, <1>5, <1>6, <1>7, PlainStepKeepsSerial DEF CreateRefundBooking

LEMMA RestartOnDuplicateCodeKeepsSerial ==
  ASSUME Inductive, SerialInv, NEW c \in Call, RestartOnDuplicateCode(c)
  PROVE  SerialInv'
<1>1. PICK v : v = call[c] /\ v.op = "second" /\ Fits(v)
  BY DEF SerialInv, RestartOnDuplicateCode
<1>2. UNCHANGED <<booking, txn, request, accepted, jobs>>
  BY DEF RestartOnDuplicateCode, rows
<1>3. TablesAgree'
  BY <1>2, SameTablesAgree DEF SerialInv
<1>4. PICK w : w = [op |-> "bill", b |-> v.b] /\ Goto(c, w)
  BY <1>1 DEF RestartOnDuplicateCode
<1>5. Fits(w)'
  BY <1>1, <1>2, <1>4 DEF Fits
<1>6. accidents' # 0
  BY DEF RestartOnDuplicateCode, Inductive, TypeOK
<1> QED BY <1>1, <1>2, <1>3, <1>4, <1>5, <1>6, PlainStepKeepsSerial

\* The status of an approved transaction is written.
LEMMA ApprovedWritten ==
  ASSUME Inductive, TablesAgree, NEW t \in Txn, NEW s \in TransactionStatus,
         txn[t].status = "approved", SetStatus(t, s), UNCHANGED <<booking, request>>,
         accepted' \in [Txn -> Nat], \A u \in Txn \ {t} : accepted'[u] = accepted[u],
         accepted'[t] = 0 \/ (accepted'[t] = 1 /\ s = "succeed")
  PROVE  /\ TablesAgree'
         /\ \A u \in Txn \ {t} : txn'[u] = txn[u]
         /\ txn'[t].status = s
<1>1. txn[t] # Absent /\ txn \in [Txn -> TxnRow \cup {Absent}]
  BY DEF Absent, Inductive, TypeOK
<1>2. PICK row \in TxnRow : row = [txn[t] EXCEPT !.status = s]
  BY <1>1 DEF TxnRow
<1>3. row.status = s
  BY <1>1, <1>2 DEF TxnRow
<1>4. txn' = [txn EXCEPT ![t] = row]
  BY <1>1, <1>2 DEF SetStatus
<1>5. t.kind = "bill" => Signed(t.booking)
  BY <1>1 DEF TablesAgree
<1>6. TablesAgree'
  BY <1>3, <1>4, <1>5, TxnWritten
<1> QED BY <1>1, <1>3, <1>4, <1>6

LEMMA ApprovedIsUnpaid ==
  ASSUME Inductive, TablesAgree, NEW t \in Txn, txn[t].status = "approved"
  PROVE  accepted[t] = 0
BY DEF TablesAgree

LEMMA CloseTxnKeepsSerial ==
  ASSUME Inductive, SerialInv, NEW c \in Call,
         ExpireTransaction(c) \/ SaveRefundConfirmed(c)
  PROVE  SerialInv'
<1>1. PICK v \in Work : /\ v = call[c] /\ v.op \in {"expireTxn", "confirmRefund"}
                        /\ Fits(v)
  BY DEF Inductive, TypeOK, SerialInv, ExpireTransaction, SaveRefundConfirmed
<1>2. PICK t \in Txn : t = v.t
  BY <1>1, WorkShape
<1>3. PICK s \in TransactionStatus : SetStatus(t, s)
  BY <1>1, <1>2 DEF ExpireTransaction, SaveRefundConfirmed, TransactionStatus
<1>4. /\ UNCHANGED <<booking, request, jobs, accepted, accidents>> /\ Goto(c, Idle)
      /\ accepted \in [Txn -> Nat] /\ TablesAgree
  BY DEF ExpireTransaction, SaveRefundConfirmed, Inductive, TypeOK, SerialInv
<1>5. txn[t].status = "approved" /\ accepted[t] = 0
  BY <1>1, <1>2, <1>4, ApprovedIsUnpaid DEF Fits
<1>6. /\ accepted' \in [Txn -> Nat] /\ accepted'[t] = 0
      /\ \A u \in Txn \ {t} : accepted'[u] = accepted[u]
  BY <1>4, <1>5
<1>7. TablesAgree'
  BY <1>3, <1>4, <1>5, <1>6, ApprovedWritten
<1> QED BY <1>1, <1>4, <1>7, IdleFits, PlainStepKeepsSerial

\* Whoever paid for a booking finds it signed.
LEMMA PaidIsSigned ==
  ASSUME Inductive, TablesAgree, NEW b \in Booking, PaidFor(b)
  PROVE  booking[b].status \in {"pending_payment"} \cup Granted
<1>1. PICK t \in Bills(b) : accepted[t] > 0
  BY DEF PaidFor
<1>2. txn[t].status = "succeed"
  BY <1>1 DEF TablesAgree, Bills
<1>3. Signed(t.booking) /\ t.booking = b
  BY <1>2 DEF TablesAgree, Bills, Absent
<1> QED BY <1>3 DEF Signed

LEMMA AcceptPaymentKeepsSerial ==
  ASSUME Inductive, SerialInv, NEW c \in Call, AcceptPayment(c)
  PROVE  SerialInv'
<1>1. PICK v \in Work : /\ v = call[c] /\ v.op = "acceptPayment" /\ Fits(v)
                        /\ Legit(v)
  BY DEF Inductive, TypeOK, SerialInv, AcceptPayment
<1>2. PICK t \in Txn : t = v.t
  BY <1>1, WorkShape
<1>3. /\ SetStatus(t, "succeed") /\ accepted' = [accepted EXCEPT ![t] = @ + 1]
      /\ UNCHANGED <<booking, request, jobs, accidents>>
      /\ accepted \in [Txn -> Nat] /\ TablesAgree
  BY <1>1, <1>2 DEF AcceptPayment, Inductive, TypeOK, SerialInv
<1>4. txn[t].status = "approved" /\ accepted[t] = 0 /\ t.kind # "second"
  BY <1>1, <1>2, <1>3, ApprovedIsUnpaid DEF Fits, Legit, Payable
<1>5. /\ accepted' \in [Txn -> Nat] /\ accepted'[t] = 1
      /\ \A u \in Txn \ {t} : accepted'[u] = accepted[u]
  BY <1>3, <1>4
<1>6. TablesAgree'
  BY <1>3, <1>4, <1>5, ApprovedWritten DEF TransactionStatus
<1>7. PICK b \in Booking : b = t.booking
  BY DEF Txn
<1>8. PICK w : w = [op |-> "settle", b |-> b] /\ Goto(c, w)
  BY <1>1, <1>2, <1>7 DEF AcceptPayment
<1>9. booking[b].status \in {"pending_payment"} \cup Granted
  <2>1. txn[t] # Absent
    BY <1>4 DEF Absent
  <2>2. CASE t.kind = "bill"
    BY <1>3, <1>7, <2>1, <2>2 DEF TablesAgree, Signed
  <2>3. CASE t.kind = "refund"
    BY <1>3, <1>7, <2>1, <2>3, PaidIsSigned DEF Inductive, RefundWasPaid
  <2> QED BY <1>4, <2>2, <2>3 DEF Txn, Kind
<1>10. Fits(w)'
  BY <1>3, <1>8, <1>9 DEF Fits
<1>11. ASSUME accidents' = 0, NEW x \in Booking, PaidFor(x)'
       PROVE  booking'[x].status \in Granted \/ Settles(w, x)
  <2>1. CASE x = b
    BY <1>8, <2>1 DEF Settles
  <2>2. CASE x # b
    <3>1. PaidFor(x)
      BY <1>5, <1>7, <1>11, <2>2 DEF PaidFor, Bills
    <3>2. ~Settles(v, x) /\ call[c] # Idle
      BY <1>1 DEF Settles, Idle
    <3> QED BY <1>1, <1>3, <1>11, <3>1, <3>2, OnlyOneSettles
  <2> QED BY <2>1, <2>2
<1>12. call[c] # Idle
  BY <1>1 DEF Idle
<1> QED BY <1>3, <1>6, <1>8, <1>10, <1>11, <1>12, StepKeepsSerial

LEMMA UpdateStatusToCompletedKeepsSerial ==
  ASSUME Inductive, SerialInv, NEW c \in Call, UpdateStatusToCompleted(c)
  PROVE  SerialInv'
<1>1. PICK v \in Work : v = call[c] /\ v.op = "settle" /\ Fits(v)
  BY DEF Inductive, TypeOK, SerialInv, UpdateStatusToCompleted
<1>2. PICK b \in Booking : b = v.b
  BY <1>1, WorkShape
<1>3. UNCHANGED <<booking, txn, request, accepted, accidents, jobs>>
  BY DEF UpdateStatusToCompleted, rows
<1>4. TablesAgree'
  BY <1>3, SameTablesAgree DEF SerialInv
<1>5. ASSUME accidents' = 0, NEW x \in Booking, PaidFor(x)'
      PROVE  booking[x].status \in Granted \/ x = b
  <2>1. PaidFor(x) /\ call[c] # Idle
    BY <1>1, <1>3, <1>5 DEF PaidFor, Bills, Idle
  <2>2. Settles(v, x) => x = b
    BY <1>2 DEF Settles
  <2> QED BY <1>1, <1>3, <1>5, <2>1, <2>2, OnlyOneSettles
<1>6. call[c] # Idle
  BY <1>1 DEF Idle
<1>7. CASE booking[b].status = "pending_payment"
  <2>1. booking[b] \in BookingRow
    BY <1>7 DEF Inductive, TypeOK, Absent
  <2>2. PICK row \in BookingRow : row = [booking[b] EXCEPT !.status = "completed"]
    BY <2>1 DEF BookingRow, BookingStatus
  <2>3. /\ row.status = "completed" /\ row.start = booking[b].start
        /\ row.end = booking[b].end /\ row.contract = booking[b].contract
    BY <2>1, <2>2 DEF BookingRow
  <2>4. PICK w : w = Save(b, row, "done") /\ Goto(c, w)
    BY <1>1, <1>2, <1>7, <2>2 DEF UpdateStatusToCompleted
  <2>5. Fits(w)'
    BY <1>3, <1>7, <2>3, <2>4 DEF Fits, Save, RowFits
  <2>6. Settles(w, b)
    BY <2>3, <2>4 DEF Settles, Save
  <2> QED BY <1>3, <1>4, <1>5, <1>6, <2>4, <2>5, <2>6, StepKeepsSerial
<1>8. CASE booking[b].status # "pending_payment"
  <2>1. Goto(c, Idle)
    BY <1>1, <1>2, <1>8 DEF UpdateStatusToCompleted
  <2>2. booking[b].status \in Granted
    BY <1>1, <1>2, <1>8 DEF Fits
  <2> QED BY <1>3, <1>4, <1>5, <1>6, <2>1, <2>2, IdleFits, StepKeepsSerial
<1> QED BY <1>7, <1>8

LEMMA RequestWritten ==
  ASSUME TablesAgree, NEW b \in Booking, booking[b].status \in Granted,
         \A x \in Booking \ {b} : request'[x] = request[x],
         UNCHANGED <<booking, txn, accepted>>
  PROVE  TablesAgree'
BY DEF TablesAgree, Present, Signed

LEMMA RequestStepKeepsSerial ==
  ASSUME Inductive, SerialInv, NEW c \in Call,
         UpdateRequestStatus(c) \/ SaveRequestClosed(c)
  PROVE  SerialInv'
<1>1. PICK v \in Work : /\ v = call[c] /\ v.op \in {"fileReport", "closeRequest"}
                        /\ Fits(v)
  BY DEF Inductive, TypeOK, SerialInv, UpdateRequestStatus, SaveRequestClosed
<1>2. PICK b \in Booking : b = v.b
  BY <1>1, WorkShape
<1>3. \A x \in Booking \ {b} : request'[x] = request[x]
  BY <1>1, <1>2 DEF UpdateRequestStatus, SaveRequestClosed, Inductive, TypeOK
<1>4. TablesAgree'
  BY <1>1, <1>2, <1>3, RequestWritten DEF SerialInv, Fits, UpdateRequestStatus,
     SaveRequestClosed
<1> QED BY <1>1, <1>4, IdleFits, PlainStepKeepsSerial DEF UpdateRequestStatus,
           SaveRequestClosed

LEMMA ContinueKeepsSerial ==
  ASSUME Inductive, SerialInv, NEW c \in Call, Continue(c)
  PROVE  SerialInv'
BY SaveNewBookingKeepsSerial, UpdateLandStatusKeepsSerial, WriteBookingKeepsSerial,
   SaveBillKeepsSerial, SaveSecondInstalmentKeepsSerial,
   RestartOnDuplicateCodeKeepsSerial, AcceptPaymentKeepsSerial,
   UpdateStatusToCompletedKeepsSerial, CloseTxnKeepsSerial, RequestStepKeepsSerial,
   CreateRefundBookingKeepsSerial DEF Continue

LEMMA FailKeepsSerial ==
  ASSUME Inductive, SerialInv, NEW c \in Call, Fail(c)
  PROVE  SerialInv'
<1>1. /\ UNCHANGED <<booking, txn, request, accepted, jobs>> /\ call[c] # Idle
      /\ Goto(c, Idle)
  BY DEF Fail, rows
<1>2. accidents' # 0
  BY DEF Fail, Accident, Inductive, TypeOK
<1>3. TablesAgree'
  BY <1>1, SameTablesAgree DEF SerialInv
<1> QED BY <1>1, <1>2, <1>3, IdleFits, StepKeepsSerial

\* A step of a job, or one that nobody waits for, while no request is in flight.
LEMMA QuietStepKeepsSerial ==
  ASSUME SerialInv, \A c \in Call : call[c] = Idle, UNCHANGED <<call, accepted>>,
         daily' = DailyIdle \/ hourly' = HourlyIdle, ListsFit', TablesAgree',
         accidents' = 0 => accidents = 0,
         \A b \in Booking : booking[b].status \in Granted
                              => booking'[b].status \in Granted
  PROVE  SerialInv'
<1>1. OneAtATime'
  BY DEF OneAtATime
<1>2. \A c \in Call : call'[c] = Idle
  OBVIOUS
<1>3. ASSUME NEW c \in Call
      PROVE  Fits(call[c])'
  BY <1>2, <1>3, IdleFits DEF Fits, Clear
<1>4. PaidSettles'
  <2>1. \A b \in Booking : PaidFor(b)' => PaidFor(b)
    BY DEF PaidFor, Bills
  <2>2. accidents = 0 => \A b \in Booking : PaidFor(b) => booking[b].status \in Granted
    BY IdleFits DEF SerialInv, PaidSettles
  <2> QED BY <2>1, <2>2 DEF PaidSettles
<1> QED BY <1>1, <1>3, <1>4 DEF SerialInv

LEMMA DailyIsAlone ==
  ASSUME SerialInv, daily # DailyIdle
  PROVE  hourly = HourlyIdle /\ \A c \in Call : call[c] = Idle
BY DEF SerialInv, OneAtATime

LEMMA HourlyIsAlone ==
  ASSUME SerialInv, hourly # HourlyIdle
  PROVE  daily = DailyIdle /\ \A c \in Call : call[c] = Idle
BY DEF SerialInv, OneAtATime

LEMMA ListExpiredScheduleKeepsSerial ==
  ASSUME Serial, Inductive, SerialInv, ListExpiredSchedule
  PROVE  SerialInv'
<1>1. UNCHANGED <<booking, txn, request, call, hourly, accepted, accidents>> /\ Quiet
  BY DEF ListExpiredSchedule, rows, MayStart
<1> DEFINE listed == {[b |-> b, row |-> booking[b]] :
                        b \in {x \in Booking : ScheduleOver(x)}}
<1>2. daily' = [DailyIdle EXCEPT !.pc = "listing", !.cancel = listed]
  BY DEF ListExpiredSchedule
<1>3. daily'.cancel = listed /\ daily'.expire = {} /\ daily'.report = {}
  BY <1>2 DEF DailyIdle
<1>4. \A s \in listed : booking[s.b] = s.row /\ s.row.status = "pending_sign"
  BY DEF ScheduleOver
<1> HIDE DEF listed
<1>5. hourly' = HourlyIdle /\ HourlyIdle.cur = {}
  BY <1>1 DEF Quiet, HourlyIdle
<1>6. ListsFit'
  BY <1>1, <1>3, <1>4, <1>5 DEF ListsFit
<1>7. TablesAgree'
  BY <1>1, SameTablesAgree DEF SerialInv
<1> QED BY <1>1, <1>5, <1>6, <1>7, QuietStepKeepsSerial DEF Quiet

\* The lists after a step of the daily job.
LEMMA DailyListsFit ==
  ASSUME hourly' = HourlyIdle,
         \A s \in daily'.cancel : booking'[s.b] = s.row /\ s.row.status = "pending_sign",
         \A b \in daily'.expire : booking'[b].status = "completed",
         \A b \in daily'.report : booking'[b].status = "expired"
  PROVE  ListsFit'
BY DEF ListsFit, HourlyIdle

LEMMA CancelBookingKeepsSerial ==
  ASSUME Inductive, SerialInv, CancelBooking
  PROVE  SerialInv'
<1>1. /\ UNCHANGED <<txn, request, call, hourly, accepted, accidents>>
      /\ daily \in Daily /\ ListsFit /\ TablesAgree
      /\ booking \in [Booking -> BookingRow \cup {Absent}]
  BY DEF CancelBooking, Inductive, TypeOK, SerialInv
<1>2. PICK s \in daily.cancel :
        /\ booking' = [booking EXCEPT ![s.b] = [s.row EXCEPT !.status = "canceled"]]
        /\ daily' = [daily EXCEPT !.cancel = @ \ {s}]
  BY DEF CancelBooking
<1>3. /\ daily.cancel \subseteq Snapshot /\ daily'.cancel = daily.cancel \ {s}
      /\ daily'.expire = daily.expire /\ daily'.report = daily.report
      /\ daily.expire \subseteq Booking /\ daily.report \subseteq Booking
  BY <1>1, <1>2 DEF Daily
<1>4. PICK b \in Booking : b = s.b
  BY <1>3 DEF Snapshot
<1>5. booking[b] = s.row /\ booking[b].status = "pending_sign"
  BY <1>1, <1>4 DEF ListsFit
<1>6. booking[b] \in BookingRow /\ WellFormed(booking[b])
  BY <1>1, <1>5 DEF TablesAgree, Present, Absent
<1>7. PICK row \in BookingRow : row = [booking[b] EXCEPT !.status = "canceled"]
  BY <1>6 DEF BookingRow, BookingStatus
<1>8. row.start = booking[b].start /\ row.end = booking[b].end
  BY <1>6, <1>7 DEF BookingRow
<1>9. /\ booking' = [booking EXCEPT ![b] = row]
      /\ \A x \in Booking \ {b} : booking'[x] = booking[x]
  BY <1>1, <1>2, <1>4, <1>5, <1>7
<1>10. TablesAgree'
  BY <1>1, <1>5, <1>6, <1>8, <1>9, BookingWritten DEF WellFormed, Granted, Signed
<1>11. hourly' = HourlyIdle /\ \A c \in Call : call[c] = Idle
  <2>1. daily # DailyIdle
    BY <1>2 DEF DailyIdle
  <2> QED BY <1>1, <2>1, DailyIsAlone
<1>12. ListsFit'
  <2>1. ASSUME NEW x \in daily'.cancel
        PROVE  booking'[x.b] = x.row /\ x.row.status = "pending_sign"
    <3>1. x \in daily.cancel /\ x # s /\ x \in Snapshot /\ s \in Snapshot
      BY <1>3, <2>1
    <3>2. booking[x.b] = x.row /\ x.row.status = "pending_sign"
      BY <1>1, <3>1 DEF ListsFit
    <3>3. x.b # b
      BY <1>4, <1>5, <3>1, <3>2 DEF Snapshot
    <3> QED BY <1>9, <3>1, <3>2, <3>3 DEF Snapshot
  <2>2. \A x \in daily'.expire : booking'[x].status = "completed"
    BY <1>1, <1>3, <1>5, <1>9 DEF ListsFit
  <2>3. \A x \in daily'.report : booking'[x].status = "expired"
    BY <1>1, <1>3, <1>5, <1>9 DEF ListsFit
  <2> QED BY <1>11, <2>1, <2>2, <2>3, DailyListsFit
<1>13. \A x \in Booking : booking[x].status \in Granted => booking'[x].status \in Granted
  BY <1>5, <1>9 DEF Granted
<1> QED BY <1>1, <1>10, <1>11, <1>12, <1>13, QuietStepKeepsSerial

LEMMA ListExpiredKeepsSerial ==
  ASSUME Inductive, SerialInv, ListExpired
  PROVE  SerialInv'
<1>1. UNCHANGED <<booking, txn, request, call, hourly, accepted, accidents>>
  BY DEF ListExpired, rows
<1>2. /\ daily'.cancel = daily.cancel /\ daily'.report = daily.report
      /\ daily'.expire = {b \in Booking : RentOver(b)}
  BY DEF ListExpired, Inductive, TypeOK, Daily
<1>3. hourly' = HourlyIdle /\ \A c \in Call : call[c] = Idle
  <2>1. daily # DailyIdle
    BY DEF DailyIdle, ListExpired
  <2> QED BY <1>1, <2>1, DailyIsAlone
<1>4. \A b \in daily'.expire : booking[b].status = "completed"
  BY <1>2 DEF RentOver
<1>5. ListsFit'
  BY <1>1, <1>2, <1>3, <1>4, DailyListsFit DEF SerialInv, ListsFit
<1>6. TablesAgree'
  BY <1>1, SameTablesAgree DEF SerialInv
<1> QED BY <1>1, <1>3, <1>5, <1>6, QuietStepKeepsSerial

LEMMA ExpireBookingKeepsSerial ==
  ASSUME Inductive, SerialInv, ExpireBooking
  PROVE  SerialInv'
<1>1. /\ UNCHANGED <<txn, request, call, hourly, accepted, accidents>>
      /\ daily \in Daily /\ ListsFit /\ TablesAgree
      /\ booking \in [Booking -> BookingRow \cup {Absent}]
  BY DEF ExpireBooking, Inductive, TypeOK, SerialInv
<1>2. PICK b \in daily.expire :
        /\ booking' = [booking EXCEPT ![b].status = "expired"]
        /\ daily' = [daily EXCEPT !.expire = @ \ {b}, !.report = @ \cup {b}]
  BY DEF ExpireBooking
<1>3. /\ daily.cancel \subseteq Snapshot /\ daily'.cancel = daily.cancel
      /\ daily'.expire = daily.expire \ {b} /\ daily'.report = daily.report \cup {b}
      /\ daily.expire \subseteq Booking /\ daily.report \subseteq Booking
      /\ b \in Booking
  BY <1>1, <1>2 DEF Daily
<1>4. booking[b].status = "completed"
  BY <1>1 DEF ListsFit
<1>5. booking[b] \in BookingRow /\ WellFormed(booking[b])
  BY <1>1, <1>3, <1>4 DEF TablesAgree, Present, Absent
<1>6. PICK row \in BookingRow : row = [booking[b] EXCEPT !.status = "expired"]
  BY <1>5 DEF BookingRow, BookingStatus
<1>7. /\ row.start = booking[b].start /\ row.end = booking[b].end
      /\ row.contract = booking[b].contract /\ row.status = "expired"
  BY <1>5, <1>6 DEF BookingRow
<1>8. booking' = [booking EXCEPT ![b] = row]
  BY <1>1, <1>2, <1>3, <1>6
<1>9. /\ booking'[b].status = "expired"
      /\ \A x \in Booking \ {b} : booking'[x] = booking[x]
  BY <1>1, <1>3, <1>7, <1>8
<1>10. TablesAgree'
  BY <1>1, <1>3, <1>5, <1>7, <1>8, BookingWritten DEF WellFormed, Granted, Signed
<1>11. hourly' = HourlyIdle /\ \A c \in Call : call[c] = Idle
  <2>1. daily # DailyIdle
    BY <1>2 DEF DailyIdle
  <2> QED BY <1>1, <2>1, DailyIsAlone
<1>12. ListsFit'
  <2>1. ASSUME NEW x \in daily'.cancel
        PROVE  booking'[x.b] = x.row /\ x.row.status = "pending_sign"
    <3>1. booking[x.b] = x.row /\ x.row.status = "pending_sign" /\ x.b \in Booking
      BY <1>1, <1>3, <2>1 DEF ListsFit, Snapshot
    <3> QED BY <1>4, <1>9, <3>1
  <2>2. \A x \in daily'.expire : booking'[x].status = "completed"
    BY <1>1, <1>3, <1>9 DEF ListsFit
  <2>3. \A x \in daily'.report : booking'[x].status = "expired"
    BY <1>1, <1>3, <1>9 DEF ListsFit
  <2> QED BY <1>11, <2>1, <2>2, <2>3, DailyListsFit
<1>13. \A x \in Booking : booking[x].status \in Granted => booking'[x].status \in Granted
  BY <1>9 DEF Granted
<1> QED BY <1>1, <1>10, <1>11, <1>12, <1>13, QuietStepKeepsSerial

LEMMA CreateRequestReportLandKeepsSerial ==
  ASSUME Inductive, SerialInv, CreateRequestReportLand
  PROVE  SerialInv'
<1>1. /\ UNCHANGED <<booking, txn, call, hourly, accepted, accidents>>
      /\ daily \in Daily /\ ListsFit /\ TablesAgree
      /\ request \in [Booking -> RequestStatus]
  BY DEF CreateRequestReportLand, Inductive, TypeOK, SerialInv
<1>2. PICK b \in daily.report :
        /\ request' = [request EXCEPT ![b] = IF @ = "none" THEN "pending" ELSE @]
        /\ daily' = [daily EXCEPT !.report = @ \ {b}]
  BY DEF CreateRequestReportLand
<1>3. /\ b \in Booking /\ daily'.cancel = daily.cancel /\ daily'.expire = daily.expire
      /\ daily'.report = daily.report \ {b}
  BY <1>1, <1>2 DEF Daily
<1>4. booking[b].status \in Granted
  BY <1>1 DEF ListsFit, Granted
<1>5. \A x \in Booking \ {b} : request'[x] = request[x]
  BY <1>1, <1>2
<1>6. TablesAgree'
  BY <1>1, <1>3, <1>4, <1>5, RequestWritten
<1>7. hourly' = HourlyIdle /\ \A c \in Call : call[c] = Idle
  <2>1. daily # DailyIdle
    BY <1>2 DEF DailyIdle
  <2> QED BY <1>1, <2>1, DailyIsAlone
<1>8. ListsFit'
  BY <1>1, <1>3, <1>7, DailyListsFit DEF ListsFit
<1> QED BY <1>1, <1>6, <1>7, <1>8, QuietStepKeepsSerial

LEMMA HourlyJobKeepsSerial ==
  ASSUME Serial, Inductive, SerialInv, HourlyJob
  PROVE  SerialInv'
<1>0. /\ UNCHANGED <<booking, request, call, daily, accepted, accidents>>
      /\ hourly \in Hourly /\ ListsFit /\ TablesAgree /\ accepted \in [Txn -> Nat]
  BY DEF HourlyJob, CheckTransactionIsExpired, CancelNext, ExpireNext, rows, Inductive,
     TypeOK, SerialInv
<1>1. daily = DailyIdle /\ \A c \in Call : call[c] = Idle
  <2>1. CASE CheckTransactionIsExpired
    BY <2>1 DEF CheckTransactionIsExpired, MayStart, Quiet
  <2>2. CASE CancelNext \/ ExpireNext
    <3>1. hourly # HourlyIdle
      BY <2>2 DEF CancelNext, ExpireNext, HourlyIdle
    <3> QED BY <3>1, HourlyIsAlone
  <2> QED BY <2>1, <2>2 DEF HourlyJob
<1>2. ASSUME TablesAgree', \A t \in hourly'.cur : txn'[t].status = "approved"
      PROVE  SerialInv'
  <2>1. ListsFit'
    BY <1>0, <1>1, <1>2 DEF ListsFit, DailyIdle
  <2> QED BY <1>0, <1>1, <1>2, <2>1, QuietStepKeepsSerial
<1>3. CASE CheckTransactionIsExpired
  <2>1. UNCHANGED txn /\ hourly'.cur = {}
    BY <1>3 DEF CheckTransactionIsExpired, rows, HourlyIdle
  <2> QED BY <1>0, <1>2, <2>1, SameTablesAgree
<1>4. CASE CancelNext
  <2>1. UNCHANGED txn
    BY <1>4 DEF CancelNext, rows
  <2>2. PICK t : \/ hourly'.cur = {t} /\ txn[t].status = "approved"
                 \/ hourly'.cur = {}
    BY <1>4 DEF CancelNext, HourlyIdle
  <2> QED BY <1>0, <1>2, <2>1, <2>2, SameTablesAgree
<1>5. CASE ExpireNext
  <2>1. PICK t \in hourly.cur : SetStatus(t, "expired") /\ hourly'.cur = {}
    BY <1>0, <1>5 DEF ExpireNext, Hourly
  <2>2. t \in Txn /\ txn[t].status = "approved"
    BY <1>0 DEF Hourly, ListsFit
  <2>3. accepted[t] = 0
    BY <1>0, <2>2, ApprovedIsUnpaid
  <2>4. /\ accepted' \in [Txn -> Nat] /\ accepted'[t] = 0
        /\ \A u \in Txn \ {t} : accepted'[u] = accepted[u]
    BY <1>0, <2>3
  <2>5. TablesAgree'
    BY <1>0, <2>1, <2>2, <2>4, ApprovedWritten DEF TransactionStatus
  <2> QED BY <1>2, <2>1, <2>5
<1> QED BY <1>3, <1>4, <1>5 DEF HourlyJob

LEMMA RestKeepsSerial ==
  ASSUME Serial, Inductive, SerialInv,
         \/ \E b \in Booking : AssignTask(b) \/ CompleteExtend(b)
         \/ FailDaily \/ FailHourly \/ Tick
  PROVE  SerialInv'
<1>1. UNCHANGED <<booking, txn, call, accepted>>
  BY DEF AssignTask, CompleteExtend, FailDaily, FailHourly, Tick, rows
<1>2. accidents' = 0 => accidents = 0
  BY DEF AssignTask, CompleteExtend, FailDaily, FailHourly, Accident, Tick, Inductive,
     TypeOK
<1>3. /\ \A c \in Call : call[c] = Idle
      /\ daily' = DailyIdle /\ hourly' = HourlyIdle
  <2>1. CASE FailDaily
    BY <2>1, DailyIsAlone DEF FailDaily
  <2>2. CASE FailHourly
    BY <2>2, HourlyIsAlone DEF FailHourly
  <2>3. CASE \/ \E b \in Booking : AssignTask(b) \/ CompleteExtend(b)
             \/ Tick
    BY <2>3 DEF AssignTask, CompleteExtend, Tick, MayStart, Quiet, jobs
  <2> QED BY <2>1, <2>2, <2>3
<1>4. TablesAgree'
  <2>1. CASE \E b \in Booking : AssignTask(b)
    <3>1. PICK b \in Booking : /\ request[b] # "none"
                               /\ request' = [request EXCEPT ![b] = "pending"]
      BY <2>1 DEF AssignTask
    <3>2. /\ booking[b].status \in Granted
          /\ \A x \in Booking \ {b} : request'[x] = request[x]
      BY <3>1 DEF SerialInv, TablesAgree, Inductive, TypeOK
    <3> QED BY <1>1, <3>2, RequestWritten DEF SerialInv
  <2>2. CASE request' = request
    BY <1>1, <2>2, SameTablesAgree DEF SerialInv
  <2> QED BY <2>1, <2>2 DEF CompleteExtend, FailDaily, FailHourly, Tick, rows
<1>5. ListsFit'
  BY <1>3, QuietListsFit
<1> QED BY <1>1, <1>2, <1>3, <1>4, <1>5, QuietStepKeepsSerial

LEMMA SameIsSerial ==
  ASSUME SerialInv, UNCHANGED vars
  PROVE  SerialInv'
BY DEF vars, SerialInv, OneAtATime, Fits, Clear, RowFits, ListsFit, TablesAgree, Present,
   Signed, PaidSettles, Settles, PaidFor, Bills

LEMMA NextKeepsSerial ==
  ASSUME Serial, Inductive, SerialInv, [Next]_vars
  PROVE  SerialInv'
BY ArriveKeepsSerial, ContinueKeepsSerial, FailKeepsSerial,
   ListExpiredScheduleKeepsSerial, CancelBookingKeepsSerial, ListExpiredKeepsSerial,
   ExpireBookingKeepsSerial, CreateRequestReportLandKeepsSerial, HourlyJobKeepsSerial,
   RestKeepsSerial, SameIsSerial DEF Next, DailyJob

LEMMA InitIsSerial == Init => SerialInv
<1> SUFFICES ASSUME Init PROVE SerialInv
  OBVIOUS
<1>1. OneAtATime /\ ListsFit
  BY DEF Init, OneAtATime, ListsFit, DailyIdle, HourlyIdle
<1>2. \A c \in Call : Fits(call[c])
  BY IdleFits DEF Init
<1>3. TablesAgree
  BY DEF Init, TablesAgree, Present, Absent
<1>4. PaidSettles
  BY DEF Init, PaidSettles, PaidFor, Bills
<1> QED BY <1>1, <1>2, <1>3, <1>4 DEF SerialInv

\* When requests do not overlap the second invariant holds in every reachable
\* state, whatever accident cuts a request or a job short.
THEOREM SerialInvHolds == ASSUME Serial PROVE Spec => []SerialInv
<1>1. Inductive /\ SerialInv /\ [Next]_vars => SerialInv'
  BY NextKeepsSerial
<1> QED BY InductiveHolds, InitIsSerial, <1>1, PTL DEF Spec

\* A transaction takes the renter's money once: it is read as approved, and nothing
\* comes between that and the save that makes it succeed.
THEOREM AcceptedOnceHolds == ASSUME Serial PROVE Spec => []AcceptedOnce
<1>1. SerialInv => AcceptedOnce
  BY DEF SerialInv, TablesAgree, AcceptedOnce
<1> QED BY SerialInvHolds, <1>1, PTL

\* A bill has a signed booking, and unless something failed whoever paid one has the
\* land when nothing is in flight.
THEOREM BillAndBookingAgreeHolds == ASSUME Serial PROVE Spec => []BillAndBookingAgree
<1>1. SerialInv => BilledBookingStands
  BY DEF SerialInv, TablesAgree, Signed, BilledBookingStands
<1>2. SerialInv => PaidIsGranted
  BY IdleFits DEF SerialInv, PaidSettles, PaidIsGranted, Quiet
<1> QED BY SerialInvHolds, <1>1, <1>2, PTL DEF BillAndBookingAgree

-----------------------------------------------------------------------------
\* The one row of a booking that a step may write, and how.
MovesTo(b, row) ==
  \/ booking[b] = Absent /\ row.status = "pending" /\ Clear(row)
  \/ <<booking[b].status, row.status>> \in BeforeSigning
  \/ /\ booking[b].status = "pending_sign"
     /\ row.status \in {"pending_payment", "canceled"}
  \/ booking[b].status = "pending_payment" /\ row.status = "completed" /\ PaidFor(b)
  \/ booking[b].status = "completed" /\ row.status = "expired"
  \/ booking[b].status \in Granted /\ row.status = "completed"

BookingMoves ==
  \E b \in Booking, row \in BookingRow :
    booking' = [booking EXCEPT ![b] = row] /\ MovesTo(b, row)

LEMMA SaveNewBookingMoves ==
  ASSUME Inductive, SerialInv, NEW c \in Call, SaveNewBooking(c)
  PROVE  BookingMoves
<1>1. PICK v \in Work : v = call[c] /\ v.op = "insertBooking" /\ Fits(v) /\ Legit(v)
  BY DEF Inductive, TypeOK, SerialInv, SaveNewBooking
<1>2. v.row \in BookingRow /\ v.row.status = "pending" /\ Clear(v.row)
  BY <1>1, WorkShape DEF Fits, Legit
<1>3. PICK b \in Booking : /\ booking[b] = Absent
                           /\ booking' = [booking EXCEPT ![b] = v.row]
  BY <1>1 DEF SaveNewBooking
<1> QED BY <1>2, <1>3 DEF BookingMoves, MovesTo

LEMMA WriteBookingMoves ==
  ASSUME Inductive, SerialInv, NEW c \in Call, WriteBooking(c)
  PROVE  BookingMoves
<1>1. PICK v \in Work : v = call[c] /\ v.op = "saveBooking" /\ Fits(v) /\ Legit(v)
  BY DEF Inductive, TypeOK, SerialInv, WriteBooking
<1>2. PICK b \in Booking : b = v.b
  BY <1>1, WorkShape
<1>3. /\ v.row \in BookingRow /\ RowFits(v, booking[b])
      /\ booking' = [booking EXCEPT ![b] = v.row]
  BY <1>1, <1>2, WorkShape DEF Fits, WriteBooking
<1>4. v.row.status = "completed" => PaidFor(b)
  BY <1>1, <1>2 DEF Legit, Granted
<1>5. MovesTo(b, v.row)
  BY <1>3, <1>4 DEF MovesTo, RowFits
<1> QED BY <1>3, <1>5 DEF BookingMoves

LEMMA CancelBookingMoves ==
  ASSUME Inductive, SerialInv, CancelBooking
  PROVE  BookingMoves
<1>1. PICK s \in daily.cancel :
        booking' = [booking EXCEPT ![s.b] = [s.row EXCEPT !.status = "canceled"]]
  BY DEF CancelBooking
<1>2. s \in Snapshot /\ booking[s.b] = s.row /\ s.row.status = "pending_sign"
  BY DEF Inductive, TypeOK, Daily, SerialInv, ListsFit
<1>3. PICK b \in Booking : b = s.b
  BY <1>2 DEF Snapshot
<1>4. s.row \in BookingRow
  BY <1>2 DEF Snapshot
<1>5. PICK row \in BookingRow : row = [s.row EXCEPT !.status = "canceled"]
  BY <1>4 DEF BookingRow, BookingStatus
<1>6. row.status = "canceled"
  BY <1>4, <1>5 DEF BookingRow
<1> QED BY <1>1, <1>2, <1>3, <1>5, <1>6 DEF BookingMoves, MovesTo

LEMMA ExpireBookingMoves ==
  ASSUME Inductive, SerialInv, ExpireBooking
  PROVE  BookingMoves
<1>1. PICK b \in daily.expire : booking' = [booking EXCEPT ![b].status = "expired"]
  BY DEF ExpireBooking
<1>2. b \in Booking /\ booking[b].status = "completed"
  BY DEF Inductive, TypeOK, Daily, SerialInv, ListsFit
<1>3. booking[b] \in BookingRow
  BY <1>2 DEF Inductive, TypeOK, Absent
<1>4. PICK row \in BookingRow : row = [booking[b] EXCEPT !.status = "expired"]
  BY <1>3 DEF BookingRow, BookingStatus
<1>5. row.status = "expired"
  BY <1>3, <1>4 DEF BookingRow
<1>6. booking' = [booking EXCEPT ![b] = row]
  BY <1>1, <1>2, <1>4 DEF Inductive, TypeOK
<1> QED BY <1>2, <1>5, <1>6 DEF BookingMoves, MovesTo

LEMMA StartWritesNothing ==
  ASSUME NEW c \in Call, Arrive(c)
  PROVE  UNCHANGED <<booking, txn, accepted>>
BY DEF Arrive, CreateBooking, UpdateStatusToPendingContract, UpdateStatusToPendingSign,
   UpdateStatusToPendingPayment, UpdateStatusToRejected, CreateReport, ApproveTask,
   ConfirmRequest, HandleTransactionPayment, CancelTransaction,
   UpdateRefundTransactionToConfirm, Start, rows

LEMMA NextMovesBooking ==
  ASSUME Inductive, SerialInv, [Next]_vars
  PROVE  booking' = booking \/ (BookingMoves /\ accepted' = accepted)
<1>1. CASE \E c \in Call : SaveNewBooking(c)
  BY <1>1, SaveNewBookingMoves DEF SaveNewBooking
<1>2. CASE \E c \in Call : WriteBooking(c)
  BY <1>2, WriteBookingMoves DEF WriteBooking
<1>3. CASE CancelBooking \/ ExpireBooking
  BY <1>3, CancelBookingMoves, ExpireBookingMoves DEF CancelBooking, ExpireBooking
<1>4. CASE \E c \in Call :
             \/ UpdateLandStatus(c) \/ SaveBill(c) \/ SaveSecondInstalment(c)
             \/ RestartOnDuplicateCode(c) \/ AcceptPayment(c)
             \/ UpdateStatusToCompleted(c) \/ ExpireTransaction(c)
             \/ SaveRefundConfirmed(c) \/ UpdateRequestStatus(c)
             \/ CreateRefundBooking(c) \/ SaveRequestClosed(c) \/ Fail(c)
  BY <1>4 DEF UpdateLandStatus, SaveBill, SaveSecondInstalment, RestartOnDuplicateCode,
       AcceptPayment, UpdateStatusToCompleted, ExpireTransaction, SaveRefundConfirmed,
       UpdateRequestStatus, CreateRefundBooking, SaveRequestClosed, Fail, rows
<1>5. CASE \/ \E b \in Booking : AssignTask(b) \/ CompleteExtend(b)
           \/ ListExpiredSchedule \/ ListExpired \/ CreateRequestReportLand
           \/ HourlyJob \/ FailDaily \/ FailHourly \/ Tick \/ UNCHANGED vars
  BY <1>5 DEF AssignTask, CompleteExtend, ListExpiredSchedule, ListExpired,
       CreateRequestReportLand, HourlyJob, CheckTransactionIsExpired, CancelNext,
       ExpireNext, FailDaily, FailHourly, Tick, rows, vars
<1> QED BY <1>1, <1>2, <1>3, <1>4, <1>5, StartWritesNothing DEF Next, Continue, DailyJob

\* A booking that appears ends before every rental granted on its land begins, as
\* createBooking's queries left it when they were read.
THEOREM NewBookingIsClearHolds == ASSUME Serial PROVE Spec => NewBookingIsClear
<1>1. ASSUME Inductive, SerialInv, [Next]_vars, NEW b \in Booking, NEW o \in Booking,
             booking[b] = Absent, booking'[b] # Absent, booking[o].status = "completed",
             booking[o].land = booking'[b].land
      PROVE  ~Overlap(booking[o], booking'[b]) /\ booking'[b].end < booking[o].start
  <2>1. PICK x \in Booking, row \in BookingRow :
          booking' = [booking EXCEPT ![x] = row] /\ MovesTo(x, row)
    BY <1>1, NextMovesBooking DEF BookingMoves
  <2>2. x = b /\ booking'[b] = row
    BY <1>1, <2>1 DEF Inductive, TypeOK
  <2>3. booking[b].status = "none"
    BY <1>1 DEF Absent
  <2>4. Clear(row)
    BY <2>1, <2>2, <2>3 DEF MovesTo, BeforeSigning, Granted
  <2>5. row.end < booking[o].start
    BY <1>1, <2>2, <2>4 DEF Clear
  <2>6. booking[o] \in BookingRow
    BY <1>1 DEF Inductive, TypeOK, Absent
  <2>7. booking[o].start \in Int /\ row.end \in Int
    BY <2>6 DEF BookingRow
  <2> QED BY <2>2, <2>5, <2>7 DEF Overlap
<1>2. Inductive /\ SerialInv /\ [Next]_vars =>
        [\A b, o \in Booking :
           /\ booking[b] = Absent /\ booking'[b] # Absent
           /\ booking[o].status = "completed" /\ booking[o].land = booking'[b].land
           => /\ ~Overlap(booking[o], booking'[b])
              /\ booking'[b].end < booking[o].start]_vars
  BY <1>1
<1> QED BY InductiveHolds, SerialInvHolds, <1>2, PTL DEF Spec, NewBookingIsClear

-----------------------------------------------------------------------------
\* The one row of a transaction a step may write is new, or waits for its money.
TxnMoves ==
  \E t \in Txn : /\ txn[t].status \in {"none", "approved"}
                 /\ \A u \in Txn \ {t} : txn'[u] = txn[u]

LEMMA InsertMoves ==
  ASSUME Inductive, NEW b, NEW kind, NEW row, NEW t \in FirstFree(b, kind),
         Insert(t, row)
  PROVE  TxnMoves
<1>1. t \in Txn /\ txn[t].status = "none"
  BY DEF FirstFree, Free, Absent
<1> QED BY <1>1 DEF Insert, TxnMoves, Inductive, TypeOK

LEMMA SetStatusMoves ==
  ASSUME Inductive, NEW t \in Txn, txn[t].status = "approved", NEW s, SetStatus(t, s)
  PROVE  TxnMoves
BY DEF SetStatus, TxnMoves, Inductive, TypeOK

LEMMA CallMovesTxn ==
  ASSUME Inductive, SerialInv, NEW c \in Call,
         \/ SaveBill(c) \/ SaveSecondInstalment(c) \/ CreateRefundBooking(c)
         \/ AcceptPayment(c) \/ ExpireTransaction(c) \/ SaveRefundConfirmed(c)
  PROVE  TxnMoves
<1>1. PICK v \in Work : v = call[c] /\ Fits(v)
  BY DEF Inductive, TypeOK, SerialInv
<1>2. CASE SaveBill(c) \/ SaveSecondInstalment(c) \/ CreateRefundBooking(c)
  <2>1. PICK kind, row, t : t \in FirstFree(v.b, kind) /\ Insert(t, row)
    BY <1>1, <1>2 DEF SaveBill, SaveSecondInstalment, CreateRefundBooking
  <2> QED BY <2>1, InsertMoves
<1>3. CASE AcceptPayment(c) \/ ExpireTransaction(c) \/ SaveRefundConfirmed(c)
  <2>1. v.op \in {"acceptPayment", "expireTxn", "confirmRefund"}
    BY <1>1, <1>3 DEF AcceptPayment, ExpireTransaction, SaveRefundConfirmed
  <2>2. PICK t \in Txn : t = v.t
    BY <2>1, WorkShape
  <2>3. txn[t].status = "approved"
    BY <1>1, <2>1, <2>2 DEF Fits
  <2>4. PICK s : SetStatus(t, s)
    BY <1>1, <1>3, <2>2 DEF AcceptPayment, ExpireTransaction, SaveRefundConfirmed
  <2> QED BY <2>3, <2>4, SetStatusMoves
<1> QED BY <1>2, <1>3

LEMMA ExpireNextMoves ==
  ASSUME Inductive, SerialInv, ExpireNext
  PROVE  TxnMoves
<1>1. PICK t \in hourly.cur : SetStatus(t, "expired")
  BY DEF ExpireNext
<1>2. t \in Txn /\ txn[t].status = "approved"
  BY DEF Inductive, TypeOK, Hourly, SerialInv, ListsFit
<1> QED BY <1>1, <1>2, SetStatusMoves

LEMMA NextMovesTxn ==
  ASSUME Inductive, SerialInv, [Next]_vars
  PROVE  txn' = txn \/ TxnMoves
<1>1. CASE \E c \in Call :
             \/ SaveBill(c) \/ SaveSecondInstalment(c) \/ CreateRefundBooking(c)
             \/ AcceptPayment(c) \/ ExpireTransaction(c) \/ SaveRefundConfirmed(c)
  BY <1>1, CallMovesTxn
<1>2. CASE \E c \in Call :
             \/ SaveNewBooking(c) \/ UpdateLandStatus(c) \/ WriteBooking(c)
             \/ RestartOnDuplicateCode(c) \/ UpdateStatusToCompleted(c)
             \/ UpdateRequestStatus(c) \/ SaveRequestClosed(c) \/ Fail(c)
  BY <1>2 DEF SaveNewBooking, UpdateLandStatus, WriteBooking, RestartOnDuplicateCode,
       UpdateStatusToCompleted, UpdateRequestStatus, SaveRequestClosed, Fail, rows
<1>3. CASE \/ \E b \in Booking : AssignTask(b) \/ CompleteExtend(b)
           \/ DailyJob \/ CheckTransactionIsExpired \/ CancelNext
           \/ FailDaily \/ FailHourly \/ Tick \/ UNCHANGED vars
  BY <1>3 DEF AssignTask, CompleteExtend, DailyJob, ListExpiredSchedule, CancelBooking,
       ListExpired, ExpireBooking, CreateRequestReportLand, CheckTransactionIsExpired,
       CancelNext, FailDaily, FailHourly, Tick, rows, vars
<1> QED BY <1>1, <1>2, <1>3, StartWritesNothing, ExpireNextMoves DEF Next, Continue,
           HourlyJob

\* Money received stays on the books and a bill that lapsed is never accepted.
THEOREM SettledStaysHolds == ASSUME Serial PROVE Spec => SettledStays
<1>1. Inductive /\ SerialInv /\ [Next]_vars =>
        [\A t \in Txn : txn[t].status \in {"succeed", "expired"}
                          => txn'[t].status = txn[t].status]_vars
  BY NextMovesTxn DEF TxnMoves
<1> QED BY InductiveHolds, SerialInvHolds, <1>1, PTL DEF Spec, SettledStays

-----------------------------------------------------------------------------
LEMMA NextAccepts ==
  ASSUME Inductive, SerialInv, [Next]_vars
  PROVE  \/ accepted' = accepted
         \/ /\ booking' = booking
            /\ \E t \in Txn : /\ t.kind # "second" /\ txn[t] # Absent
                              /\ accepted' = [accepted EXCEPT ![t] = @ + 1]
<1>1. ASSUME NEW c \in Call, AcceptPayment(c)
      PROVE  /\ booking' = booking
             /\ \E t \in Txn : /\ t.kind # "second" /\ txn[t] # Absent
                               /\ accepted' = [accepted EXCEPT ![t] = @ + 1]
  <2>1. PICK v \in Work : v = call[c] /\ v.op = "acceptPayment" /\ Legit(v)
    BY <1>1 DEF Inductive, TypeOK, AcceptPayment
  <2>2. PICK t \in Txn : t = v.t
    BY <2>1, WorkShape
  <2>3. t.kind # "second" /\ txn[t] # Absent
    BY <2>1, <2>2 DEF Legit, Payable
  <2> QED BY <1>1, <2>1, <2>2, <2>3 DEF AcceptPayment
<1>2. CASE \E c \in Call :
             \/ SaveNewBooking(c) \/ UpdateLandStatus(c) \/ WriteBooking(c)
             \/ SaveBill(c) \/ SaveSecondInstalment(c) \/ CreateRefundBooking(c)
             \/ ExpireTransaction(c) \/ SaveRefundConfirmed(c)
             \/ RestartOnDuplicateCode(c) \/ UpdateStatusToCompleted(c)
             \/ UpdateRequestStatus(c) \/ SaveRequestClosed(c) \/ Fail(c)
  BY <1>2 DEF SaveNewBooking, UpdateLandStatus, WriteBooking, SaveBill,
       SaveSecondInstalment, CreateRefundBooking, ExpireTransaction,
       SaveRefundConfirmed, RestartOnDuplicateCode, UpdateStatusToCompleted,
       UpdateRequestStatus, SaveRequestClosed, Fail
<1>3. CASE \/ \E b \in Booking : AssignTask(b) \/ CompleteExtend(b)
           \/ DailyJob \/ HourlyJob \/ FailDaily \/ FailHourly \/ Tick \/ UNCHANGED vars
  BY <1>3 DEF AssignTask, CompleteExtend, DailyJob, ListExpiredSchedule, CancelBooking,
       ListExpired, ExpireBooking, CreateRequestReportLand, HourlyJob,
       CheckTransactionIsExpired, CancelNext, ExpireNext, FailDaily, FailHourly, Tick,
       vars
<1> QED BY <1>1, <1>2, <1>3, StartWritesNothing DEF Next, Continue

\* A row written as BookingMoves says is a step of the lifecycle, or none.
LEMMA MoveIsLifecycle ==
  ASSUME Inductive, BookingMoves, accepted' = accepted
  PROVE  [Lifecycle!Next]_(Lifecycle!vars)
<1>1. PICK b \in Booking, row \in BookingRow :
        booking' = [booking EXCEPT ![b] = row] /\ MovesTo(b, row)
  BY DEF BookingMoves
<1> DEFINE before == [x \in Booking |-> booking[x].status]
           after  == [x \in Booking |-> booking'[x].status]
           paid   == {x \in Booking : PaidFor(x)}
<1>2. {x \in Booking : PaidFor(x)}' = paid
  BY DEF PaidFor, Bills
<1>3. booking'[b] = row /\ \A x \in Booking \ {b} : booking'[x] = booking[x]
  BY <1>1 DEF Inductive, TypeOK
<1>4. after = [before EXCEPT ![b] = row.status] /\ before[b] = booking[b].status
  BY <1>3
<1>5. PaidFor(b) <=> b \in paid
  OBVIOUS
<1>6. booking[b] = Absent => before[b] = "none"
  BY <1>4 DEF Absent
<1>7. row.status = before[b] => after = before
  BY <1>4
<1> HIDE DEF before, after, paid
<1>8. \/ before[b] = "none" /\ row.status = "pending"
      \/ <<before[b], row.status>> \in BeforeSigning
      \/ before[b] = "pending_sign" /\ row.status \in {"pending_payment", "canceled"}
      \/ before[b] = "pending_payment" /\ row.status = "completed" /\ b \in paid
      \/ before[b] = "completed" /\ row.status \in {"expired", "completed"}
      \/ before[b] = "expired" /\ row.status = "completed"
  BY <1>1, <1>4, <1>5, <1>6 DEF MovesTo, Granted
<1> USE DEF before, after, paid
<1> QED BY <1>2, <1>4, <1>7, <1>8 DEF Lifecycle!Next, Lifecycle!vars, Lifecycle!Move,
           Lifecycle!Request, Lifecycle!Accept, Lifecycle!Schedule, Lifecycle!Sign,
           Lifecycle!Reject, Lifecycle!Lapse, Lifecycle!Grant, Lifecycle!End,
           Lifecycle!Inspect, BeforeSigning

\* A payment is a step of the lifecycle, the first time; or none.
LEMMA PaymentIsLifecycle ==
  ASSUME Inductive, SerialInv, booking' = booking, NEW t \in Txn, t.kind # "second",
         txn[t] # Absent, accepted' = [accepted EXCEPT ![t] = @ + 1]
  PROVE  [Lifecycle!Next]_(Lifecycle!vars)
<1> DEFINE paid  == {x \in Booking : PaidFor(x)}
           paidp == {x \in Booking : PaidFor(x)'}
<1>1. /\ accepted'[t] > 0 /\ accepted[t] \in Nat
      /\ \A u \in Txn \ {t} : accepted'[u] = accepted[u]
  BY DEF Inductive, TypeOK
<1>2. PICK b \in Booking : b = t.booking
  BY DEF Txn
<1>3. \A x \in Booking \ {b} : PaidFor(x)' <=> PaidFor(x)
  BY <1>1, <1>2 DEF PaidFor, Bills
<1>4. PaidFor(b) => PaidFor(b)'
  BY <1>1 DEF PaidFor, Bills
<1>5. CASE t.kind = "refund" \/ PaidFor(b)
  <2>1. PaidFor(b)' <=> PaidFor(b)
    BY <1>1, <1>4, <1>5 DEF PaidFor, Bills
  <2>2. paidp = paid
    BY <1>3, <2>1
  <2> QED BY <2>2 DEF Lifecycle!vars
<1>6. CASE t.kind = "bill" /\ ~PaidFor(b)
  <2>1. PaidFor(b)'
    BY <1>1, <1>2, <1>6 DEF PaidFor, Bills
  <2>2. paidp = paid \cup {b} /\ b \notin paid
    BY <1>3, <1>6, <2>1
  <2>3. booking[b].status \in {"pending_payment"} \cup Granted
    BY <1>2, <1>6 DEF SerialInv, TablesAgree, Signed
  <2>4. booking[b].status = "pending_payment"
    BY <1>6, <2>3 DEF Inductive, GrantedWasPaid
  <2>5. Lifecycle!Pay(b)
    BY <2>2, <2>4 DEF Lifecycle!Pay
  <2> QED BY <2>5 DEF Lifecycle!Next
<1> QED BY <1>5, <1>6 DEF Txn, Kind

\* The handlers and jobs, seen through the status column and the accepted bills,
\* implement RentalLifecycle: every step of a handler or job, and every accident, is
\* a step of the lifecycle or none.
THEOREM FollowsLifecycleHolds == ASSUME Serial PROVE Spec => FollowsLifecycle
<1>1. Init => Lifecycle!Init
  BY DEF Init, Lifecycle!Init, Absent, PaidFor, Bills
<1>2. Inductive /\ SerialInv /\ [Next]_vars => [Lifecycle!Next]_(Lifecycle!vars)
  <2> SUFFICES ASSUME Inductive, SerialInv, [Next]_vars
               PROVE  [Lifecycle!Next]_(Lifecycle!vars)
    OBVIOUS
  <2>1. CASE booking' = booking /\ accepted' = accepted
    BY <2>1 DEF Lifecycle!vars, PaidFor, Bills
  <2>2. CASE BookingMoves /\ accepted' = accepted
    BY <2>2, MoveIsLifecycle
  <2>3. CASE accepted' # accepted
    BY <2>3, NextAccepts, PaymentIsLifecycle
  <2> QED BY <2>1, <2>2, <2>3, NextMovesBooking
<1> QED BY InductiveHolds, SerialInvHolds, <1>1, <1>2, PTL
        DEF Spec, FollowsLifecycle, Lifecycle!Spec
===============================================================================
