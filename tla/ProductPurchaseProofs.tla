------------------------- MODULE ProductPurchaseProofs -------------------------
(***************************************************************************)
(* Proofs about ProductPurchase, for every value of the constants: any     *)
(* number of services, requests, transactions, calls in flight and         *)
(* accidents, and whatever day a service ends.                             *)
(***************************************************************************)
EXTENDS ProductPurchase, FiniteSetTheorems, TLAPS

\* In a table rq of requests and a set rp of reported ones: s was reported on.
Reported(kind, s, rq, rp) ==
  \E r \in Request : /\ IsThere(rq[r]) /\ rq[r].kind = kind
                     /\ rq[r].service = s /\ r \in rp

Inspected(s, rq, rp) == Reported("purchase", s, rq, rp)
Harvested(s, rq, rp) == Inspected(s, rq, rp) /\ Reported("harvest", s, rq, rp)

\* A row of service s holds what was reported, and has expired only in time.
Earned(row, s, rq, rp, day) ==
  /\ row.expect # "none" => Inspected(s, rq, rp)
  /\ row.harvest # "none" => Reported("harvest", s, rq, rp)
  /\ row.status = "expired" => End[s] < day

\* What backs a piece of work in flight: the requests it is about are there, and
\* what it asks for, saves or pays was reported.
OnRequest == {"insertTask", "setAssigned", "setStatus", "saveReport",
              "saveService", "insertTxn"}
Backed(w, rq, rp, day) ==
  /\ w.op \in OnRequest => IsThere(rq[w.r])
  /\ w.op \in {"insertRequest", "insertTask", "setAssigned"}
       => w.for = "nothing" \/ IsThere(rq[w.for])
  /\ w.op = "insertRequest" /\ w.kind = "harvest" => Inspected(w.s, rq, rp)
  /\ w.op = "saveReport" /\ rq[w.r].kind = "harvest" => w.y \in Harvest
  /\ w.op = "saveService" => Earned(w.row, rq[w.r].service, rq, rp, day)
  /\ w.op = "insertTxn" /\ w.type = "refund"
       => Harvested(rq[w.r].service, rq, rp)
  /\ w.op = "saveTxn" /\ w.row.type = "refund"
       => Harvested(w.row.service, rq, rp)

\* What backs the rows: a task has its request, a harvest is asked for only after
\* an inspection was reported, what is expected of and yielded by a service was
\* reported, and so was what a refund pays for.
RowsBacked ==
  /\ \A r \in task : IsThere(request[r])
  /\ \A r \in Request :
       IsThere(request[r]) /\ request[r].kind = "harvest"
         => Inspected(request[r].service, request, report)
  /\ \A s \in Service : Earned(service[s], s, request, report, now)
  /\ \A t \in Txn : IsThere(txn[t]) /\ txn[t].type = "refund"
       => Harvested(txn[t].service, request, report)
  /\ \A s \in expiring : End[s] < now

\* RefundWasReported is not inductive as it stands: the chain of reports behind a
\* refund has to be followed back, in the tables and in what is in flight.
BackedInv == /\ TypeOK
             /\ RowsBacked
             /\ \A p \in Process : Backed(work[p], request, report, now)

-----------------------------------------------------------------------------
\* What a kind of work carries.
LEMMA WorkFields ==
  ASSUME NEW w \in Work
  PROVE  /\ w.op = "insertRequest" => w \in InsertRequest
         /\ w.op \in {"insertTask", "setAssigned"} => w \in FillRequest
         /\ w.op = "setStatus" => w \in SetStatusTo
         /\ w.op = "saveReport" => w \in PutReport
         /\ w.op = "saveService" => w \in SaveService
         /\ w.op = "insertTxn" => w \in InsertTxn
         /\ w.op = "saveTxn" => w \in SaveTxn
         /\ w.op = "deleteTxn" => w \in DeleteTxn
BY DEF Work, Idle, InsertRequest, FillRequest, SetStatusTo, PutReport,
       SaveService, InsertTxn, SaveTxn, DeleteTxn

\* What is left to a process that goes on, or ends.
LEMMA NextWork ==
  /\ Idle \in Work
  /\ \A r \in Request :
       /\ \A s \in RequestStatus : SetStatusWork(r, s) \in Work
       /\ \A f \in For :
            /\ [op |-> "insertTask", r |-> r, for |-> f] \in Work
            /\ [op |-> "setAssigned", r |-> r, for |-> f] \in Work
       /\ \A row \in ServiceRow :
            [op |-> "saveService", r |-> r, row |-> row] \in Work
       /\ \A type \in {"payment", "refund"} :
            [op |-> "insertTxn", r |-> r, type |-> type] \in Work
       /\ \A b \in BOOLEAN, y \in Product :
            [op |-> "saveReport", r |-> r, found |-> b, y |-> y] \in Work
  /\ \A kind \in {"purchase", "harvest"}, s \in Service, f \in For :
       [op |-> "insertRequest", kind |-> kind, s |-> s, for |-> f] \in Work
  /\ \A t \in Txn :
       /\ [op |-> "deleteTxn", t |-> t] \in Work
       /\ \A row \in TxnRow : [op |-> "saveTxn", t |-> t, row |-> row] \in Work
<1>1. ASSUME NEW r \in Request
      PROVE  /\ \A s \in RequestStatus : SetStatusWork(r, s) \in SetStatusTo
             /\ \A f \in For :
                  /\ [op |-> "insertTask", r |-> r, for |-> f] \in FillRequest
                  /\ [op |-> "setAssigned", r |-> r, for |-> f] \in FillRequest
             /\ \A row \in ServiceRow :
                  [op |-> "saveService", r |-> r, row |-> row] \in SaveService
             /\ \A type \in {"payment", "refund"} :
                  [op |-> "insertTxn", r |-> r, type |-> type] \in InsertTxn
  BY DEF SetStatusWork, SetStatusTo, FillRequest, SaveService, InsertTxn
<1>2. ASSUME NEW r \in Request, NEW b \in BOOLEAN, NEW y \in Product
      PROVE  [op |-> "saveReport", r |-> r, found |-> b, y |-> y] \in PutReport
  BY DEF PutReport
<1>3. ASSUME NEW kind \in {"purchase", "harvest"}, NEW s \in Service, NEW f \in For
      PROVE  [op |-> "insertRequest", kind |-> kind, s |-> s, for |-> f]
               \in InsertRequest
  BY DEF InsertRequest
<1>4. ASSUME NEW t \in Txn
      PROVE  /\ [op |-> "deleteTxn", t |-> t] \in DeleteTxn
             /\ \A row \in TxnRow :
                  [op |-> "saveTxn", t |-> t, row |-> row] \in SaveTxn
  BY DEF DeleteTxn, SaveTxn
<1> QED BY <1>1, <1>2, <1>3, <1>4 DEF Work

LEMMA RowThere ==
  ASSUME TypeOK
  PROVE  /\ \A r \in Request : IsThere(request[r]) => request[r] \in RequestRow
         /\ \A t \in Txn : IsThere(txn[t]) => txn[t] \in TxnRow
BY DEF TypeOK, IsThere, Absent

LEMMA GotoKeepsType ==
  ASSUME TypeOK, NEW p \in Process, NEW w \in Work, Goto(p, w)
  PROVE  work' \in [Process -> Work]
BY DEF TypeOK, Goto

\* There is no request "nothing".
LEMMA ForIsThere ==
  ASSUME NEW f \in For, f # "nothing"
  PROVE  f \in Request
BY DEF For

-----------------------------------------------------------------------------
\* Requests keep their kind and service, and reports are not taken back.
Grows(rq, rq2, rp, rp2) ==
  /\ \A r \in Request : IsThere(rq[r]) => /\ IsThere(rq2[r])
                                          /\ rq2[r].kind = rq[r].kind
                                          /\ rq2[r].service = rq[r].service
  /\ rp \subseteq rp2

LEMMA GrowsWhenSame ==
  ASSUME NEW rq, NEW rp
  PROVE  Grows(rq, rq, rp, rp)
BY DEF Grows

LEMMA ReportedStays ==
  ASSUME NEW rq, NEW rq2, NEW rp, NEW rp2, Grows(rq, rq2, rp, rp2)
  PROVE  \A s : /\ Inspected(s, rq, rp) => Inspected(s, rq2, rp2)
                /\ Reported("harvest", s, rq, rp)
                     => Reported("harvest", s, rq2, rp2)
                /\ Harvested(s, rq, rp) => Harvested(s, rq2, rp2)
BY DEF Inspected, Harvested, Reported, Grows

LEMMA EarnedStays ==
  ASSUME NEW rq, NEW rq2, NEW rp, NEW rp2, Grows(rq, rq2, rp, rp2),
         NEW d \in Nat, NEW d2 \in Nat, d <= d2, NEW row, NEW s \in Service,
         Earned(row, s, rq, rp, d)
  PROVE  Earned(row, s, rq2, rp2, d2)
<1>1. End[s] \in Nat
  BY EndAssumption
<1> QED BY <1>1, ReportedStays DEF Earned

LEMMA BackedStays ==
  ASSUME NEW rq \in [Request -> RequestRow \cup {Absent}], NEW rq2,
         NEW rp, NEW rp2, Grows(rq, rq2, rp, rp2),
         NEW d \in Nat, NEW d2 \in Nat, d <= d2,
         NEW w \in Work, Backed(w, rq, rp, d)
  PROVE  Backed(w, rq2, rp2, d2)
<1>1. w.op \in OnRequest => /\ w.r \in Request
                            /\ IsThere(rq2[w.r])
                            /\ rq2[w.r].service = rq[w.r].service
                            /\ rq2[w.r].kind = rq[w.r].kind
                            /\ rq[w.r].service \in Service
  <2>1. w.op \in OnRequest => w.r \in Request
    BY WorkFields DEF OnRequest, FillRequest, SetStatusTo, PutReport,
       SaveService, InsertTxn
  <2>2. w.op \in OnRequest => IsThere(rq[w.r])
    BY DEF Backed
  <2>3. w.op \in OnRequest => rq[w.r] \in RequestRow
    BY <2>1, <2>2 DEF IsThere, Absent
  <2> QED BY <2>1, <2>2, <2>3 DEF Grows, RequestRow
<1>2. w.op \in {"insertRequest", "insertTask", "setAssigned"}
        => w.for = "nothing" \/ IsThere(rq2[w.for])
  <2>1. w.op \in {"insertRequest", "insertTask", "setAssigned"} => w.for \in For
    BY WorkFields DEF InsertRequest, FillRequest
  <2> QED BY <2>1, ForIsThere DEF Backed, Grows
<1>3. w.op = "saveService" => Earned(w.row, rq2[w.r].service, rq2, rp2, d2)
  BY <1>1, EarnedStays DEF Backed, OnRequest
<1>4. /\ w.op = "saveReport" /\ rq2[w.r].kind = "harvest" => w.y \in Harvest
      /\ w.op = "insertRequest" /\ w.kind = "harvest" => Inspected(w.s, rq2, rp2)
      /\ w.op = "insertTxn" /\ w.type = "refund"
           => Harvested(rq2[w.r].service, rq2, rp2)
      /\ w.op = "saveTxn" /\ w.row.type = "refund"
           => Harvested(w.row.service, rq2, rp2)
  BY <1>1, ReportedStays DEF Backed, OnRequest
<1> QED BY <1>1, <1>2, <1>3, <1>4 DEF Backed

LEMMA IdleIsBacked ==
  ASSUME NEW rq, NEW rp, NEW d
  PROVE  Backed(Idle, rq, rp, d)
BY DEF Backed, Idle, OnRequest

\* The rows stay backed when what a step writes is.
LEMMA RowsStay ==
  ASSUME TypeOK, TypeOK', RowsBacked, Grows(request, request', report, report'),
         now <= now',
         \A r \in task' : r \in task \/ IsThere(request'[r]),
         \A r \in Request : IsThere(request'[r]) /\ request'[r].kind = "harvest"
           => \/ IsThere(request[r])
              \/ Inspected(request'[r].service, request', report'),
         \A s \in Service : \/ service'[s] = service[s]
                            \/ Earned(service'[s], s, request', report', now'),
         \A t \in Txn : IsThere(txn'[t]) /\ txn'[t].type = "refund"
           => txn'[t] = txn[t] \/ Harvested(txn'[t].service, request', report'),
         \A s \in expiring' : s \in expiring \/ End[s] < now'
  PROVE  RowsBacked'
<1>1. \A r \in task' : IsThere(request'[r])
  BY DEF RowsBacked, Grows, TypeOK
<1>2. \A r \in Request :
        IsThere(request'[r]) /\ request'[r].kind = "harvest"
          => Inspected(request'[r].service, request', report')
  <2> SUFFICES ASSUME NEW r \in Request, IsThere(request'[r]),
                      request'[r].kind = "harvest"
               PROVE  Inspected(request'[r].service, request', report')
    OBVIOUS
  <2>1. CASE IsThere(request[r])
    <3>1. request'[r].kind = request[r].kind
          /\ request'[r].service = request[r].service
      BY <2>1 DEF Grows
    <3>2. Inspected(request[r].service, request, report)
      BY <2>1, <3>1 DEF RowsBacked
    <3> QED BY <3>1, <3>2, ReportedStays
  <2>2. CASE ~IsThere(request[r])
    BY <2>2
  <2> QED BY <2>1, <2>2
<1>3. \A s \in Service : Earned(service'[s], s, request', report', now')
  BY EarnedStays DEF RowsBacked, TypeOK
<1>4. \A t \in Txn : IsThere(txn'[t]) /\ txn'[t].type = "refund"
        => Harvested(txn'[t].service, request', report')
  BY ReportedStays DEF RowsBacked
<1>5. \A s \in expiring' : End[s] < now'
  BY EndAssumption DEF RowsBacked, TypeOK
<1> QED BY <1>1, <1>2, <1>3, <1>4, <1>5 DEF RowsBacked

\* A step of process p keeps the invariant if the rows it writes and the work it
\* leaves p are backed.
LEMMA StepKeepsBacked ==
  ASSUME BackedInv, TypeOK', RowsBacked', NEW p \in Process, NEW w, Goto(p, w),
         Backed(w, request', report', now'),
         Grows(request, request', report, report'), now <= now'
  PROVE  BackedInv'
<1>1. \A q \in Process : work'[q] = IF q = p THEN w ELSE work[q]
  BY DEF BackedInv, TypeOK, Goto
<1>2. \A q \in Process : Backed(work[q], request', report', now')
  BY BackedStays DEF BackedInv, TypeOK
<1> QED BY <1>1, <1>2 DEF BackedInv

\* A call that starts on backed work.
LEMMA ArriveKeepsBacked ==
  ASSUME BackedInv, NEW c \in Process, NEW w \in Work, Start(c, w),
         Backed(w, request, report, now)
  PROVE  BackedInv'
<1>1. UNCHANGED <<service, request, task, report, txn, process, visits, todo,
                  expiring, now, refunds, accidents, serial>> /\ Goto(c, w)
  BY DEF Start, tables, jobs
<1>2. TypeOK'
  BY <1>1, GotoKeepsType DEF BackedInv, TypeOK
<1>3. RowsBacked'
  BY <1>1 DEF BackedInv, RowsBacked, Inspected, Harvested, Reported, Earned
<1>4. Grows(request, request', report, report') /\ now <= now'
  BY <1>1, GrowsWhenSame DEF BackedInv, TypeOK
<1> QED BY <1>1, <1>2, <1>3, <1>4, StepKeepsBacked

\* The request a call is about is there.
LEMMA ArriveWithRequest ==
  ASSUME BackedInv, NEW r \in Request, IsThere(request[r])
  PROVE  /\ request[r] \in RequestRow
         /\ \A s \in RequestStatus :
              /\ SetStatusWork(r, s) \in Work
              /\ Backed(SetStatusWork(r, s), request, report, now)
<1>1. request[r] \in RequestRow
  BY RowThere DEF BackedInv
<1>2. \A s \in RequestStatus : Backed(SetStatusWork(r, s), request, report, now)
  BY DEF Backed, SetStatusWork, OnRequest
<1> QED BY <1>1, <1>2, NextWork

LEMMA AssignTasksKeepBacked ==
  ASSUME BackedInv, NEW c \in Call, NEW r \in Request,
         AssignTask(c, r) \/ StartTask(c, r) \/ ApproveTask(c, r)
  PROVE  BackedInv'
<1>1. c \in Process /\ IsThere(request[r])
  BY DEF Process, BackedInv, RowsBacked, AssignTask, StartTask, ApproveTask
<1>2. PICK s \in {"assigned", "in_progress", "pending_approval"} :
        Start(c, SetStatusWork(r, s))
  BY DEF AssignTask, StartTask, ApproveTask
<1>3. s \in RequestStatus
  BY DEF RequestStatus
<1> QED BY <1>1, <1>2, <1>3, ArriveWithRequest, ArriveKeepsBacked

LEMMA CreateReportKeepsBacked ==
  ASSUME BackedInv, NEW c \in Call, NEW r \in Request, NEW y \in Product,
         CreateReportPurchase(c, r, y)
  PROVE  BackedInv'
<1> DEFINE w == [op |-> "saveReport", r |-> r, found |-> r \in report, y |-> y]
<1>1. c \in Process /\ IsThere(request[r])
  BY DEF Process, BackedInv, RowsBacked, CreateReportPurchase
<1>2. w \in Work
  <2>1. (r \in report) \in BOOLEAN
    OBVIOUS
  <2>2. \A b \in BOOLEAN :
          [op |-> "saveReport", r |-> r, found |-> b, y |-> y] \in Work
    BY NextWork
  <2> QED BY <2>1, <2>2, Zenon
<1>3. Backed(w, request, report, now)
  <2>1. w.op = "saveReport" /\ w.r = r /\ w.y = y
    OBVIOUS
  <2>2. request[r].kind = "harvest" => y \in Harvest
    BY DEF CreateReportPurchase
  <2> HIDE DEF w
  <2> QED BY <1>1, <2>1, <2>2 DEF Backed
<1>4. Start(c, w)
  BY DEF CreateReportPurchase
<1> QED BY <1>1, <1>2, <1>3, <1>4, ArriveKeepsBacked

\* An inspection that was reported is what a harvest is asked for, a harvest that
\* was reported is what is paid for.
LEMMA ConfirmIsBacked ==
  ASSUME BackedInv, NEW r \in Request, IsThere(request[r])
  PROVE  ConfirmWork(r) \in Work /\ Backed(ConfirmWork(r), request, report, now)
<1> DEFINE s == request[r].service
<1>1. request[r] \in RequestRow /\ s \in Service
  BY ArriveWithRequest DEF RequestRow
<1>2. \A t \in {"rejected", "completed"} :
        /\ SetStatusWork(r, t) \in Work
        /\ Backed(SetStatusWork(r, t), request, report, now)
  BY ArriveWithRequest DEF RequestStatus
<1>3. Earned(service[s], s, request, report, now)
  BY <1>1 DEF BackedInv, RowsBacked
<1>4. CASE request[r].kind = "purchase"
  <2> DEFINE h == [op |-> "insertRequest", kind |-> "harvest", s |-> s, for |-> r]
             b == [op |-> "insertTxn", r |-> r, type |-> "payment"]
  <2>1. ConfirmWork(r) = AfterInspection(r)
    BY <1>4 DEF ConfirmWork
  <2>2. r \in For
    BY DEF For
  <2>3. h \in Work /\ b \in Work
    BY <1>1, <2>2, NextWork
  <2>4. Backed(b, request, report, now)
    BY DEF Backed, OnRequest
  <2>5. service[s].expect # "none" => Backed(h, request, report, now)
    BY <1>3 DEF Backed, OnRequest, Earned
  <2> HIDE DEF h, b, s
  <2>6. \/ AfterInspection(r) \in {SetStatusWork(r, "rejected"),
                                   SetStatusWork(r, "completed"), b}
        \/ AfterInspection(r) = h /\ service[s].expect # "none"
    BY DEF AfterInspection, h, b, s
  <2> QED BY <1>2, <2>1, <2>3, <2>4, <2>5, <2>6
<1>5. CASE request[r].kind # "purchase"
  <2> DEFINE w == [op |-> "insertTxn", r |-> r, type |-> "refund"]
  <2>1. ConfirmWork(r) = AfterHarvest(r) /\ request[r].kind = "harvest"
    BY <1>1, <1>5 DEF ConfirmWork, RequestRow
  <2>2. Inspected(s, request, report)
    BY <2>1 DEF BackedInv, RowsBacked
  <2>3. w \in Work
    BY NextWork
  <2>4. service[s].harvest # "none" => Backed(w, request, report, now)
    BY <1>3, <2>2 DEF Backed, OnRequest, Earned, Harvested
  <2> HIDE DEF w, s
  <2>5. \/ AfterHarvest(r) = SetStatusWork(r, "rejected")
        \/ AfterHarvest(r) = w /\ service[s].harvest # "none"
    BY DEF AfterHarvest, w, s
  <2> QED BY <1>2, <2>1, <2>3, <2>4, <2>5
<1> QED BY <1>4, <1>5

LEMMA ConfirmRequestKeepsBacked ==
  ASSUME BackedInv, NEW c \in Call, NEW r \in Request,
         NEW to \in {"completed", "rejected"}, ConfirmRequest(c, r, to)
  PROVE  BackedInv'
<1> DEFINE w == IF to = "rejected" THEN SetStatusWork(r, to) ELSE ConfirmWork(r)
<1>1. c \in Process /\ IsThere(request[r]) /\ to \in RequestStatus
  BY DEF Process, IsThere, ConfirmRequest, RequestStatus
<1>2. w \in Work /\ Backed(w, request, report, now)
  BY <1>1, ArriveWithRequest, ConfirmIsBacked
<1>3. Start(c, w)
  BY DEF ConfirmRequest
<1> QED BY <1>1, <1>2, <1>3, ArriveKeepsBacked

\* A payment that is saved or cancelled is there.
LEMMA TransactionArrivesBacked ==
  ASSUME BackedInv, NEW c \in Call, NEW t \in Txn,
         \/ HandleTransactionPayment(c, t) \/ CancelTransaction(c, t)
         \/ UpdateRefundTransactionToConfirm(c, t)
  PROVE  BackedInv'
<1>1. c \in Process
  BY DEF Process
<1>2. CASE CancelTransaction(c, t)
  <2> DEFINE w == [op |-> "deleteTxn", t |-> t]
  <2>1. w \in Work /\ Backed(w, request, report, now)
    BY NextWork DEF Backed, OnRequest
  <2>2. Start(c, w)
    BY <1>2 DEF CancelTransaction
  <2> QED BY <1>1, <2>1, <2>2, ArriveKeepsBacked
<1>3. CASE HandleTransactionPayment(c, t) \/ UpdateRefundTransactionToConfirm(c, t)
  <2> DEFINE row == [txn[t] EXCEPT !.status = "succeed"]
             w == [op |-> "saveTxn", t |-> t, row |-> row]
  <2>1. IsThere(txn[t]) /\ Start(c, w)
    BY <1>3 DEF HandleTransactionPayment, UpdateRefundTransactionToConfirm,
       SaveSucceed, IsThere
  <2>2. txn[t] \in TxnRow
    BY <2>1, RowThere DEF BackedInv
  <2>3. /\ row \in TxnRow
        /\ row.type = txn[t].type /\ row.service = txn[t].service
    BY <2>2 DEF TxnRow
  <2>4. row.type = "refund" => Harvested(row.service, request, report)
    BY <2>1, <2>3 DEF BackedInv, RowsBacked
  <2>5. w \in Work
    BY <2>3, NextWork
  <2> HIDE DEF row
  <2>6. Backed(w, request, report, now)
    BY <2>4 DEF Backed, OnRequest
  <2> HIDE DEF w
  <2> QED BY <1>1, <2>1, <2>5, <2>6, ArriveKeepsBacked
<1> QED BY <1>2, <1>3

LEMMA ArrivalKeepsBacked ==
  ASSUME BackedInv, NEW c \in Call, Arrive(c)
  PROVE  BackedInv'
BY AssignTasksKeepBacked, CreateReportKeepsBacked, ConfirmRequestKeepsBacked,
   TransactionArrivesBacked DEF Arrive

-----------------------------------------------------------------------------
\* What process p is about to write.
LEMMA WorkAt ==
  ASSUME BackedInv, NEW p \in Process
  PROVE  /\ work[p] \in Work
         /\ Backed(work[p], request, report, now)
         /\ work[p].op \in OnRequest
              => /\ work[p].r \in Request
                 /\ IsThere(request[work[p].r])
                 /\ request[work[p].r] \in RequestRow
<1>1. work[p] \in Work /\ Backed(work[p], request, report, now)
  BY DEF BackedInv, TypeOK
<1>2. work[p].op \in OnRequest
        => work[p].r \in Request /\ IsThere(request[work[p].r])
  BY <1>1, WorkFields DEF OnRequest, FillRequest, SetStatusTo, PutReport,
     SaveService, InsertTxn, Backed
<1> QED BY <1>1, <1>2, RowThere DEF BackedInv

LEMMA SaveRequestKeepsBacked ==
  ASSUME BackedInv, NEW p \in Process, SaveRequest(p)
  PROVE  BackedInv'
<1> DEFINE n == NewRequest
           row == [status |-> IF work[p].kind = "purchase" THEN "assigned"
                              ELSE "pending",
                   kind |-> work[p].kind, service |-> work[p].s]
           w == IF work[p].s \in process
                THEN [op |-> "insertTask", r |-> n, for |-> work[p].for]
                ELSE Idle
<1>1. n \in Request /\ request[n] = Absent
  BY DEF SaveRequest, NewRequest, FreeRequest
<1>2. /\ work[p].kind \in {"purchase", "harvest"} /\ work[p].s \in Service
      /\ work[p].for \in For
      /\ work[p].for = "nothing" \/ IsThere(request[work[p].for])
      /\ work[p].kind = "harvest" => Inspected(work[p].s, request, report)
  BY WorkAt, WorkFields DEF SaveRequest, InsertRequest, Backed
<1>3. row \in RequestRow
  BY <1>2 DEF RequestRow, RequestStatus
<1>4. /\ request' = [request EXCEPT ![n] = row]
      /\ Goto(p, w)
      /\ UNCHANGED <<service, task, report, txn, process, visits, todo,
                     expiring, now, refunds, accidents, serial>>
  BY DEF SaveRequest, jobs
<1>5. w \in Work
  BY <1>1, <1>2, NextWork
<1>6. TypeOK'
  BY <1>1, <1>3, <1>4, <1>5, GotoKeepsType DEF BackedInv, TypeOK
<1>7. row.kind = work[p].kind /\ row.service = work[p].s /\ IsThere(row)
  BY DEF IsThere
<1>8. /\ request'[n] = row
      /\ \A r \in Request \ {n} : request'[r] = request[r]
  BY <1>1, <1>4 DEF BackedInv, TypeOK
<1> HIDE DEF row, n
<1>9. /\ Grows(request, request', report, report')
      /\ \A r \in Request : IsThere(request[r]) => IsThere(request'[r])
      /\ now <= now'
  BY <1>1, <1>4, <1>8 DEF Grows, BackedInv, TypeOK, IsThere, Absent
<1>10. Inspected(work[p].s, request, report)
         => Inspected(work[p].s, request', report')
  BY <1>9, ReportedStays
<1>11. RowsBacked'
  BY <1>2, <1>4, <1>6, <1>7, <1>8, <1>9, <1>10, RowsStay DEF BackedInv
<1>12. Backed(w, request', report', now')
  <2>1. CASE work[p].s \in process
    <3>1. w.op = "insertTask" /\ w.r = n /\ w.for = work[p].for
      BY <2>1
    <3>2. w.for = "nothing" \/ IsThere(request'[w.for])
      BY <1>2, <1>9, <3>1, ForIsThere
    <3> HIDE DEF w
    <3> QED BY <1>1, <1>7, <1>8, <3>1, <3>2 DEF Backed
  <2>2. CASE work[p].s \notin process
    BY <2>2, IdleIsBacked
  <2> QED BY <2>1, <2>2
<1> HIDE DEF w
<1> QED BY <1>4, <1>6, <1>9, <1>11, <1>12, StepKeepsBacked

LEMMA CreateTaskKeepsBacked ==
  ASSUME BackedInv, NEW p \in Process, CreateTaskAuto(p)
  PROVE  BackedInv'
<1> DEFINE w == [work[p] EXCEPT !.op = "setAssigned"]
<1>1. /\ work[p].r \in Request /\ work[p].for \in For /\ work[p] \in FillRequest
      /\ IsThere(request[work[p].r])
      /\ work[p].for = "nothing" \/ IsThere(request[work[p].for])
  BY WorkAt, WorkFields DEF CreateTaskAuto, FillRequest, Backed, OnRequest
<1>2. w.op = "setAssigned" /\ w.r = work[p].r /\ w.for = work[p].for /\ w \in Work
  <2>1. w = [op |-> "setAssigned", r |-> work[p].r, for |-> work[p].for]
    BY <1>1 DEF FillRequest
  <2> QED BY <1>1, <2>1, NextWork
<1> HIDE DEF w
<1>3. /\ Goto(p, w) /\ task' = task \cup {work[p].r}
      /\ UNCHANGED <<service, request, report, txn, process, visits, todo,
                     expiring, now, refunds, accidents, serial>>
  BY DEF CreateTaskAuto, jobs, w
<1>4. TypeOK'
  BY <1>1, <1>2, <1>3, GotoKeepsType DEF BackedInv, TypeOK
<1>5. Grows(request, request', report, report') /\ now <= now'
  BY <1>3 DEF Grows, BackedInv, TypeOK
<1>6. RowsBacked'
  BY <1>1, <1>3, <1>4, <1>5, RowsStay DEF BackedInv
<1>7. Backed(w, request', report', now')
  BY <1>1, <1>2, <1>3 DEF Backed
<1> QED BY <1>3, <1>4, <1>5, <1>6, <1>7, StepKeepsBacked

\* Setting a status leaves the rows backed.
LEMMA StatusKeepsBacked ==
  ASSUME BackedInv, NEW p \in Process, NEW r \in Request, NEW st \in RequestStatus,
         NEW w \in Work, IsThere(request[r]), Goto(p, w),
         Backed(w, request, report, now),
         request' = [request EXCEPT ![r].status = st],
         refunds' \in [Request -> Nat],
         UNCHANGED <<service, task, report, txn, process, visits, todo,
                     expiring, now, accidents, serial>>
  PROVE  BackedInv'
<1>1. request[r] \in RequestRow
  BY RowThere DEF BackedInv
<1>2. /\ request'[r] \in RequestRow
      /\ IsThere(request'[r])
      /\ request'[r].kind = request[r].kind
      /\ request'[r].service = request[r].service
      /\ \A x \in Request \ {r} : request'[x] = request[x]
  BY <1>1 DEF BackedInv, TypeOK, RequestRow, IsThere, RequestStatus
<1>3. request' \in [Request -> RequestRow \cup {Absent}]
  <2>1. request' = [x \in Request |-> request'[x]]
    BY DEF BackedInv, TypeOK
  <2>2. \A x \in Request : request'[x] \in RequestRow \cup {Absent}
    BY <1>2 DEF BackedInv, TypeOK
  <2> HIDE DEF TypeOK
  <2> QED BY <2>1, <2>2
<1>4. TypeOK'
  BY <1>3, GotoKeepsType DEF BackedInv, TypeOK
<1>5. Grows(request, request', report, report') /\ now <= now'
  BY <1>2 DEF Grows, BackedInv, TypeOK
<1>6. RowsBacked'
  BY <1>2, <1>4, <1>5, RowsStay DEF BackedInv
<1>7. Backed(w, request', report', now')
  BY <1>5, BackedStays DEF BackedInv, TypeOK
<1> QED BY <1>4, <1>5, <1>6, <1>7, StepKeepsBacked

LEMMA SetAssignedKeepsBacked ==
  ASSUME BackedInv, NEW p \in Process, SetAssigned(p)
  PROVE  BackedInv'
<1> DEFINE w == IF work[p].for = "nothing" THEN Idle
                ELSE SetStatusWork(work[p].for, "completed")
<1>1. /\ work[p].r \in Request /\ work[p].for \in For
      /\ IsThere(request[work[p].r])
      /\ work[p].for = "nothing" \/ IsThere(request[work[p].for])
  BY WorkAt, WorkFields DEF SetAssigned, FillRequest, Backed, OnRequest
<1>2. w \in Work /\ Backed(w, request, report, now)
  <2>1. CASE work[p].for = "nothing"
    BY <2>1, IdleIsBacked, NextWork
  <2>2. CASE work[p].for # "nothing"
    <3>1. "completed" \in RequestStatus
      BY DEF RequestStatus
    <3> QED BY <1>1, <2>2, <3>1, ForIsThere, ArriveWithRequest
  <2> QED BY <2>1, <2>2
<1> HIDE DEF w
<1>3. /\ Goto(p, w) /\ request' = [request EXCEPT ![work[p].r].status = "assigned"]
      /\ refunds' \in [Request -> Nat]
      /\ UNCHANGED <<service, task, report, txn, process, visits, todo,
                     expiring, now, accidents, serial>>
  BY DEF SetAssigned, jobs, w, BackedInv, TypeOK
<1>4. "assigned" \in RequestStatus
  BY DEF RequestStatus
<1> QED BY <1>1, <1>2, <1>3, <1>4, StatusKeepsBacked

LEMMA UpdateStatusKeepsBacked ==
  ASSUME BackedInv, NEW p \in Process, UpdateRequestStatus(p)
  PROVE  BackedInv'
<1>1. /\ work[p].r \in Request /\ work[p].to \in RequestStatus
      /\ IsThere(request[work[p].r])
  BY WorkAt, WorkFields DEF UpdateRequestStatus, SetStatusTo, OnRequest
<1>2. /\ Goto(p, Idle) /\ request' = [request EXCEPT ![work[p].r].status = work[p].to]
      /\ refunds' \in [Request -> Nat]
      /\ UNCHANGED <<service, task, report, txn, process, visits, todo,
                     expiring, now, accidents, serial>>
  BY DEF UpdateRequestStatus, jobs, BackedInv, TypeOK
<1> QED BY <1>1, <1>2, IdleIsBacked, NextWork, StatusKeepsBacked

\* The row to be saved is the one of the service, with what is now reported.
LEMMA UpdatedIsEarned ==
  ASSUME BackedInv, NEW r \in Request, NEW y \in Product, IsThere(request[r]),
         request[r].kind = "harvest" => y \in Harvest
  PROVE  /\ Updated(r, y) \in ServiceRow
         /\ Earned(Updated(r, y), request[r].service, request,
                   report \cup {r}, now)
<1> DEFINE s == request[r].service
           row == service[s]
           rp == report \cup {r}
<1>1. request[r] \in RequestRow /\ s \in Service
  BY ArriveWithRequest DEF RequestRow
<1>2. row \in ServiceRow /\ Earned(row, s, request, report, now)
  BY <1>1 DEF BackedInv, TypeOK, RowsBacked
<1>3. Earned(row, s, request, rp, now)
  <2>1. Grows(request, request, report, rp)
    BY DEF Grows
  <2> QED BY <1>1, <1>2, <2>1, EarnedStays DEF BackedInv, TypeOK
<1>4. CASE request[r].kind = "purchase"
  <2>1. Inspected(s, request, rp)
    BY <1>4 DEF Inspected, Reported
  <2> DEFINE new == [row EXCEPT !.expect = y]
  <2>2. Updated(r, y) = new
    BY <1>4 DEF Updated
  <2> HIDE DEF row, s
  <2>3. /\ new \in ServiceRow
        /\ new.status = row.status /\ new.harvest = row.harvest
    BY <1>2 DEF ServiceRow
  <2> HIDE DEF new
  <2>4. Earned(new, s, request, rp, now)
    BY <1>3, <2>1, <2>3 DEF Earned
  <2> QED BY <2>2, <2>3, <2>4 DEF s
<1>5. CASE request[r].kind # "purchase"
  <2>1. Reported("harvest", s, request, rp)
    BY <1>1, <1>5 DEF Reported, RequestRow
  <2> DEFINE new == [row EXCEPT !.harvest = y]
  <2>2. Updated(r, y) = new
    BY <1>5 DEF Updated
  <2> HIDE DEF row, s
  <2>3. /\ new \in ServiceRow
        /\ new.status = row.status /\ new.expect = row.expect
    BY <1>1, <1>2, <1>5 DEF ServiceRow, RequestRow, s
  <2> HIDE DEF new
  <2>4. Earned(new, s, request, rp, now)
    BY <1>3, <2>1, <2>3 DEF Earned
  <2> QED BY <2>2, <2>3, <2>4 DEF s
<1> QED BY <1>4, <1>5

LEMMA SaveReportKeepsBacked ==
  ASSUME BackedInv, NEW p \in Process, SaveReport(p)
  PROVE  BackedInv'
<1> DEFINE r == work[p].r
           row == Updated(r, work[p].y)
           w == [op |-> "saveService", r |-> r, row |-> row]
<1>1. /\ r \in Request /\ IsThere(request[r]) /\ work[p].y \in Product
      /\ request[r].kind = "harvest" => work[p].y \in Harvest
  BY WorkAt, WorkFields DEF SaveReport, PutReport, OnRequest, Backed
<1>2. UNCHANGED <<service, request, task, txn, process, visits, todo,
                  expiring, now, refunds, accidents, serial>>
  BY DEF SaveReport, jobs
<1>3. CASE Goto(p, Idle) /\ UNCHANGED report
  <2>1. TypeOK'
    BY <1>2, <1>3, NextWork, GotoKeepsType DEF BackedInv, TypeOK
  <2>2. RowsBacked'
    BY <1>2, <1>3 DEF BackedInv, RowsBacked, Inspected, Harvested, Reported, Earned
  <2>3. Grows(request, request', report, report') /\ now <= now'
    BY <1>2, <1>3, GrowsWhenSame DEF BackedInv, TypeOK
  <2> QED BY <1>3, <2>1, <2>2, <2>3, IdleIsBacked, StepKeepsBacked
<1>4. CASE report' = report \cup {r} /\ Goto(p, w)
  <2>1. /\ row \in ServiceRow
        /\ Earned(row, request[r].service, request, report', now)
    BY <1>1, <1>4, UpdatedIsEarned
  <2> HIDE DEF row
  <2>2. w \in Work
    BY <1>1, <2>1, NextWork
  <2>3. TypeOK'
    BY <1>1, <1>2, <1>4, <2>2, GotoKeepsType DEF BackedInv, TypeOK
  <2>4. Grows(request, request', report, report') /\ now <= now'
    BY <1>2, <1>4 DEF Grows, BackedInv, TypeOK
  <2>5. RowsBacked'
    BY <1>2, <2>3, <2>4, RowsStay DEF BackedInv, RowsBacked
  <2>6. Backed(w, request', report', now')
    BY <1>1, <1>2, <2>1 DEF Backed, OnRequest
  <2> HIDE DEF w
  <2> QED BY <1>4, <2>3, <2>4, <2>5, <2>6, StepKeepsBacked
<1> QED BY <1>3, <1>4 DEF SaveReport

LEMMA UpdateServiceKeepsBacked ==
  ASSUME BackedInv, NEW p \in Process, UpdateServiceSpecificByRequestPurchase(p)
  PROVE  BackedInv'
<1> DEFINE r == work[p].r
           s == request[r].service
           row == work[p].row
           w == SetStatusWork(r, "pending_approval")
<1>1. /\ r \in Request /\ IsThere(request[r]) /\ s \in Service
      /\ row \in ServiceRow /\ Earned(row, s, request, report, now)
  BY WorkAt, WorkFields DEF UpdateServiceSpecificByRequestPurchase, SaveService,
     OnRequest, Backed, RequestRow
<1>2. /\ service' = [service EXCEPT ![s] = row] /\ Goto(p, w)
      /\ UNCHANGED <<request, task, report, txn, process, visits, todo,
                     expiring, now, refunds, accidents, serial>>
  BY DEF UpdateServiceSpecificByRequestPurchase, jobs
<1>3. w \in Work /\ Backed(w, request', report', now')
  BY <1>1, <1>2, ArriveWithRequest DEF RequestStatus
<1> HIDE DEF r, s, row, w
<1>4. TypeOK'
  BY <1>1, <1>2, <1>3, GotoKeepsType DEF BackedInv, TypeOK
<1>5. Grows(request, request', report, report') /\ now <= now'
  BY <1>2 DEF Grows, BackedInv, TypeOK
<1>6. \A x \in Service : \/ service'[x] = service[x]
                          \/ Earned(service'[x], x, request', report', now')
  BY <1>1, <1>2 DEF BackedInv, TypeOK
<1>7. RowsBacked'
  BY <1>2, <1>4, <1>5, <1>6, RowsStay DEF BackedInv, RowsBacked
<1> QED BY <1>2, <1>3, <1>4, <1>5, <1>7, StepKeepsBacked

\* A step that writes one transaction and leaves backed work.
LEMMA TxnKeepsBacked ==
  ASSUME BackedInv, NEW p \in Process, NEW t \in Txn,
         NEW row \in TxnRow \cup {Absent}, NEW w \in Work, Goto(p, w),
         Backed(w, request, report, now),
         txn' = [txn EXCEPT ![t] = row],
         IsThere(row) /\ row.type = "refund"
           => Harvested(row.service, request, report),
         refunds' \in [Request -> Nat],
         UNCHANGED <<service, request, task, report, process, visits, todo,
                     expiring, now, accidents, serial>>
  PROVE  BackedInv'
<1>1. TypeOK'
  BY GotoKeepsType DEF BackedInv, TypeOK
<1>2. Grows(request, request', report, report') /\ now <= now'
  BY DEF Grows, BackedInv, TypeOK
<1>3. \A x \in Txn : IsThere(txn'[x]) /\ txn'[x].type = "refund"
        => txn'[x] = txn[x] \/ Harvested(txn'[x].service, request', report')
  BY DEF BackedInv, TypeOK
<1>4. RowsBacked'
  BY <1>1, <1>2, <1>3, RowsStay DEF BackedInv, RowsBacked
<1> QED BY <1>1, <1>2, <1>4, StepKeepsBacked

LEMMA CreateTransactionKeepsBacked ==
  ASSUME BackedInv, NEW p \in Process, CreateTransaction(p)
  PROVE  BackedInv'
<1> DEFINE r == work[p].r
           row == [status |-> "approved", type |-> work[p].type,
                   service |-> request[r].service, due |-> now + 1]
           w == SetStatusWork(r, "completed")
<1>1. /\ r \in Request /\ IsThere(request[r])
      /\ request[r].service \in Service
      /\ work[p].type \in {"payment", "refund"}
      /\ work[p].type = "refund" => Harvested(request[r].service, request, report)
  BY WorkAt, WorkFields DEF CreateTransaction, InsertTxn, OnRequest, Backed, RequestRow
<1>2. NewTxn \in Txn
  BY DEF CreateTransaction, NewTxn, FreeTxn
<1>3. row \in TxnRow /\ row.type = work[p].type /\ row.service = request[r].service
  BY <1>1 DEF TxnRow, BackedInv, TypeOK
<1>4. w \in Work /\ Backed(w, request, report, now)
  BY <1>1, ArriveWithRequest DEF RequestStatus
<1>5. refunds' \in [Request -> Nat]
  BY <1>1 DEF CreateTransaction, BackedInv, TypeOK
<1>6. /\ txn' = [txn EXCEPT ![NewTxn] = row] /\ Goto(p, w)
      /\ UNCHANGED <<service, request, task, report, process, visits, todo,
                     expiring, now, accidents, serial>>
  BY DEF CreateTransaction, jobs
<1> HIDE DEF row, w, r
<1> QED BY <1>1, <1>2, <1>3, <1>4, <1>5, <1>6, TxnKeepsBacked

LEMMA SaveTransactionKeepsBacked ==
  ASSUME BackedInv, NEW p \in Process, SaveTransaction(p) \/ DeleteTransaction(p)
  PROVE  BackedInv'
<1>1. Idle \in Work /\ Backed(Idle, request, report, now)
  BY IdleIsBacked, NextWork
<1>2. /\ Goto(p, Idle) /\ refunds' \in [Request -> Nat]
      /\ UNCHANGED <<service, request, task, report, process, visits, todo,
                     expiring, now, accidents, serial>>
  BY DEF SaveTransaction, DeleteTransaction, jobs, BackedInv, TypeOK
<1>3. CASE SaveTransaction(p)
  <2>1. /\ work[p].t \in Txn /\ work[p].row \in TxnRow
        /\ work[p].row.type = "refund"
             => Harvested(work[p].row.service, request, report)
    BY <1>3, WorkAt, WorkFields DEF SaveTransaction, SaveTxn, Backed
  <2>2. txn' = [txn EXCEPT ![work[p].t] = work[p].row]
    BY <1>3 DEF SaveTransaction
  <2> QED BY <1>1, <1>2, <2>1, <2>2, TxnKeepsBacked
<1>4. CASE DeleteTransaction(p)
  <2>1. work[p].t \in Txn
    BY <1>4, WorkAt, WorkFields DEF DeleteTransaction, DeleteTxn
  <2>2. txn' = [txn EXCEPT ![work[p].t] = Absent]
    BY <1>4 DEF DeleteTransaction
  <2>3. ~IsThere(Absent)
    BY DEF IsThere, Absent
  <2> QED BY <1>1, <1>2, <2>1, <2>2, <2>3, TxnKeepsBacked
<1> QED BY <1>3, <1>4

LEMMA ContinueKeepsBacked ==
  ASSUME BackedInv, NEW p \in Process, Continue(p)
  PROVE  BackedInv'
BY SaveRequestKeepsBacked, CreateTaskKeepsBacked, SetAssignedKeepsBacked,
   UpdateStatusKeepsBacked, SaveReportKeepsBacked, UpdateServiceKeepsBacked,
   CreateTransactionKeepsBacked, SaveTransactionKeepsBacked DEF Continue

-----------------------------------------------------------------------------
\* A step of a job, or a failure, that writes to no table and leaves backed work.
LEMMA JobKeepsBacked ==
  ASSUME BackedInv, NEW p \in Process, NEW w \in Work, Goto(p, w),
         Backed(w, request, report, now), now' \in Nat, now <= now',
         visits' \in SUBSET Service, todo' \in SUBSET Txn,
         expiring' \in SUBSET Service, accidents' \in Nat,
         \A s \in expiring' : s \in expiring \/ End[s] < now',
         UNCHANGED <<service, request, task, report, txn, process, refunds, serial>>
  PROVE  BackedInv'
<1>1. TypeOK'
  BY GotoKeepsType DEF BackedInv, TypeOK
<1>2. Grows(request, request', report, report')
  BY DEF Grows
<1>3. RowsBacked'
  BY <1>1, <1>2, RowsStay DEF BackedInv, RowsBacked
<1>4. Backed(w, request', report', now')
  BY <1>2, BackedStays DEF BackedInv, TypeOK
<1> QED BY <1>1, <1>2, <1>3, <1>4, StepKeepsBacked

\* Leaving the work as it is is a step of any process.
LEMMA WorkStaysBacked ==
  ASSUME BackedInv, UNCHANGED work
  PROVE  /\ Morning \in Process /\ Hourly \in Process
         /\ \A p \in Process : /\ Goto(p, work[p]) /\ work[p] \in Work
                                /\ Backed(work[p], request, report, now)
BY DEF BackedInv, TypeOK, Goto, Process

LEMMA MorningKeepsBacked ==
  ASSUME BackedInv, CheckAndCreatePurchaseProductService
  PROVE  BackedInv'
<1>1. now \in Nat /\ accidents \in Nat
  BY DEF BackedInv, TypeOK
<1>2. /\ now' = now + 1 /\ UNCHANGED work
      /\ UNCHANGED <<service, request, task, report, txn, process, refunds, serial>>
      /\ UNCHANGED <<todo, expiring>>
  BY DEF CheckAndCreatePurchaseProductService, tables
<1>3. visits' \in SUBSET Service /\ accidents' \in Nat
  BY <1>1 DEF CheckAndCreatePurchaseProductService, EndingSoon, BackedInv, TypeOK
<1>4. todo' \in SUBSET Txn /\ expiring' \in SUBSET Service /\ now' \in Nat /\ now <= now'
  BY <1>1, <1>2 DEF BackedInv, TypeOK
<1> QED BY <1>2, <1>3, <1>4, WorkStaysBacked, JobKeepsBacked

LEMMA VisitKeepsBacked ==
  ASSUME BackedInv, CreateRequestPurchase
  PROVE  BackedInv'
<1>1. PICK s \in visits :
        /\ visits' = visits \ {s}
        /\ \/ Goto(Morning, [op |-> "insertRequest", kind |-> "purchase",
                             s |-> s, for |-> "nothing"])
           \/ UNCHANGED work
  BY DEF CreateRequestPurchase
<1> DEFINE i == [op |-> "insertRequest", kind |-> "purchase", s |-> s,
                 for |-> "nothing"]
<1>2. i \in Work /\ Backed(i, request, report, now) /\ Morning \in Process
  <2>1. s \in Service /\ "nothing" \in For
    BY DEF BackedInv, TypeOK, For
  <2>2. i \in Work
    BY <2>1, NextWork
  <2>3. Backed(i, request, report, now)
    BY DEF Backed, OnRequest
  <2> QED BY <2>2, <2>3 DEF Process
<1>3. PICK w \in Work : Goto(Morning, w) /\ Backed(w, request, report, now)
  BY <1>1, <1>2, WorkStaysBacked
<1>4. /\ UNCHANGED <<service, request, task, report, txn, process, refunds, serial>>
      /\ UNCHANGED <<todo, expiring, now, accidents>>
  BY DEF CreateRequestPurchase, tables
<1>5. /\ visits' \in SUBSET Service /\ todo' \in SUBSET Txn
      /\ expiring' \in SUBSET Service /\ now' \in Nat /\ now <= now'
      /\ accidents' \in Nat
  BY <1>1, <1>4 DEF BackedInv, TypeOK
<1> QED BY <1>2, <1>3, <1>4, <1>5, JobKeepsBacked

LEMMA HourlyKeepsBacked ==
  ASSUME BackedInv, CheckTransactionIsExpired \/ CancelNext
  PROVE  BackedInv'
<1>1. /\ UNCHANGED <<service, request, task, report, txn, process, refunds, serial>>
      /\ UNCHANGED <<visits, expiring, now, accidents>>
  BY DEF CheckTransactionIsExpired, CancelNext, tables
<1>2. todo' \in SUBSET Txn
  BY DEF CheckTransactionIsExpired, CancelNext, BackedInv, TypeOK
<1>3. \A t \in Txn : /\ [op |-> "deleteTxn", t |-> t] \in Work
                     /\ Backed([op |-> "deleteTxn", t |-> t], request, report, now)
  BY NextWork DEF Backed, OnRequest
<1>4. \/ UNCHANGED work
      \/ \E t \in Txn : Goto(Hourly, [op |-> "deleteTxn", t |-> t])
  BY DEF CheckTransactionIsExpired, CancelNext, BackedInv, TypeOK
<1>5. PICK w \in Work : Goto(Hourly, w) /\ Backed(w, request, report, now)
  BY <1>3, <1>4, WorkStaysBacked
<1>6. /\ visits' \in SUBSET Service /\ expiring' \in SUBSET Service
      /\ now' \in Nat /\ now <= now' /\ accidents' \in Nat /\ Hourly \in Process
  BY <1>1 DEF BackedInv, TypeOK, Process
<1> QED BY <1>1, <1>2, <1>5, <1>6, JobKeepsBacked

LEMMA DailyKeepsBacked ==
  ASSUME BackedInv, CheckServiceIsExpired
  PROVE  BackedInv'
<1>1. /\ UNCHANGED <<service, request, task, report, txn, process, refunds, serial>>
      /\ UNCHANGED <<visits, todo, now, accidents, work>>
  BY DEF CheckServiceIsExpired, tables
<1>2. expiring' \in SUBSET Service /\ \A s \in expiring' : End[s] < now'
  BY <1>1 DEF CheckServiceIsExpired, Over
<1>3. /\ visits' \in SUBSET Service /\ todo' \in SUBSET Txn
      /\ now' \in Nat /\ now <= now' /\ accidents' \in Nat
  BY <1>1 DEF BackedInv, TypeOK
<1> QED BY <1>1, <1>2, <1>3, WorkStaysBacked, JobKeepsBacked

LEMMA ExpireKeepsBacked ==
  ASSUME BackedInv, ExpireService
  PROVE  BackedInv'
<1>1. PICK s \in expiring : /\ expiring' = expiring \ {s}
                            /\ service' = [service EXCEPT ![s].status = "expired"]
  BY DEF ExpireService
<1>2. UNCHANGED <<request, task, report, txn, process, visits, todo, now, work,
                  refunds, accidents, serial>>
  BY DEF ExpireService
<1>3. s \in Service /\ service[s] \in ServiceRow /\ End[s] < now
  BY DEF BackedInv, TypeOK, RowsBacked
<1> DEFINE row == [service[s] EXCEPT !.status = "expired"]
<1>4. /\ row \in ServiceRow /\ row.expect = service[s].expect
      /\ row.harvest = service[s].harvest
  BY <1>3 DEF ServiceRow
<1>5. service' = [service EXCEPT ![s] = row]
  BY <1>1
<1> HIDE DEF row
<1>6. TypeOK'
  BY <1>1, <1>2, <1>3, <1>4, <1>5 DEF BackedInv, TypeOK
<1>7. Grows(request, request', report, report') /\ now <= now'
  BY <1>2 DEF Grows, BackedInv, TypeOK
<1>8. Earned(service[s], s, request, report, now)
  BY <1>3 DEF BackedInv, RowsBacked
<1>9. Earned(row, s, request', report', now')
  BY <1>2, <1>3, <1>4, <1>8 DEF Earned
<1>10. \A x \in Service : \/ service'[x] = service[x]
                          \/ Earned(service'[x], x, request', report', now')
  BY <1>3, <1>5, <1>9 DEF BackedInv, TypeOK
<1>11. RowsBacked'
  BY <1>1, <1>2, <1>6, <1>7, <1>10, RowsStay DEF BackedInv, RowsBacked
<1>12. \A p \in Process : Backed(work[p], request', report', now')
  BY <1>2 DEF BackedInv
<1> QED BY <1>2, <1>6, <1>11, <1>12 DEF BackedInv

LEMMA FailKeepsBacked ==
  ASSUME BackedInv, NEW p \in Process, Fail(p)
  PROVE  BackedInv'
<1>1. /\ UNCHANGED <<service, request, task, report, txn, process, refunds, serial>>
      /\ UNCHANGED <<expiring, now>> /\ Goto(p, Idle)
  BY DEF Fail, tables
<1>2. /\ visits' \in SUBSET Service /\ todo' \in SUBSET Txn
      /\ expiring' \in SUBSET Service /\ now' \in Nat /\ now <= now'
      /\ accidents' \in Nat
  BY <1>1 DEF Fail, BackedInv, TypeOK
<1> QED BY <1>1, <1>2, IdleIsBacked, NextWork, JobKeepsBacked

LEMMA NextKeepsBacked ==
  ASSUME BackedInv, [Next]_vars
  PROVE  BackedInv'
<1>1. CASE UNCHANGED vars
  BY <1>1 DEF vars, tables, jobs, BackedInv, TypeOK, RowsBacked, Backed, Earned,
     Inspected, Harvested, Reported
<1>2. CASE Next
  BY <1>2, MorningKeepsBacked, VisitKeepsBacked, ArrivalKeepsBacked,
     ContinueKeepsBacked, FailKeepsBacked, HourlyKeepsBacked, DailyKeepsBacked,
     ExpireKeepsBacked DEF Next
<1> QED BY <1>1, <1>2

LEMMA InitIsBacked ==
  ASSUME Init
  PROVE  BackedInv
<1>1. /\ \A s \in Service : service[s] = [status |-> "used", expect |-> "none",
                                         harvest |-> "none"]
      /\ \A r \in Request : ~IsThere(request[r])
      /\ \A t \in Txn : ~IsThere(txn[t])
      /\ task = {} /\ expiring = {} /\ \A p \in Process : work[p] = Idle
  BY DEF Init, IsThere, Absent
<1>2. TypeOK
  <2>1. [status |-> "used", expect |-> "none", harvest |-> "none"] \in ServiceRow
    BY DEF ServiceRow, Product, Harvest
  <2> QED BY <2>1, NextWork, PurchaseBoundAssumption DEF Init, TypeOK
<1>3. RowsBacked
  BY <1>1 DEF RowsBacked, Earned
<1>4. \A p \in Process : Backed(work[p], request, report, now)
  BY <1>1, IdleIsBacked
<1> QED BY <1>2, <1>3, <1>4 DEF BackedInv

LEMMA PurchaseIsBacked ==
  Spec => []BackedInv
BY InitIsBacked, NextKeepsBacked, PTL DEF Spec

\* The state of ProductPurchase.tla is always of its types: in particular nothing is
\* written to a request, a service or a transaction that is not there.
THEOREM PurchaseTypeCorrect ==
  Spec => []TypeOK
<1>1. BackedInv => TypeOK
  BY DEF BackedInv
<1> QED BY <1>1, PurchaseIsBacked, PTL

\* confirmRequest pays only for a product that was inspected and harvested, each with
\* a report, whatever overlaps and whatever fails.
THEOREM RefundWasReportedHolds ==
  Spec => []RefundWasReported
<1>1. BackedInv => RefundWasReported
  BY DEF BackedInv, RowsBacked, RefundWasReported, Harvested, Inspected, Reported,
     Requests
<1> QED BY <1>1, PurchaseIsBacked, PTL

-----------------------------------------------------------------------------
\* When calls do not overlap at most one process is at work, and none while updates
\* of the daily job are under way.
OneAtATime ==
  /\ \A p, q \in Process : work[p] # Idle /\ work[q] # Idle => p = q
  /\ visits # {} => \A p \in Process \ {Morning} : work[p] = Idle
  /\ todo # {} => visits = {} /\ \A p \in Process \ {Hourly} : work[p] = Idle
  /\ expiring # {} => visits = {} /\ todo = {} /\ \A p \in Process : work[p] = Idle

OneOfAKind(rq) ==
  \A r, x \in Request :
    /\ IsThere(rq[r]) /\ IsThere(rq[x])
    /\ rq[r].kind = rq[x].kind /\ rq[r].service = rq[x].service
    => r = x

\* A request in flight is still to be the first of its kind.
FirstOfItsKind(w, rq) ==
  w.op = "insertRequest" =>
    \A r \in Request : IsThere(rq[r]) /\ rq[r].service = w.s => rq[r].kind # w.kind

SerialInv == /\ OneAtATime
             /\ OneOfAKind(request)
             /\ \A p \in Process : FirstOfItsKind(work[p], request)

PurchaseSerialInv == serial => SerialInv

\* While w is the only work in flight, a harvest that waits for its approval is not
\* paid yet, but for the one whose status w sets.
PaidOnce(w, rq, rf) ==
  /\ \A r \in Request : rf[r] <= 1
  /\ \A r \in Request : rq[r].status = "pending_approval"
       => rf[r] = 0 \/ (w.op = "setStatus" /\ w.r = r)
  /\ w.op = "insertTxn" => rq[w.r].status = "pending_approval"

\* While w is the only work in flight: a service whose end is near is on the morning
\* job's list, or w asks for its inspection, or it was asked for.
Asked(w, rq, vs, day) ==
  \A s \in Service : End[s] > Lead /\ End[s] <= day + Lead =>
    \/ s \in vs
    \/ w.op = "insertRequest" /\ w.kind = "purchase" /\ w.s = s
    \/ \E r \in Request :
         IsThere(rq[r]) /\ rq[r].kind = "purchase" /\ rq[r].service = s

\* A request of a service with a process has its task, or w inserts it.
Assigned(w, rq, tk, pr) ==
  \A r \in Request : IsThere(rq[r]) /\ rq[r].service \in pr
    => r \in tk \/ (w.op = "insertTask" /\ w.r = r)

Agree(w, rq, tk, rf, vs, day, pr) ==
  PaidOnce(w, rq, rf) /\ Asked(w, rq, vs, day) /\ Assigned(w, rq, tk, pr)

CleanInv ==
  /\ (\A p \in Process : work[p] = Idle)
       => Agree(Idle, request, task, refunds, visits, now, process)
  /\ \A p \in Process : work[p] # Idle
       => Agree(work[p], request, task, refunds, visits, now, process)

PurchaseCleanInv == serial /\ accidents = 0 => CleanInv

PurchaseInv == BackedInv /\ PurchaseSerialInv /\ PurchaseCleanInv

\* Nobody but p has anything in flight.
Alone(p) == /\ \A q \in Process \ {p} : work[q] = Idle
            /\ visits # {} => p = Morning
            /\ todo # {} => p = Hourly
            /\ expiring = {}

\* What a step has to keep when calls do not overlap.
StaysSerial == SerialInv' /\ (accidents' = 0 /\ CleanInv => CleanInv')

LEMMA QuietIsAlone ==
  ASSUME NEW p \in Process, Quiet
  PROVE  Alone(p) /\ work[p] = Idle /\ visits = {} /\ todo = {}
BY DEF Quiet, Alone

LEMMA WorkingIsAlone ==
  ASSUME SerialInv, NEW p \in Process, work[p] # Idle
  PROVE  Alone(p)
BY DEF SerialInv, OneAtATime, Alone

\* A step of the only process at work.
LEMMA SerialStep ==
  ASSUME BackedInv, SerialInv, NEW p \in Process, NEW w, Alone(p), Goto(p, w),
         visits' # {} => p = Morning,
         todo' # {} => p = Hourly,
         expiring' = {},
         OneOfAKind(request'),
         FirstOfItsKind(w, request'),
         accidents' = 0 /\ Agree(work[p], request, task, refunds, visits, now, process)
           => Agree(w, request', task', refunds', visits', now', process')
  PROVE  StaysSerial
<1>1. \A q \in Process : work'[q] = IF q = p THEN w ELSE Idle
  BY DEF BackedInv, TypeOK, Goto, Alone
<1>2. OneAtATime'
  BY <1>1, PurchaseJobAssumption DEF OneAtATime
<1>3. FirstOfItsKind(Idle, request')
  BY DEF FirstOfItsKind, Idle
<1>4. \A q \in Process : FirstOfItsKind(work'[q], request')
  BY <1>1, <1>3
<1>5. SerialInv'
  BY <1>2, <1>4 DEF SerialInv
<1>6. ASSUME accidents' = 0, CleanInv
      PROVE  CleanInv'
  <2>1. Agree(work[p], request, task, refunds, visits, now, process)
    BY <1>6 DEF CleanInv, Alone
  <2>2. Agree(w, request', task', refunds', visits', now', process')
    BY <1>6, <2>1
  <2>3. (\A q \in Process : work'[q] = Idle)
          => Agree(Idle, request', task', refunds', visits', now', process')
    BY <1>1, <2>2
  <2>4. \A q \in Process : work'[q] # Idle
          => Agree(work'[q], request', task', refunds', visits', now', process')
    BY <1>1, <2>2
  <2> QED BY <2>3, <2>4 DEF CleanInv
<1> QED BY <1>5, <1>6 DEF StaysSerial

-----------------------------------------------------------------------------
\* Requests of rq2 are those of rq: only their status is another.
SameRequests(rq, rq2) ==
  \A r \in Request : /\ IsThere(rq2[r]) <=> IsThere(rq[r])
                     /\ rq2[r].kind = rq[r].kind
                     /\ rq2[r].service = rq[r].service

LEMMA SameKinds ==
  ASSUME NEW rq, NEW rq2, SameRequests(rq, rq2)
  PROVE  /\ OneOfAKind(rq) => OneOfAKind(rq2)
         /\ \A w : FirstOfItsKind(w, rq) => FirstOfItsKind(w, rq2)
BY DEF SameRequests, OneOfAKind, FirstOfItsKind

LEMMA PaidStays ==
  ASSUME NEW w, NEW w2, NEW rq, NEW rq2, NEW rf,
         PaidOnce(w, rq, rf), w.op # "setStatus",
         \A r \in Request : rq2[r].status = "pending_approval"
                             => rq[r].status = "pending_approval",
         w2.op = "insertTxn" => rq2[w2.r].status = "pending_approval"
  PROVE  PaidOnce(w2, rq2, rf)
BY DEF PaidOnce

LEMMA AskedStays ==
  ASSUME NEW w, NEW w2, NEW rq, NEW rq2, NEW vs, NEW day,
         Asked(w, rq, vs, day), SameRequests(rq, rq2), w.op # "insertRequest"
  PROVE  Asked(w2, rq2, vs, day)
BY DEF Asked, SameRequests

LEMMA AssignedStays ==
  ASSUME NEW w, NEW w2, NEW rq, NEW rq2, NEW tk, NEW pr,
         Assigned(w, rq, tk, pr), SameRequests(rq, rq2), w.op # "insertTask"
  PROVE  Assigned(w2, rq2, tk, pr)
BY DEF Assigned, SameRequests

\* A step after w that inserts no request and no task, and makes no harvest wait for
\* its approval, leaves all in agreement.
LEMMA AgreeStays ==
  ASSUME NEW w, NEW w2, NEW rq, NEW rq2, NEW tk, NEW rf, NEW vs, NEW day, NEW pr,
         Agree(w, rq, tk, rf, vs, day, pr), SameRequests(rq, rq2),
         w.op \notin {"insertRequest", "insertTask", "setStatus"},
         \A r \in Request : rq2[r].status = "pending_approval"
                             => rq[r].status = "pending_approval",
         w2.op = "insertTxn" => rq2[w2.r].status = "pending_approval"
  PROVE  Agree(w2, rq2, tk, rf, vs, day, pr)
<1>1. PaidOnce(w2, rq2, rf)
  BY PaidStays DEF Agree
<1>2. Asked(w2, rq2, vs, day)
  BY AskedStays DEF Agree
<1>3. Assigned(w2, rq2, tk, pr)
  BY AssignedStays DEF Agree
<1> QED BY <1>1, <1>2, <1>3 DEF Agree

\* A process that goes on without writing to a request.
LEMMA PlainStep ==
  ASSUME BackedInv, SerialInv, NEW p \in Process, NEW w, Alone(p), Goto(p, w),
         work[p].op \notin {"insertRequest", "insertTask", "setStatus"},
         w.op # "insertTxn", w.op # "insertRequest",
         UNCHANGED <<request, task, process, visits, todo, expiring, now, refunds>>
  PROVE  StaysSerial
<1>1. OneOfAKind(request') /\ FirstOfItsKind(w, request')
  BY DEF SerialInv, FirstOfItsKind
<1>2. Agree(work[p], request, task, refunds, visits, now, process)
        => Agree(w, request', task', refunds', visits', now', process')
  BY AgreeStays DEF SameRequests
<1> QED BY <1>1, <1>2, SerialStep DEF Alone

\* A call that starts: nothing else is in flight.
LEMMA ArriveIsSerial ==
  ASSUME BackedInv, SerialInv, serial, NEW c \in Process, NEW w, Start(c, w),
         FirstOfItsKind(w, request),
         w.op = "insertTxn" => request[w.r].status = "pending_approval"
  PROVE  StaysSerial
<1>1. Quiet /\ Goto(c, w)
  BY DEF Start, MayStart
<1>2. Alone(c) /\ work[c] = Idle /\ visits = {} /\ todo = {}
  BY <1>1, QuietIsAlone
<1>3. UNCHANGED <<request, task, process, visits, todo, expiring, now, refunds>>
  BY DEF Start, tables, jobs
<1>4. Agree(Idle, request, task, refunds, visits, now, process)
        => Agree(w, request, task, refunds, visits, now, process)
  <2>1. Idle.op = "idle"
    BY DEF Idle
  <2> QED BY <2>1, AgreeStays DEF SameRequests
<1>5. OneOfAKind(request)
  BY DEF SerialInv
<1>6. /\ OneOfAKind(request') /\ FirstOfItsKind(w, request')
      /\ Agree(work[c], request, task, refunds, visits, now, process)
           => Agree(w, request', task', refunds', visits', now', process')
      /\ visits' = {} /\ todo' = {} /\ expiring' = {}
  BY <1>2, <1>3, <1>4, <1>5 DEF Alone
<1> QED BY <1>1, <1>2, <1>6, SerialStep

LEMMA ArrivalIsSerial ==
  ASSUME BackedInv, SerialInv, serial, NEW c \in Call, Arrive(c)
  PROVE  StaysSerial
<1>0. c \in Process
  BY DEF Process
<1>1. ASSUME NEW r \in Request, NEW s, Start(c, SetStatusWork(r, s))
      PROVE  StaysSerial
  <2>1. SetStatusWork(r, s).op = "setStatus"
    BY DEF SetStatusWork
  <2>2. FirstOfItsKind(SetStatusWork(r, s), request)
    BY <2>1 DEF FirstOfItsKind
  <2> QED BY <1>0, <1>1, <2>1, <2>2, ArriveIsSerial
<1>2. ASSUME NEW r \in Request, NEW y \in Product, CreateReportPurchase(c, r, y)
      PROVE  StaysSerial
  <2> DEFINE w == [op |-> "saveReport", r |-> r, found |-> r \in report, y |-> y]
  <2>1. w.op = "saveReport" /\ Start(c, w)
    BY <1>2 DEF CreateReportPurchase
  <2> HIDE DEF w
  <2>2. FirstOfItsKind(w, request)
    BY <2>1 DEF FirstOfItsKind
  <2> QED BY <1>0, <2>1, <2>2, ArriveIsSerial
<1>3. ASSUME NEW t \in Txn, NEW w, w.op \in {"saveTxn", "deleteTxn"}, Start(c, w)
      PROVE  StaysSerial
  <2>1. FirstOfItsKind(w, request)
    BY <1>3 DEF FirstOfItsKind
  <2> QED BY <1>0, <1>3, <2>1, ArriveIsSerial
<1>4. ASSUME NEW r \in Request, NEW to \in {"completed", "rejected"},
             ConfirmRequest(c, r, to), to # "rejected"
      PROVE  StaysSerial
  <2> DEFINE w == ConfirmWork(r)
  <2>1. Start(c, w) /\ request[r].status = "pending_approval"
    BY <1>4 DEF ConfirmRequest
  <2>2. /\ w.op = "insertTxn" => w.r = r
        /\ FirstOfItsKind(w, request)
    <3> DEFINE s == request[r].service
               h == [op |-> "insertRequest", kind |-> "harvest", s |-> s, for |-> r]
               pay == [op |-> "insertTxn", r |-> r, type |-> "payment"]
               back == [op |-> "insertTxn", r |-> r, type |-> "refund"]
    <3>1. \/ w \in {SetStatusWork(r, "rejected"), SetStatusWork(r, "completed"),
                    pay, back}
          \/ w = h /\ Requests("harvest", s) = {}
      BY DEF ConfirmWork, AfterInspection, AfterHarvest
    <3>2. \A v \in {SetStatusWork(r, "rejected"), SetStatusWork(r, "completed"),
                    pay, back} :
            (v.op = "insertTxn" => v.r = r) /\ v.op # "insertRequest"
      BY DEF SetStatusWork
    <3>3. h.op = "insertRequest" /\ h.kind = "harvest" /\ h.s = s
      OBVIOUS
    <3>4. Requests("harvest", s) = {} => FirstOfItsKind(h, request)
      BY <3>3 DEF Requests, FirstOfItsKind
    <3> HIDE DEF h, w, pay, back
    <3> QED BY <3>1, <3>2, <3>3, <3>4 DEF FirstOfItsKind
  <2> HIDE DEF w
  <2> QED BY <1>0, <2>1, <2>2, ArriveIsSerial
<1>5. ASSUME NEW t \in Txn,
             \/ HandleTransactionPayment(c, t) \/ CancelTransaction(c, t)
             \/ UpdateRefundTransactionToConfirm(c, t)
      PROVE  StaysSerial
  <2> DEFINE save == [op |-> "saveTxn", t |-> t,
                      row |-> [txn[t] EXCEPT !.status = "succeed"]]
             del == [op |-> "deleteTxn", t |-> t]
  <2>1. Start(c, save) \/ Start(c, del)
    BY <1>5 DEF HandleTransactionPayment, CancelTransaction, SaveSucceed,
       UpdateRefundTransactionToConfirm
  <2>2. save.op = "saveTxn" /\ del.op = "deleteTxn"
    OBVIOUS
  <2> HIDE DEF save, del
  <2> QED BY <1>3, <2>1, <2>2
<1>6. ASSUME NEW r \in Request, NEW to \in {"completed", "rejected"},
             ConfirmRequest(c, r, to), to = "rejected"
      PROVE  StaysSerial
  <2>1. Start(c, SetStatusWork(r, "rejected"))
    BY <1>6 DEF ConfirmRequest
  <2> QED BY <1>1, <2>1
<1>7. ASSUME NEW r \in Request, AssignTask(c, r) \/ StartTask(c, r) \/ ApproveTask(c, r)
      PROVE  StaysSerial
  BY <1>1, <1>7 DEF AssignTask, StartTask, ApproveTask
<1> HIDE DEF StaysSerial
<1> QED BY <1>2, <1>4, <1>5, <1>6, <1>7 DEF Arrive

-----------------------------------------------------------------------------
\* A process that goes on is alone.
LEMMA ContinueIsAlone ==
  ASSUME SerialInv, NEW p \in Process, work[p].op # "idle"
  PROVE  Alone(p) /\ FirstOfItsKind(work[p], request) /\ OneOfAKind(request)
BY WorkingIsAlone DEF Idle, SerialInv

LEMMA SaveRequestIsSerial ==
  ASSUME BackedInv, SerialInv, NEW p \in Process, SaveRequest(p)
  PROVE  StaysSerial
<1> DEFINE n == NewRequest
           row == [status |-> IF work[p].kind = "purchase" THEN "assigned"
                              ELSE "pending",
                   kind |-> work[p].kind, service |-> work[p].s]
           w == IF work[p].s \in process
                THEN [op |-> "insertTask", r |-> n, for |-> work[p].for]
                ELSE Idle
<1>1. n \in Request /\ ~IsThere(request[n])
  BY DEF SaveRequest, NewRequest, FreeRequest, IsThere, Absent
<1>2. /\ work[p].op = "insertRequest"
      /\ request' = [request EXCEPT ![n] = row]
      /\ Goto(p, w)
      /\ UNCHANGED <<task, process, visits, todo, expiring, now, refunds>>
  BY DEF SaveRequest, jobs
<1>3. Alone(p) /\ FirstOfItsKind(work[p], request) /\ OneOfAKind(request)
  BY <1>2, ContinueIsAlone
<1>4. /\ row.kind = work[p].kind /\ row.service = work[p].s /\ IsThere(row)
      /\ row.status # "pending_approval"
  BY DEF IsThere
<1>5. /\ work[p].s \in process => w.op = "insertTask" /\ w.r = n
      /\ w.op \in {"idle", "insertTask"}
  BY DEF Idle
<1> HIDE DEF row, n, w
<1>6. /\ request'[n] = row
      /\ \A r \in Request \ {n} : request'[r] = request[r]
  BY <1>1, <1>2 DEF BackedInv, TypeOK
<1>7. OneOfAKind(request')
  <2> SUFFICES ASSUME NEW r \in Request, NEW x \in Request,
                      IsThere(request'[r]), IsThere(request'[x]),
                      request'[r].kind = request'[x].kind,
                      request'[r].service = request'[x].service
               PROVE  r = x
    BY DEF OneOfAKind
  <2>1. \A y \in Request \ {n} : IsThere(request'[y])
          => ~(request'[y].kind = row.kind /\ request'[y].service = row.service)
    BY <1>2, <1>3, <1>4, <1>6 DEF FirstOfItsKind
  <2>2. CASE r # n /\ x # n
    BY <1>3, <1>6, <2>2 DEF OneOfAKind
  <2>3. CASE r = n \/ x = n
    BY <1>6, <2>1, <2>3
  <2> QED BY <2>2, <2>3
<1>8. FirstOfItsKind(w, request')
  BY <1>5 DEF FirstOfItsKind
<1>9. ASSUME Agree(work[p], request, task, refunds, visits, now, process)
      PROVE  Agree(w, request', task', refunds', visits', now', process')
  <2>1. PaidOnce(w, request', refunds)
    <3>1. PaidOnce(work[p], request, refunds)
      BY <1>9 DEF Agree
    <3>2. \A r \in Request : request'[r].status = "pending_approval"
                             => request[r].status = "pending_approval"
      BY <1>4, <1>6
    <3>3. work[p].op # "setStatus" /\ w.op # "insertTxn"
      BY <1>2, <1>5
    <3> QED BY <3>1, <3>2, <3>3, PaidStays
  <2>2. Asked(w, request', visits, now)
    <3> SUFFICES ASSUME NEW s \in Service, End[s] > Lead, End[s] <= now + Lead,
                        s \notin visits
                 PROVE  \E r \in Request : /\ IsThere(request'[r])
                                           /\ request'[r].kind = "purchase"
                                           /\ request'[r].service = s
      BY DEF Asked
    <3>1. \/ work[p].kind = "purchase" /\ work[p].s = s
          \/ \E r \in Request : /\ IsThere(request[r])
                                /\ request[r].kind = "purchase"
                                /\ request[r].service = s
      BY <1>9 DEF Agree, Asked
    <3> QED BY <1>1, <1>4, <1>6, <3>1
  <2>3. Assigned(w, request', task, process)
    <3>1. Assigned(work[p], request, task, process)
      BY <1>9 DEF Agree
    <3> SUFFICES ASSUME NEW r \in Request, IsThere(request'[r]),
                        request'[r].service \in process
                 PROVE  r \in task \/ (w.op = "insertTask" /\ w.r = r)
      BY DEF Assigned
    <3>2. CASE r = n
      BY <1>4, <1>5, <1>6, <3>2
    <3>3. CASE r # n
      BY <1>2, <1>6, <3>1, <3>3 DEF Assigned
    <3> QED BY <3>2, <3>3
  <2> QED BY <1>2, <2>1, <2>2, <2>3 DEF Agree
<1>10. /\ visits' # {} => p = Morning
       /\ todo' # {} => p = Hourly
       /\ expiring' = {}
  BY <1>2, <1>3 DEF Alone
<1> QED BY <1>2, <1>3, <1>7, <1>8, <1>9, <1>10, SerialStep

LEMMA CreateTaskIsSerial ==
  ASSUME BackedInv, SerialInv, NEW p \in Process, CreateTaskAuto(p)
  PROVE  StaysSerial
<1> DEFINE w == [work[p] EXCEPT !.op = "setAssigned"]
<1>1. work[p] \in FillRequest
  BY WorkAt, WorkFields DEF CreateTaskAuto
<1>2. w.op = "setAssigned"
  BY <1>1 DEF FillRequest
<1>3. /\ work[p].op = "insertTask" /\ Goto(p, w)
      /\ task' = task \cup {work[p].r}
      /\ UNCHANGED <<request, process, visits, todo, expiring, now, refunds>>
  BY DEF CreateTaskAuto, jobs
<1> HIDE DEF w
<1>4. Alone(p) /\ OneOfAKind(request)
  BY <1>3, ContinueIsAlone
<1>5. FirstOfItsKind(w, request')
  BY <1>2 DEF FirstOfItsKind
<1>6. ASSUME Agree(work[p], request, task, refunds, visits, now, process)
      PROVE  Agree(w, request', task', refunds', visits', now', process')
  <2>1. PaidOnce(w, request, refunds)
    BY <1>2, <1>3, <1>6, PaidStays DEF Agree
  <2>2. Asked(w, request, visits, now)
    BY <1>3, <1>6, AskedStays DEF Agree, SameRequests
  <2>3. Assigned(w, request, task', process)
    BY <1>3, <1>6 DEF Agree, Assigned
  <2> QED BY <1>3, <2>1, <2>2, <2>3 DEF Agree
<1>7. /\ visits' # {} => p = Morning
      /\ todo' # {} => p = Hourly
      /\ expiring' = {}
  BY <1>3, <1>4 DEF Alone
<1> QED BY <1>3, <1>4, <1>5, <1>6, <1>7, SerialStep

\* What a change of its status leaves of a request.
LEMMA StatusOnly ==
  ASSUME BackedInv, NEW r \in Request, NEW st \in RequestStatus, IsThere(request[r]),
         request' = [request EXCEPT ![r].status = st]
  PROVE  /\ SameRequests(request, request')
         /\ request'[r].status = st
         /\ \A x \in Request \ {r} : request'[x] = request[x]
<1>1. request[r] \in RequestRow
  BY RowThere DEF BackedInv
<1>2. /\ request'[r].status = st
      /\ request'[r].kind = request[r].kind
      /\ request'[r].service = request[r].service
      /\ \A x \in Request \ {r} : request'[x] = request[x]
  BY <1>1 DEF BackedInv, TypeOK, RequestRow
<1>3. IsThere(request'[r])
  BY <1>2 DEF IsThere, RequestStatus
<1> QED BY <1>2, <1>3 DEF SameRequests

LEMMA SetAssignedIsSerial ==
  ASSUME BackedInv, SerialInv, NEW p \in Process, SetAssigned(p)
  PROVE  StaysSerial
<1> DEFINE w == IF work[p].for = "nothing" THEN Idle
                ELSE SetStatusWork(work[p].for, "completed")
           r == work[p].r
<1>1. r \in Request /\ IsThere(request[r])
  BY WorkAt, WorkFields DEF SetAssigned, FillRequest, OnRequest
<1>2. w.op \in {"idle", "setStatus"}
  BY DEF Idle, SetStatusWork
<1>3. /\ work[p].op = "setAssigned" /\ Goto(p, w)
      /\ request' = [request EXCEPT ![r].status = "assigned"]
      /\ UNCHANGED <<task, process, visits, todo, expiring, now, refunds>>
  BY DEF SetAssigned, jobs
<1> HIDE DEF w, r
<1>4. /\ SameRequests(request, request')
      /\ \A x \in Request : request'[x].status = "pending_approval"
                            => request[x].status = "pending_approval"
  BY <1>1, <1>3, StatusOnly DEF RequestStatus
<1>5. Alone(p) /\ OneOfAKind(request)
  BY <1>3, ContinueIsAlone
<1>6. OneOfAKind(request') /\ FirstOfItsKind(w, request')
  BY <1>2, <1>4, <1>5, SameKinds DEF FirstOfItsKind
<1>7. Agree(work[p], request, task, refunds, visits, now, process)
        => Agree(w, request', task', refunds', visits', now', process')
  <2>1. /\ work[p].op \notin {"insertRequest", "insertTask", "setStatus"}
        /\ w.op # "insertTxn"
    BY <1>2, <1>3
  <2>2. Agree(work[p], request, task, refunds, visits, now, process)
          => Agree(w, request', task, refunds, visits, now, process)
    BY <1>4, <2>1, AgreeStays
  <2> QED BY <1>3, <2>2
<1>8. /\ visits' # {} => p = Morning
      /\ todo' # {} => p = Hourly
      /\ expiring' = {}
  BY <1>3, <1>5 DEF Alone
<1> QED BY <1>3, <1>5, <1>6, <1>7, <1>8, SerialStep

\* The request whose status is set may wait for its approval: no refund is counted
\* for it then.
LEMMA UpdateStatusIsSerial ==
  ASSUME BackedInv, SerialInv, NEW p \in Process, UpdateRequestStatus(p)
  PROVE  StaysSerial
<1> DEFINE r == work[p].r
           st == work[p].to
<1>1. r \in Request /\ IsThere(request[r]) /\ st \in RequestStatus
  BY WorkAt, WorkFields DEF UpdateRequestStatus, SetStatusTo, OnRequest
<1>2. /\ work[p].op = "setStatus" /\ Goto(p, Idle)
      /\ request' = [request EXCEPT ![r].status = st]
      /\ refunds' = IF st = "pending_approval" THEN [refunds EXCEPT ![r] = 0]
                    ELSE refunds
      /\ UNCHANGED <<task, process, visits, todo, expiring, now>>
  BY DEF UpdateRequestStatus, jobs
<1> HIDE DEF r, st
<1>3. /\ SameRequests(request, request')
      /\ request'[r].status = st
      /\ \A x \in Request \ {r} : request'[x] = request[x]
  BY <1>1, <1>2, StatusOnly
<1>4. Alone(p) /\ OneOfAKind(request)
  BY <1>2, ContinueIsAlone
<1>5. OneOfAKind(request') /\ FirstOfItsKind(Idle, request')
  BY <1>3, <1>4, SameKinds DEF FirstOfItsKind, Idle
<1>6. ASSUME Agree(work[p], request, task, refunds, visits, now, process)
      PROVE  Agree(Idle, request', task', refunds', visits', now', process')
  <2>1. PaidOnce(Idle, request', refunds')
    <3>1. /\ \A x \in Request \ {r} : refunds'[x] = refunds[x]
          /\ st = "pending_approval" => refunds'[r] = 0
          /\ refunds'[r] \in {0, refunds[r]}
      BY <1>1, <1>2 DEF BackedInv, TypeOK
    <3>2. \A x \in Request : refunds[x] <= 1
      BY <1>6 DEF Agree, PaidOnce
    <3>3. \A x \in Request \ {r} : request'[x].status = "pending_approval"
            => refunds'[x] = 0
      BY <1>3, <1>6, <3>1 DEF Agree, PaidOnce, r
    <3>4. Idle.op = "idle"
      BY DEF Idle
    <3> QED BY <1>3, <3>1, <3>2, <3>3, <3>4 DEF PaidOnce
  <2>2. Asked(Idle, request', visits, now)
    BY <1>2, <1>3, <1>6, AskedStays DEF Agree
  <2>3. Assigned(Idle, request', task, process)
    BY <1>2, <1>3, <1>6, AssignedStays DEF Agree
  <2> QED BY <1>2, <2>1, <2>2, <2>3 DEF Agree
<1>7. /\ visits' # {} => p = Morning
      /\ todo' # {} => p = Hourly
      /\ expiring' = {}
  BY <1>2, <1>4 DEF Alone
<1> QED BY <1>2, <1>4, <1>5, <1>6, <1>7, SerialStep

LEMMA ReportIsSerial ==
  ASSUME BackedInv, SerialInv, NEW p \in Process,
         SaveReport(p) \/ UpdateServiceSpecificByRequestPurchase(p)
  PROVE  StaysSerial
<1> DEFINE save == [op |-> "saveService", r |-> work[p].r,
                    row |-> Updated(work[p].r, work[p].y)]
           set == SetStatusWork(work[p].r, "pending_approval")
<1>1. /\ work[p].op \in {"saveReport", "saveService"}
      /\ Goto(p, Idle) \/ Goto(p, save) \/ Goto(p, set)
      /\ UNCHANGED <<request, task, process, visits, todo, expiring, now, refunds>>
  BY DEF SaveReport, UpdateServiceSpecificByRequestPurchase, jobs
<1>2. Idle.op = "idle" /\ save.op = "saveService" /\ set.op = "setStatus"
  BY DEF Idle, SetStatusWork
<1> HIDE DEF save, set
<1>3. PICK w : Goto(p, w) /\ w.op # "insertTxn" /\ w.op # "insertRequest"
  BY <1>1, <1>2
<1>4. Alone(p)
  BY <1>1, ContinueIsAlone
<1> QED BY <1>1, <1>3, <1>4, PlainStep

LEMMA TxnRowIsSerial ==
  ASSUME BackedInv, SerialInv, NEW p \in Process,
         SaveTransaction(p) \/ DeleteTransaction(p)
  PROVE  StaysSerial
<1>1. /\ work[p].op \in {"saveTxn", "deleteTxn"}
      /\ Goto(p, Idle)
      /\ UNCHANGED <<request, task, process, visits, todo, expiring, now, refunds>>
  BY DEF SaveTransaction, DeleteTransaction, jobs
<1>2. Idle.op = "idle"
  BY DEF Idle
<1>3. Alone(p)
  BY <1>1, ContinueIsAlone
<1> QED BY <1>1, <1>2, <1>3, PlainStep

\* A harvest that is paid for was not paid for since it was submitted.
LEMMA CreateTransactionIsSerial ==
  ASSUME BackedInv, SerialInv, NEW p \in Process, CreateTransaction(p)
  PROVE  StaysSerial
<1> DEFINE r == work[p].r
           w == SetStatusWork(r, "completed")
<1>1. r \in Request
  BY WorkAt, WorkFields DEF CreateTransaction, InsertTxn, OnRequest
<1>2. /\ work[p].op = "insertTxn" /\ Goto(p, w)
      /\ refunds' = IF work[p].type = "refund" THEN [refunds EXCEPT ![r] = @ + 1]
                    ELSE refunds
      /\ UNCHANGED <<request, task, process, visits, todo, expiring, now>>
  BY DEF CreateTransaction, jobs
<1>3. w.op = "setStatus" /\ w.r = r
  BY DEF SetStatusWork
<1>4. work[p].r = r
  OBVIOUS
<1> HIDE DEF r, w
<1>5. Alone(p) /\ OneOfAKind(request)
  BY <1>2, ContinueIsAlone
<1>6. OneOfAKind(request') /\ FirstOfItsKind(w, request')
  BY <1>2, <1>3, <1>5 DEF FirstOfItsKind
<1>7. ASSUME Agree(work[p], request, task, refunds, visits, now, process)
      PROVE  Agree(w, request', task', refunds', visits', now', process')
  <2>1. PaidOnce(w, request, refunds')
    <3>1. /\ \A x \in Request : refunds[x] <= 1
          /\ \A x \in Request : request[x].status = "pending_approval"
               => refunds[x] = 0
          /\ request[r].status = "pending_approval"
      BY <1>2, <1>4, <1>7 DEF Agree, PaidOnce
    <3>2. /\ \A x \in Request \ {r} : refunds'[x] = refunds[x]
          /\ refunds'[r] \in {refunds[r], refunds[r] + 1}
      BY <1>1, <1>2 DEF BackedInv, TypeOK
    <3>3. \A x \in Request : refunds'[x] <= 1
      BY <1>1, <3>1, <3>2
    <3>4. \A x \in Request \ {r} : request[x].status = "pending_approval"
            => refunds'[x] = 0
      BY <3>1, <3>2
    <3> QED BY <1>3, <3>3, <3>4 DEF PaidOnce
  <2>2. Asked(w, request, visits, now)
    BY <1>2, <1>7, AskedStays DEF Agree, SameRequests
  <2>3. Assigned(w, request, task, process)
    BY <1>2, <1>7, AssignedStays DEF Agree, SameRequests
  <2> QED BY <1>2, <2>1, <2>2, <2>3 DEF Agree
<1>8. /\ visits' # {} => p = Morning
      /\ todo' # {} => p = Hourly
      /\ expiring' = {}
  BY <1>2, <1>5 DEF Alone
<1> QED BY <1>2, <1>5, <1>6, <1>7, <1>8, SerialStep

LEMMA ContinuationIsSerial ==
  ASSUME BackedInv, SerialInv, NEW p \in Process, Continue(p)
  PROVE  StaysSerial
<1> HIDE DEF StaysSerial
<1> QED
  BY SaveRequestIsSerial, CreateTaskIsSerial, SetAssignedIsSerial,
     UpdateStatusIsSerial, ReportIsSerial, CreateTransactionIsSerial,
     TxnRowIsSerial DEF Continue

-----------------------------------------------------------------------------
\* The morning job lists every service whose end comes near with the new day: one that
\* has expired is over.
LEMMA MorningIsSerial ==
  ASSUME BackedInv, SerialInv, serial, CheckAndCreatePurchaseProductService
  PROVE  StaysSerial
<1>1. Quiet /\ Morning \in Process
  BY DEF CheckAndCreatePurchaseProductService, MayStart, Process
<1>2. Alone(Morning) /\ work[Morning] = Idle /\ visits = {} /\ todo = {}
  BY <1>1, QuietIsAlone
<1>3. /\ now' = now + 1
      /\ UNCHANGED <<request, task, process, refunds, todo, expiring, work>>
  BY DEF CheckAndCreatePurchaseProductService, tables
<1>4. Goto(Morning, Idle)
  BY <1>1, <1>2, <1>3 DEF Goto, BackedInv, TypeOK
<1>5. OneOfAKind(request') /\ FirstOfItsKind(Idle, request')
  BY <1>3 DEF SerialInv, FirstOfItsKind, Idle
<1>6. ASSUME accidents' = 0,
             Agree(work[Morning], request, task, refunds, visits, now, process)
      PROVE  Agree(Idle, request', task', refunds', visits', now', process')
  <2>1. visits' = EndingSoon(now')
    <3>1. \/ visits' = EndingSoon(now')
          \/ accidents' = accidents + 1
      BY DEF CheckAndCreatePurchaseProductService
    <3>2. accidents \in Nat
      BY DEF BackedInv, TypeOK
    <3> QED BY <1>6, <3>1, <3>2
  <2>2. Asked(Idle, request, EndingSoon(now'), now')
    <3> SUFFICES ASSUME NEW s \in Service, End[s] > Lead, End[s] <= now' + Lead,
                        s \notin EndingSoon(now')
                 PROVE  \E r \in Request : /\ IsThere(request[r])
                                           /\ request[r].kind = "purchase"
                                           /\ request[r].service = s
      BY DEF Asked
    <3>1. now \in Nat /\ Lead \in Nat /\ End[s] \in Nat
      BY EndAssumption, PurchaseBoundAssumption DEF BackedInv, TypeOK
    <3>2. End[s] # now' + Lead
      <4>1. service[s].status \in {"used", "expired"}
        BY DEF BackedInv, TypeOK, ServiceRow
      <4>2. service[s].status = "expired" => End[s] < now
        BY DEF BackedInv, RowsBacked, Earned
      <4> QED BY <1>3, <3>1, <4>1, <4>2 DEF EndingSoon
    <3>3. End[s] <= now + Lead
      BY <1>3, <3>1, <3>2
    <3> QED BY <1>2, <1>6, <3>3 DEF Agree, Asked, Idle
  <2>3. PaidOnce(Idle, request, refunds) /\ Assigned(Idle, request, task, process)
    BY <1>2, <1>6 DEF Agree
  <2> QED BY <1>3, <2>1, <2>2, <2>3 DEF Agree
<1>7. todo' = {} /\ expiring' = {}
  BY <1>2, <1>3 DEF Alone
<1> QED BY <1>1, <1>2, <1>4, <1>5, <1>6, <1>7, SerialStep

LEMMA VisitIsSerial ==
  ASSUME BackedInv, SerialInv, CreateRequestPurchase
  PROVE  StaysSerial
<1>1. PICK s \in visits :
        /\ visits' = visits \ {s}
        /\ IF Requests("purchase", s) = {}
           THEN Goto(Morning, [op |-> "insertRequest", kind |-> "purchase",
                               s |-> s, for |-> "nothing"])
           ELSE UNCHANGED work
  BY DEF CreateRequestPurchase
<1>2. /\ Morning \in Process /\ work[Morning] = Idle
      /\ UNCHANGED <<request, task, process, refunds, todo, expiring, now>>
  BY DEF CreateRequestPurchase, tables, Process
<1>3. Alone(Morning) /\ todo = {}
  BY <1>2 DEF SerialInv, OneAtATime, Alone
<1>4. OneOfAKind(request)
  BY DEF SerialInv
<1> DEFINE i == [op |-> "insertRequest", kind |-> "purchase", s |-> s,
                 for |-> "nothing"]
           w == IF Requests("purchase", s) = {} THEN i ELSE Idle
<1>5. Goto(Morning, w)
  BY <1>1, <1>2 DEF Goto, BackedInv, TypeOK
<1>6. i.op = "insertRequest" /\ i.kind = "purchase" /\ i.s = s /\ Idle.op = "idle"
  BY DEF Idle
<1> HIDE DEF i
<1>7. FirstOfItsKind(w, request)
  BY <1>6 DEF FirstOfItsKind, Requests
<1>8. ASSUME Agree(Idle, request, task, refunds, visits, now, process)
      PROVE  Agree(w, request, task, refunds, visits', now, process)
  <2>1. w.op \in {"idle", "insertRequest"}
    BY <1>6
  <2>2. PaidOnce(w, request, refunds) /\ Assigned(w, request, task, process)
    BY <1>6, <1>8, <2>1, PaidStays, AssignedStays DEF Agree, SameRequests
  <2>3. Asked(w, request, visits', now)
    <3>1. Requests("purchase", s) = {} => w = i
      OBVIOUS
    <3>2. Requests("purchase", s) # {}
            => \E r \in Request : /\ IsThere(request[r])
                                  /\ request[r].kind = "purchase"
                                  /\ request[r].service = s
      BY DEF Requests
    <3> HIDE DEF w
    <3> QED BY <1>1, <1>6, <1>8, <3>1, <3>2 DEF Agree, Asked
  <2> QED BY <2>2, <2>3 DEF Agree
<1> HIDE DEF w
<1>9. /\ OneOfAKind(request') /\ FirstOfItsKind(w, request')
      /\ Agree(work[Morning], request, task, refunds, visits, now, process)
           => Agree(w, request', task', refunds', visits', now', process')
      /\ todo' = {} /\ expiring' = {}
  BY <1>2, <1>3, <1>4, <1>7, <1>8 DEF Alone
<1> QED BY <1>2, <1>3, <1>5, <1>9, SerialStep

LEMMA HourlyIsSerial ==
  ASSUME BackedInv, SerialInv, serial, CheckTransactionIsExpired \/ CancelNext
  PROVE  StaysSerial
<1>1. /\ Hourly \in Process /\ work[Hourly] = Idle
      /\ UNCHANGED <<request, task, process, visits, expiring, now, refunds>>
  BY DEF CheckTransactionIsExpired, CancelNext, tables, Process
<1>2. Alone(Hourly) /\ visits = {} /\ expiring = {}
  <2>1. CASE CheckTransactionIsExpired
    BY <1>1, <2>1, QuietIsAlone DEF CheckTransactionIsExpired, MayStart, Alone
  <2>2. CASE CancelNext
    BY <1>1, <2>2 DEF CancelNext, SerialInv, OneAtATime, Alone
  <2> QED BY <2>1, <2>2
<1>3. PICK w : Goto(Hourly, w) /\ w.op \in {"idle", "deleteTxn"}
  <2>1. UNCHANGED work \/ \E t \in todo : Goto(Hourly, [op |-> "deleteTxn", t |-> t])
    BY DEF CheckTransactionIsExpired, CancelNext
  <2>2. Idle.op = "idle"
    BY DEF Idle
  <2>3. UNCHANGED work => Goto(Hourly, Idle)
    BY <1>1 DEF Goto, BackedInv, TypeOK
  <2>4. \A t \in todo : [op |-> "deleteTxn", t |-> t].op = "deleteTxn"
    OBVIOUS
  <2> QED BY <2>1, <2>2, <2>3, <2>4
<1>4. OneOfAKind(request') /\ FirstOfItsKind(w, request')
  BY <1>1, <1>3 DEF FirstOfItsKind, SerialInv
<1>5. Agree(Idle, request, task, refunds, visits, now, process)
        => Agree(w, request, task, refunds, visits, now, process)
  <2>1. Idle.op = "idle"
    BY DEF Idle
  <2> QED BY <1>3, <2>1, AgreeStays DEF SameRequests
<1>6. /\ visits' = {} /\ expiring' = {}
      /\ Agree(work[Hourly], request, task, refunds, visits, now, process)
           => Agree(w, request', task', refunds', visits', now', process')
  BY <1>1, <1>2, <1>5
<1> QED BY <1>1, <1>2, <1>3, <1>4, <1>6, SerialStep

\* The daily job runs while nobody is at work, and touches no request.
LEMMA DailyIsSerial ==
  ASSUME BackedInv, SerialInv, serial, CheckServiceIsExpired \/ ExpireService
  PROVE  StaysSerial
<1>1. UNCHANGED <<request, task, process, visits, todo, work, now, refunds>>
  BY DEF CheckServiceIsExpired, ExpireService, tables
<1>2. visits = {} /\ todo = {} /\ \A p \in Process : work[p] = Idle
  BY DEF CheckServiceIsExpired, ExpireService, MayStart, Quiet, SerialInv, OneAtATime
<1>3. OneAtATime'
  BY <1>1, <1>2 DEF OneAtATime
<1>4. SerialInv'
  BY <1>1, <1>3 DEF SerialInv
<1>5. CleanInv => CleanInv'
  BY <1>1 DEF CleanInv
<1> QED BY <1>4, <1>5 DEF StaysSerial

\* Whoever fails was alone, and nobody is left.
LEMMA FailIsSerial ==
  ASSUME BackedInv, SerialInv, NEW p \in Process, Fail(p)
  PROVE  StaysSerial
<1>1. /\ work[p] # Idle /\ Goto(p, Idle)
      /\ visits' \in {visits, {}} /\ todo' \in {todo, {}}
      /\ UNCHANGED <<request, expiring>>
      /\ accidents' # 0
  BY DEF Fail, tables, BackedInv, TypeOK
<1>2. Alone(p)
  BY <1>1, WorkingIsAlone
<1>3. OneOfAKind(request') /\ FirstOfItsKind(Idle, request')
  BY <1>1 DEF SerialInv, FirstOfItsKind, Idle
<1>4. /\ visits' # {} => p = Morning
      /\ todo' # {} => p = Hourly
      /\ expiring' = {}
  BY <1>1, <1>2 DEF Alone
<1> QED BY <1>1, <1>2, <1>3, <1>4, SerialStep

-----------------------------------------------------------------------------
LEMMA NextIsSerial ==
  ASSUME BackedInv, SerialInv, serial, Next
  PROVE  StaysSerial
<1> HIDE DEF StaysSerial
<1> QED
  BY MorningIsSerial, VisitIsSerial, ArrivalIsSerial, ContinuationIsSerial,
     FailIsSerial, HourlyIsSerial, DailyIsSerial DEF Next

\* What serial means never changes, and accidents are not forgotten.
LEMMA SerialStays ==
  ASSUME BackedInv, [Next]_vars
  PROVE  serial' = serial /\ (accidents' = 0 => accidents = 0)
<1>1. CASE UNCHANGED vars
  BY <1>1 DEF vars
<1>2. CASE Next
  <2>1. accidents \in Nat
    BY DEF BackedInv, TypeOK
  <2>2. serial' = serial /\ accidents' \in {accidents, accidents + 1}
    <3>1. ASSUME NEW c \in Call, NEW w, Start(c, w)
          PROVE  UNCHANGED <<serial, accidents>>
      BY <3>1 DEF Start
    <3>2. ASSUME NEW c \in Call, Arrive(c)
          PROVE  UNCHANGED <<serial, accidents>>
      BY <3>1, <3>2 DEF Arrive, AssignTask, StartTask, ApproveTask,
         CreateReportPurchase, ConfirmRequest, HandleTransactionPayment,
         CancelTransaction, UpdateRefundTransactionToConfirm, SaveSucceed
    <3>3. ASSUME NEW p \in Process, Continue(p)
          PROVE  UNCHANGED <<serial, accidents>>
      BY <3>3 DEF Continue, SaveRequest, CreateTaskAuto, SetAssigned,
         UpdateRequestStatus, SaveReport, UpdateServiceSpecificByRequestPurchase,
         CreateTransaction, SaveTransaction, DeleteTransaction
    <3>4. ASSUME \/ CheckAndCreatePurchaseProductService
                 \/ \E p \in Process : Fail(p)
          PROVE  serial' = serial /\ accidents' \in {accidents, accidents + 1}
      BY <3>4 DEF CheckAndCreatePurchaseProductService, Fail
    <3>5. ASSUME \/ CreateRequestPurchase \/ CheckTransactionIsExpired \/ CancelNext
                 \/ CheckServiceIsExpired \/ ExpireService
          PROVE  UNCHANGED <<serial, accidents>>
      BY <3>5 DEF CreateRequestPurchase, CheckTransactionIsExpired, CancelNext,
         CheckServiceIsExpired, ExpireService
    <3> QED BY <1>2, <3>2, <3>3, <3>4, <3>5 DEF Next
  <2> QED BY <2>1, <2>2
<1> QED BY <1>1, <1>2

LEMMA NextKeepsPurchaseInv ==
  ASSUME PurchaseInv, [Next]_vars
  PROVE  PurchaseInv'
<1>1. BackedInv /\ BackedInv'
  BY NextKeepsBacked DEF PurchaseInv
<1>2. serial' = serial /\ (accidents' = 0 => accidents = 0)
  BY <1>1, SerialStays
<1>3. CASE UNCHANGED vars
  <2>1. /\ SerialInv => SerialInv'
        /\ CleanInv => CleanInv'
    BY <1>3 DEF vars, tables, jobs, SerialInv, OneAtATime, CleanInv
  <2> QED BY <1>1, <1>2, <2>1 DEF PurchaseInv, PurchaseSerialInv, PurchaseCleanInv
<1>4. CASE Next
  <2>1. serial => SerialInv' /\ (accidents' = 0 /\ CleanInv => CleanInv')
    BY <1>1, <1>4, NextIsSerial DEF PurchaseInv, PurchaseSerialInv, StaysSerial
  <2> QED BY <1>1, <1>2, <2>1 DEF PurchaseInv, PurchaseSerialInv, PurchaseCleanInv
<1> QED BY <1>3, <1>4

LEMMA InitIsPurchaseInv ==
  ASSUME Init
  PROVE  PurchaseInv
<1>1. /\ \A r \in Request : request[r] = Absent /\ refunds[r] = 0
      /\ visits = {} /\ todo = {} /\ expiring = {} /\ now = 0
      /\ \A p \in Process : work[p] = Idle
  BY DEF Init
<1>2. SerialInv
  BY <1>1 DEF SerialInv, OneAtATime, OneOfAKind, FirstOfItsKind, IsThere, Absent, Idle
<1>3. PaidOnce(Idle, request, refunds)
  BY <1>1 DEF PaidOnce, Absent, Idle
<1>4. Asked(Idle, request, visits, now)
  BY <1>1, EndAssumption, PurchaseBoundAssumption DEF Asked
<1>5. Assigned(Idle, request, task, process)
  BY <1>1 DEF Assigned, IsThere, Absent
<1>6. CleanInv
  BY <1>1, <1>3, <1>4, <1>5 DEF CleanInv, Agree
<1> QED BY <1>2, <1>6, InitIsBacked DEF PurchaseInv, PurchaseSerialInv, PurchaseCleanInv

LEMMA PurchaseInvHolds ==
  Spec => []PurchaseInv
BY InitIsPurchaseInv, NextKeepsPurchaseInv, PTL DEF Spec

LEMMA AtMostOne ==
  ASSUME NEW S, \A x, y \in S : x = y
  PROVE  Cardinality(S) <= 1
<1>1. CASE S = {}
  BY <1>1, FS_EmptySet
<1>2. CASE S # {}
  <2>1. PICK x : S = {x}
    BY <1>2
  <2> QED BY <2>1, FS_Singleton
<1> QED BY <1>1, <1>2

\* createRequestPurchase and confirmRequest: when calls do not overlap a service is
\* inspected and harvested under one request each, and when none fails half way a
\* harvest is paid for once each time it is submitted.
THEOREM OneOfEachHolds ==
  Spec => []OneOfEach
<1>1. PurchaseInv => OneRequestOfAKind
  <2> SUFFICES ASSUME SerialInv, NEW s \in Service, NEW kind \in {"purchase", "harvest"}
               PROVE  Cardinality(Requests(kind, s)) <= 1
    BY DEF OneRequestOfAKind, PurchaseInv, PurchaseSerialInv
  <2>1. \A r, x \in Requests(kind, s) : r = x
    BY DEF Requests, SerialInv, OneOfAKind
  <2> QED BY <2>1, AtMostOne
<1>2. PurchaseInv => RefundedOncePerApproval
  <2>1. CleanInv => \A r \in Request : refunds[r] <= 1
    BY DEF CleanInv, Agree, PaidOnce
  <2> QED BY <2>1 DEF PurchaseInv, PurchaseCleanInv, RefundedOncePerApproval
<1> QED BY <1>1, <1>2, PurchaseInvHolds, PTL DEF OneOfEach

\* checkAndCreatePurchaseProductService: when nothing fails and calls do not overlap,
\* every service that is ending has its inspection, with an expert when it has a
\* process.
THEOREM EndingIsInspectedHolds ==
  Spec => []EndingIsInspected
<1>1. PurchaseInv => EndingIsInspected
  <2> SUFFICES ASSUME PurchaseInv, accidents = 0, serial, Quiet,
                      NEW s \in Service, End[s] > Lead, End[s] - Lead <= now
               PROVE  \E r \in Requests("purchase", s) : s \in process => r \in task
    BY DEF EndingIsInspected
  <2>1. Asked(Idle, request, {}, now) /\ Assigned(Idle, request, task, process)
    BY DEF PurchaseInv, PurchaseCleanInv, CleanInv, Quiet, Agree
  <2>2. End[s] <= now + Lead
    BY EndAssumption, PurchaseBoundAssumption DEF PurchaseInv, BackedInv, TypeOK
  <2> QED BY <2>1, <2>2 DEF Asked, Assigned, Requests, Idle
<1> QED BY <1>1, PurchaseInvHolds, PTL
===============================================================================
