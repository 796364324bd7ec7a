---------------------------- MODULE ProductPurchase ----------------------------
(***************************************************************************)
(* The purchase of what a service has grown (servicesPackage.service.ts,   *)
(* requests.service.ts, reports.service.ts, transactions.service.ts).      *)
(*                                                                         *)
(* Lead days before a service ends, the morning job asks its expert to     *)
(* inspect the product.  When the manager confirms the report, the renter  *)
(* owes a penalty for a bad product, or the harvest is asked for; when the *)
(* report of the harvest is confirmed, the renter is owed its price.  Each *)
(* report saves the row of the service whole, while the daily job lets     *)
(* services expire and the hourly job deletes penalties nobody pays.       *)
(***************************************************************************)
EXTENDS Integers, FiniteSets

CONSTANTS
  Service,        \* services whose package has a process and a purchase
  End,            \* the day a service ends
  Request,        \* the request rows there may be
  Txn,            \* the transactions there may be
  Call,           \* the HTTP requests that may be in flight together
  Morning,        \* checkAndCreatePurchaseProductService, run at 8 every day
  Hourly,         \* checkTransactionIsExpired
  Lead,           \* days between the inspection and the end, 7 in the code
  Horizon,        \* bound: the last day of the clock
  MaxAccidents,   \* bound: awaits that throw, process deaths, by serial
  SerialModes     \* {TRUE}: calls do not overlap, {FALSE}: they may, or both

ASSUME EndAssumption == End \in [Service -> Nat]
ASSUME PurchaseJobAssumption == /\ Morning \notin Call /\ Hourly \notin Call
                                /\ Morning # Hourly
                                /\ "nothing" \notin Request
ASSUME PurchaseBoundAssumption ==
  /\ Lead \in Nat /\ Horizon \in Nat /\ MaxAccidents \in [BOOLEAN -> Nat]
  /\ SerialModes \subseteq BOOLEAN

VARIABLES
  service,    \* services_specific: status, product expected and harvested
  process,    \* the services that have a process; never changes
  request,    \* requests for an inspection or a harvest
  task,       \* the requests that have a task
  report,     \* the requests whose task has a report
  txn,        \* the penalties and refunds
  work,       \* what each call in flight, and each job, still has to write
  visits,     \* the rest of the morning job's list
  todo,       \* the rest of the hourly job's list
  expiring,   \* the updates the daily job has sent and not awaited
  now,        \* the day
  refunds,    \* history: refunds made since a request was last submitted
  accidents,  \* history: accidents so far
  serial      \* whether calls overlap; never changes

tables == <<service, request, task, report, txn>>
jobs   == <<visits, todo, expiring, now>>
vars   == <<tables, process, jobs, work, refunds, accidents, serial>>

-----------------------------------------------------------------------------
Absent == [status |-> "none"]     \* no such row, or not any more

\* What a report says: no mass, no quality, or both.  The quality of a harvest only
\* goes into the price.
Product == {"none", "poor", "good"}
Harvest == {"none", "good"}
ServiceRow == [status: {"used", "expired"}, expect: Product, harvest: Harvest]
RequestStatus == {"pending", "assigned", "in_progress", "pending_approval",
                  "completed", "rejected"}
RequestRow == [status: RequestStatus, kind: {"purchase", "harvest"},
               service: Service]
TxnRow == [status: {"approved", "succeed"}, type: {"payment", "refund"},
           service: Service, due: Nat]

IsThere(row) == row.status # "none"

\* The work left to a process.  for is the request to complete when the harvest it
\* asks for has been made, or nothing.
Process == Call \cup {Morning, Hourly}
Idle == [op |-> "idle"]
For  == Request \cup {"nothing"}
InsertRequest == [op: {"insertRequest"}, kind: {"purchase", "harvest"},
                  s: Service, for: For]
FillRequest == [op: {"insertTask", "setAssigned"}, r: Request, for: For]
SetStatusTo == [op: {"setStatus"}, r: Request, to: RequestStatus]
PutReport   == [op: {"saveReport"}, r: Request, found: BOOLEAN, y: Product]
SaveService == [op: {"saveService"}, r: Request, row: ServiceRow]
InsertTxn   == [op: {"insertTxn"}, r: Request, type: {"payment", "refund"}]
SaveTxn     == [op: {"saveTxn"}, t: Txn, row: TxnRow]
DeleteTxn   == [op: {"deleteTxn"}, t: Txn]
Work == {Idle} \cup InsertRequest \cup FillRequest \cup SetStatusTo
          \cup PutReport \cup SaveService \cup InsertTxn
          \cup SaveTxn \cup DeleteTxn

TypeOK ==
  /\ service \in [Service -> ServiceRow]
  /\ process \in SUBSET Service
  /\ request \in [Request -> RequestRow \cup {Absent}]
  /\ task \in SUBSET Request
  /\ report \in SUBSET Request
  /\ txn \in [Txn -> TxnRow \cup {Absent}]
  /\ work \in [Process -> Work]
  /\ visits \in SUBSET Service
  /\ todo \in SUBSET Txn
  /\ expiring \in SUBSET Service
  /\ now \in Nat
  /\ refunds \in [Request -> Nat]
  /\ accidents \in Nat
  /\ serial \in BOOLEAN

\* Services are in use, and one whose process could not be made has none.
Init ==
  /\ service = [s \in Service |->
       [status |-> "used", expect |-> "none", harvest |-> "none"]]
  /\ process \in SUBSET Service
  /\ request = [r \in Request |-> Absent]
  /\ task = {} /\ report = {}
  /\ txn = [t \in Txn |-> Absent]
  /\ work = [p \in Process |-> Idle]
  /\ visits = {} /\ todo = {} /\ expiring = {}
  /\ now = 0
  /\ refunds = [r \in Request |-> 0]
  /\ accidents = 0
  /\ serial \in SerialModes

-----------------------------------------------------------------------------
Quiet == /\ visits = {} /\ todo = {} /\ expiring = {}
         /\ \A p \in Process : work[p] = Idle

MayStart == serial => Quiet

Goto(p, w) == work' = [work EXCEPT ![p] = w]

Start(c, w) ==
  /\ work[c] = Idle
  /\ MayStart
  /\ Goto(c, w)
  /\ UNCHANGED <<tables, process, jobs, refunds, accidents, serial>>

Requests(kind, s) ==
  {r \in Request : /\ IsThere(request[r])
                   /\ request[r].kind = kind /\ request[r].service = s}

SetStatusWork(r, s) == [op |-> "setStatus", r |-> r, to |-> s]

\* Bounds: what will insert a row starts only when a row is left for it.
Inserting(op) == Cardinality({p \in Process : work[p].op = op})
FreeRequest == {r \in Request : request[r] = Absent}
RoomForRequest ==
  Inserting("insertRequest") < Cardinality(FreeRequest)
\* A deleted id may stand for a new row once nothing in flight refers to it.
FreeTxn == {t \in Txn : /\ txn[t] = Absent /\ t \notin todo
                        /\ \A p \in Process : work[p].op \in {"saveTxn", "deleteTxn"}
                                                => work[p].t # t}
RoomForTxn ==
  Inserting("insertTxn") < Cardinality(FreeTxn)

HasRoom(w) == CASE w.op = "insertRequest" -> RoomForRequest
                [] w.op = "insertTxn" -> RoomForTxn
                [] OTHER -> TRUE

\* Which id a new row gets makes no difference.
NewRequest == CHOOSE r \in FreeRequest : TRUE
NewTxn     == CHOOSE t \in FreeTxn : TRUE

-----------------------------------------------------------------------------
\* Mutant: the services that end today.
EndingToday(day) ==
  {s \in Service : service[s].status = "used" /\ End[s] = day}

\* The services that end in exactly Lead days.
EndingSoon(day) ==
  {s \in Service : service[s].status = "used" /\ End[s] = day + Lead}

\* The day changes, and at 8 o'clock the morning job lists those services, unless
\* the server is down.
CheckAndCreatePurchaseProductService ==
  /\ MayStart
  /\ visits = {} /\ now < Horizon
  /\ now' = now + 1
  /\ \/ visits' = EndingSoon(now') /\ UNCHANGED accidents
     \/ /\ accidents < MaxAccidents[serial] /\ accidents' = accidents + 1
        /\ UNCHANGED visits
  /\ UNCHANGED <<tables, process, todo, expiring, work, refunds, serial>>

\* createRequestPurchase, down to the save, for the next of the list.
CreateRequestPurchase ==
  /\ work[Morning] = Idle
  /\ \E s \in visits :
       /\ visits' = visits \ {s}
       /\ IF Requests("purchase", s) = {}
          THEN /\ RoomForRequest
               /\ Goto(Morning, [op |-> "insertRequest", kind |-> "purchase",
                                 s |-> s, for |-> "nothing"])
          ELSE UNCHANGED work
  /\ UNCHANGED <<tables, process, todo, expiring, now, refunds,
                 accidents, serial>>

\* An inspection is saved as assigned, a harvest as pending.  A service without a
\* process has no expert: what follows throws, and the request keeps no task.
SaveRequest(p) ==
  /\ work[p].op = "insertRequest" /\ FreeRequest # {}
  /\ request' = [request EXCEPT ![NewRequest] =
       [status |-> IF work[p].kind = "purchase" THEN "assigned" ELSE "pending",
        kind |-> work[p].kind, service |-> work[p].s]]
  /\ Goto(p, IF work[p].s \in process
             THEN [op |-> "insertTask", r |-> NewRequest, for |-> work[p].for]
             ELSE Idle)
  /\ UNCHANGED <<service, task, report, txn, process, jobs, refunds, accidents,
                 serial>>

CreateTaskAuto(p) ==
  /\ work[p].op = "insertTask"
  /\ task' = task \cup {work[p].r}
  /\ Goto(p, [work[p] EXCEPT !.op = "setAssigned"])
  /\ UNCHANGED <<service, request, report, txn, process, jobs, refunds,
                 accidents, serial>>

SetAssigned(p) ==
  /\ work[p].op = "setAssigned"
  /\ request' = [request EXCEPT ![work[p].r].status = "assigned"]
  /\ Goto(p, IF work[p].for = "nothing" THEN Idle
             ELSE SetStatusWork(work[p].for, "completed"))
  /\ UNCHANGED <<service, task, report, txn, process, jobs, refunds, accidents,
                 serial>>

-----------------------------------------------------------------------------
\* Mutant: the task is not looked for.
AssignUnseen(c, r) == Start(c, SetStatusWork(r, "assigned"))

AssignTask(c, r) ==
  /\ r \in task
  /\ Start(c, SetStatusWork(r, "assigned"))

StartTask(c, r) ==
  /\ r \in task
  /\ request[r].status \in {"assigned", "rejected"}
  /\ Start(c, SetStatusWork(r, "in_progress"))

ApproveTask(c, r) ==
  /\ r \in task
  /\ request[r].status = "in_progress"
  /\ Start(c, SetStatusWork(r, "pending_approval"))

\* updateRequestStatus, or the update at the end of confirmRequest.
UpdateRequestStatus(p) ==
  /\ work[p].op = "setStatus"
  /\ LET r == work[p].r
     IN  /\ request' = [request EXCEPT ![r].status = work[p].to]
         /\ refunds' = IF work[p].to = "pending_approval"
                       THEN [refunds EXCEPT ![r] = 0] ELSE refunds
  /\ Goto(p, Idle)
  /\ UNCHANGED <<service, task, report, txn, process, jobs, accidents, serial>>

\* createReportPurchase, whatever the status of the request.
CreateReportPurchase(c, r, y) ==
  /\ r \in task
  /\ request[r].kind = "harvest" => y \in Harvest
  /\ Start(c, [op |-> "saveReport", r |-> r, found |-> r \in report, y |-> y])

\* updateServiceSpecificByRequestPurchase: the row is read, to be saved whole.
Updated(r, y) ==
  LET row == service[request[r].service]
  IN  IF request[r].kind = "purchase" THEN [row EXCEPT !.expect = y]
                                      ELSE [row EXCEPT !.harvest = y]

\* A second first report of the same task is refused: task_id is unique.
SaveReport(p) ==
  /\ work[p].op = "saveReport"
  /\ LET r == work[p].r
     IN  IF r \in report /\ ~work[p].found
         THEN Goto(p, Idle) /\ UNCHANGED report
         ELSE /\ report' = report \cup {r}
              /\ Goto(p, [op |-> "saveService", r |-> r,
                          row |-> Updated(r, work[p].y)])
  /\ UNCHANGED <<service, request, task, txn, process, jobs, refunds, accidents,
                 serial>>

UpdateServiceSpecificByRequestPurchase(p) ==
  /\ work[p].op = "saveService"
  /\ service' = [service EXCEPT ![request[work[p].r].service] = work[p].row]
  /\ Goto(p, SetStatusWork(work[p].r, "pending_approval"))
  /\ UNCHANGED <<request, task, report, txn, process, jobs, refunds, accidents,
                 serial>>

-----------------------------------------------------------------------------
\* What a completed inspection leads to.
AfterInspection(r) ==
  LET s == request[r].service
  IN  CASE service[s].expect = "none" -> SetStatusWork(r, "rejected")
        [] service[s].expect = "poor" -> [op |-> "insertTxn", r |-> r,
                                          type |-> "payment"]
        [] Requests("harvest", s) # {} -> SetStatusWork(r, "completed")
        [] OTHER -> [op |-> "insertRequest", kind |-> "harvest", s |-> s,
                     for |-> r]

\* Mutant: whatever was harvested is paid for.
PayAnyHarvest(r) == [op |-> "insertTxn", r |-> r, type |-> "refund"]

\* What a completed harvest leads to.
AfterHarvest(r) ==
  IF service[request[r].service].harvest = "none"
  THEN SetStatusWork(r, "rejected")
  ELSE [op |-> "insertTxn", r |-> r, type |-> "refund"]

ConfirmWork(r) == IF request[r].kind = "purchase" THEN AfterInspection(r)
                                                  ELSE AfterHarvest(r)

\* Mutant: the harvest is asked for, or paid for, again.
ConfirmAny(c, r, to) ==
  /\ request[r].status \in {"pending_approval", "completed"}
  /\ LET w == IF to = "rejected" THEN SetStatusWork(r, to) ELSE ConfirmWork(r)
     IN  HasRoom(w) /\ Start(c, w)

\* confirmRequest, down to the first write.
ConfirmRequest(c, r, to) ==
  /\ request[r].status = "pending_approval"
  /\ LET w == IF to = "rejected" THEN SetStatusWork(r, to) ELSE ConfirmWork(r)
     IN  HasRoom(w) /\ Start(c, w)

\* createTransaction of a penalty (due in a day) or of a refund.
CreateTransaction(p) ==
  /\ work[p].op = "insertTxn" /\ FreeTxn # {}
  /\ LET r == work[p].r
     IN  /\ txn' = [txn EXCEPT ![NewTxn] =
              [status |-> "approved", type |-> work[p].type,
               service |-> request[r].service, due |-> now + 1]]
         /\ refunds' = IF work[p].type = "refund"
                       THEN [refunds EXCEPT ![r] = @ + 1] ELSE refunds
         /\ Goto(p, SetStatusWork(r, "completed"))
  /\ UNCHANGED <<service, request, task, report, process, jobs, accidents,
                 serial>>

-----------------------------------------------------------------------------
SaveSucceed(c, t) ==
  Start(c, [op |-> "saveTxn", t |-> t,
            row |-> [txn[t] EXCEPT !.status = "succeed"]])

\* The type is not looked at: a bank message may name a refund.
HandleTransactionPayment(c, t) ==
  /\ txn[t].status = "approved"
  /\ SaveSucceed(c, t)

UpdateRefundTransactionToConfirm(c, t) ==
  /\ txn[t].status = "approved" /\ txn[t].type = "refund"
  /\ SaveSucceed(c, t)

\* The save inserts a row deleted meanwhile again.
SaveTransaction(p) ==
  /\ work[p].op = "saveTxn"
  /\ txn' = [txn EXCEPT ![work[p].t] = work[p].row]
  /\ Goto(p, Idle)
  /\ UNCHANGED <<service, request, task, report, process, jobs, refunds,
                 accidents, serial>>

CancelTransaction(c, t) ==
  /\ txn[t].status = "approved"
  /\ Start(c, [op |-> "deleteTxn", t |-> t])

DeleteTransaction(p) ==
  /\ work[p].op = "deleteTxn"
  /\ txn' = [txn EXCEPT ![work[p].t] = Absent]
  /\ Goto(p, Idle)
  /\ UNCHANGED <<service, request, task, report, process, jobs, refunds,
                 accidents, serial>>

Overdue(t) == /\ txn[t].status = "approved" /\ txn[t].type = "payment"
              /\ txn[t].due < now

CheckTransactionIsExpired ==
  /\ work[Hourly] = Idle /\ todo = {}
  /\ MayStart
  /\ \E t \in Txn : Overdue(t)
  /\ todo' = {t \in Txn : Overdue(t)}
  /\ UNCHANGED <<tables, process, visits, expiring, now, work, refunds,
                 accidents, serial>>

\* The next of the list; one that is not approved any more throws.
CancelNext ==
  /\ work[Hourly] = Idle
  /\ \E t \in todo :
       IF txn[t].status = "approved"
       THEN todo' = todo \ {t} /\ Goto(Hourly, [op |-> "deleteTxn", t |-> t])
       ELSE todo' = {} /\ UNCHANGED work
  /\ UNCHANGED <<tables, process, visits, expiring, now, refunds,
                 accidents, serial>>

-----------------------------------------------------------------------------
Over(s) == service[s].status = "used" /\ End[s] < now

CheckServiceIsExpired ==
  /\ expiring = {}
  /\ MayStart
  /\ \E s \in Service : Over(s)
  /\ expiring' = {s \in Service : Over(s)}
  /\ UNCHANGED <<tables, process, visits, todo, now, work, refunds,
                 accidents, serial>>

\* Mutant: the updates are not sent.
SkipExpiry ==
  /\ \E s \in expiring : expiring' = expiring \ {s}
  /\ UNCHANGED <<tables, process, visits, todo, now, work, refunds, accidents,
                 serial>>

ExpireService ==
  /\ \E s \in expiring : /\ expiring' = expiring \ {s}
                         /\ service' = [service EXCEPT ![s].status = "expired"]
  /\ UNCHANGED <<request, task, report, txn, process, visits, todo, now,
                 work, refunds, accidents, serial>>

-----------------------------------------------------------------------------
\* An await throws, or the process dies: what is written stays.  The morning job
\* goes on after what throws, the hourly job does not.
Fail(p) ==
  /\ work[p] # Idle
  /\ accidents < MaxAccidents[serial] /\ accidents' = accidents + 1
  /\ Goto(p, Idle)
  /\ visits' \in IF p = Morning THEN {visits, {}} ELSE {visits}
  /\ todo' = IF p = Hourly THEN {} ELSE todo
  /\ UNCHANGED <<tables, process, expiring, now, refunds, serial>>

Arrive(c) ==
  \/ \E r \in Request :
       \/ AssignTask(c, r) \/ StartTask(c, r) \/ ApproveTask(c, r)
       \/ \E y \in Product : CreateReportPurchase(c, r, y)
       \/ \E to \in {"completed", "rejected"} : ConfirmRequest(c, r, to)
  \/ \E t \in Txn :
       \/ HandleTransactionPayment(c, t) \/ CancelTransaction(c, t)
       \/ UpdateRefundTransactionToConfirm(c, t)

Continue(p) ==
  \/ SaveRequest(p) \/ CreateTaskAuto(p) \/ SetAssigned(p)
  \/ UpdateRequestStatus(p)
  \/ SaveReport(p) \/ UpdateServiceSpecificByRequestPurchase(p)
  \/ CreateTransaction(p) \/ SaveTransaction(p) \/ DeleteTransaction(p)

Next ==
  \/ CheckAndCreatePurchaseProductService \/ CreateRequestPurchase
  \/ \E c \in Call : Arrive(c)
  \/ \E p \in Process : Continue(p) \/ Fail(p)
  \/ CheckTransactionIsExpired \/ CancelNext
  \/ CheckServiceIsExpired \/ ExpireService

Spec == Init /\ [][Next]_vars

\* What is in flight goes on; the hourly and the daily job run again and again.
Fairness == /\ \A p \in Process : WF_vars(Continue(p))
            /\ WF_vars(CheckTransactionIsExpired \/ CancelNext)
            /\ WF_vars(CheckServiceIsExpired \/ ExpireService)

FairSpec == Spec /\ Fairness

-----------------------------------------------------------------------------
\* confirmRequest (requests.service.ts:797): however calls, jobs and failures
\* interleave, nothing is paid for a product that was not inspected and then
\* harvested, each with a report.
RefundWasReported ==
  \A t \in Txn :
    IsThere(txn[t]) /\ txn[t].type = "refund"
      => \A kind \in {"purchase", "harvest"} :
           Requests(kind, txn[t].service) \cap report # {}

\* createRequestPurchase, createRequestPurchaseharvest: when calls do not overlap, a
\* service is inspected and harvested under one request each, however often its
\* inspection is reported and confirmed again.
OneRequestOfAKind ==
  serial => \A s \in Service, kind \in {"purchase", "harvest"} :
              Cardinality(Requests(kind, s)) <= 1

\* confirmRequest pays before it completes the request (requests.service.ts:797): when
\* calls do not overlap and none fails half way, a harvest is paid for once each time
\* it is submitted for approval.
RefundedOncePerApproval ==
  serial /\ accidents = 0 => \A r \in Request : refunds[r] <= 1

\* When calls do not overlap, a service is inspected, harvested and paid for once.
OneOfEach == OneRequestOfAKind /\ RefundedOncePerApproval

\* checkAndCreatePurchaseProductService (servicesPackage.service.ts:585) looks for the
\* day itself: when nothing fails, a service that is ending has its inspection, and
\* one with a process has an expert for it.
EndingIsInspected ==
  accidents = 0 /\ serial /\ Quiet
  => \A s \in Service :
       End[s] > Lead /\ End[s] - Lead <= now
         => \E r \in Requests("purchase", s) : s \in process => r \in task

\* checkServiceIsExpired: a service whose time is over expires, again if a report
\* that had read it before saves it as in use.
OverServiceExpires == \A s \in Service : ~serial /\ Over(s) ~> ~Over(s)
===============================================================================
