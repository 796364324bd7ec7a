---------------------------- MODULE ServicePurchase ----------------------------
(***************************************************************************)
(* The services bought for one rented land: rows of services_specific, of  *)
(* the transactions that bill them, and of the processes made for them     *)
(* (servicesPackage.service.ts, transactions.service.ts where a            *)
(* transaction has purpose service, createProcessSpecific).                *)
(*                                                                         *)
(* A service is bought, billed, paid, signed, used, and expires; while it  *)
(* waits for its payment it can be deleted with its bill.  Handlers read   *)
(* and check in one step, and write in steps of their own.                 *)
(***************************************************************************)
EXTENDS Integers, FiniteSets, FiniteSetsExt

CONSTANTS
  Service,        \* the service rows there may be
  Bill,           \* the transactions there may be
  Offer,          \* what may be asked for: acreage and the day it ends
  Acreage,        \* the acreage of the land
  RentEnd,        \* the day the rental ends, completed extends included
  Call,           \* the HTTP requests that may be in flight together
  Job,            \* checkTransactionIsExpired, run every hour
  Horizon,        \* bound: the last day of the clock
  MaxAccidents,   \* bound: awaits that throw, process deaths
  SerialModes     \* {TRUE}: calls do not overlap, {FALSE}: they may, or both

ASSUME OfferAssumption == /\ Offer \subseteq [acreage: Nat, end: Nat]
                          /\ Acreage \in Nat /\ RentEnd \in Nat
ASSUME ServiceJobAssumption == Job \notin Call
ASSUME ServiceBoundAssumption == /\ Horizon \in Nat /\ MaxAccidents \in Nat
                                 /\ SerialModes \subseteq BOOLEAN

VARIABLES
  service,    \* services_specific, by service_specific_id
  txn,        \* transactions of purpose service, by transaction_id
  process,    \* process_technical_specific of a service
  work,       \* what each call in flight, and the job, still has to write
  todo,       \* the rest of the hourly job's list
  expiring,   \* the updates the daily job has sent and not awaited
  now,        \* the day
  paid,       \* history: the services a payment was saved for
  accidents,  \* history: accidents so far
  serial      \* whether calls overlap; never changes

tables == <<service, txn, process>>
vars   == <<tables, work, todo, expiring, now, paid, accidents, serial>>

-----------------------------------------------------------------------------
Absent == [status |-> "none"]     \* the id has not been given out
Gone   == [status |-> "gone"]     \* deleted

\* The status cancel is never set.
ServiceStatus == {"pending_payment", "pending_sign", "used", "expired"}
ServiceRow == [status: ServiceStatus, acreage: Nat, end: Nat]
BillRow    == [status: {"approved", "succeed"}, service: Service, due: Nat]

IsThere(row) == row.status \notin {"none", "gone"}

\* The work left to a process.
Process == Call \cup {Job}
Idle == [op |-> "idle"]
InsertService == [op: {"insertService"}, offer: Offer]
OnService == [op: {"insertBill", "settle", "sign", "seek", "delete", "use",
                   "insertProcess", "fillProcess"}, s: Service]
Payments   == [op: {"accept"}, t: Bill, row: BillRow]
DeleteBill == [op: {"deleteBill"}, t: Bill, s: Service]
Work == {Idle} \cup InsertService \cup OnService \cup Payments \cup DeleteBill

TypeOK ==
  /\ service \in [Service -> ServiceRow \cup {Absent, Gone}]
  /\ txn \in [Bill -> BillRow \cup {Absent, Gone}]
  /\ process \in [Service -> {"none", "empty", "whole"}]
  /\ work \in [Process -> Work]
  /\ todo \in SUBSET Bill
  /\ expiring \in SUBSET Service
  /\ now \in Nat
  /\ paid \in SUBSET Service
  /\ accidents \in Nat
  /\ serial \in BOOLEAN

Init ==
  /\ service = [s \in Service |-> Absent]
  /\ txn = [t \in Bill |-> Absent]
  /\ process = [s \in Service |-> "none"]
  /\ work = [p \in Process |-> Idle]
  /\ todo = {} /\ expiring = {}
  /\ now = 0
  /\ paid = {}
  /\ accidents = 0
  /\ serial \in SerialModes

-----------------------------------------------------------------------------
Quiet == todo = {} /\ expiring = {} /\ \A p \in Process : work[p] = Idle

MayStart == serial => Quiet

Goto(p, w) == work' = [work EXCEPT ![p] = w]

Start(c, w) ==
  /\ work[c] = Idle
  /\ MayStart
  /\ Goto(c, w)
  /\ UNCHANGED <<tables, todo, expiring, now, paid, accidents, serial>>

\* An update of a row that is gone changes nothing.
SetService(s, to) ==
  service' = IF IsThere(service[s])
             THEN [service EXCEPT ![s].status = to] ELSE service

\* Bound: a purchase starts only when a row is left for it and for its bill.
Buying == {c \in Call : work[c].op \in {"insertService", "insertBill"}}
RoomToBuy ==
  /\ Cardinality(Buying) < Cardinality({s \in Service : service[s] = Absent})
  /\ Cardinality(Buying) < Cardinality({t \in Bill : txn[t] = Absent})

-----------------------------------------------------------------------------
\* The services that take up the land.
OnTheLand == {s \in Service : /\ IsThere(service[s])
                              /\ service[s].status # "expired"}

TakenAcreage == MapThenSumSet(LAMBDA s : service[s].acreage, OnTheLand)

\* Mutant: only the services in use are counted.
BuyBesideUnpaid(c, o) ==
  /\ o.end <= RentEnd
  /\ MapThenSumSet(LAMBDA s : service[s].acreage,
                   {s \in OnTheLand : service[s].status = "used"})
       + o.acreage <= Acreage
  /\ RoomToBuy
  /\ Start(c, [op |-> "insertService", offer |-> o])

\* buyServiceSpecific, down to the save, for a season whose standard process is
\* accepted and that starts in the month asked for.
BuyServiceSpecific(c, o) ==
  /\ o.end <= RentEnd
  /\ TakenAcreage + o.acreage <= Acreage
  /\ RoomToBuy
  /\ Start(c, [op |-> "insertService", offer |-> o])

SaveService(p) ==
  /\ work[p].op = "insertService"
  /\ \E s \in Service :
       /\ service[s] = Absent
       /\ service' = [service EXCEPT ![s] =
            [status |-> "pending_payment", acreage |-> work[p].offer.acreage,
             end |-> work[p].offer.end]]
       /\ Goto(p, [op |-> "insertBill", s |-> s])
  /\ UNCHANGED <<txn, process, todo, expiring, now, paid, accidents, serial>>

CreateTransaction(p) ==
  /\ work[p].op = "insertBill"
  /\ \E t \in Bill :
       /\ txn[t] = Absent
       /\ txn' = [txn EXCEPT ![t] = [status |-> "approved",
                                     service |-> work[p].s, due |-> now + 1]]
  /\ Goto(p, Idle)
  /\ UNCHANGED <<service, process, todo, expiring, now, paid, accidents,
                 serial>>

-----------------------------------------------------------------------------
\* handleTransactionPayment: the bank channel names a transaction.
HandleTransactionPayment(c, t) ==
  /\ txn[t].status = "approved"
  /\ Start(c, [op |-> "accept", t |-> t,
               row |-> [txn[t] EXCEPT !.status = "succeed"]])

\* Mutant: the service is signed for before the payment is saved.
SettleFirst(p) ==
  /\ work[p].op = "accept"
  /\ Goto(p, [op |-> "settle", s |-> work[p].row.service])
  /\ UNCHANGED <<tables, todo, expiring, now, paid, accidents, serial>>

\* The save inserts a row deleted meanwhile again, if its service is there.
AcceptPayment(p) ==
  /\ work[p].op = "accept"
  /\ LET t == work[p].t
         s == work[p].row.service
     IN  IF IsThere(txn[t]) \/ IsThere(service[s])
         THEN /\ txn' = [txn EXCEPT ![t] = work[p].row]
              /\ paid' = paid \cup {s}
              /\ Goto(p, [op |-> "settle", s |-> s])
         ELSE Goto(p, Idle) /\ UNCHANGED <<txn, paid>>
  /\ UNCHANGED <<service, process, todo, expiring, now, accidents, serial>>

\* Mutant: the paid service is left waiting for its payment.
ForgetToSign(p) ==
  /\ work[p].op = "settle"
  /\ Goto(p, Idle)
  /\ UNCHANGED <<tables, todo, expiring, now, paid, accidents, serial>>

\* handlePaymentServiceSpecificSuccess: the check, then the update.
HandlePaymentServiceSpecificSuccess(p) ==
  /\ work[p].op = "settle"
  /\ Goto(p, IF service[work[p].s].status = "pending_payment"
             THEN [op |-> "sign", s |-> work[p].s] ELSE Idle)
  /\ UNCHANGED <<tables, todo, expiring, now, paid, accidents, serial>>

SetPendingSign(p) ==
  /\ work[p].op = "sign"
  /\ SetService(work[p].s, "pending_sign")
  /\ Goto(p, Idle)
  /\ UNCHANGED <<txn, process, todo, expiring, now, paid, accidents, serial>>

-----------------------------------------------------------------------------
\* updateServiceSpecificToUsed: the status first, then the process.
UpdateServiceSpecificToUsed(c, s) ==
  /\ service[s].status = "pending_sign"
  /\ Start(c, [op |-> "use", s |-> s])

SetUsed(p) ==
  /\ work[p].op = "use"
  /\ SetService(work[p].s, "used")
  /\ Goto(p, [op |-> "insertProcess", s |-> work[p].s])
  /\ UNCHANGED <<txn, process, todo, expiring, now, paid, accidents, serial>>

\* createProcessSpecific: the expert with the fewest processes gets it.  A second
\* process of the service is refused, service_specific_id is unique.
CreateProcessSpecific(p) ==
  /\ work[p].op = "insertProcess"
  /\ LET s == work[p].s
     IN  IF process[s] = "none" /\ IsThere(service[s])
         THEN /\ process' = [process EXCEPT ![s] = "empty"]
              /\ Goto(p, [op |-> "fillProcess", s |-> s])
         ELSE Goto(p, Idle) /\ UNCHANGED process
  /\ UNCHANGED <<service, txn, todo, expiring, now, paid, accidents, serial>>

\* Its stages, contents and materials, copied from the standard process: many
\* saves, taken together.
FillProcess(p) ==
  /\ work[p].op = "fillProcess"
  /\ process' = [process EXCEPT ![work[p].s] = "whole"]
  /\ Goto(p, Idle)
  /\ UNCHANGED <<service, txn, todo, expiring, now, paid, accidents, serial>>

-----------------------------------------------------------------------------
\* cancelTransaction, for a user or for the job: the transaction is deleted,
\* then deleteServiceSpecific reads the service and deletes it.
DeleteWork(t) == [op |-> "deleteBill", t |-> t, s |-> txn[t].service]

CancelTransaction(c, t) ==
  /\ txn[t].status = "approved"
  /\ Start(c, DeleteWork(t))

DeleteTransaction(p) ==
  /\ work[p].op = "deleteBill"
  /\ txn' = [txn EXCEPT ![work[p].t] = Gone]
  /\ Goto(p, [op |-> "seek", s |-> work[p].s])
  /\ UNCHANGED <<service, process, todo, expiring, now, paid, accidents,
                 serial>>

\* What throws ends the job's list as well.
GiveUp(p) ==
  /\ Goto(p, Idle)
  /\ todo' = IF p = Job THEN {} ELSE todo

\* Mutant: the service of a canceled bill is left waiting.
LeaveService(p) ==
  /\ work[p].op = "seek"
  /\ Goto(p, Idle)
  /\ UNCHANGED <<tables, todo, expiring, now, paid, accidents, serial>>

DeleteServiceSpecific(p) ==
  /\ work[p].op = "seek"
  /\ IF service[work[p].s].status = "pending_payment"
     THEN Goto(p, [op |-> "delete", s |-> work[p].s]) /\ UNCHANGED todo
     ELSE GiveUp(p)
  /\ UNCHANGED <<tables, expiring, now, paid, accidents, serial>>

\* Refused by the database when a transaction, or a process, refers to it.
DeleteService(p) ==
  /\ work[p].op = "delete"
  /\ LET s == work[p].s
     IN  IF \/ process[s] # "none"
            \/ \E t \in Bill : IsThere(txn[t]) /\ txn[t].service = s
         THEN GiveUp(p) /\ UNCHANGED service
         ELSE /\ service' = [service EXCEPT ![s] = Gone]
              /\ Goto(p, Idle) /\ UNCHANGED todo
  /\ UNCHANGED <<txn, process, expiring, now, paid, accidents, serial>>

Overdue(t) == txn[t].status = "approved" /\ txn[t].due < now

CheckTransactionIsExpired ==
  /\ work[Job] = Idle /\ todo = {}
  /\ MayStart
  /\ \E t \in Bill : Overdue(t)
  /\ todo' = {t \in Bill : Overdue(t)}
  /\ UNCHANGED <<tables, work, expiring, now, paid, accidents, serial>>

\* The next of the list; one that is not approved any more throws.
CancelNext ==
  /\ work[Job] = Idle
  /\ \E t \in todo :
       IF txn[t].status = "approved"
       THEN todo' = todo \ {t} /\ Goto(Job, DeleteWork(t))
       ELSE todo' = {} /\ UNCHANGED work
  /\ UNCHANGED <<tables, expiring, now, paid, accidents, serial>>

-----------------------------------------------------------------------------
Over(s) == service[s].status = "used" /\ service[s].end < now

\* checkServiceIsExpired sends an update for each service and awaits none.
CheckServiceIsExpired ==
  /\ expiring = {}
  /\ MayStart
  /\ \E s \in Service : Over(s)
  /\ expiring' = {s \in Service : Over(s)}
  /\ UNCHANGED <<tables, work, todo, now, paid, accidents, serial>>

ExpireService ==
  /\ \E s \in expiring : expiring' = expiring \ {s} /\ SetService(s, "expired")
  /\ UNCHANGED <<txn, process, work, todo, now, paid, accidents, serial>>

-----------------------------------------------------------------------------
\* An await throws, or the process dies: what is written stays.
Fail(p) ==
  /\ work[p] # Idle
  /\ accidents < MaxAccidents /\ accidents' = accidents + 1
  /\ GiveUp(p)
  /\ UNCHANGED <<tables, expiring, now, paid, serial>>

Tick ==
  /\ MayStart
  /\ now < Horizon
  /\ now' = now + 1
  /\ UNCHANGED <<tables, work, todo, expiring, paid, accidents, serial>>

Arrive(c) ==
  \/ \E o \in Offer : BuyServiceSpecific(c, o)
  \/ \E t \in Bill : HandleTransactionPayment(c, t) \/ CancelTransaction(c, t)
  \/ \E s \in Service : UpdateServiceSpecificToUsed(c, s)

Continue(p) ==
  \/ SaveService(p) \/ CreateTransaction(p)
  \/ AcceptPayment(p) \/ HandlePaymentServiceSpecificSuccess(p)
  \/ SetPendingSign(p)
  \/ SetUsed(p) \/ CreateProcessSpecific(p) \/ FillProcess(p)
  \/ DeleteTransaction(p) \/ DeleteServiceSpecific(p) \/ DeleteService(p)

Next ==
  \/ \E c \in Call : Arrive(c)
  \/ \E p \in Process : Continue(p) \/ Fail(p)
  \/ CheckTransactionIsExpired \/ CancelNext
  \/ CheckServiceIsExpired \/ ExpireService
  \/ Tick

Spec == Init /\ [][Next]_vars

\* What is in flight goes on; the jobs run every hour and every day.
Fairness == /\ \A p \in Process : WF_vars(Continue(p))
            /\ WF_vars(CheckTransactionIsExpired \/ CancelNext)
            /\ WF_vars(CheckServiceIsExpired \/ ExpireService)

FairSpec == Spec /\ Fairness

-----------------------------------------------------------------------------
\* handlePaymentServiceSpecificSuccess, updateServiceSpecificToUsed: however calls,
\* cancellations and jobs interleave, nobody signs for or uses a service that was
\* not paid.
UsedWasPaid ==
  \A s \in Service :
    service[s].status \in {"pending_sign", "used", "expired"} => s \in paid

\* Why it holds: the settling of a payment follows its save.
ServiceInductive ==
  /\ TypeOK
  /\ UsedWasPaid
  /\ \A p \in Process :
       work[p].op \in {"settle", "sign", "use"} => work[p].s \in paid

\* buyServiceSpecific (servicesPackage.service.ts:256): when calls do not overlap, the
\* services that have not expired never take more than the land.
AcreageFits == serial => TakenAcreage <= Acreage

\* updateServiceSpecificToUsed (servicesPackage.service.ts:535): when calls do not
\* overlap and none fails half way, a service in use has its process.
UsedHasProcess ==
  serial /\ Quiet /\ accidents = 0
  => \A s \in Service : service[s].status \in {"used", "expired"}
                          => process[s] = "whole"

\* buyServiceSpecific, cancelTransaction, deleteServiceSpecific: when calls do not
\* overlap and none fails half way, a service waits for its payment exactly as long
\* as it has a bill that can be paid or lapse.
BillAndServiceAgree ==
  serial /\ Quiet /\ accidents = 0
  => \A s \in Service : service[s].status = "pending_payment"
       <=> \E t \in Bill : txn[t].status = "approved" /\ txn[t].service = s

\* When calls do not overlap and none fails half way, the three tables tell the same
\* of a service: its status, its bill and its process.
ServicesAgree == UsedHasProcess /\ BillAndServiceAgree

\* checkTransactionIsExpired: under any interleaving with payments and cancellations,
\* a service nobody pays for leaves the land in the end, unless something fails.
UnpaidServiceGoes ==
  \A s \in Service :
    ~serial /\ (\E t \in Bill : Overdue(t) /\ txn[t].service = s)
      ~> service[s].status # "pending_payment" \/ accidents > 0

===============================================================================
