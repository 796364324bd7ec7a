------------------------- MODULE ServicePurchaseProofs -------------------------
(***************************************************************************)
(* Proofs about ServicePurchase, for every value of the constants: any     *)
(* number of services, bills, requests in flight and accidents.            *)
(***************************************************************************)
EXTENDS ServicePurchase, FiniteSetTheorems, WellFoundedInduction, TLAPS

\* What a kind of work carries.
LEMMA WorkFields ==
  ASSUME NEW w \in Work
  PROVE  /\ w.op = "insertService" => w \in InsertService
         /\ w.op = "accept" => w \in Payments
         /\ w.op = "deleteBill" => w \in DeleteBill
         /\ w.op \in {"insertBill", "settle", "sign", "seek", "delete", "use",
                      "insertProcess", "fillProcess"}
              => w \in OnService
BY DEF Work, Idle, InsertService, Payments, DeleteBill, OnService

LEMMA RowThere ==
  ASSUME TypeOK
  PROVE  /\ \A s \in Service : IsThere(service[s]) => service[s] \in ServiceRow
         /\ \A t \in Bill : IsThere(txn[t]) => txn[t] \in BillRow
BY DEF TypeOK, IsThere, Absent, Gone

\* What is left to a process that goes on, or ends.
LEMMA NextWork ==
  /\ Idle \in Work
  /\ \A s \in Service :
       /\ [op |-> "insertBill", s |-> s] \in Work
       /\ [op |-> "settle", s |-> s] \in Work
       /\ [op |-> "sign", s |-> s] \in Work
       /\ [op |-> "seek", s |-> s] \in Work
       /\ [op |-> "delete", s |-> s] \in Work
       /\ [op |-> "use", s |-> s] \in Work
       /\ [op |-> "insertProcess", s |-> s] \in Work
       /\ [op |-> "fillProcess", s |-> s] \in Work
BY DEF Work, OnService

\* SetService writes one row, and only its status.
LEMMA SetServiceIs ==
  ASSUME TypeOK, NEW s \in Service, NEW to \in ServiceStatus, SetService(s, to)
  PROVE  /\ service' \in [Service -> ServiceRow \cup {Absent, Gone}]
         /\ \A x \in Service \ {s} : service'[x] = service[x]
         /\ IsThere(service[s]) => /\ service'[s].status = to
                                   /\ IsThere(service'[s])
         /\ ~IsThere(service[s]) => service' = service
<1>1. CASE IsThere(service[s])
  <2>1. service[s] \in ServiceRow
    BY <1>1, RowThere
  <2>2. [service[s] EXCEPT !.status = to] \in ServiceRow
    BY <2>1 DEF ServiceRow
  <2>3. /\ service' \in [Service -> ServiceRow \cup {Absent, Gone}]
        /\ \A x \in Service \ {s} : service'[x] = service[x]
        /\ service'[s] = [service[s] EXCEPT !.status = to]
    BY <1>1, <2>2 DEF SetService, TypeOK
  <2>4. service'[s].status = to
    BY <2>1, <2>3 DEF ServiceRow
  <2>5. IsThere(service'[s])
    BY <2>4 DEF IsThere, ServiceStatus
  <2> QED BY <1>1, <2>3, <2>4, <2>5
<1>2. CASE ~IsThere(service[s])
  BY <1>2 DEF SetService, TypeOK
<1> QED BY <1>1, <1>2

-----------------------------------------------------------------------------
LEMMA InitTypeOK == Init => TypeOK
BY ServiceBoundAssumption DEF Init, TypeOK, Work, Idle, Absent

\* A request that starts changes only its own slot.
LEMMA StartKeepsType ==
  ASSUME TypeOK, NEW c \in Call, NEW w \in Work, Start(c, w)
  PROVE  TypeOK'
BY DEF TypeOK, Start, Goto, Process, tables

LEMMA GotoKeepsType ==
  ASSUME TypeOK, NEW p \in Process, NEW w \in Work, Goto(p, w)
  PROVE  work' \in [Process -> Work]
BY DEF TypeOK, Goto

\* The work of a payment, and of a cancellation.
LEMMA BillWork ==
  ASSUME TypeOK, NEW t \in Bill, txn[t].status = "approved"
  PROVE  /\ txn[t] \in BillRow
         /\ [op |-> "accept", t |-> t,
             row |-> [txn[t] EXCEPT !.status = "succeed"]] \in Work
         /\ DeleteWork(t) \in Work
<1>1. txn[t] \in BillRow
  BY RowThere DEF IsThere
<1> QED BY <1>1 DEF DeleteWork, Work, DeleteBill, Payments, BillRow

LEMMA ArriveKeepsType ==
  ASSUME TypeOK, NEW c \in Call, Arrive(c)
  PROVE  TypeOK'
<1>1. ASSUME NEW o \in Offer, BuyServiceSpecific(c, o)
      PROVE  TypeOK'
  <2> DEFINE w == [op |-> "insertService", offer |-> o]
  <2>1. w \in Work
    BY DEF Work, InsertService
  <2>2. Start(c, w)
    BY <1>1 DEF BuyServiceSpecific
  <2> HIDE DEF w
  <2> QED BY <2>1, <2>2, StartKeepsType
<1>2. ASSUME NEW t \in Bill,
             HandleTransactionPayment(c, t) \/ CancelTransaction(c, t)
      PROVE  TypeOK'
  <2>1. txn[t].status = "approved"
    BY <1>2 DEF HandleTransactionPayment, CancelTransaction
  <2>2. PICK w \in Work : Start(c, w)
    BY <1>2, <2>1, BillWork DEF HandleTransactionPayment, CancelTransaction
  <2> QED BY <2>2, StartKeepsType
<1>3. ASSUME NEW s \in Service, UpdateServiceSpecificToUsed(c, s)
      PROVE  TypeOK'
  BY <1>3, NextWork, StartKeepsType DEF UpdateServiceSpecificToUsed
<1> QED BY <1>1, <1>2, <1>3 DEF Arrive

LEMMA ContinueKeepsType ==
  ASSUME TypeOK, NEW p \in Process, Continue(p)
  PROVE  TypeOK'
<1>0. work[p] \in Work
  BY DEF TypeOK
<1>1. CASE SaveService(p)
  <2>1. work[p].offer \in Offer
    BY <1>0, <1>1, WorkFields DEF SaveService, InsertService
  <2>2. [status |-> "pending_payment", acreage |-> work[p].offer.acreage,
         end |-> work[p].offer.end] \in ServiceRow
    BY <2>1, OfferAssumption DEF ServiceRow, ServiceStatus
  <2>3. work' \in [Process -> Work]
    BY <1>1, NextWork, GotoKeepsType DEF SaveService
  <2>4. service' \in [Service -> ServiceRow \cup {Absent, Gone}]
    BY <1>1, <2>2 DEF TypeOK, SaveService
  <2> QED BY <1>1, <2>3, <2>4 DEF TypeOK, SaveService
<1>2. CASE CreateTransaction(p)
  <2>1. work[p].s \in Service
    BY <1>0, <1>2, WorkFields DEF CreateTransaction, OnService
  <2>2. [status |-> "approved", service |-> work[p].s, due |-> now + 1]
          \in BillRow
    BY <2>1 DEF BillRow, TypeOK
  <2>3. work' \in [Process -> Work]
    BY <1>2, NextWork, GotoKeepsType DEF CreateTransaction
  <2>4. txn' \in [Bill -> BillRow \cup {Absent, Gone}]
    BY <1>2, <2>2 DEF TypeOK, CreateTransaction
  <2> QED BY <1>2, <2>3, <2>4 DEF TypeOK, CreateTransaction
<1>3. CASE AcceptPayment(p)
  <2>1. /\ work[p].t \in Bill /\ work[p].row \in BillRow
        /\ work[p].row.service \in Service
    BY <1>0, <1>3, WorkFields DEF AcceptPayment, Payments, BillRow
  <2>2. work' \in [Process -> Work]
    BY <1>3, <2>1, NextWork, GotoKeepsType DEF AcceptPayment
  <2>3. /\ txn' \in [Bill -> BillRow \cup {Absent, Gone}]
        /\ paid' \in SUBSET Service
    BY <1>3, <2>1 DEF TypeOK, AcceptPayment
  <2> QED BY <1>3, <2>2, <2>3 DEF TypeOK, AcceptPayment
<1>4. CASE HandlePaymentServiceSpecificSuccess(p)
  <2>1. work[p].s \in Service
    BY <1>0, <1>4, WorkFields DEF HandlePaymentServiceSpecificSuccess, OnService
  <2>2. work' \in [Process -> Work]
    BY <1>4, <2>1, NextWork, GotoKeepsType
       DEF HandlePaymentServiceSpecificSuccess
  <2> QED BY <1>4, <2>2
          DEF TypeOK, HandlePaymentServiceSpecificSuccess, tables
<1>5. CASE SetPendingSign(p) \/ SetUsed(p)
  <2>1. work[p].s \in Service
    BY <1>0, <1>5, WorkFields DEF SetPendingSign, SetUsed, OnService
  <2>2. work' \in [Process -> Work]
    BY <1>5, <2>1, NextWork, GotoKeepsType DEF SetPendingSign, SetUsed
  <2>3. service' \in [Service -> ServiceRow \cup {Absent, Gone}]
    BY <1>5, <2>1, SetServiceIs DEF SetPendingSign, SetUsed, ServiceStatus
  <2> QED BY <1>5, <2>2, <2>3 DEF TypeOK, SetPendingSign, SetUsed
<1>6. CASE CreateProcessSpecific(p)
  <2>1. work[p].s \in Service
    BY <1>0, <1>6, WorkFields DEF CreateProcessSpecific, OnService
  <2>2. work' \in [Process -> Work]
    BY <1>6, <2>1, NextWork, GotoKeepsType DEF CreateProcessSpecific
  <2>3. process' \in [Service -> {"none", "empty", "whole"}]
    BY <1>6, <2>1 DEF TypeOK, CreateProcessSpecific
  <2> QED BY <1>6, <2>2, <2>3 DEF TypeOK, CreateProcessSpecific
<1>7. CASE FillProcess(p)
  <2>1. work' \in [Process -> Work]
    BY <1>7, NextWork, GotoKeepsType DEF FillProcess
  <2>2. process' \in [Service -> {"none", "empty", "whole"}]
    BY <1>7 DEF TypeOK, FillProcess
  <2> QED BY <1>7, <2>1, <2>2 DEF TypeOK, FillProcess
<1>8. CASE DeleteTransaction(p)
  <2>1. work[p].t \in Bill /\ work[p].s \in Service
    BY <1>0, <1>8, WorkFields DEF DeleteTransaction, DeleteBill
  <2>2. work' \in [Process -> Work]
    BY <1>8, <2>1, NextWork, GotoKeepsType DEF DeleteTransaction
  <2> QED BY <1>8, <2>2 DEF TypeOK, DeleteTransaction
<1>9. CASE DeleteServiceSpecific(p)
  <2>1. work[p].s \in Service
    BY <1>0, <1>9, WorkFields DEF DeleteServiceSpecific, OnService
  <2>2. work' \in [Process -> Work]
    BY <1>9, <2>1, NextWork, GotoKeepsType DEF DeleteServiceSpecific, GiveUp
  <2> QED BY <1>9, <2>2 DEF TypeOK, DeleteServiceSpecific, GiveUp, tables
<1>10. CASE DeleteService(p)
  <2>1. work' \in [Process -> Work]
    BY <1>10, NextWork, GotoKeepsType DEF DeleteService, GiveUp
  <2> QED BY <1>10, <2>1 DEF TypeOK, DeleteService, GiveUp
<1> QED BY <1>1, <1>2, <1>3, <1>4, <1>5, <1>6, <1>7, <1>8, <1>9, <1>10
        DEF Continue

LEMMA RestKeepsType ==
  ASSUME TypeOK,
         \/ \E p \in Process : Fail(p)
         \/ CheckTransactionIsExpired \/ CancelNext
         \/ CheckServiceIsExpired \/ ExpireService
         \/ Tick
  PROVE  TypeOK'
<1>1. ASSUME NEW p \in Process, Fail(p)
      PROVE  TypeOK'
  <2>1. work' \in [Process -> Work]
    BY <1>1, NextWork, GotoKeepsType DEF Fail, GiveUp
  <2> QED BY <1>1, <2>1 DEF TypeOK, Fail, GiveUp, tables
<1>2. CASE CheckTransactionIsExpired
  BY <1>2 DEF TypeOK, CheckTransactionIsExpired, tables
<1>3. CASE CancelNext
  <2>1. PICK t \in todo :
          IF txn[t].status = "approved"
          THEN todo' = todo \ {t} /\ Goto(Job, DeleteWork(t))
          ELSE todo' = {} /\ UNCHANGED work
    BY <1>3 DEF CancelNext
  <2>2. t \in Bill /\ Job \in Process
    BY DEF TypeOK, Process
  <2>3. work' \in [Process -> Work]
    BY <2>1, <2>2, BillWork, GotoKeepsType DEF TypeOK
  <2> QED BY <1>3, <2>1, <2>3 DEF TypeOK, CancelNext, tables
<1>4. CASE CheckServiceIsExpired
  BY <1>4 DEF TypeOK, CheckServiceIsExpired, tables
<1>5. CASE ExpireService
  <2>1. PICK s \in expiring : expiring' = expiring \ {s}
                              /\ SetService(s, "expired")
    BY <1>5 DEF ExpireService
  <2>2. service' \in [Service -> ServiceRow \cup {Absent, Gone}]
    BY <2>1, SetServiceIs DEF TypeOK, ServiceStatus
  <2> QED BY <1>5, <2>1, <2>2 DEF TypeOK, ExpireService
<1>6. CASE Tick
  BY <1>6 DEF TypeOK, Tick, tables
<1> QED BY <1>1, <1>2, <1>3, <1>4, <1>5, <1>6

\* The rows of services and transactions, the processes, the requests in flight
\* and the lists of the two jobs are well formed, however they interleave.
THEOREM ServiceTypeCorrect == Spec => []TypeOK
<1>1. TypeOK /\ [Next]_vars => TypeOK'
  <2> SUFFICES ASSUME TypeOK, [Next]_vars PROVE TypeOK'
    OBVIOUS
  <2>1. CASE Next
    BY <2>1, ArriveKeepsType, ContinueKeepsType, RestKeepsType DEF Next
  <2>2. CASE UNCHANGED vars
    BY <2>2 DEF TypeOK, vars, tables
  <2> QED BY <2>1, <2>2
<1> QED BY InitTypeOK, <1>1, PTL DEF Spec

-----------------------------------------------------------------------------
\* What is asked of a piece of work, P being the services that were paid.
Follows(w, P) == w.op \in {"settle", "sign", "use"} => w.s \in P

\* A step of process p keeps the invariant if the work it leaves p follows, and
\* only services that were paid are signed for, used or expired.
LEMMA StepKeepsInductive ==
  ASSUME ServiceInductive, TypeOK', NEW p \in Process, NEW w, Goto(p, w),
         Follows(w, paid'), paid \subseteq paid',
         \A s \in Service :
           service'[s].status \in {"pending_sign", "used", "expired"}
             => \/ service[s].status \in {"pending_sign", "used", "expired"}
                \/ s \in paid'
  PROVE  ServiceInductive'
<1>1. TypeOK /\ UsedWasPaid /\ \A q \in Process : Follows(work[q], paid)
  BY DEF ServiceInductive, Follows
<1>2. \A q \in Process : Follows(work'[q], paid')
  <2> SUFFICES ASSUME NEW q \in Process PROVE Follows(work'[q], paid')
    OBVIOUS
  <2>1. work'[q] = IF q = p THEN w ELSE work[q]
    BY <1>1 DEF Goto, TypeOK
  <2> QED BY <1>1, <2>1 DEF Follows
<1>3. UsedWasPaid'
  BY <1>1 DEF UsedWasPaid
<1> QED BY <1>2, <1>3 DEF ServiceInductive, Follows

\* The service a process signs for, uses or expires keeps or gains its row's
\* payment; the other services keep their rows.
LEMMA StatusWasPaid ==
  ASSUME TypeOK, NEW s \in Service, NEW to \in ServiceStatus, SetService(s, to),
         s \in paid
  PROVE  \A x \in Service :
           service'[x].status \in {"pending_sign", "used", "expired"}
             => \/ service[x].status \in {"pending_sign", "used", "expired"}
                \/ x \in paid
BY SetServiceIs

LEMMA ContinueKeepsInductive ==
  ASSUME ServiceInductive, TypeOK', NEW p \in Process, Continue(p)
  PROVE  ServiceInductive'
<1>0. /\ TypeOK /\ UsedWasPaid /\ work[p] \in Work /\ Follows(work[p], paid)
      /\ Follows(Idle, paid')
  BY DEF ServiceInductive, Follows, TypeOK, Idle
<1>1. CASE SaveService(p)
  <2>1. PICK s \in Service :
          /\ service[s] = Absent
          /\ service' = [service EXCEPT ![s] =
               [status |-> "pending_payment", acreage |-> work[p].offer.acreage,
                end |-> work[p].offer.end]]
          /\ Goto(p, [op |-> "insertBill", s |-> s])
    BY <1>1 DEF SaveService
  <2>2. \A x \in Service :
          service'[x].status \in {"pending_sign", "used", "expired"}
            => service[x].status \in {"pending_sign", "used", "expired"}
    BY <1>0, <2>1 DEF TypeOK
  <2>3. Follows([op |-> "insertBill", s |-> s], paid') /\ paid' = paid
    BY <1>1 DEF SaveService, Follows
  <2> QED BY <2>1, <2>2, <2>3, StepKeepsInductive
<1>2. CASE AcceptPayment(p)
  <2>1. PICK w : Goto(p, w) /\ Follows(w, paid')
    BY <1>0, <1>2 DEF AcceptPayment, Follows
  <2>2. paid \subseteq paid' /\ service' = service
    BY <1>2 DEF AcceptPayment
  <2> QED BY <2>1, <2>2, StepKeepsInductive
<1>3. CASE HandlePaymentServiceSpecificSuccess(p)
  <2>1. PICK w : Goto(p, w) /\ Follows(w, paid')
    BY <1>0, <1>3 DEF HandlePaymentServiceSpecificSuccess, Follows
  <2>2. paid' = paid /\ service' = service
    BY <1>3 DEF HandlePaymentServiceSpecificSuccess, tables
  <2> QED BY <2>1, <2>2, StepKeepsInductive
<1>4. CASE SetPendingSign(p) \/ SetUsed(p)
  <2>1. work[p].s \in Service /\ work[p].s \in paid /\ paid' = paid
    BY <1>0, <1>4, WorkFields DEF SetPendingSign, SetUsed, OnService, Follows
  <2>2. PICK to \in ServiceStatus : SetService(work[p].s, to)
    BY <1>4 DEF SetPendingSign, SetUsed, ServiceStatus
  <2>3. PICK w : Goto(p, w) /\ Follows(w, paid')
    BY <1>0, <1>4 DEF SetPendingSign, SetUsed, Follows
  <2>4. \A x \in Service :
          service'[x].status \in {"pending_sign", "used", "expired"}
            => \/ service[x].status \in {"pending_sign", "used", "expired"}
               \/ x \in paid
    BY <1>0, <2>1, <2>2, StatusWasPaid
  <2> QED BY <2>1, <2>3, <2>4, StepKeepsInductive
<1>5. CASE DeleteService(p)
  <2>1. PICK w : Goto(p, w) /\ Follows(w, paid')
    BY <1>0, <1>5 DEF DeleteService, GiveUp
  <2>2. \A x \in Service : service'[x] \in {service[x], Gone}
    BY <1>0, <1>5 DEF DeleteService, TypeOK
  <2>3. paid' = paid
    BY <1>5 DEF DeleteService
  <2> QED BY <2>1, <2>2, <2>3, StepKeepsInductive DEF Gone
<1>6. CASE \/ CreateTransaction(p) \/ CreateProcessSpecific(p)
           \/ FillProcess(p) \/ DeleteTransaction(p)
           \/ DeleteServiceSpecific(p)
  <2>1. PICK w : Goto(p, w) /\ Follows(w, paid')
    BY <1>0, <1>6 DEF CreateTransaction, CreateProcessSpecific, FillProcess,
         DeleteTransaction, DeleteServiceSpecific, GiveUp, Follows
  <2>2. paid' = paid /\ service' = service
    BY <1>6 DEF CreateTransaction, CreateProcessSpecific, FillProcess,
         DeleteTransaction, DeleteServiceSpecific, tables
  <2> QED BY <2>1, <2>2, StepKeepsInductive
<1> QED BY <1>1, <1>2, <1>3, <1>4, <1>5, <1>6 DEF Continue

LEMMA ArriveKeepsInductive ==
  ASSUME ServiceInductive, TypeOK', NEW c \in Call, Arrive(c)
  PROVE  ServiceInductive'
<1>1. PICK w : Start(c, w) /\ Follows(w, paid)
  <2>1. ASSUME NEW o \in Offer, BuyServiceSpecific(c, o)
        PROVE  \E w : Start(c, w) /\ Follows(w, paid)
    BY <2>1 DEF BuyServiceSpecific, Follows
  <2>2. ASSUME NEW t \in Bill, HandleTransactionPayment(c, t)
        PROVE  \E w : Start(c, w) /\ Follows(w, paid)
    BY <2>2 DEF HandleTransactionPayment, Follows
  <2>3. ASSUME NEW t \in Bill, CancelTransaction(c, t)
        PROVE  \E w : Start(c, w) /\ Follows(w, paid)
    BY <2>3 DEF CancelTransaction, DeleteWork, Follows
  <2>4. ASSUME NEW s \in Service, UpdateServiceSpecificToUsed(c, s)
        PROVE  \E w : Start(c, w) /\ Follows(w, paid)
    <3>1. s \in paid
      BY <2>4 DEF UpdateServiceSpecificToUsed, ServiceInductive, UsedWasPaid
    <3> QED BY <2>4, <3>1 DEF UpdateServiceSpecificToUsed, Follows
  <2> QED BY <2>1, <2>2, <2>3, <2>4 DEF Arrive
<1>2. Goto(c, w) /\ paid' = paid /\ service' = service /\ c \in Process
  BY <1>1 DEF Start, tables, Process
<1> QED BY <1>1, <1>2, StepKeepsInductive

\* ServiceInductive is not inductive as it stands: an update of the daily job that
\* is still to run was sent for a service in use, hence for one that was paid.
ServiceInv == ServiceInductive /\ expiring \subseteq paid

LEMMA NextKeepsInductive ==
  ASSUME ServiceInv, TypeOK', [Next]_vars
  PROVE  ServiceInductive'
<1>0. /\ ServiceInductive /\ TypeOK /\ UsedWasPaid
      /\ Follows(Idle, paid')
  BY DEF ServiceInv, ServiceInductive, Follows, Idle
<1>1. ASSUME NEW p \in Process, Fail(p)
      PROVE  ServiceInductive'
  <2>1. Goto(p, Idle) /\ paid' = paid /\ service' = service
    BY <1>1 DEF Fail, GiveUp, tables
  <2> QED BY <1>0, <2>1, StepKeepsInductive
<1>2. CASE CancelNext
  <2>1. PICK t \in todo :
          IF txn[t].status = "approved"
          THEN todo' = todo \ {t} /\ Goto(Job, DeleteWork(t))
          ELSE todo' = {} /\ UNCHANGED work
    BY <1>2 DEF CancelNext
  <2>2. service' = service /\ paid' = paid /\ Job \in Process
        /\ Follows(DeleteWork(t), paid')
    BY <1>2 DEF CancelNext, tables, Process, DeleteWork, Follows
  <2>3. CASE work' = work
    BY <1>0, <2>2, <2>3 DEF ServiceInductive, UsedWasPaid
  <2>4. CASE Goto(Job, DeleteWork(t))
    BY <1>0, <2>2, <2>4, StepKeepsInductive
  <2> QED BY <2>1, <2>3, <2>4
<1>3. CASE ExpireService
  <2>1. PICK s \in expiring : SetService(s, "expired")
    BY <1>3 DEF ExpireService
  <2>2. /\ s \in Service /\ s \in paid /\ "expired" \in ServiceStatus
        /\ paid' = paid /\ work' = work
    BY <1>0, <1>3 DEF ServiceInv, TypeOK, ExpireService, ServiceStatus
  <2>3. UsedWasPaid'
    BY <1>0, <2>1, <2>2, StatusWasPaid DEF UsedWasPaid
  <2> QED BY <1>0, <2>2, <2>3 DEF ServiceInductive
<1>4. CASE \/ CheckTransactionIsExpired \/ CheckServiceIsExpired \/ Tick
           \/ UNCHANGED vars
  <2>1. service' = service /\ work' = work /\ paid' = paid
    BY <1>4 DEF CheckTransactionIsExpired, CheckServiceIsExpired, Tick, vars,
         tables
  <2> QED BY <1>0, <2>1 DEF ServiceInductive, UsedWasPaid
<1> QED BY <1>0, <1>1, <1>2, <1>3, <1>4, ArriveKeepsInductive,
           ContinueKeepsInductive DEF Next

LEMMA NextKeepsExpiringPaid ==
  ASSUME ServiceInv, [Next]_vars
  PROVE  (expiring \subseteq paid)'
<1>1. UsedWasPaid /\ expiring \subseteq paid
  BY DEF ServiceInv, ServiceInductive
<1>2. paid \subseteq paid'
  BY DEF Next, Arrive, BuyServiceSpecific, HandleTransactionPayment,
     CancelTransaction, UpdateServiceSpecificToUsed, Start, Continue,
     SaveService, CreateTransaction, AcceptPayment,
     HandlePaymentServiceSpecificSuccess, SetPendingSign, SetUsed,
     CreateProcessSpecific, FillProcess, DeleteTransaction,
     DeleteServiceSpecific, DeleteService, Fail, CheckTransactionIsExpired,
     CancelNext, CheckServiceIsExpired, ExpireService, Tick, vars
<1>3. CASE CheckServiceIsExpired
  BY <1>1, <1>3 DEF CheckServiceIsExpired, Over, UsedWasPaid
<1>4. CASE ~CheckServiceIsExpired
  <2>1. expiring' \subseteq expiring
    BY <1>4 DEF Next, Arrive, BuyServiceSpecific, HandleTransactionPayment,
     CancelTransaction, UpdateServiceSpecificToUsed, Start, Continue,
     SaveService, CreateTransaction, AcceptPayment,
     HandlePaymentServiceSpecificSuccess, SetPendingSign, SetUsed,
     CreateProcessSpecific, FillProcess, DeleteTransaction,
     DeleteServiceSpecific, DeleteService, Fail, CheckTransactionIsExpired,
     CancelNext, ExpireService, Tick, vars
  <2> QED BY <1>1, <1>2, <2>1
<1> QED BY <1>3, <1>4

\* A service is signed for, used or expired only after a payment for it was saved,
\* and what is in flight to settle, sign or use one follows such a payment: under
\* any interleaving, for any number of services and accidents.
THEOREM ServiceInductiveHolds == Spec => []ServiceInductive
<1>1. Init => ServiceInv
  <2> SUFFICES ASSUME Init PROVE ServiceInv
    OBVIOUS
  <2>1. UsedWasPaid /\ \A p \in Process : work[p].op = "idle"
    BY DEF Init, UsedWasPaid, Absent, Idle
  <2> QED BY <2>1, InitTypeOK DEF Init, ServiceInv, ServiceInductive
<1>2. TypeOK' /\ ServiceInv /\ [Next]_vars => ServiceInv'
  BY NextKeepsInductive, NextKeepsExpiringPaid DEF ServiceInv
<1>3. ServiceInv => ServiceInductive
  BY DEF ServiceInv
<1> QED BY ServiceTypeCorrect, <1>1, <1>2, <1>3, PTL DEF Spec

-----------------------------------------------------------------------------
\* When calls do not overlap at most one process is at work, and none while updates
\* of the daily job are under way.
OneAtATime ==
  /\ \A p, q \in Process : work[p] # Idle /\ work[q] # Idle => p = q
  /\ todo # {} => \A c \in Call : work[c] = Idle
  /\ expiring # {} => todo = {} /\ \A p \in Process : work[p] = Idle

Billed(s, tx) == \E t \in Bill : IsThere(tx[t]) /\ tx[t].service = s
Due(s, tx)    == \E t \in Bill : tx[t].status = "approved" /\ tx[t].service = s

At(w, ops, s) == w.op \in ops /\ w.s = s
NotBilled == {"insertBill", "seek", "delete"}   \* its bill is to come, or gone
Settling  == {"settle", "sign"}                 \* its bill is paid

\* While w is the only work in flight, a service waits for its payment exactly as
\* long as a bill of it is due or w deals with it.
WaitsForBill(w, sv, tx) ==
  /\ \A s \in Service : sv[s].status = "pending_payment"
       <=> Due(s, tx) \/ At(w, NotBilled \cup Settling, s)
  /\ \A s \in Service : At(w, Settling, s) => ~Due(s, tx)
  /\ \A s \in Service : At(w, NotBilled, s) \/ ~IsThere(sv[s]) => ~Billed(s, tx)

OneBill(tx) ==
  \A t, u \in Bill :
    IsThere(tx[t]) /\ IsThere(tx[u]) /\ tx[t].service = tx[u].service => t = u

\* A service has its process from its use on, but for the one w makes.
ProcessIsMade(w, sv, pr) ==
  \A s \in Service :
    pr[s] = IF sv[s].status \notin {"used", "expired"}
               \/ At(w, {"insertProcess"}, s) THEN "none"
            ELSE IF At(w, {"fillProcess"}, s) THEN "empty" ELSE "whole"

\* What w has read is still so.
StillReads(w, sv, tx) ==
  /\ w.op = "accept" => /\ tx[w.t].status = "approved"
                        /\ w.row = [tx[w.t] EXCEPT !.status = "succeed"]
  /\ w.op = "deleteBill" => tx[w.t].status = "approved" /\ tx[w.t].service = w.s
  /\ w.op = "use" => sv[w.s].status = "pending_sign"
  /\ w.op \in {"insertProcess", "fillProcess"} => sv[w.s].status = "used"

Agree(w, sv, tx, pr) == /\ WaitsForBill(w, sv, tx)
                        /\ OneBill(tx)
                        /\ ProcessIsMade(w, sv, pr)
                        /\ StillReads(w, sv, tx)

SerialInv ==
  /\ OneAtATime
  /\ (\A p \in Process : work[p] = Idle) => Agree(Idle, service, txn, process)
  /\ \A p \in Process : work[p] # Idle => Agree(work[p], service, txn, process)
  /\ \A s \in expiring : service[s].status = "used"

LEMMA DueIsBilled ==
  ASSUME NEW s, NEW tx, Due(s, tx)
  PROVE  Billed(s, tx)
BY DEF Due, Billed, IsThere

\* A step of the only process at work, which leaves it the work w.
LEMMA StepKeepsSerial ==
  ASSUME TypeOK, OneAtATime, NEW p \in Process, work[p] # Idle, NEW w,
         Goto(p, w), todo' \in {todo, {}}, expiring' = expiring,
         Agree(w, service', txn', process')
  PROVE  SerialInv'
<1>1. \A q \in Process \ {p} : work'[q] = Idle
  BY DEF OneAtATime, Goto, TypeOK
<1>2. work'[p] = w
  BY DEF Goto, TypeOK
<1>3. expiring' = {}
  BY DEF OneAtATime
<1>4. OneAtATime'
  BY <1>1, <1>3 DEF OneAtATime, Process
<1> QED BY <1>1, <1>2, <1>3, <1>4 DEF SerialInv

\* A request that starts when nothing is in flight: the tables agree without it,
\* and with it if what it read is so.
LEMMA StartAgrees ==
  ASSUME Agree(Idle, service, txn, process), NEW w,
         w.op \in {"insertService", "accept", "deleteBill", "use"},
         StillReads(w, service, txn)
  PROVE  Agree(w, service, txn, process)
BY DEF Agree, WaitsForBill, ProcessIsMade, At, Idle, NotBilled, Settling

LEMMA StartKeepsSerial ==
  ASSUME TypeOK, SerialInv, serial, NEW c \in Call, NEW w, Start(c, w),
         w.op \in {"insertService", "accept", "deleteBill", "use"},
         StillReads(w, service, txn)
  PROVE  SerialInv'
<1>1. /\ Quiet /\ Goto(c, w) /\ todo' = todo /\ expiring' = expiring
      /\ service' = service /\ txn' = txn /\ process' = process
      /\ c \in Process
  BY DEF Start, MayStart, tables, Process
<1>2. /\ \A q \in Process \ {c} : work'[q] = Idle
      /\ work'[c] = w
  BY <1>1 DEF Quiet, Goto, TypeOK
<1>3. Agree(w, service', txn', process')
  BY <1>1, StartAgrees DEF SerialInv, Quiet
<1>4. w # Idle
  BY DEF Idle
<1>5. OneAtATime'
  BY <1>1, <1>2 DEF OneAtATime, Quiet
<1> QED BY <1>1, <1>2, <1>3, <1>4, <1>5 DEF SerialInv, Quiet

LEMMA ArriveKeepsSerial ==
  ASSUME TypeOK, SerialInv, serial, NEW c \in Call, Arrive(c)
  PROVE  SerialInv'
<1>1. ASSUME NEW o \in Offer, BuyServiceSpecific(c, o)
      PROVE  SerialInv'
  BY <1>1, StartKeepsSerial DEF BuyServiceSpecific, StillReads
<1>2. ASSUME NEW t \in Bill, HandleTransactionPayment(c, t)
      PROVE  SerialInv'
  BY <1>2, StartKeepsSerial DEF HandleTransactionPayment, StillReads
<1>3. ASSUME NEW t \in Bill, CancelTransaction(c, t)
      PROVE  SerialInv'
  BY <1>3, StartKeepsSerial DEF CancelTransaction, DeleteWork, StillReads
<1>4. ASSUME NEW s \in Service, UpdateServiceSpecificToUsed(c, s)
      PROVE  SerialInv'
  BY <1>4, StartKeepsSerial DEF UpdateServiceSpecificToUsed, StillReads
<1> QED BY <1>1, <1>2, <1>3, <1>4 DEF Arrive

LEMMA SaveServiceKeepsSerial ==
  ASSUME TypeOK, SerialInv, NEW p \in Process, SaveService(p)
  PROVE  SerialInv'
<1>1. PICK s \in Service :
        /\ service[s] = Absent
        /\ service' = [service EXCEPT ![s] =
             [status |-> "pending_payment", acreage |-> work[p].offer.acreage,
              end |-> work[p].offer.end]]
        /\ Goto(p, [op |-> "insertBill", s |-> s])
  BY DEF SaveService
<1> DEFINE w == [op |-> "insertBill", s |-> s]
<1>2. /\ work[p].op = "insertService" /\ work[p] # Idle
      /\ Agree(work[p], service, txn, process) /\ OneAtATime
      /\ txn' = txn /\ process' = process /\ todo' = todo
      /\ expiring' = expiring
  BY DEF SaveService, SerialInv, Idle
<1>3. /\ service'[s].status = "pending_payment" /\ IsThere(service'[s])
      /\ \A x \in Service \ {s} : service'[x] = service[x]
      /\ service[s].status = "none"
  BY <1>1 DEF TypeOK, Absent, IsThere
<1>4. ~Billed(s, txn) /\ ~Due(s, txn)
  BY <1>2, <1>3, DueIsBilled DEF Agree, WaitsForBill, IsThere
<1>5. WaitsForBill(w, service', txn')
  BY <1>2, <1>3, <1>4 DEF Agree, WaitsForBill, At, NotBilled, Settling
<1>6. ProcessIsMade(w, service', process')
  BY <1>2, <1>3 DEF Agree, ProcessIsMade, At
<1>7. Agree(w, service', txn', process')
  BY <1>2, <1>5, <1>6 DEF Agree, StillReads
<1>8. Goto(p, w)
  BY <1>1
<1> HIDE DEF w
<1> QED BY <1>2, <1>7, <1>8, StepKeepsSerial

LEMMA CreateTransactionKeepsSerial ==
  ASSUME TypeOK, SerialInv, NEW p \in Process, CreateTransaction(p)
  PROVE  SerialInv'
<1> DEFINE s == work[p].s
<1>1. /\ work[p].op = "insertBill" /\ work[p] # Idle /\ s \in Service
      /\ Agree(work[p], service, txn, process) /\ OneAtATime
      /\ service' = service /\ process' = process /\ todo' = todo
      /\ expiring' = expiring /\ Goto(p, Idle)
  BY WorkFields DEF CreateTransaction, SerialInv, Idle, TypeOK, OnService
<1>2. PICK t \in Bill :
        /\ txn[t] = Absent
        /\ txn' = [txn EXCEPT ![t] = [status |-> "approved", service |-> s,
                                      due |-> now + 1]]
  BY DEF CreateTransaction
<1>3. /\ txn'[t].status = "approved" /\ txn'[t].service = s
      /\ \A u \in Bill \ {t} : txn'[u] = txn[u]
      /\ ~IsThere(txn[t]) /\ IsThere(txn'[t])
  BY <1>2 DEF TypeOK, Absent, IsThere
<1>4. service[s].status = "pending_payment" /\ ~Billed(s, txn)
  BY <1>1 DEF Agree, WaitsForBill, At, NotBilled
<1>5. /\ Due(s, txn')
      /\ \A x \in Service \ {s} : /\ Due(x, txn') <=> Due(x, txn)
                                  /\ Billed(x, txn') <=> Billed(x, txn)
  BY <1>3 DEF Due, Billed, IsThere
<1>6. WaitsForBill(Idle, service', txn')
  BY <1>1, <1>4, <1>5
     DEF Agree, WaitsForBill, At, NotBilled, Settling, Idle, IsThere
<1>7. OneBill(txn')
  BY <1>1, <1>3, <1>4 DEF Agree, OneBill, Billed
<1>8. ProcessIsMade(Idle, service', process')
  BY <1>1 DEF Agree, ProcessIsMade, At, Idle
<1>9. Agree(Idle, service', txn', process')
  BY <1>6, <1>7, <1>8 DEF Agree, StillReads, Idle
<1> QED BY <1>1, <1>9, StepKeepsSerial

LEMMA AcceptKeepsSerial ==
  ASSUME TypeOK, SerialInv, NEW p \in Process, AcceptPayment(p)
  PROVE  SerialInv'
<1> DEFINE t == work[p].t
           s == work[p].row.service
<1>1. /\ work[p].op = "accept" /\ work[p] # Idle /\ t \in Bill
      /\ Agree(work[p], service, txn, process) /\ OneAtATime
      /\ service' = service /\ process' = process /\ todo' = todo
      /\ expiring' = expiring
  BY WorkFields DEF AcceptPayment, SerialInv, Idle, TypeOK, Payments
<1>2. /\ txn[t].status = "approved"
      /\ work[p].row = [txn[t] EXCEPT !.status = "succeed"]
  BY <1>1 DEF Agree, StillReads
<1>3. /\ txn[t] \in BillRow /\ IsThere(txn[t])
  BY <1>1, <1>2, RowThere DEF IsThere
<1>4. /\ s = txn[t].service /\ s \in Service
      /\ work[p].row.status = "succeed"
  BY <1>2, <1>3 DEF BillRow
<1>5. /\ txn' = [txn EXCEPT ![t] = work[p].row]
      /\ Goto(p, [op |-> "settle", s |-> s])
  BY <1>3 DEF AcceptPayment
<1>6. /\ txn'[t].status = "succeed" /\ txn'[t].service = s
      /\ \A u \in Bill \ {t} : txn'[u] = txn[u]
  BY <1>1, <1>4, <1>5 DEF TypeOK
<1>7. /\ ~Due(s, txn') /\ Due(s, txn)
      /\ \A x \in Service \ {s} : Due(x, txn') <=> Due(x, txn)
      /\ \A x \in Service : Billed(x, txn') <=> Billed(x, txn)
  <2>1. \A u \in Bill : IsThere(txn[u]) /\ txn[u].service = s => u = t
    BY <1>1, <1>3, <1>4 DEF Agree, OneBill
  <2> QED BY <1>1, <1>2, <1>3, <1>4, <1>6, <2>1 DEF Due, Billed, IsThere
<1> DEFINE w == [op |-> "settle", s |-> s]
<1>8. WaitsForBill(w, service', txn')
  BY <1>1, <1>4, <1>7 DEF Agree, WaitsForBill, At, NotBilled, Settling
<1>9. OneBill(txn')
  BY <1>1, <1>3, <1>4, <1>6 DEF Agree, OneBill, IsThere
<1>10. ProcessIsMade(w, service', process')
  BY <1>1 DEF Agree, ProcessIsMade, At
<1>11. Agree(w, service', txn', process')
  BY <1>8, <1>9, <1>10 DEF Agree, StillReads
<1>12. Goto(p, w)
  BY <1>5
<1> HIDE DEF w
<1> QED BY <1>1, <1>11, <1>12, StepKeepsSerial

LEMMA SettleKeepsSerial ==
  ASSUME TypeOK, SerialInv, NEW p \in Process,
         HandlePaymentServiceSpecificSuccess(p) \/ SetPendingSign(p)
  PROVE  SerialInv'
<1> DEFINE s == work[p].s
<1>1. /\ work[p].op \in Settling /\ work[p] # Idle /\ s \in Service
      /\ Agree(work[p], service, txn, process) /\ OneAtATime
      /\ txn' = txn /\ process' = process /\ todo' = todo
      /\ expiring' = expiring
  BY WorkFields DEF HandlePaymentServiceSpecificSuccess, SetPendingSign, tables,
     SerialInv, Idle, TypeOK, OnService, Settling
<1>2. service[s].status = "pending_payment" /\ ~Due(s, txn)
  BY <1>1 DEF Agree, WaitsForBill, At, NotBilled, Settling
<1>3. CASE HandlePaymentServiceSpecificSuccess(p)
  <2> DEFINE w == [op |-> "sign", s |-> s]
  <2>1. Goto(p, w) /\ service' = service /\ work[p].op = "settle"
    BY <1>2, <1>3 DEF HandlePaymentServiceSpecificSuccess, tables
  <2>2. Agree(w, service', txn', process')
    BY <1>1, <2>1 DEF Agree, WaitsForBill, ProcessIsMade, StillReads, At,
         NotBilled, Settling
  <2> HIDE DEF w
  <2> QED BY <1>1, <2>1, <2>2, StepKeepsSerial
<1>4. CASE SetPendingSign(p)
  <2>1. Goto(p, Idle) /\ SetService(s, "pending_sign") /\ work[p].op = "sign"
    BY <1>4 DEF SetPendingSign
  <2>2. /\ service'[s].status = "pending_sign"
        /\ \A x \in Service \ {s} : service'[x] = service[x]
    BY <1>1, <1>2, <2>1, SetServiceIs DEF IsThere, ServiceStatus
  <2>3. WaitsForBill(Idle, service', txn')
    BY <1>1, <1>2, <2>1, <2>2
       DEF Agree, WaitsForBill, At, NotBilled, Settling, Idle, IsThere
  <2>4. ProcessIsMade(Idle, service', process')
    BY <1>1, <1>2, <2>1, <2>2 DEF Agree, ProcessIsMade, At, Idle
  <2>5. Agree(Idle, service', txn', process')
    BY <1>1, <2>3, <2>4 DEF Agree, StillReads, Idle
  <2> QED BY <1>1, <2>1, <2>5, StepKeepsSerial
<1> QED BY <1>3, <1>4

LEMMA UseKeepsSerial ==
  ASSUME TypeOK, SerialInv, NEW p \in Process,
         SetUsed(p) \/ CreateProcessSpecific(p) \/ FillProcess(p)
  PROVE  SerialInv'
<1> DEFINE s == work[p].s
<1>1. /\ work[p].op \in {"use", "insertProcess", "fillProcess"}
      /\ work[p] # Idle /\ s \in Service
      /\ Agree(work[p], service, txn, process) /\ OneAtATime
      /\ txn' = txn /\ todo' = todo /\ expiring' = expiring
  BY WorkFields DEF SetUsed, CreateProcessSpecific, FillProcess, SerialInv,
     Idle, TypeOK, OnService
<1>2. CASE SetUsed(p)
  <2> DEFINE w == [op |-> "insertProcess", s |-> s]
  <2>1. /\ Goto(p, w) /\ SetService(s, "used") /\ work[p].op = "use"
        /\ process' = process /\ service[s].status = "pending_sign"
    BY <1>1, <1>2 DEF SetUsed, Agree, StillReads
  <2>2. /\ service'[s].status = "used"
        /\ \A x \in Service \ {s} : service'[x] = service[x]
    BY <1>1, <2>1, SetServiceIs DEF IsThere, ServiceStatus
  <2>3. WaitsForBill(w, service', txn')
    BY <1>1, <2>1, <2>2
       DEF Agree, WaitsForBill, At, NotBilled, Settling, IsThere
  <2>4. ProcessIsMade(w, service', process')
    BY <1>1, <2>1, <2>2 DEF Agree, ProcessIsMade, At
  <2>5. Agree(w, service', txn', process')
    BY <1>1, <2>2, <2>3, <2>4 DEF Agree, StillReads
  <2> HIDE DEF w
  <2> QED BY <1>1, <2>1, <2>5, StepKeepsSerial
<1>3. CASE CreateProcessSpecific(p)
  <2> DEFINE w == [op |-> "fillProcess", s |-> s]
  <2>1. /\ work[p].op = "insertProcess" /\ service' = service
        /\ service[s].status = "used" /\ process[s] = "none"
    BY <1>1, <1>3 DEF CreateProcessSpecific, Agree, StillReads, ProcessIsMade, At
  <2>2. Goto(p, w) /\ process' = [process EXCEPT ![s] = "empty"]
    BY <1>3, <2>1 DEF CreateProcessSpecific, IsThere
  <2>3. ProcessIsMade(w, service', process')
    BY <1>1, <2>1, <2>2 DEF Agree, ProcessIsMade, At, TypeOK
  <2>4. Agree(w, service', txn', process')
    BY <1>1, <2>1, <2>3
       DEF Agree, WaitsForBill, StillReads, At, NotBilled, Settling
  <2> HIDE DEF w
  <2> QED BY <1>1, <2>2, <2>4, StepKeepsSerial
<1>4. CASE FillProcess(p)
  <2>1. /\ work[p].op = "fillProcess" /\ service' = service
        /\ service[s].status = "used" /\ Goto(p, Idle)
        /\ process' = [process EXCEPT ![s] = "whole"]
    BY <1>1, <1>4 DEF FillProcess, Agree, StillReads
  <2>2. ProcessIsMade(Idle, service', process')
    BY <1>1, <2>1 DEF Agree, ProcessIsMade, At, TypeOK, Idle
  <2>3. Agree(Idle, service', txn', process')
    BY <1>1, <2>1, <2>2
       DEF Agree, WaitsForBill, StillReads, At, NotBilled, Settling, Idle
  <2> QED BY <1>1, <2>1, <2>3, StepKeepsSerial
<1> QED BY <1>2, <1>3, <1>4

LEMMA CancelKeepsSerial ==
  ASSUME TypeOK, SerialInv, NEW p \in Process,
         DeleteTransaction(p) \/ DeleteServiceSpecific(p) \/ DeleteService(p)
  PROVE  SerialInv'
<1> DEFINE s == work[p].s
<1>1. /\ work[p].op \in {"deleteBill", "seek", "delete"}
      /\ work[p] # Idle /\ s \in Service
      /\ Agree(work[p], service, txn, process) /\ OneAtATime
      /\ process' = process /\ expiring' = expiring
  BY WorkFields DEF DeleteTransaction, DeleteServiceSpecific, DeleteService,
     tables, SerialInv, Idle, TypeOK, OnService, DeleteBill
<1>2. CASE DeleteTransaction(p)
  <2> DEFINE t == work[p].t
             w == [op |-> "seek", s |-> s]
  <2>1. /\ work[p].op = "deleteBill" /\ t \in Bill
        /\ txn[t].status = "approved" /\ txn[t].service = s
        /\ txn' = [txn EXCEPT ![t] = Gone] /\ service' = service
        /\ todo' = todo /\ Goto(p, w)
    BY <1>1, <1>2, WorkFields
       DEF DeleteTransaction, Agree, StillReads, TypeOK, DeleteBill
  <2>2. /\ ~IsThere(txn'[t]) /\ IsThere(txn[t])
        /\ txn'[t].status # "approved"
        /\ \A u \in Bill \ {t} : txn'[u] = txn[u]
    BY <2>1 DEF TypeOK, Gone, IsThere
  <2>3. /\ ~Billed(s, txn') /\ Due(s, txn)
        /\ \A x \in Service \ {s} : /\ Due(x, txn') <=> Due(x, txn)
                                    /\ Billed(x, txn') <=> Billed(x, txn)
    <3>1. \A u \in Bill : IsThere(txn[u]) /\ txn[u].service = s => u = t
      BY <1>1, <2>1, <2>2 DEF Agree, OneBill
    <3> QED BY <2>1, <2>2, <3>1 DEF Due, Billed
  <2>4. WaitsForBill(w, service', txn')
    BY <1>1, <2>1, <2>3, DueIsBilled
       DEF Agree, WaitsForBill, At, NotBilled, Settling
  <2>5. OneBill(txn')
    BY <1>1, <2>2 DEF Agree, OneBill
  <2>6. ProcessIsMade(w, service', process')
    BY <1>1, <2>1 DEF Agree, ProcessIsMade, At
  <2>7. Agree(w, service', txn', process')
    BY <2>4, <2>5, <2>6 DEF Agree, StillReads
  <2> HIDE DEF w
  <2> QED BY <1>1, <2>1, <2>7, StepKeepsSerial
<1>3. CASE DeleteServiceSpecific(p)
  <2> DEFINE w == [op |-> "delete", s |-> s]
  <2>1. /\ work[p].op = "seek" /\ service' = service /\ txn' = txn
        /\ service[s].status = "pending_payment"
    BY <1>1, <1>3 DEF DeleteServiceSpecific, tables, Agree, WaitsForBill, At,
         NotBilled
  <2>2. Goto(p, w) /\ todo' = todo
    BY <1>3, <2>1 DEF DeleteServiceSpecific
  <2>3. Agree(w, service', txn', process')
    BY <1>1, <2>1 DEF Agree, WaitsForBill, ProcessIsMade, StillReads, At,
         NotBilled, Settling
  <2> HIDE DEF w
  <2> QED BY <1>1, <2>2, <2>3, StepKeepsSerial
<1>4. CASE DeleteService(p)
  <2>1. /\ work[p].op = "delete" /\ txn' = txn
        /\ service[s].status = "pending_payment" /\ ~Billed(s, txn)
        /\ process[s] = "none"
    BY <1>1, <1>4 DEF DeleteService, Agree, WaitsForBill, ProcessIsMade, At,
         NotBilled
  <2>2. /\ service' = [service EXCEPT ![s] = Gone] /\ Goto(p, Idle)
        /\ todo' = todo
    BY <1>4, <2>1 DEF DeleteService, Billed
  <2>3. /\ service'[s].status = "gone" /\ ~IsThere(service'[s])
        /\ \A x \in Service \ {s} : service'[x] = service[x]
    BY <1>1, <2>2 DEF TypeOK, Gone, IsThere
  <2>4. WaitsForBill(Idle, service', txn')
    BY <1>1, <2>1, <2>3, DueIsBilled
       DEF Agree, WaitsForBill, At, NotBilled, Settling, Idle
  <2>5. ProcessIsMade(Idle, service', process')
    BY <1>1, <2>1, <2>3 DEF Agree, ProcessIsMade, At, Idle
  <2>6. Agree(Idle, service', txn', process')
    BY <1>1, <2>1, <2>4, <2>5 DEF Agree, StillReads, Idle
  <2> QED BY <1>1, <2>2, <2>6, StepKeepsSerial
<1> QED BY <1>2, <1>3, <1>4

LEMMA JobsKeepSerial ==
  ASSUME TypeOK, SerialInv, serial,
         \/ CheckTransactionIsExpired \/ CancelNext
         \/ CheckServiceIsExpired \/ ExpireService
         \/ Tick
  PROVE  SerialInv'
<1>1. CASE CheckTransactionIsExpired
  <2>1. /\ Quiet /\ work' = work /\ service' = service /\ txn' = txn
        /\ process' = process /\ expiring' = expiring
    BY <1>1 DEF CheckTransactionIsExpired, MayStart, tables
  <2> QED BY <2>1 DEF SerialInv, OneAtATime, Quiet, Process
<1>2. CASE CancelNext
  <2>1. PICK t \in todo :
          IF txn[t].status = "approved"
          THEN todo' = todo \ {t} /\ Goto(Job, DeleteWork(t))
          ELSE todo' = {} /\ UNCHANGED work
    BY <1>2 DEF CancelNext
  <2>2. /\ \A q \in Process : work[q] = Idle
        /\ service' = service /\ txn' = txn /\ process' = process
        /\ expiring' = expiring /\ expiring = {}
        /\ Agree(Idle, service, txn, process)
    BY <1>2 DEF CancelNext, SerialInv, OneAtATime, Process, tables
  <2>3. CASE work' = work
    BY <2>1, <2>2, <2>3 DEF SerialInv, OneAtATime, Process
  <2>4. CASE txn[t].status = "approved" /\ Goto(Job, DeleteWork(t))
    <3> DEFINE w == DeleteWork(t)
    <3>1. w.op = "deleteBill" /\ StillReads(w, service, txn) /\ w # Idle
      BY <2>4 DEF DeleteWork, StillReads, Idle
    <3>2. Agree(w, service', txn', process')
      BY <2>2, <3>1, StartAgrees
    <3>3. /\ \A q \in Process \ {Job} : work'[q] = Idle
          /\ work'[Job] = w
      BY <2>2, <2>4 DEF Goto, TypeOK, Process
    <3>4. \A c \in Call : work'[c] = Idle
      BY <3>3, ServiceJobAssumption DEF Process
    <3>5. OneAtATime'
      BY <2>2, <3>3, <3>4 DEF OneAtATime
    <3> HIDE DEF w
    <3> QED BY <2>2, <3>1, <3>2, <3>3, <3>5 DEF SerialInv, Process
  <2> QED BY <2>1, <2>3, <2>4
<1>3. CASE CheckServiceIsExpired
  <2>1. /\ Quiet /\ work' = work /\ service' = service /\ txn' = txn
        /\ process' = process /\ todo' = todo
        /\ expiring' = {s \in Service : Over(s)}
    BY <1>3 DEF CheckServiceIsExpired, MayStart, tables
  <2> QED BY <2>1 DEF SerialInv, OneAtATime, Quiet, Over
<1>4. CASE ExpireService
  <2>1. PICK s \in expiring : expiring' = expiring \ {s}
                              /\ SetService(s, "expired")
    BY <1>4 DEF ExpireService
  <2>2. /\ todo = {} /\ \A p \in Process : work[p] = Idle
        /\ work' = work /\ todo' = todo /\ txn' = txn /\ process' = process
        /\ service[s].status = "used" /\ s \in Service
        /\ Agree(Idle, service, txn, process)
    BY <1>4, <2>1 DEF SerialInv, OneAtATime, ExpireService, TypeOK
  <2>3. /\ service'[s].status = "expired"
        /\ \A x \in Service \ {s} : service'[x] = service[x]
    BY <2>1, <2>2, SetServiceIs DEF IsThere, ServiceStatus
  <2>4. WaitsForBill(Idle, service', txn')
    BY <2>2, <2>3 DEF Agree, WaitsForBill, At, Idle, NotBilled, Settling, IsThere
  <2>5. ProcessIsMade(Idle, service', process')
    BY <2>2, <2>3 DEF Agree, ProcessIsMade, At, Idle
  <2>6. Agree(Idle, service', txn', process')
    BY <2>2, <2>4, <2>5 DEF Agree, StillReads, Idle
  <2>7. \A x \in expiring' : service'[x].status = "used"
    BY <2>1, <2>3 DEF SerialInv, TypeOK
  <2> QED BY <2>1, <2>2, <2>6, <2>7 DEF SerialInv, OneAtATime
<1>5. CASE Tick
  BY <1>5 DEF Tick, tables, SerialInv, OneAtATime
<1> QED BY <1>1, <1>2, <1>3, <1>4, <1>5

\* The invariant holds as long as calls do not overlap and nothing has failed.
ServiceSerialInv == serial /\ accidents = 0 => SerialInv

LEMMA NextKeepsSerial ==
  ASSUME TypeOK, ServiceSerialInv, [Next]_vars
  PROVE  ServiceSerialInv'
<1>1. SUFFICES ASSUME serial', accidents' = 0 PROVE SerialInv'
  BY DEF ServiceSerialInv
<1>2. serial /\ accidents = 0 /\ ~ \E p \in Process : Fail(p)
  <2>1. ASSUME NEW p \in Process, Fail(p) PROVE FALSE
    BY <1>1, <2>1 DEF Fail, TypeOK
  <2> QED BY <1>1, <2>1 DEF Next, Arrive, BuyServiceSpecific,
       HandleTransactionPayment, CancelTransaction, UpdateServiceSpecificToUsed,
       Start, Continue, SaveService, CreateTransaction, AcceptPayment,
       HandlePaymentServiceSpecificSuccess, SetPendingSign, SetUsed,
       CreateProcessSpecific, FillProcess, DeleteTransaction,
       DeleteServiceSpecific, DeleteService, CheckTransactionIsExpired,
       CancelNext, CheckServiceIsExpired, ExpireService, Tick, vars
<1>3. SerialInv
  BY <1>2 DEF ServiceSerialInv
<1>4. ASSUME NEW p \in Process, Continue(p)
      PROVE  SerialInv'
  BY <1>3, <1>4, SaveServiceKeepsSerial, CreateTransactionKeepsSerial,
     AcceptKeepsSerial, SettleKeepsSerial, UseKeepsSerial, CancelKeepsSerial
     DEF Continue
<1>5. CASE UNCHANGED vars
  BY <1>3, <1>5 DEF vars, tables, SerialInv, OneAtATime
<1> QED BY <1>2, <1>3, <1>4, <1>5, ArriveKeepsSerial, JobsKeepSerial DEF Next

LEMMA InitSerialInv == Init => ServiceSerialInv
<1> SUFFICES ASSUME Init PROVE SerialInv
  BY DEF ServiceSerialInv
<1>1. /\ \A p \in Process : work[p] = Idle
      /\ \A s \in Service : service[s].status = "none" /\ process[s] = "none"
      /\ \A t \in Bill : txn[t].status = "none"
  BY DEF Init, Absent
<1>2. WaitsForBill(Idle, service, txn) /\ OneBill(txn)
  BY <1>1 DEF WaitsForBill, OneBill, Due, Billed, IsThere, At, Idle, NotBilled,
     Settling
<1>3. Agree(Idle, service, txn, process)
  BY <1>1, <1>2 DEF Agree, ProcessIsMade, StillReads, At, Idle
<1>4. OneAtATime /\ expiring = {}
  BY <1>1 DEF OneAtATime, Init
<1> QED BY <1>1, <1>3, <1>4 DEF SerialInv

\* When calls do not overlap and nothing has failed, then whenever nothing is in
\* flight a service waits for its payment exactly as long as it has a bill that can
\* be paid or lapse, and one in use, or expired, has its whole process: for any
\* number of services, bills and calls.
THEOREM ServicesAgreeHolds == Spec => []ServicesAgree
<1>1. TypeOK /\ ServiceSerialInv /\ [Next]_vars => ServiceSerialInv'
  BY NextKeepsSerial
<1>2. ServiceSerialInv => ServicesAgree
  <2> SUFFICES ASSUME ServiceSerialInv, serial, Quiet, accidents = 0
               PROVE  /\ \A s \in Service :
                           service[s].status \in {"used", "expired"}
                             => process[s] = "whole"
                      /\ \A s \in Service :
                           service[s].status = "pending_payment"
                             <=> \E t \in Bill : /\ txn[t].status = "approved"
                                                 /\ txn[t].service = s
    BY DEF ServicesAgree, UsedHasProcess, BillAndServiceAgree
  <2>1. Agree(Idle, service, txn, process)
    BY DEF ServiceSerialInv, SerialInv, Quiet
  <2> QED BY <2>1 DEF Agree, ProcessIsMade, WaitsForBill, Due, At, Idle,
               NotBilled, Settling
<1> QED BY ServiceTypeCorrect, InitSerialInv, <1>1, <1>2, PTL DEF Spec

-----------------------------------------------------------------------------
\* Sums over finite sets.  The library's induction needs an operator for what is
\* proved; that a set of finite sets has a smallest does as well.
SumOver(f, X) == MapThenSumSet(LAMBDA x : f[x], X)

\* A set of finite sets has a smallest.
LEMMA SmallestSet ==
  ASSUME NEW S, IsFiniteSet(S), NEW T \in SUBSET (SUBSET S), T # {}
  PROVE  \E X \in T : \A Y \in T : Y \subseteq X => Y = X
<1>1. FiniteSubsetsOf(S) = SUBSET S
  BY FS_FiniteSubsetsOfFinite
<1>2. IsWellFoundedOn(StrictSubsetOrdering(S), SUBSET S)
  BY <1>1, FS_StrictSubsetOrderingWellFounded
<1>3. PICK X \in T : \A Y \in T : ~ (<<Y, X>> \in StrictSubsetOrdering(S))
  BY <1>2, WFMin
<1>4. \A Y \in T : <<Y, X>> \in StrictSubsetOrdering(S) <=> Y \subseteq X /\ Y # X
  BY DEF StrictSubsetOrdering
<1>5. \A Y \in T : Y \subseteq X => Y = X
  BY <1>3, <1>4
<1> QED BY <1>5

\* One step of the sum of X, given the sums it of smaller sets.
SumStep(f, it, X) ==
  IF X = {} THEN 0 ELSE LET x == CHOOSE x \in X : TRUE IN f[x] + it[X \ {x}]

Sums(f, it, S) == it = [X \in SUBSET S |-> SumStep(f, it, X)]

LEMMA SumUnfolds ==
  ASSUME NEW f, NEW X
  PROVE  SumOver(f, X) = (CHOOSE it : Sums(f, it, X))[X]
BY DEF SumOver, MapThenSumSet, MapThenFoldSet, SumStep, Sums

\* Two tables that agree on smaller sets have the same next step.
LEMMA SameStep ==
  ASSUME NEW f, NEW X, NEW i, NEW j, \A x \in X : i[X \ {x}] = j[X \ {x}]
  PROVE  SumStep(f, i, X) = SumStep(f, j, X)
<1> DEFINE x == CHOOSE x \in X : TRUE
<1>1. X # {} => i[X \ {x}] = j[X \ {x}]
  OBVIOUS
<1> QED BY <1>1 DEF SumStep

\* There is one table of sums at most.
LEMMA SumsAgree ==
  ASSUME NEW X, IsFiniteSet(X), NEW f, NEW i, NEW j, Sums(f, i, X), Sums(f, j, X)
  PROVE  \A Y \in SUBSET X : i[Y] = j[Y]
<1> DEFINE T == {Y \in SUBSET X : i[Y] # j[Y]}
<1>1. SUFFICES ASSUME T # {} PROVE FALSE
  OBVIOUS
<1>2. T \in SUBSET (SUBSET X)
  OBVIOUS
<1> HIDE DEF T
<1>3. PICK Y \in T : \A Z \in T : Z \subseteq Y => Z = Y
  BY <1>1, <1>2, SmallestSet
<1> USE DEF T
<1>4. \A y \in Y : i[Y \ {y}] = j[Y \ {y}]
  BY <1>3
<1>5. i[Y] = SumStep(f, i, Y) /\ j[Y] = SumStep(f, j, Y)
  BY DEF Sums
<1> QED BY <1>4, <1>5, SameStep

\* The sums of the subsets of a finite set are such a table.
LEMMA SumIsStep ==
  ASSUME NEW S, IsFiniteSet(S), NEW f \in [S -> Int]
  PROVE  \A X \in SUBSET S :
           /\ SumOver(f, X) \in Int
           /\ SumOver(f, X) = SumStep(f, [Y \in SUBSET X |-> SumOver(f, Y)], X)
<1> DEFINE Table(X) == [Y \in SUBSET X |-> SumOver(f, Y)]
           T == {X \in SUBSET S : ~ /\ SumOver(f, X) \in Int
                                    /\ SumOver(f, X) = SumStep(f, Table(X), X)}
<1>1. SUFFICES ASSUME T # {} PROVE FALSE
  OBVIOUS
<1>2. T \in SUBSET (SUBSET S)
  OBVIOUS
<1> HIDE DEF T
<1>3. PICK X \in T : \A Z \in T : Z \subseteq X => Z = X
  BY <1>1, <1>2, SmallestSet
<1> USE DEF T
<1> DEFINE jt == [Y \in SUBSET X |-> IF Y = X THEN SumStep(f, Table(X), X)
                                              ELSE SumOver(f, Y)]
<1>4. \A Y \in SUBSET X : \A y \in Y :
        /\ Table(Y)[Y \ {y}] = SumOver(f, Y \ {y})
        /\ jt[Y \ {y}] = SumOver(f, Y \ {y})
  OBVIOUS
<1>5. \A Y \in SUBSET X : jt[Y] = SumStep(f, Table(Y), Y)
  BY <1>3
<1>6. ASSUME NEW Y \in SUBSET X
      PROVE  jt[Y] = SumStep(f, jt, Y)
  <2>1. jt[Y] = SumStep(f, Table(Y), Y)
    BY <1>5
  <2>2. \A y \in Y : Table(Y)[Y \ {y}] = jt[Y \ {y}]
    BY <1>4
  <2> HIDE DEF jt, Table
  <2> QED BY <2>1, <2>2, SameStep
<1>7. Sums(f, jt, X) /\ IsFiniteSet(X)
  <2>1. jt = [Y \in SUBSET X |-> jt[Y]]
    OBVIOUS
  <2> HIDE DEF jt
  <2> QED BY <1>3, <1>6, <2>1, FS_Subset DEF Sums
<1>8. SumOver(f, X) = jt[X]
  <2> DEFINE it == CHOOSE it : Sums(f, it, X)
  <2> HIDE DEF jt
  <2>1. Sums(f, it, X)
    BY <1>7
  <2>2. SumOver(f, X) = it[X]
    BY SumUnfolds
  <2> HIDE DEF it
  <2> QED BY <1>7, <2>1, <2>2, SumsAgree
<1>9. SumStep(f, Table(X), X) \in Int
  <2> DEFINE x == CHOOSE x \in X : TRUE
  <2>1. ASSUME X # {}
        PROVE  x \in X /\ X \ {x} \in SUBSET S /\ X \ {x} # X
    BY <2>1
  <2>2. X # {} => X \ {x} \notin T
    BY <1>3, <2>1
  <2>3. X # {} => SumOver(f, X \ {x}) \in Int /\ f[x] \in Int
    <3> HIDE DEF Table, x
    <3> QED BY <2>1, <2>2
  <2>4. X # {} => SumStep(f, Table(X), X) = f[x] + Table(X)[X \ {x}]
    BY DEF SumStep
  <2>5. X # {} => Table(X)[X \ {x}] = SumOver(f, X \ {x})
    BY <1>4, <2>1
  <2>6. X = {} => SumStep(f, Table(X), X) = 0
    BY DEF SumStep
  <2> HIDE DEF x, Table
  <2> QED BY <2>3, <2>4, <2>5, <2>6
<1> QED BY <1>5, <1>8, <1>9

\* The sum of a set, from that of the rest of it.
LEMMA SumParts ==
  ASSUME NEW S, IsFiniteSet(S), NEW f \in [S -> Int]
  PROVE  /\ SumOver(f, {}) = 0
         /\ \A X \in SUBSET S :
              /\ SumOver(f, X) \in Int
              /\ \A x \in X : SumOver(f, X) = f[x] + SumOver(f, X \ {x})
<1> DEFINE s(X) == SumOver(f, X)
<1>1. \A X \in SUBSET S : s(X) \in Int
  BY SumIsStep
<1>2. s({}) = 0
  BY SumIsStep DEF SumStep
<1>3. ASSUME NEW X \in SUBSET S, X # {}
      PROVE  \E c \in X : s(X) = f[c] + s(X \ {c})
  <2> DEFINE t == [Y \in SUBSET X |-> SumOver(f, Y)]
  <2>1. s(X) = SumStep(f, t, X)
    BY SumIsStep
  <2>2. \A x \in X : t[X \ {x}] = s(X \ {x})
    OBVIOUS
  <2> HIDE DEF t, s
  <2> QED BY <1>3, <2>1, <2>2 DEF SumStep
<1> DEFINE T == {X \in SUBSET S : \E x \in X : s(X) # f[x] + s(X \ {x})}
<1>4. SUFFICES ASSUME T # {} PROVE FALSE
  BY <1>1, <1>2
<1>5. T \in SUBSET (SUBSET S)
  OBVIOUS
<1> HIDE DEF T
<1>6. PICK X \in T : \A Y \in T : Y \subseteq X => Y = X
  BY <1>4, <1>5, SmallestSet
<1> HIDE DEF s
<1> USE DEF T
<1>7. PICK x \in X : s(X) # f[x] + s(X \ {x})
  OBVIOUS
<1>8. PICK c \in X : s(X) = f[c] + s(X \ {c})
  BY <1>3
<1>9. X \ {c} \notin T /\ X \ {x} \notin T /\ c # x
  BY <1>6, <1>7, <1>8
<1> DEFINE R == (X \ {c}) \ {x}
<1>10. (X \ {x}) \ {c} = R
  OBVIOUS
<1>11. s(X \ {c}) = f[x] + s(R) /\ s(X \ {x}) = f[c] + s(R)
  BY <1>9, <1>10
<1>12. f[x] \in Int /\ f[c] \in Int /\ s(R) \in Int
  BY <1>1
<1> HIDE DEF R, T
<1> QED BY <1>7, <1>8, <1>11, <1>12

\* What a larger set sums up to is not less.
LEMMA SumGrows ==
  ASSUME NEW S, IsFiniteSet(S), NEW f \in [S -> Nat], NEW X \in SUBSET S
  PROVE  SumOver(f, X) <= SumOver(f, S)
<1>1. f \in [S -> Int] /\ \A y \in S : f[y] \in Nat
  OBVIOUS
<1>2. \A Y \in SUBSET S : SumOver(f, Y) \in Int
  BY <1>1, SumParts
<1> DEFINE T == {Y \in SUBSET S : X \subseteq Y /\ SumOver(f, X) > SumOver(f, Y)}
<1>3. SUFFICES ASSUME T # {} PROVE FALSE
  <2>1. S \in SUBSET S
    OBVIOUS
  <2>2. S \notin T => ~(SumOver(f, X) > SumOver(f, S))
    BY <2>1
  <2> QED BY <1>2, <2>1, <2>2
<1>4. T \in SUBSET (SUBSET S)
  OBVIOUS
<1> HIDE DEF T
<1>5. PICK Y \in T : \A Z \in T : Z \subseteq Y => Z = Y
  BY <1>3, <1>4, SmallestSet
<1> USE DEF T
<1>6. Y # X
  BY <1>2
<1>7. PICK y \in Y : y \notin X
  BY <1>6
<1>8. Y \ {y} \in SUBSET S /\ X \subseteq Y \ {y} /\ Y \ {y} # Y
  BY <1>7
<1>9. ~(SumOver(f, X) > SumOver(f, Y \ {y}))
  BY <1>5, <1>8
<1>10. SumOver(f, Y) = f[y] + SumOver(f, Y \ {y})
  BY <1>1, SumParts
<1>11. f[y] \in Nat /\ SumOver(f, X) > SumOver(f, Y)
  BY <1>1
<1> QED BY <1>2, <1>8, <1>9, <1>10, <1>11

\* The acreage of services X of a table sv, as a sum over a table of terms.
AcreageOf(sv, X) == MapThenSumSet(LAMBDA s : sv[s].acreage, X)

AcreageStep(sv, X, it) ==
  it = [Y \in SUBSET X |->
          IF Y = {} THEN 0
          ELSE LET x == CHOOSE x \in Y : TRUE IN sv[x].acreage + it[Y \ {x}]]

LEMMA AcreageIsSum ==
  ASSUME NEW sv, NEW X, NEW f, \A s \in X : f[s] = sv[s].acreage
  PROVE  AcreageOf(sv, X) = SumOver(f, X)
<1>1. \A Y \in SUBSET X : Y # {} => (CHOOSE x \in Y : TRUE) \in Y
  OBVIOUS
<1>2. ASSUME NEW it, NEW Y \in SUBSET X
      PROVE  (IF Y = {} THEN 0
              ELSE LET x == CHOOSE x \in Y : TRUE
                   IN  sv[x].acreage + it[Y \ {x}]) = SumStep(f, it, Y)
  BY <1>1 DEF SumStep
<1>3. \A it : AcreageStep(sv, X, it) <=> Sums(f, it, X)
  BY <1>2 DEF AcreageStep, Sums
<1>4. (CHOOSE it : AcreageStep(sv, X, it)) = (CHOOSE it : Sums(f, it, X))
  BY ONLY <1>3, Zenon
<1>5. AcreageOf(sv, X) = (CHOOSE it : AcreageStep(sv, X, it))[X]
  BY DEF AcreageOf, MapThenSumSet, MapThenFoldSet, AcreageStep
<1> QED BY <1>4, <1>5, SumUnfolds

Land(sv) == {s \in Service : IsThere(sv[s]) /\ sv[s].status # "expired"}
ServiceTable == [Service -> ServiceRow \cup {Absent, Gone}]

LEMMA AcreageIsNat ==
  ASSUME NEW sv \in ServiceTable
  PROVE  \A s \in Land(sv) : sv[s].acreage \in Nat
BY DEF ServiceTable, Land, IsThere, Absent, Gone, ServiceRow

\* Services that leave the land, or change their status on it, take no more of it.
LEMMA LandShrinks ==
  ASSUME NEW sv \in ServiceTable, NEW tv \in ServiceTable, IsFiniteSet(Land(sv)),
         Land(tv) \subseteq Land(sv),
         \A s \in Land(tv) : tv[s].acreage = sv[s].acreage
  PROVE  /\ IsFiniteSet(Land(tv))
         /\ AcreageOf(tv, Land(tv)) \in Int /\ AcreageOf(sv, Land(sv)) \in Int
         /\ AcreageOf(tv, Land(tv)) <= AcreageOf(sv, Land(sv))
<1> DEFINE S == Land(sv)
           X == Land(tv)
           f == [s \in S |-> sv[s].acreage]
<1>1. /\ f \in [S -> Nat] /\ f \in [S -> Int] /\ X \in SUBSET S
      /\ \A s \in S : f[s] = sv[s].acreage
      /\ \A s \in X : f[s] = tv[s].acreage
  BY AcreageIsNat
<1>2. IsFiniteSet(X) /\ S \in SUBSET S
  BY FS_Subset
<1> HIDE DEF f, S, X
<1>3. AcreageOf(sv, S) = SumOver(f, S) /\ AcreageOf(tv, X) = SumOver(f, X)
  BY <1>1, AcreageIsSum
<1>4. IsFiniteSet(S)
  BY DEF S
<1>5. SumOver(f, X) \in Int /\ SumOver(f, S) \in Int
  BY <1>1, <1>2, <1>4, SumParts
<1>6. SumOver(f, X) <= SumOver(f, S)
  BY <1>1, <1>4, SumGrows
<1> QED BY <1>2, <1>3, <1>5, <1>6 DEF S, X

\* A service that is bought takes its acreage more.
LEMMA LandGrows ==
  ASSUME NEW sv \in ServiceTable, NEW tv \in ServiceTable, IsFiniteSet(Land(sv)),
         NEW e \in Service, e \notin Land(sv), Land(tv) = Land(sv) \cup {e},
         \A s \in Service \ {e} : tv[s] = sv[s]
  PROVE  /\ IsFiniteSet(Land(tv))
         /\ AcreageOf(sv, Land(sv)) \in Int
         /\ AcreageOf(tv, Land(tv)) = AcreageOf(sv, Land(sv)) + tv[e].acreage
<1> DEFINE S == Land(tv)
           X == Land(sv)
           f == [s \in S |-> tv[s].acreage]
<1>1. /\ f \in [S -> Int] /\ X \in SUBSET S /\ S \in SUBSET S /\ e \in S
      /\ X = S \ {e} /\ f[e] = tv[e].acreage /\ f[e] \in Int
      /\ \A s \in S : f[s] = tv[s].acreage
      /\ \A s \in X : f[s] = sv[s].acreage
  <2>1. \A s \in X : s \in Service \ {e}
    BY DEF Land
  <2> QED BY <2>1, AcreageIsNat
<1>2. IsFiniteSet(S)
  BY FS_AddElement
<1> HIDE DEF f, S, X
<1>3. AcreageOf(tv, S) = SumOver(f, S) /\ AcreageOf(sv, X) = SumOver(f, X)
  BY <1>1, AcreageIsSum
<1>4. SumOver(f, X) \in Int /\ SumOver(f, S) = f[e] + SumOver(f, X)
  BY <1>1, <1>2, SumParts
<1> QED BY <1>1, <1>2, <1>3, <1>4 DEF S, X

LEMMA LandIs ==
  /\ TakenAcreage = AcreageOf(service, Land(service))
  /\ OnTheLand = Land(service)
BY DEF TakenAcreage, AcreageOf, OnTheLand, Land

-----------------------------------------------------------------------------
\* The land, in the rows sv, holds what is on it.
Room(sv) == IsFiniteSet(Land(sv)) /\ AcreageOf(sv, Land(sv)) <= Acreage

\* What is about to be bought still fits, and what is about to be signed for or used
\* takes up the land already.
HasRoom(w, sv) ==
  /\ w.op = "insertService"
       => AcreageOf(sv, Land(sv)) + w.offer.acreage <= Acreage
  /\ w.op \in {"sign", "use"} => w.s \in Land(sv)

RoomInv ==
  serial => /\ OneAtATime
            /\ Room(service)
            /\ \A p \in Process : HasRoom(work[p], service)

\* Rows that keep the land they take, or leave it.
LEMMA RoomStays ==
  ASSUME NEW sv \in ServiceTable, NEW tv \in ServiceTable, Room(sv),
         Land(tv) \subseteq Land(sv),
         \A s \in Land(tv) : tv[s].acreage = sv[s].acreage
  PROVE  Room(tv)
<1>1. AcreageOf(tv, Land(tv)) <= AcreageOf(sv, Land(sv)) /\ IsFiniteSet(Land(tv))
  BY LandShrinks DEF Room
<1>2. AcreageOf(tv, Land(tv)) \in Int /\ AcreageOf(sv, Land(sv)) \in Int
  BY LandShrinks DEF Room
<1> QED BY <1>1, <1>2, OfferAssumption DEF Room

LEMMA SetServiceKeepsRoom ==
  ASSUME TypeOK, TypeOK', Room(service), NEW s \in Service, NEW to \in ServiceStatus,
         SetService(s, to), to = "expired" \/ s \in Land(service)
  PROVE  Room(service')
<1>1. service \in ServiceTable /\ service' \in ServiceTable
  BY DEF TypeOK, ServiceTable
<1>2. CASE ~IsThere(service[s])
  BY <1>2 DEF SetService
<1>3. CASE IsThere(service[s])
  <2>1. service[s] \in ServiceRow
    BY <1>3, RowThere
  <2>2. /\ service'[s] = [service[s] EXCEPT !.status = to]
        /\ \A x \in Service \ {s} : service'[x] = service[x]
    BY <1>3 DEF SetService, TypeOK
  <2>3. service'[s].acreage = service[s].acreage /\ service'[s].status = to
    BY <2>1, <2>2 DEF ServiceRow
  <2>4. Land(service') \subseteq Land(service)
    BY <2>2, <2>3 DEF Land
  <2>5. \A x \in Land(service') : service'[x].acreage = service[x].acreage
    BY <2>2, <2>3 DEF Land
  <2> QED BY <1>1, <2>4, <2>5, RoomStays
<1> QED BY <1>2, <1>3

LEMMA IdleHasRoom == \A sv : HasRoom(Idle, sv)
BY DEF HasRoom, Idle

\* A step of the only process at work, which leaves it the work w.
LEMMA StepKeepsRoom ==
  ASSUME TypeOK, OneAtATime, NEW p \in Process, work[p] # Idle, NEW w,
         Goto(p, w), todo' \in {todo, {}}, expiring' = expiring,
         Room(service'), HasRoom(w, service')
  PROVE  RoomInv'
<1>1. \A q \in Process \ {p} : work'[q] = Idle
  BY DEF OneAtATime, Goto, TypeOK
<1>2. work'[p] = w
  BY DEF Goto, TypeOK
<1>3. expiring' = {}
  BY DEF OneAtATime
<1>4. OneAtATime'
  BY <1>1, <1>3 DEF OneAtATime, Process
<1>5. \A q \in Process : HasRoom(work'[q], service')
  BY <1>1, <1>2, IdleHasRoom
<1> QED BY <1>4, <1>5 DEF RoomInv

LEMMA ArriveKeepsRoom ==
  ASSUME TypeOK, RoomInv, serial, NEW c \in Call, Arrive(c)
  PROVE  RoomInv'
<1>0. Room(service)
  BY DEF RoomInv
<1>1. ASSUME NEW w, Start(c, w), HasRoom(w, service)
      PROVE  RoomInv'
  <2>1. /\ Quiet /\ Goto(c, w) /\ todo' = todo /\ expiring' = expiring
        /\ service' = service /\ c \in Process
    BY <1>1 DEF Start, MayStart, tables, Process
  <2>2. (\A q \in Process \ {c} : work'[q] = Idle) /\ work'[c] = w
    BY <2>1 DEF Quiet, Goto, TypeOK
  <2>3. OneAtATime'
    BY <2>1, <2>2 DEF OneAtATime, Quiet
  <2>4. \A q \in Process : HasRoom(work'[q], service')
    BY <1>1, <2>1, <2>2, IdleHasRoom
  <2> QED BY <1>0, <2>1, <2>3, <2>4 DEF RoomInv
<1>2. ASSUME NEW o \in Offer, BuyServiceSpecific(c, o)
      PROVE  RoomInv'
  <2>1. PICK w : w = [op |-> "insertService", offer |-> o] /\ Start(c, w)
    BY <1>2 DEF BuyServiceSpecific
  <2>2. HasRoom(w, service)
    BY <1>2, <2>1, LandIs DEF BuyServiceSpecific, HasRoom
  <2> QED BY <1>1, <2>1, <2>2
<1>3. ASSUME NEW t \in Bill, HandleTransactionPayment(c, t) \/ CancelTransaction(c, t)
      PROVE  RoomInv'
  <2>1. PICK w : w.op \in {"accept", "deleteBill"} /\ Start(c, w)
    BY <1>3 DEF HandleTransactionPayment, CancelTransaction, DeleteWork
  <2>2. HasRoom(w, service)
    BY <2>1 DEF HasRoom
  <2> QED BY <1>1, <2>1, <2>2
<1>4. ASSUME NEW s \in Service, UpdateServiceSpecificToUsed(c, s)
      PROVE  RoomInv'
  <2>1. PICK w : w = [op |-> "use", s |-> s] /\ Start(c, w)
    BY <1>4 DEF UpdateServiceSpecificToUsed
  <2>2. HasRoom(w, service)
    BY <1>4, <2>1 DEF HasRoom, UpdateServiceSpecificToUsed, Land, IsThere
  <2> QED BY <1>1, <2>1, <2>2
<1> QED BY <1>2, <1>3, <1>4 DEF Arrive

LEMMA ContinueKeepsRoom ==
  ASSUME TypeOK, TypeOK', RoomInv, serial, NEW p \in Process, Continue(p)
  PROVE  RoomInv'
<1>0. /\ OneAtATime /\ Room(service) /\ HasRoom(work[p], service) /\ work[p] \in Work
      /\ service \in ServiceTable /\ service' \in ServiceTable
  BY DEF RoomInv, TypeOK, ServiceTable
<1>1. work[p] # Idle /\ expiring' = expiring /\ todo' \in {todo, {}}
  <2>1. work[p].op # "idle"
    BY DEF Continue, SaveService, CreateTransaction, AcceptPayment,
         HandlePaymentServiceSpecificSuccess, SetPendingSign, SetUsed,
         CreateProcessSpecific, FillProcess, DeleteTransaction,
         DeleteServiceSpecific, DeleteService, GiveUp
  <2>2. expiring' = expiring
    BY DEF Continue, SaveService, CreateTransaction, AcceptPayment,
         HandlePaymentServiceSpecificSuccess, SetPendingSign, SetUsed,
         CreateProcessSpecific, FillProcess, DeleteTransaction,
         DeleteServiceSpecific, DeleteService, GiveUp
  <2>3. todo' \in {todo, {}}
    <3>1. CASE \/ SaveService(p) \/ CreateTransaction(p) \/ AcceptPayment(p)
               \/ HandlePaymentServiceSpecificSuccess(p) \/ SetPendingSign(p)
      BY <3>1 DEF SaveService, CreateTransaction, AcceptPayment,
           HandlePaymentServiceSpecificSuccess, SetPendingSign
    <3>2. CASE \/ SetUsed(p) \/ CreateProcessSpecific(p) \/ FillProcess(p)
               \/ DeleteTransaction(p)
      BY <3>2 DEF SetUsed, CreateProcessSpecific, FillProcess, DeleteTransaction
    <3>3. CASE DeleteServiceSpecific(p)
      BY <3>3 DEF DeleteServiceSpecific, GiveUp
    <3>4. CASE DeleteService(p)
      BY <3>4 DEF DeleteService, GiveUp
    <3> QED BY <3>1, <3>2, <3>3, <3>4 DEF Continue
  <2> QED BY <2>1, <2>2, <2>3 DEF Idle
<1>2. ASSUME NEW w, Goto(p, w), Room(service'), HasRoom(w, service')
      PROVE  RoomInv'
  BY <1>0, <1>1, <1>2, StepKeepsRoom
<1>3. CASE SaveService(p)
  <2>1. PICK s, w :
          /\ s \in Service /\ service[s] = Absent
          /\ service' = [service EXCEPT ![s] =
               [status |-> "pending_payment", acreage |-> work[p].offer.acreage,
                end |-> work[p].offer.end]]
          /\ w = [op |-> "insertBill", s |-> s] /\ Goto(p, w)
    BY <1>3 DEF SaveService
  <2>2. /\ service'[s].status = "pending_payment"
        /\ service'[s].acreage = work[p].offer.acreage
        /\ \A x \in Service \ {s} : service'[x] = service[x]
    BY <2>1 DEF TypeOK
  <2>3. s \notin Land(service) /\ Land(service') = Land(service) \cup {s}
    BY <2>1, <2>2 DEF Land, Absent, IsThere
  <2>4. AcreageOf(service, Land(service)) + work[p].offer.acreage <= Acreage
    BY <1>0, <1>3 DEF HasRoom, SaveService
  <2>5. /\ IsFiniteSet(Land(service'))
        /\ AcreageOf(service', Land(service'))
             = AcreageOf(service, Land(service)) + service'[s].acreage
    BY <1>0, <2>1, <2>2, <2>3, LandGrows DEF Room
  <2>6. Room(service')
    BY <2>2, <2>4, <2>5 DEF Room
  <2>7. HasRoom(w, service')
    BY <2>1 DEF HasRoom
  <2> QED BY <1>2, <2>1, <2>6, <2>7
<1>4. CASE HandlePaymentServiceSpecificSuccess(p)
  <2>1. service' = service /\ work[p].s \in Service
    BY <1>0, <1>4, WorkFields DEF HandlePaymentServiceSpecificSuccess, tables,
         OnService
  <2>2. PICK w : /\ Goto(p, w)
                 /\ w = IF service[work[p].s].status = "pending_payment"
                        THEN [op |-> "sign", s |-> work[p].s] ELSE Idle
    BY <1>4 DEF HandlePaymentServiceSpecificSuccess
  <2>3. HasRoom(w, service')
    BY <2>1, <2>2, IdleHasRoom DEF HasRoom, Land, IsThere
  <2> QED BY <1>0, <1>2, <2>1, <2>2, <2>3
<1>5. CASE SetPendingSign(p) \/ SetUsed(p)
  <2>1. work[p].s \in Service /\ work[p].s \in Land(service)
    BY <1>0, <1>5, WorkFields DEF SetPendingSign, SetUsed, OnService, HasRoom
  <2>2. PICK to \in ServiceStatus : SetService(work[p].s, to)
    BY <1>5 DEF SetPendingSign, SetUsed, ServiceStatus
  <2>3. Room(service')
    BY <1>0, <2>1, <2>2, SetServiceKeepsRoom
  <2>4. ASSUME NEW w, Goto(p, w), w.op \in {"idle", "insertProcess"}
        PROVE  RoomInv'
    <3>1. HasRoom(w, service')
      BY <2>4 DEF HasRoom
    <3> QED BY <1>2, <2>3, <2>4, <3>1
  <2>5. CASE SetPendingSign(p)
    <3>1. Goto(p, Idle) /\ Idle.op = "idle"
      BY <2>5 DEF SetPendingSign, Idle
    <3> QED BY <2>4, <3>1
  <2>6. CASE SetUsed(p)
    <3>1. PICK w : Goto(p, w) /\ w = [op |-> "insertProcess", s |-> work[p].s]
      BY <2>6 DEF SetUsed
    <3> QED BY <2>4, <3>1
  <2> QED BY <1>5, <2>5, <2>6
<1>6. CASE DeleteService(p)
  <2>1. Goto(p, Idle)
    BY <1>6 DEF DeleteService, GiveUp
  <2>2. \A x \in Service : service'[x] \in {service[x], Gone}
    BY <1>0, <1>6 DEF DeleteService, TypeOK
  <2>3. /\ Land(service') \subseteq Land(service)
        /\ \A x \in Land(service') : service'[x].acreage = service[x].acreage
    BY <2>2 DEF Land, IsThere, Gone
  <2>4. Room(service')
    BY <1>0, <2>3, RoomStays
  <2> QED BY <1>2, <2>1, <2>4, IdleHasRoom
<1>7. CASE \/ CreateTransaction(p) \/ AcceptPayment(p) \/ CreateProcessSpecific(p)
           \/ FillProcess(p) \/ DeleteTransaction(p) \/ DeleteServiceSpecific(p)
  <2>1. service' = service
    BY <1>7 DEF CreateTransaction, AcceptPayment, CreateProcessSpecific,
         FillProcess, DeleteTransaction, DeleteServiceSpecific, tables
  <2>2. ASSUME NEW w, Goto(p, w),
               w.op \in {"idle", "settle", "fillProcess", "seek", "delete"}
        PROVE  RoomInv'
    <3>1. HasRoom(w, service')
      BY <2>2 DEF HasRoom
    <3> QED BY <1>0, <1>2, <2>1, <2>2, <3>1
  <2>3. Goto(p, Idle) => RoomInv'
    BY <2>2 DEF Idle
  <2>4. CASE CreateTransaction(p) \/ FillProcess(p)
    BY <2>3, <2>4 DEF CreateTransaction, FillProcess
  <2>5. CASE AcceptPayment(p)
    <3>1. \/ Goto(p, Idle)
          \/ Goto(p, [op |-> "settle", s |-> work[p].row.service])
      BY <2>5 DEF AcceptPayment
    <3> QED BY <2>2, <2>3, <3>1
  <2>6. CASE CreateProcessSpecific(p)
    <3>1. \/ Goto(p, Idle)
          \/ Goto(p, [op |-> "fillProcess", s |-> work[p].s])
      BY <2>6 DEF CreateProcessSpecific
    <3> QED BY <2>2, <2>3, <3>1
  <2>7. CASE DeleteTransaction(p)
    <3>1. Goto(p, [op |-> "seek", s |-> work[p].s])
      BY <2>7 DEF DeleteTransaction
    <3> QED BY <2>2, <3>1
  <2>8. CASE DeleteServiceSpecific(p)
    <3>1. \/ Goto(p, Idle)
          \/ Goto(p, [op |-> "delete", s |-> work[p].s])
      BY <2>8 DEF DeleteServiceSpecific, GiveUp
    <3> QED BY <2>2, <2>3, <3>1
  <2> QED BY <1>7, <2>4, <2>5, <2>6, <2>7, <2>8
<1> QED BY <1>3, <1>4, <1>5, <1>6, <1>7 DEF Continue

LEMMA RestKeepsRoom ==
  ASSUME TypeOK, TypeOK', RoomInv, serial,
         \/ \E p \in Process : Fail(p)
         \/ CheckTransactionIsExpired \/ CancelNext
         \/ CheckServiceIsExpired \/ ExpireService
         \/ Tick \/ UNCHANGED vars
  PROVE  RoomInv'
<1>0. OneAtATime /\ Room(service) /\ \A p \in Process : HasRoom(work[p], service)
  BY DEF RoomInv
<1>1. ASSUME NEW p \in Process, Fail(p)
      PROVE  RoomInv'
  <2>1. /\ work[p] # Idle /\ Goto(p, Idle) /\ todo' \in {todo, {}}
        /\ expiring' = expiring /\ service' = service
    BY <1>1 DEF Fail, GiveUp, tables
  <2> QED BY <1>0, <2>1, IdleHasRoom, StepKeepsRoom
<1>2. CASE CheckTransactionIsExpired \/ CheckServiceIsExpired
  <2>1. Quiet /\ work' = work /\ service' = service
    BY <1>2 DEF CheckTransactionIsExpired, CheckServiceIsExpired, MayStart, tables
  <2>2. todo' = todo \/ expiring' = expiring
    BY <1>2 DEF CheckTransactionIsExpired, CheckServiceIsExpired
  <2>3. OneAtATime'
    BY <2>1, <2>2 DEF OneAtATime, Quiet, Process
  <2> QED BY <1>0, <2>1, <2>3 DEF RoomInv
<1>3. CASE CancelNext
  <2>1. PICK w : /\ work' = work \/ Goto(Job, w)
                 /\ w.op = "deleteBill" /\ todo' \subseteq todo
    <3>1. PICK t \in todo :
            IF txn[t].status = "approved"
            THEN todo' = todo \ {t} /\ Goto(Job, DeleteWork(t))
            ELSE todo' = {} /\ UNCHANGED work
      BY <1>3 DEF CancelNext
    <3>2. DeleteWork(t).op = "deleteBill"
      BY DEF DeleteWork
    <3> QED BY <3>1, <3>2
  <2>2. /\ service' = service /\ expiring' = expiring /\ expiring = {}
        /\ todo # {} /\ work[Job] = Idle /\ \A c \in Call : work[c] = Idle
    BY <1>0, <1>3 DEF CancelNext, tables, OneAtATime
  <2>3. \A c \in Call : work'[c] = Idle
    BY <2>1, <2>2, ServiceJobAssumption DEF Goto, TypeOK, Process
  <2>4. OneAtATime'
    BY <2>2, <2>3 DEF OneAtATime, Process
  <2>5. work'[Job] \in {Idle, w}
    BY <2>1, <2>2 DEF Goto, TypeOK, Process
  <2>6. \A q \in Process : HasRoom(work'[q], service')
    <3>1. HasRoom(w, service')
      BY <2>1 DEF HasRoom
    <3> QED BY <2>3, <2>5, <3>1, IdleHasRoom DEF Process
  <2> QED BY <1>0, <2>2, <2>4, <2>6 DEF RoomInv
<1>4. CASE ExpireService
  <2>1. PICK s \in expiring : /\ expiring' = expiring \ {s}
                              /\ SetService(s, "expired")
    BY <1>4 DEF ExpireService
  <2>2. s \in Service /\ "expired" \in ServiceStatus
    BY DEF TypeOK, ServiceStatus
  <2>3. Room(service')
    BY <1>0, <2>1, <2>2, SetServiceKeepsRoom
  <2>4. /\ work' = work /\ todo' = todo /\ todo = {}
        /\ \A p \in Process : work[p] = Idle
    BY <1>0, <1>4, <2>1 DEF OneAtATime, ExpireService
  <2>5. OneAtATime'
    BY <2>4 DEF OneAtATime, Process
  <2>6. \A p \in Process : HasRoom(work'[p], service')
    BY <2>4, IdleHasRoom
  <2> QED BY <2>3, <2>5, <2>6 DEF RoomInv
<1>5. CASE Tick \/ UNCHANGED vars
  <2>1. UNCHANGED <<service, work, todo, expiring>>
    BY <1>5 DEF Tick, vars, tables
  <2> QED BY <1>0, <2>1 DEF RoomInv, OneAtATime
<1> QED BY <1>1, <1>2, <1>3, <1>4, <1>5

LEMMA SerialStays ==
  ASSUME [Next]_vars
  PROVE  serial' = serial
BY DEF Next, Arrive, BuyServiceSpecific, HandleTransactionPayment,
   CancelTransaction, UpdateServiceSpecificToUsed, Start, Continue, SaveService,
   CreateTransaction, AcceptPayment, HandlePaymentServiceSpecificSuccess,
   SetPendingSign, SetUsed, CreateProcessSpecific, FillProcess,
   DeleteTransaction, DeleteServiceSpecific, DeleteService, Fail,
   CheckTransactionIsExpired, CancelNext, CheckServiceIsExpired, ExpireService,
   Tick, vars

LEMMA NextKeepsRoom ==
  ASSUME TypeOK, TypeOK', RoomInv, [Next]_vars
  PROVE  RoomInv'
<1>1. CASE serial
  BY <1>1, ArriveKeepsRoom, ContinueKeepsRoom, RestKeepsRoom DEF Next
<1>2. CASE ~serial
  BY <1>2, SerialStays DEF RoomInv
<1> QED BY <1>1, <1>2

LEMMA InitHasRoom == Init => RoomInv
<1> SUFFICES ASSUME Init PROVE RoomInv
  OBVIOUS
<1>1. Land(service) = {}
  BY DEF Init, Land, Absent, IsThere
<1>2. AcreageOf(service, {}) = 0
  <2> DEFINE f == [s \in {} |-> 0]
  <2>1. f \in [{} -> Int] /\ IsFiniteSet({})
    BY FS_EmptySet
  <2>2. SumOver(f, {}) = 0
    BY <2>1, SumParts
  <2> QED BY <2>2, AcreageIsSum
<1>3. Room(service)
  BY <1>1, <1>2, FS_EmptySet, OfferAssumption DEF Room
<1>4. (\A p \in Process : work[p] = Idle) /\ todo = {} /\ expiring = {}
  BY DEF Init
<1>5. \A p \in Process : HasRoom(work[p], service)
  BY <1>4, IdleHasRoom
<1> QED BY <1>3, <1>4, <1>5 DEF RoomInv, OneAtATime

\* When calls do not overlap the services that have not expired never take more than
\* the land, whatever fails, for any services, offers, bills and calls.
THEOREM AcreageFitsHolds == Spec => []AcreageFits
<1>1. TypeOK /\ TypeOK' /\ RoomInv /\ [Next]_vars => RoomInv'
  BY NextKeepsRoom
<1>2. RoomInv => AcreageFits
  BY LandIs DEF RoomInv, Room, AcreageFits
<1> QED BY ServiceTypeCorrect, InitHasRoom, <1>1, <1>2, PTL DEF Spec
===============================================================================
