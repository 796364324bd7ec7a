------------------------- MODULE LandExtensionProofs -------------------------
(***************************************************************************)
(* Proofs about LandExtension, for every value of the constants: any       *)
(* number of extends, bills, requests in flight and accidents.             *)
(***************************************************************************)
EXTENDS LandExtension, TLAPS

\* What a kind of work carries.
LEMMA WorkFields ==
  ASSUME NEW w \in Work
  PROVE  /\ w.op = "insertExtend" => w \in InsertExtend
         /\ w.op = "patch" => w \in PatchExtend
         /\ w.op = "charge" => w \in ChargeExtend
         /\ w.op = "save" => w \in SaveExtend
         /\ w.op = "accept" => w \in Payments
         /\ w.op = "deleteBill" => w \in DeleteBill
         /\ w.op \in {"settle", "complete", "seek", "deleteExtend"}
              => w \in OnExtend
BY DEF Work, Idle, InsertExtend, PatchExtend, ChargeExtend, SaveExtend,
       Payments, DeleteBill, OnExtend

LEMMA RowThere ==
  ASSUME TypeOK
  PROVE  /\ \A e \in Extend : IsThere(extend[e]) => extend[e] \in ExtendRow
         /\ \A t \in Bill : IsThere(txn[t]) => txn[t] \in BillRow
BY DEF TypeOK, IsThere, Absent, Gone

\* The row an update saves is a row, when the one it was read from is.
LEMMA WithIsRow ==
  ASSUME NEW row \in ExtendRow, NEW put \in Put
  PROVE  With(row, put) \in ExtendRow /\ With(row, put).status = put.to
<1>1. put \in [to: ExtendStatus, months: Nat]
  BY PutAssumption
<1> QED BY <1>1 DEF With, ExtendRow

-----------------------------------------------------------------------------
LEMMA InitTypeOK == Init => TypeOK
BY DEF Init, TypeOK, Work, Idle, Absent

\* A request that starts changes only its own slot, but for what it declares.
LEMMA BeginKeepsType ==
  ASSUME TypeOK, NEW c \in Call, NEW w \in Work, Begin(c, w),
         declared' \subseteq Extend
  PROVE  TypeOK'
BY DEF TypeOK, Begin, Goto, Process, tables

LEMMA StartKeepsType ==
  ASSUME TypeOK, NEW c \in Call, NEW w \in Work, Start(c, w)
  PROVE  TypeOK'
BY BeginKeepsType DEF Start, TypeOK

LEMMA ArriveKeepsType ==
  ASSUME TypeOK, NEW c \in Call, Arrive(c)
  PROVE  TypeOK'
<1>1. ASSUME NEW b \in Booking, NEW m \in Months, CreateExtend(c, b, m)
      PROVE  TypeOK'
  <2> DEFINE w == [op |-> "insertExtend",
                   row |-> [status |-> "pending_contract", booking |-> b,
                            months |-> m]]
  <2>1. w \in Work
    BY PutAssumption DEF Work, InsertExtend, ExtendRow, ExtendStatus
  <2>2. Start(c, w)
    BY <1>1 DEF CreateExtend
  <2> HIDE DEF w
  <2> QED BY <2>1, <2>2, StartKeepsType
<1>2. ASSUME NEW e \in Extend, NEW put \in Put, IsThere(extend[e])
      PROVE  /\ [op |-> "patch", e |-> e, row |-> With(extend[e], put),
                 put |-> put] \in Work
             /\ [op |-> "save", e |-> e, row |-> With(extend[e], put)] \in Work
             /\ [op |-> "charge", e |-> e, row |-> With(extend[e], put),
                 amount |-> extend[e].months] \in Work
  <2>1. extend[e] \in ExtendRow
    BY <1>2, RowThere
  <2>2. With(extend[e], put) \in ExtendRow /\ extend[e].months \in Nat
    BY <2>1, WithIsRow DEF ExtendRow
  <2> QED BY <2>2 DEF Work, PatchExtend, SaveExtend, ChargeExtend
<1>3. ASSUME NEW e \in Extend, NEW put \in Put,
             \/ UpdateToPendingContract(c, e, put)
             \/ UpdateToRejected(c, e, put)
      PROVE  TypeOK'
  <2>1. IsThere(extend[e])
    BY <1>3 DEF UpdateToPendingContract, UpdateToRejected, IsThere
  <2>2. Start(c, [op |-> "patch", e |-> e, row |-> With(extend[e], put),
                  put |-> put])
    BY <1>3 DEF UpdateToPendingContract, UpdateToRejected
  <2> QED BY <2>1, <2>2, <1>2, StartKeepsType
<1>4. ASSUME NEW e \in Extend, NEW put \in Put,
             UpdateToPendingSign(c, e, put) \/ UpdateUnchecked(c, e, put)
      PROVE  TypeOK'
  <2>1. IsThere(extend[e])
    BY <1>4 DEF UpdateToPendingSign, UpdateUnchecked, IsThere
  <2>2. Begin(c, [op |-> "save", e |-> e, row |-> With(extend[e], put)])
    BY <1>4 DEF UpdateToPendingSign, UpdateUnchecked, Start
  <2>3. declared' \subseteq Extend
    BY <1>4 DEF UpdateToPendingSign, UpdateUnchecked, Start, TypeOK
  <2> QED BY <2>1, <2>2, <2>3, <1>2, BeginKeepsType
<1>5. ASSUME NEW e \in Extend, NEW put \in Put,
             UpdateToPendingPayment(c, e, put)
      PROVE  TypeOK'
  <2>1. IsThere(extend[e])
    BY <1>5 DEF UpdateToPendingPayment, IsThere
  <2>2. Start(c, [op |-> "charge", e |-> e, row |-> With(extend[e], put),
                  amount |-> extend[e].months])
    BY <1>5 DEF UpdateToPendingPayment
  <2> QED BY <2>1, <2>2, <1>2, StartKeepsType
<1>6. ASSUME NEW t \in Bill, HandleTransactionPayment(c, t)
      PROVE  TypeOK'
  <2> DEFINE w == [op |-> "accept", t |-> t,
                   row |-> [txn[t] EXCEPT !.status = "succeed"]]
  <2>1. txn[t] \in BillRow
    BY <1>6, RowThere DEF HandleTransactionPayment, IsThere
  <2>2. w \in Work
    BY <2>1 DEF Work, Payments, BillRow
  <2>3. Start(c, w)
    BY <1>6 DEF HandleTransactionPayment
  <2> HIDE DEF w
  <2> QED BY <2>2, <2>3, StartKeepsType
<1>7. ASSUME NEW t \in Bill, CancelTransaction(c, t)
      PROVE  TypeOK'
  <2>1. txn[t] \in BillRow
    BY <1>7, RowThere DEF CancelTransaction, IsThere
  <2>2. DeleteWork(t) \in Work
    BY <2>1 DEF DeleteWork, Work, DeleteBill, BillRow
  <2> QED BY <1>7, <2>2, StartKeepsType DEF CancelTransaction
<1> QED BY <1>1, <1>3, <1>4, <1>5, <1>6, <1>7 DEF Arrive

\* A process that goes on to a piece of work, or ends.
LEMMA NextWork ==
  /\ Idle \in Work
  /\ \A e \in Extend :
       /\ [op |-> "settle", e |-> e] \in Work
       /\ [op |-> "complete", e |-> e] \in Work
       /\ [op |-> "seek", e |-> e] \in Work
       /\ [op |-> "deleteExtend", e |-> e] \in Work
       /\ \A row \in ExtendRow :
            [op |-> "save", e |-> e, row |-> row] \in Work
BY DEF Work, OnExtend, SaveExtend

LEMMA GotoKeepsType ==
  ASSUME TypeOK, NEW p \in Process, NEW w \in Work, Goto(p, w)
  PROVE  work' \in [Process -> Work]
BY DEF TypeOK, Goto

LEMMA ContinueKeepsType ==
  ASSUME TypeOK, NEW p \in Process, Continue(p)
  PROVE  TypeOK'
<1>0. work[p] \in Work
  BY DEF TypeOK
<1>1. CASE SaveNewExtend(p)
  <2>1. work[p].row \in ExtendRow
    BY <1>0, <1>1, WorkFields DEF SaveNewExtend, InsertExtend
  <2>2. work' \in [Process -> Work]
    BY <1>1, NextWork, GotoKeepsType DEF SaveNewExtend
  <2> QED BY <1>1, <2>1, <2>2 DEF TypeOK, SaveNewExtend
<1>2. CASE WriteBody(p)
  <2>1. /\ work[p].e \in Extend /\ work[p].row \in ExtendRow
        /\ work[p].put \in Put
    BY <1>0, <1>2, WorkFields DEF WriteBody, PatchExtend
  <2>2. work' \in [Process -> Work]
    BY <1>2, <2>1, NextWork, GotoKeepsType DEF WriteBody
  <2>3. IsThere(extend[work[p].e])
          => With(extend[work[p].e], work[p].put) \in ExtendRow
    BY <2>1, RowThere, WithIsRow
  <2>4. extend' \in [Extend -> ExtendRow \cup {Absent, Gone}]
    BY <1>2, <2>1, <2>3 DEF TypeOK, WriteBody
  <2> QED BY <1>2, <2>2, <2>4 DEF TypeOK, WriteBody
<1>3. CASE CreateTransaction(p)
  <2>1. /\ work[p].e \in Extend /\ work[p].row \in ExtendRow
        /\ work[p].amount \in Nat
    BY <1>0, <1>3, WorkFields DEF CreateTransaction, ChargeExtend
  <2>2. work' \in [Process -> Work]
    BY <1>3, <2>1, NextWork, GotoKeepsType DEF CreateTransaction
  <2>3. [status |-> "approved", extend |-> work[p].e,
         amount |-> work[p].amount, due |-> now + 1] \in BillRow
    BY <2>1 DEF BillRow, TypeOK
  <2>4. txn' \in [Bill -> BillRow \cup {Absent, Gone}]
    BY <1>3, <2>3 DEF TypeOK, CreateTransaction
  <2> QED BY <1>3, <2>2, <2>4 DEF TypeOK, CreateTransaction
<1>4. CASE WriteExtend(p)
  <2>1. work[p].e \in Extend /\ work[p].row \in ExtendRow
    BY <1>0, <1>4, WorkFields DEF WriteExtend, SaveExtend
  <2>2. work' \in [Process -> Work]
    BY <1>4, NextWork, GotoKeepsType DEF WriteExtend
  <2> QED BY <1>4, <2>1, <2>2 DEF TypeOK, WriteExtend
<1>5. CASE AcceptPayment(p)
  <2>1. work[p].t \in Bill /\ work[p].row \in BillRow
    BY <1>0, <1>5, WorkFields DEF AcceptPayment, Payments
  <2>2. work[p].row.extend \in Extend /\ work[p].row.amount \in Nat
    BY <2>1 DEF BillRow
  <2>3. work' \in [Process -> Work]
    BY <1>5, <2>2, NextWork, GotoKeepsType DEF AcceptPayment
  <2>4. [bill |-> work[p].t, extend |-> work[p].row.extend,
         amount |-> work[p].row.amount] \in Payment
    BY <2>1, <2>2 DEF Payment
  <2>5. /\ txn' \in [Bill -> BillRow \cup {Absent, Gone}]
        /\ received' \in SUBSET Payment
    BY <1>5, <2>1, <2>4 DEF TypeOK, AcceptPayment
  <2> QED BY <1>5, <2>3, <2>5 DEF TypeOK, AcceptPayment
<1>6. CASE UpdateExtendToComplete(p)
  <2>1. work[p].e \in Extend
    BY <1>0, <1>6, WorkFields DEF UpdateExtendToComplete, OnExtend
  <2>2. work' \in [Process -> Work]
    BY <1>6, <2>1, NextWork, GotoKeepsType DEF UpdateExtendToComplete
  <2> QED BY <1>6, <2>2 DEF TypeOK, UpdateExtendToComplete, tables
<1>7. CASE SetCompleted(p)
  <2>1. work[p].e \in Extend
    BY <1>0, <1>7, WorkFields DEF SetCompleted, OnExtend
  <2>2. work' \in [Process -> Work]
    BY <1>7, NextWork, GotoKeepsType DEF SetCompleted
  <2>3. IsThere(extend[work[p].e])
          => [extend[work[p].e] EXCEPT !.status = "completed"] \in ExtendRow
    BY <2>1, RowThere DEF ExtendRow, ExtendStatus
  <2>4. extend' \in [Extend -> ExtendRow \cup {Absent, Gone}]
    BY <1>7, <2>1, <2>3 DEF TypeOK, SetCompleted
  <2> QED BY <1>7, <2>2, <2>4 DEF TypeOK, SetCompleted
<1>8. CASE DeleteTransaction(p)
  <2>1. work[p].t \in Bill /\ work[p].e \in Extend
    BY <1>0, <1>8, WorkFields DEF DeleteTransaction, DeleteBill
  <2>2. work' \in [Process -> Work]
    BY <1>8, <2>1, NextWork, GotoKeepsType DEF DeleteTransaction
  <2> QED BY <1>8, <2>2 DEF TypeOK, DeleteTransaction
<1>9. CASE CancelExtend(p)
  <2>1. work[p].e \in Extend
    BY <1>0, <1>9, WorkFields DEF CancelExtend, OnExtend
  <2>2. work' \in [Process -> Work]
    BY <1>9, <2>1, NextWork, GotoKeepsType DEF CancelExtend
  <2> QED BY <1>9, <2>2 DEF TypeOK, CancelExtend, tables
<1>10. CASE DeleteExtend(p)
  <2>1. work' \in [Process -> Work]
    BY <1>10, NextWork, GotoKeepsType DEF DeleteExtend
  <2> QED BY <1>10, <2>1 DEF TypeOK, DeleteExtend
<1> QED BY <1>1, <1>2, <1>3, <1>4, <1>5, <1>6, <1>7, <1>8, <1>9, <1>10
        DEF Continue

LEMMA RestKeepsType ==
  ASSUME TypeOK,
         \/ \E b \in Booking : \/ CreateBooking(b) \/ BookingPaid(b)
                               \/ BookingExpired(b) \/ BookingReported(b)
         \/ \E p \in Process : Fail(p)
         \/ CheckTransactionIsExpired \/ CancelNext
         \/ Tick
  PROVE  TypeOK'
<1>1. ASSUME NEW b \in Booking,
             \/ CreateBooking(b) \/ BookingPaid(b)
             \/ BookingExpired(b) \/ BookingReported(b)
      PROVE  TypeOK'
  <2>1. PICK from \in {"none", "pending", "completed", "expired"},
             to \in {"pending", "completed", "expired"} :
               SetBooking(b, from, to)
    BY <1>1 DEF CreateBooking, BookingPaid, BookingExpired, BookingReported
  <2> QED BY <2>1 DEF TypeOK, SetBooking
<1>2. ASSUME NEW p \in Process, Fail(p)
      PROVE  TypeOK'
  <2>1. work' \in [Process -> Work]
    BY <1>2, NextWork, GotoKeepsType DEF Fail
  <2> QED BY <1>2, <2>1 DEF TypeOK, Fail, tables
<1>3. CASE CheckTransactionIsExpired
  BY <1>3 DEF TypeOK, CheckTransactionIsExpired, tables
<1>4. CASE CancelNext
  <2>1. PICK t \in todo :
          IF txn[t].status = "approved"
          THEN todo' = todo \ {t} /\ Goto(Job, DeleteWork(t))
          ELSE todo' = {} /\ UNCHANGED work
    BY <1>4 DEF CancelNext
  <2>2. t \in Bill /\ Job \in Process
    BY DEF TypeOK, Process
  <2>3. txn[t].status = "approved" => DeleteWork(t) \in Work
    <3>1. txn[t].status = "approved" => txn[t] \in BillRow
      BY <2>2, RowThere DEF IsThere
    <3> QED BY <3>1, <2>2 DEF DeleteWork, Work, DeleteBill, BillRow
  <2>4. work' \in [Process -> Work]
    BY <2>1, <2>2, <2>3, GotoKeepsType DEF TypeOK
  <2> QED BY <1>4, <2>1, <2>4 DEF TypeOK, CancelNext, tables
<1>5. CASE Tick
  BY <1>5, ExtendBoundAssumption DEF TypeOK, Tick, tables
<1> QED BY <1>1, <1>2, <1>3, <1>4, <1>5

\* The rows of extends and transactions, the requests in flight and the list of
\* the job are well formed, whatever is sent to updateExtend.
THEOREM ExtendTypeCorrect == Spec => []TypeOK
<1>1. TypeOK /\ [Next]_vars => TypeOK'
  <2> SUFFICES ASSUME TypeOK, [Next]_vars PROVE TypeOK'
    OBVIOUS
  <2>1. CASE Next
    BY <2>1, ArriveKeepsType, ContinueKeepsType, RestKeepsType DEF Next
  <2>2. CASE UNCHANGED vars
    BY <2>2 DEF TypeOK, vars, tables
  <2> QED BY <2>1, <2>2
<1> QED BY InitTypeOK, <1>1, PTL DEF Spec

-----------------------------------------------------------------------------
\* What the invariant asks of a piece of work, beyond its shape: P is the set of
\* extends that were paid for, D of those a body said were completed.
Follows(w, P, D) ==
  /\ w.op \in {"settle", "complete"} => w.e \in P
  /\ w.op \in {"insertExtend", "patch", "charge"} => w.row.status # "completed"
  /\ w.op = "patch" => w.put.to # "completed"
  /\ w.op = "save" /\ w.row.status = "completed" => w.e \in D

Paid == {e \in Extend : PaidFor(e)}

LEMMA InductiveIs ==
  TypeOK => (ExtendInductive <=>
               /\ ExtendedHasCause
               /\ \A p \in Process : Follows(work[p], Paid, declared))
<1> SUFFICES ASSUME TypeOK
             PROVE  \A p \in Process :
                      work[p].op \in {"settle", "complete"} => work[p].e \in Extend
  BY DEF ExtendInductive, Follows, Paid
<1>1. \A w \in Work : w.op \in {"settle", "complete"} => w.e \in Extend
  BY WorkFields DEF OnExtend
<1> QED BY <1>1 DEF TypeOK

\* Payments are not forgotten, so work that followed one goes on to.
LEMMA PaidGrows ==
  ASSUME received \subseteq received'
  PROVE  Paid \subseteq Paid'
BY DEF Paid, PaidFor

\* A step of process p keeps the invariant if the work it leaves p follows, and
\* only extends that were paid, or said to be completed, become completed.
LEMMA StepKeepsInductive ==
  ASSUME ExtendInductive, TypeOK', NEW p \in Process, NEW w, Goto(p, w),
         Follows(w, Paid', declared'),
         received \subseteq received', declared \subseteq declared',
         \A e \in Extend : extend'[e].status = "completed"
           => extend[e].status = "completed" \/ e \in Paid' \cup declared'
  PROVE  ExtendInductive'
<1>1. /\ TypeOK /\ ExtendedHasCause
      /\ \A q \in Process : Follows(work[q], Paid, declared)
  BY InductiveIs DEF ExtendInductive
<1>2. Paid \subseteq Paid'
  BY PaidGrows
<1>3. \A q \in Process : Follows(work'[q], Paid', declared')
  <2> SUFFICES ASSUME NEW q \in Process
               PROVE  Follows(work'[q], Paid', declared')
    OBVIOUS
  <2>1. CASE q = p
    BY <2>1, <1>1 DEF Goto, TypeOK
  <2>2. CASE q # p
    <3>1. work'[q] = work[q]
      BY <2>2, <1>1 DEF Goto, TypeOK
    <3> QED BY <3>1, <1>1, <1>2 DEF Follows
  <2> QED BY <2>1, <2>2
<1>4. ExtendedHasCause'
  <2> SUFFICES ASSUME NEW e \in Extend, extend'[e].status = "completed"
               PROVE  e \in Paid' \cup declared'
    BY DEF ExtendedHasCause, Paid
  <2>1. extend[e].status = "completed" => e \in Paid \cup declared
    BY <1>1 DEF ExtendedHasCause, Paid
  <2> QED BY <2>1, <1>2
<1> QED BY <1>3, <1>4 DEF ExtendInductive, Follows, Paid

LEMMA ArriveKeepsInductive ==
  ASSUME ExtendInductive, TypeOK', NEW c \in Call, Arrive(c)
  PROVE  ExtendInductive'
<1>1. ASSUME NEW w, Begin(c, w), Follows(w, Paid', declared'),
             declared \subseteq declared'
      PROVE  ExtendInductive'
  BY <1>1, StepKeepsInductive DEF Begin, tables, Process
<1>2. ASSUME NEW w, Start(c, w), Follows(w, Paid', declared')
      PROVE  ExtendInductive'
  BY <1>1, <1>2 DEF Start
<1>3. ASSUME NEW b \in Booking, NEW m \in Months, CreateExtend(c, b, m)
      PROVE  ExtendInductive'
  BY <1>2, <1>3 DEF CreateExtend, Follows
<1>4. ASSUME NEW e \in Extend, NEW put \in Put, IsThere(extend[e])
      PROVE  With(extend[e], put).status = put.to
  BY <1>4, RowThere, WithIsRow DEF ExtendInductive
<1>5. ASSUME NEW e \in Extend, NEW put \in Put,
             \/ UpdateToPendingContract(c, e, put)
             \/ UpdateToRejected(c, e, put)
             \/ UpdateToPendingSign(c, e, put)
             \/ UpdateToPendingPayment(c, e, put)
      PROVE  ExtendInductive'
  <2>1. IsThere(extend[e]) /\ put.to # "completed"
    BY <1>5 DEF UpdateToPendingContract, UpdateToRejected, UpdateToPendingSign,
                UpdateToPendingPayment, IsThere
  <2>2. PICK w : /\ Start(c, w)
                 /\ w.op \in {"patch", "charge", "save"}
                 /\ w.row = With(extend[e], put)
                 /\ w.op = "patch" => w.put = put
    BY <1>5 DEF UpdateToPendingContract, UpdateToRejected, UpdateToPendingSign,
                UpdateToPendingPayment
  <2>3. Follows(w, Paid', declared')
    BY <2>1, <2>2, <1>4 DEF Follows
  <2> QED BY <2>2, <2>3, <1>2
<1>6. ASSUME NEW e \in Extend, NEW put \in Put, UpdateUnchecked(c, e, put)
      PROVE  ExtendInductive'
  <2> DEFINE w == [op |-> "save", e |-> e, row |-> With(extend[e], put)]
  <2>1. /\ Begin(c, w) /\ With(extend[e], put).status = put.to
        /\ declared \subseteq declared'
        /\ put.to = "completed" => e \in declared'
    BY <1>4, <1>6 DEF UpdateUnchecked
  <2>2. Follows(w, Paid', declared')
    BY <2>1 DEF Follows
  <2> QED BY <2>1, <2>2, <1>1
<1>7. ASSUME NEW t \in Bill, HandleTransactionPayment(c, t)
      PROVE  ExtendInductive'
  BY <1>2, <1>7 DEF HandleTransactionPayment, Follows
<1>8. ASSUME NEW t \in Bill, CancelTransaction(c, t)
      PROVE  ExtendInductive'
  BY <1>2, <1>8 DEF CancelTransaction, DeleteWork, Follows
<1> QED BY <1>3, <1>5, <1>6, <1>7, <1>8 DEF Arrive

LEMMA ContinueKeepsInductive ==
  ASSUME ExtendInductive, TypeOK', NEW p \in Process, Continue(p)
  PROVE  ExtendInductive'
<1>0. /\ TypeOK /\ work[p] \in Work /\ Follows(work[p], Paid, declared)
      /\ Follows(Idle, Paid', declared') /\ declared' = declared
  <2>1. TypeOK
    BY DEF ExtendInductive
  <2>2. work[p] \in Work
    BY <2>1 DEF TypeOK
  <2>3. declared' = declared
    BY DEF Continue, SaveNewExtend, WriteBody, CreateTransaction, WriteExtend,
           AcceptPayment, UpdateExtendToComplete, SetCompleted,
           DeleteTransaction, CancelExtend, DeleteExtend
  <2> QED BY <2>1, <2>2, <2>3, InductiveIs DEF Follows, Idle
<1>1. CASE SaveNewExtend(p)
  <2>1. \A e \in Extend : extend'[e].status = "completed"
          => extend[e].status = "completed"
    BY <1>0, <1>1 DEF SaveNewExtend, Follows, TypeOK
  <2> QED BY <1>0, <1>1, <2>1, StepKeepsInductive DEF SaveNewExtend
<1>2. CASE WriteBody(p)
  <2> DEFINE w == [op |-> "save", e |-> work[p].e, row |-> work[p].row]
  <2>1. Follows(w, Paid', declared') /\ Goto(p, w)
    BY <1>0, <1>2 DEF Follows, WriteBody
  <2>2. /\ work[p].e \in Extend /\ work[p].put \in Put
        /\ work[p].put.to # "completed"
    BY <1>0, <1>2, WorkFields DEF WriteBody, PatchExtend, Follows
  <2>3. IsThere(extend[work[p].e])
          => With(extend[work[p].e], work[p].put).status = work[p].put.to
    BY <1>0, <2>2, RowThere, WithIsRow
  <2>4. \A e \in Extend : extend'[e].status = "completed"
          => extend[e].status = "completed"
    BY <1>0, <1>2, <2>2, <2>3 DEF WriteBody, TypeOK
  <2>5. received' = received
    BY <1>2 DEF WriteBody
  <2> HIDE DEF w
  <2> QED BY <1>0, <2>1, <2>4, <2>5, StepKeepsInductive
<1>3. CASE CreateTransaction(p)
  <2> DEFINE w == [op |-> "save", e |-> work[p].e, row |-> work[p].row]
  <2>1. Follows(w, Paid', declared')
    BY <1>0, <1>3 DEF Follows, CreateTransaction
  <2>2. extend' = extend /\ received' = received
    BY <1>3 DEF CreateTransaction
  <2>3. Goto(p, w) \/ Goto(p, Idle)
    BY <1>3 DEF CreateTransaction
  <2> HIDE DEF w
  <2> QED BY <1>0, <2>1, <2>2, <2>3, StepKeepsInductive
<1>4. CASE WriteExtend(p)
  <2>1. /\ work[p].e \in Extend
        /\ work[p].row.status = "completed" => work[p].e \in declared
    BY <1>0, <1>4, WorkFields DEF WriteExtend, SaveExtend, Follows
  <2>2. \A e \in Extend : extend'[e].status = "completed"
          => extend[e].status = "completed" \/ e \in declared
    BY <1>0, <1>4, <2>1 DEF WriteExtend, TypeOK
  <2> QED BY <1>0, <1>4, <2>2, StepKeepsInductive DEF WriteExtend
<1>5. CASE AcceptPayment(p)
  <2> DEFINE e == work[p].row.extend
             r == [bill |-> work[p].t, extend |-> e,
                   amount |-> work[p].row.amount]
  <2>1. e \in Extend
    BY <1>0, <1>5, WorkFields DEF AcceptPayment, Payments, BillRow
  <2>2. extend' = extend /\ received \subseteq received'
    BY <1>5 DEF AcceptPayment
  <2>3. CASE Goto(p, Idle)
    BY <1>0, <2>2, <2>3, StepKeepsInductive
  <2>4. CASE Goto(p, [op |-> "settle", e |-> e]) /\ received' = received \cup {r}
    <3>1. r \in received' /\ r.extend = e
      BY <2>4
    <3>2. e \in Paid'
      BY <2>1, <3>1 DEF Paid, PaidFor
    <3>3. Follows([op |-> "settle", e |-> e], Paid', declared')
      BY <3>2 DEF Follows
    <3> HIDE DEF e, r
    <3> QED BY <1>0, <2>2, <2>4, <3>3, StepKeepsInductive
  <2> QED BY <1>5, <2>3, <2>4 DEF AcceptPayment
<1>6. CASE UpdateExtendToComplete(p)
  <2>1. work[p].e \in Paid
    BY <1>0, <1>6 DEF UpdateExtendToComplete, Follows
  <2>2. extend' = extend /\ received' = received
    BY <1>6 DEF UpdateExtendToComplete, tables
  <2>3. Follows([op |-> "complete", e |-> work[p].e], Paid', declared')
    BY <2>1, <2>2, PaidGrows DEF Follows
  <2>4. PICK w : Goto(p, w) /\ Follows(w, Paid', declared')
    BY <1>0, <1>6, <2>3 DEF UpdateExtendToComplete
  <2> QED BY <1>0, <2>2, <2>4, StepKeepsInductive
<1>7. CASE SetCompleted(p)
  <2>1. work[p].e \in Paid /\ received' = received /\ Goto(p, Idle)
    BY <1>0, <1>7 DEF SetCompleted, Follows
  <2>2. \A e \in Extend : extend'[e].status = "completed"
          => extend[e].status = "completed" \/ e = work[p].e
    BY <1>0, <1>7 DEF SetCompleted, TypeOK
  <2> QED BY <1>0, <2>1, <2>2, PaidGrows, StepKeepsInductive
<1>8. CASE DeleteTransaction(p)
  <2>1. Follows([op |-> "seek", e |-> work[p].e], Paid', declared')
    BY DEF Follows
  <2> QED BY <1>0, <1>8, <2>1, StepKeepsInductive DEF DeleteTransaction
<1>9. CASE CancelExtend(p)
  <2>1. Follows([op |-> "deleteExtend", e |-> work[p].e], Paid', declared')
    BY DEF Follows
  <2>2. PICK w : Goto(p, w) /\ Follows(w, Paid', declared')
    BY <1>0, <1>9, <2>1 DEF CancelExtend
  <2> QED BY <1>0, <1>9, <2>2, StepKeepsInductive DEF CancelExtend, tables
<1>10. CASE DeleteExtend(p)
  <2>1. \A e \in Extend : extend'[e].status = "completed"
          => extend[e].status = "completed"
    BY <1>0, <1>10 DEF DeleteExtend, TypeOK, Gone
  <2> QED BY <1>0, <1>10, <2>1, StepKeepsInductive DEF DeleteExtend
<1> QED BY <1>1, <1>2, <1>3, <1>4, <1>5, <1>6, <1>7, <1>8, <1>9, <1>10
        DEF Continue

LEMMA RestKeepsInductive ==
  ASSUME ExtendInductive, TypeOK',
         \/ \E b \in Booking : \/ CreateBooking(b) \/ BookingPaid(b)
                               \/ BookingExpired(b) \/ BookingReported(b)
         \/ \E p \in Process : Fail(p)
         \/ CheckTransactionIsExpired \/ CancelNext
         \/ Tick
  PROVE  ExtendInductive'
<1>1. Follows(Idle, Paid', declared')
  BY DEF Follows, Idle
<1>2. extend' = extend /\ received' = received /\ declared' = declared
  BY DEF CreateBooking, BookingPaid, BookingExpired, BookingReported, SetBooking,
         Fail, CheckTransactionIsExpired, CancelNext, Tick, tables
<1>3. ASSUME NEW p \in Process, Fail(p)
      PROVE  ExtendInductive'
  BY <1>1, <1>2, <1>3, StepKeepsInductive DEF Fail
<1>4. CASE UNCHANGED work
  BY <1>2, <1>4 DEF ExtendInductive, ExtendedHasCause, PaidFor
<1>5. ASSUME NEW t \in Bill, Goto(Job, DeleteWork(t))
      PROVE  ExtendInductive'
  <2>1. Follows(DeleteWork(t), Paid', declared')
    BY DEF Follows, DeleteWork
  <2> QED BY <1>2, <1>5, <2>1, StepKeepsInductive DEF Process
<1>6. CASE CancelNext
  <2>1. todo \subseteq Bill
    BY DEF ExtendInductive, TypeOK
  <2> QED BY <1>4, <1>5, <1>6, <2>1 DEF CancelNext
<1> QED BY <1>3, <1>4, <1>6
        DEF CreateBooking, BookingPaid, BookingExpired, BookingReported,
            SetBooking, CheckTransactionIsExpired, Tick

\* Whatever is sent to updateExtend, what is in flight only completes extends that
\* were paid or that a body said were completed, though rows are canceled,
\* deleted and saved again under it.
THEOREM ExtendInductiveHolds == Spec => []ExtendInductive
<1>1. Init => ExtendInductive
  <2> SUFFICES ASSUME Init PROVE ExtendInductive
    OBVIOUS
  <2>1. ExtendedHasCause
    BY DEF Init, ExtendedHasCause, Absent
  <2>2. \A p \in Process : work[p] = Idle
    BY DEF Init
  <2> QED BY <2>1, <2>2, InitTypeOK DEF ExtendInductive, Idle
<1>2. ExtendInductive /\ TypeOK' /\ [Next]_vars => ExtendInductive'
  <2> SUFFICES ASSUME ExtendInductive, TypeOK', [Next]_vars
               PROVE  ExtendInductive'
    OBVIOUS
  <2>1. CASE Next
    BY <2>1, ArriveKeepsInductive, ContinueKeepsInductive, RestKeepsInductive
       DEF Next
  <2>2. CASE UNCHANGED vars
    BY <2>2 DEF vars, tables, ExtendInductive, ExtendedHasCause, PaidFor
  <2> QED BY <2>1, <2>2
<1> QED BY ExtendTypeCorrect, <1>1, <1>2, PTL DEF Spec

\* A rental is extended by a payment or by a body of updateExtend that says so,
\* and by nothing else, however requests, cancellations and the job interleave and
\* fail.
THEOREM ExtendedHasCauseHolds == Spec => []ExtendedHasCause
<1>1. ExtendInductive => ExtendedHasCause
  BY DEF ExtendInductive
<1> QED BY ExtendInductiveHolds, <1>1, PTL

-----------------------------------------------------------------------------
\* One request at a time, and only the statuses updateExtend has a branch for.
FollowsBranches ==
  \A put \in Put : put.to \in {"pending_contract", "rejected", "pending_sign",
                               "pending_payment"}

ActiveStatus == {"pending", "pending_contract", "pending_sign",
                 "pending_payment"}

OneAtATime ==
  /\ \A p, q \in Process : work[p] # Idle /\ work[q] # Idle => p = q
  /\ todo # {} => \A c \in Call : work[c] = Idle

\* What work in flight may rely on, in a table ext of extends nobody else writes:
\* the extend is the one that was read, and what createExtend looked for is
\* still not there.
Safe(w, ext) ==
  /\ w.op = "insertExtend" =>
       \A e \in Extend : ext[e].status \in ActiveStatus
                           => ext[e].booking # w.row.booking
  /\ w.op \in {"patch", "charge", "save"} =>
       /\ ext[w.e].status \notin {"none", "gone", "completed"}
       /\ ext[w.e].booking = w.row.booking
       /\ w.row.status \in ActiveStatus => ext[w.e].status \in ActiveStatus
  /\ w.op = "patch" => w.row.status = w.put.to
  /\ w.op = "deleteExtend" => ext[w.e].status = "pending_payment"

SerialInv == /\ OneAtATime
             /\ OneExtendInHand
             /\ \A p \in Process : Safe(work[p], extend)

LEMMA IdleIsSafe == Safe(Idle, extend')
BY DEF Safe, Idle

\* A step of the only process that is busy, which leaves it the work w.
LEMMA StepKeepsSerial ==
  ASSUME TypeOK, OneAtATime, NEW p \in Process, work[p] # Idle, NEW w,
         Goto(p, w), todo' = todo, Safe(w, extend'), OneExtendInHand'
  PROVE  SerialInv'
<1>1. \A q \in Process \ {p} : work'[q] = Idle
  BY DEF OneAtATime, Goto, TypeOK
<1>2. work'[p] = w
  BY DEF Goto, TypeOK
<1>3. OneAtATime'
  BY <1>1 DEF OneAtATime, Process
<1>4. \A q \in Process : Safe(work'[q], extend')
  BY <1>1, <1>2, IdleIsSafe
<1> QED BY <1>3, <1>4 DEF SerialInv

\* A request that starts when nothing is in flight.
LEMMA StartKeepsSerial ==
  ASSUME TypeOK, SerialInv, Serial, NEW c \in Call, NEW w, Start(c, w),
         Safe(w, extend)
  PROVE  SerialInv'
<1>1. /\ Quiet /\ Goto(c, w) /\ todo' = todo /\ extend' = extend
      /\ c \in Process
  BY DEF Start, Begin, MayStart, tables, Process
<1>2. \A q \in Process \ {c} : work'[q] = Idle
  BY <1>1 DEF Quiet, Goto, TypeOK
<1>3. work'[c] = w
  BY <1>1 DEF Goto, TypeOK
<1>4. OneAtATime'
  BY <1>1, <1>2 DEF OneAtATime, Quiet
<1>5. OneExtendInHand'
  BY <1>1 DEF SerialInv, OneExtendInHand, Active
<1>6. \A q \in Process : Safe(work'[q], extend')
  BY <1>1, <1>2, <1>3, IdleIsSafe
<1> QED BY <1>4, <1>5, <1>6 DEF SerialInv

LEMMA ArriveKeepsSerial ==
  ASSUME TypeOK, SerialInv, Serial, FollowsBranches, NEW c \in Call, Arrive(c)
  PROVE  SerialInv'
<1>1. ASSUME NEW b \in Booking, NEW m \in Months, CreateExtend(c, b, m)
      PROVE  SerialInv'
  <2> DEFINE w == [op |-> "insertExtend",
                   row |-> [status |-> "pending_contract", booking |-> b,
                            months |-> m]]
  <2>1. \A e \in Extend : extend[e].status \in ActiveStatus
                            => extend[e].booking # b
    BY <1>1 DEF CreateExtend, ExtendsOf, Active, ActiveStatus, IsThere
  <2>2. Safe(w, extend)
    BY <2>1 DEF Safe
  <2>3. Start(c, w)
    BY <1>1 DEF CreateExtend
  <2> HIDE DEF w
  <2> QED BY <2>2, <2>3, StartKeepsSerial
<1>2. ASSUME NEW e \in Extend, NEW put \in Put,
             \/ UpdateToPendingContract(c, e, put)
             \/ UpdateToRejected(c, e, put)
             \/ UpdateToPendingSign(c, e, put)
             \/ UpdateToPendingPayment(c, e, put)
             \/ UpdateUnchecked(c, e, put)
      PROVE  SerialInv'
  <2>1. ~UpdateUnchecked(c, e, put)
    BY DEF FollowsBranches, UpdateUnchecked
  <2>2. extend[e].status \in ActiveStatus
    BY <1>2, <2>1 DEF UpdateToPendingContract, UpdateToRejected,
         UpdateToPendingSign, UpdateToPendingPayment, ActiveStatus
  <2>3. extend[e] \in ExtendRow
    BY <2>2, RowThere DEF IsThere, ActiveStatus
  <2>4. /\ With(extend[e], put).booking = extend[e].booking
        /\ With(extend[e], put).status = put.to
    BY <2>3 DEF With, ExtendRow
  <2>5. PICK w : /\ Start(c, w)
                 /\ w.op \in {"patch", "charge", "save"} /\ w.e = e
                 /\ w.row = With(extend[e], put)
                 /\ w.op = "patch" => w.put = put
    BY <1>2, <2>1 DEF UpdateToPendingContract, UpdateToRejected,
         UpdateToPendingSign, UpdateToPendingPayment
  <2>6. Safe(w, extend)
    BY <2>2, <2>4, <2>5 DEF Safe, ActiveStatus
  <2> QED BY <2>5, <2>6, StartKeepsSerial
<1>3. ASSUME NEW t \in Bill, HandleTransactionPayment(c, t)
      PROVE  SerialInv'
  BY <1>3, StartKeepsSerial DEF HandleTransactionPayment, Safe
<1>4. ASSUME NEW t \in Bill, CancelTransaction(c, t)
      PROVE  SerialInv'
  BY <1>4, StartKeepsSerial DEF CancelTransaction, DeleteWork, Safe
<1> QED BY <1>1, <1>2, <1>3, <1>4 DEF Arrive

\* The extend p writes is alone in hand: no write of its row with the same
\* booking, active only if the row was, makes a second one.
LEMMA OneRowKeepsOneInHand ==
  ASSUME TypeOK, TypeOK', OneExtendInHand, NEW e \in Extend,
         \A x \in Extend \ {e} : extend'[x] = extend[x],
         extend'[e].status \in ActiveStatus
           => /\ extend[e].status \in ActiveStatus
              /\ extend'[e].booking = extend[e].booking
  PROVE  OneExtendInHand'
BY DEF OneExtendInHand, Active, ActiveStatus

LEMMA ContinueKeepsSerial ==
  ASSUME TypeOK, TypeOK', SerialInv, FollowsBranches,
         NEW p \in Process, Continue(p)
  PROVE  /\ SerialInv'
         /\ \A e \in Extend : extend[e].status = "completed"
                                => extend'[e] = extend[e]
<1>0. /\ work[p] \in Work /\ Safe(work[p], extend) /\ OneAtATime
      /\ OneExtendInHand
  BY DEF TypeOK, SerialInv
<1>a. work[p] # Idle /\ todo' = todo
  BY DEF Continue, Idle, SaveNewExtend, WriteBody, CreateTransaction,
         WriteExtend, AcceptPayment, UpdateExtendToComplete, SetCompleted,
         DeleteTransaction, CancelExtend, DeleteExtend, tables
<1>b. ASSUME NEW w, Goto(p, w), Safe(w, extend'), OneExtendInHand'
      PROVE  SerialInv'
  BY <1>0, <1>a, <1>b, StepKeepsSerial
<1>c. ASSUME extend' = extend
      PROVE  OneExtendInHand'
  BY <1>0, <1>c DEF OneExtendInHand, Active
<1>1. CASE SaveNewExtend(p)
  <2>1. PICK e \in Extend : extend[e] = Absent
                            /\ extend' = [extend EXCEPT ![e] = work[p].row]
    BY <1>1 DEF SaveNewExtend
  <2>2. /\ extend'[e] = work[p].row
        /\ \A x \in Extend \ {e} : extend'[x] = extend[x]
    BY <2>1 DEF TypeOK
  <2>3. \A x \in Extend : extend[x].status \in ActiveStatus
                            => extend[x].booking # work[p].row.booking
    BY <1>0, <1>1 DEF Safe, SaveNewExtend
  <2>4. OneExtendInHand'
    BY <1>0, <2>2, <2>3 DEF OneExtendInHand, Active, ActiveStatus
  <2>5. SerialInv'
    BY <1>1, <1>b, <2>4, IdleIsSafe DEF SaveNewExtend
  <2> QED BY <2>1, <2>2, <2>5 DEF Absent
<1>2. CASE WriteBody(p)
  <2> DEFINE e == work[p].e
             w == [op |-> "save", e |-> e, row |-> work[p].row]
  <2>1. e \in Extend /\ work[p].put \in Put
    BY <1>0, <1>2, WorkFields DEF WriteBody, PatchExtend
  <2>2. /\ extend[e].status \notin {"none", "gone", "completed"}
        /\ extend[e].booking = work[p].row.booking
        /\ work[p].row.status \in ActiveStatus
             => extend[e].status \in ActiveStatus
        /\ work[p].row.status = work[p].put.to
    BY <1>0, <1>2 DEF Safe, WriteBody
  <2>3. extend[e] \in ExtendRow
    BY <2>1, <2>2, RowThere DEF IsThere
  <2>4. /\ extend'[e].status = work[p].put.to
        /\ extend'[e].booking = extend[e].booking
        /\ \A x \in Extend \ {e} : extend'[x] = extend[x]
    BY <1>2, <2>1, <2>2, <2>3 DEF WriteBody, IsThere, With, TypeOK, ExtendRow
  <2>5. OneExtendInHand'
    BY <1>0, <2>1, <2>2, <2>4, OneRowKeepsOneInHand
  <2>6. Safe(w, extend')
    BY <2>1, <2>2, <2>4 DEF Safe, FollowsBranches
  <2>7. Goto(p, w)
    BY <1>2 DEF WriteBody
  <2> HIDE DEF w
  <2>8. SerialInv'
    BY <1>b, <2>5, <2>6, <2>7
  <2> QED BY <2>2, <2>4, <2>8
<1>3. CASE CreateTransaction(p)
  <2>1. extend' = extend /\ OneExtendInHand'
    BY <1>3, <1>c DEF CreateTransaction
  <2>2. Safe([op |-> "save", e |-> work[p].e, row |-> work[p].row], extend')
    BY <1>0, <1>3, <2>1 DEF Safe, CreateTransaction
  <2>3. PICK w : Goto(p, w) /\ Safe(w, extend')
    BY <1>3, <2>2, IdleIsSafe DEF CreateTransaction
  <2> QED BY <1>b, <2>1, <2>3
<1>4. CASE WriteExtend(p)
  <2> DEFINE e == work[p].e
  <2>1. e \in Extend
    BY <1>0, <1>4, WorkFields DEF WriteExtend, SaveExtend
  <2>2. /\ extend'[e] = work[p].row
        /\ \A x \in Extend \ {e} : extend'[x] = extend[x]
    BY <1>4, <2>1 DEF WriteExtend, TypeOK
  <2>3. /\ extend[e].status # "completed"
        /\ extend[e].booking = work[p].row.booking
        /\ work[p].row.status \in ActiveStatus
             => extend[e].status \in ActiveStatus
    BY <1>0, <1>4 DEF Safe, WriteExtend
  <2>4. OneExtendInHand'
    BY <1>0, <2>1, <2>2, <2>3, OneRowKeepsOneInHand
  <2>5. SerialInv'
    BY <1>4, <1>b, <2>4, IdleIsSafe DEF WriteExtend
  <2> QED BY <2>2, <2>3, <2>5
<1>5. CASE AcceptPayment(p)
  <2>1. extend' = extend /\ OneExtendInHand'
    BY <1>5, <1>c DEF AcceptPayment
  <2>2. Safe([op |-> "settle", e |-> work[p].row.extend], extend')
    BY DEF Safe
  <2>3. PICK w : Goto(p, w) /\ Safe(w, extend')
    BY <1>5, <2>2, IdleIsSafe DEF AcceptPayment
  <2> QED BY <1>b, <2>1, <2>3
<1>6. CASE UpdateExtendToComplete(p)
  <2>1. extend' = extend /\ OneExtendInHand'
    BY <1>6, <1>c DEF UpdateExtendToComplete, tables
  <2>2. Safe([op |-> "complete", e |-> work[p].e], extend')
    BY DEF Safe
  <2>3. PICK w : Goto(p, w) /\ Safe(w, extend')
    BY <1>6, <2>2, IdleIsSafe DEF UpdateExtendToComplete
  <2> QED BY <1>b, <2>1, <2>3
<1>7. CASE SetCompleted(p)
  <2> DEFINE e == work[p].e
  <2>1. e \in Extend
    BY <1>0, <1>7, WorkFields DEF SetCompleted, OnExtend
  <2>2. /\ \A x \in Extend \ {e} : extend'[x] = extend[x]
        /\ IsThere(extend[e])
             => extend'[e] = [extend[e] EXCEPT !.status = "completed"]
        /\ ~IsThere(extend[e]) => extend'[e] = extend[e]
    BY <1>7, <2>1 DEF SetCompleted, TypeOK
  <2>3. IsThere(extend[e]) => extend[e] \in ExtendRow
    BY <2>1, RowThere
  <2>4. extend'[e].status \notin ActiveStatus
    BY <2>2, <2>3 DEF ExtendRow, ActiveStatus, IsThere
  <2>5. OneExtendInHand'
    BY <1>0, <2>1, <2>2, <2>4, OneRowKeepsOneInHand
  <2>6. SerialInv'
    BY <1>7, <1>b, <2>5, IdleIsSafe DEF SetCompleted
  <2>7. extend[e].status = "completed" => extend'[e] = extend[e]
    BY <2>2, <2>3 DEF ExtendRow
  <2> QED BY <2>2, <2>6, <2>7
<1>8. CASE DeleteTransaction(p)
  <2>1. extend' = extend /\ OneExtendInHand'
    BY <1>8, <1>c DEF DeleteTransaction
  <2>2. Safe([op |-> "seek", e |-> work[p].e], extend')
    BY DEF Safe
  <2> QED BY <1>8, <1>b, <2>1, <2>2 DEF DeleteTransaction
<1>9. CASE CancelExtend(p)
  <2>1. extend' = extend /\ OneExtendInHand'
    BY <1>9, <1>c DEF CancelExtend, tables
  <2>2. extend[work[p].e].status = "pending_payment"
          => Safe([op |-> "deleteExtend", e |-> work[p].e], extend')
    BY <2>1 DEF Safe
  <2>3. PICK w : Goto(p, w) /\ Safe(w, extend')
    BY <1>9, <2>2, IdleIsSafe DEF CancelExtend
  <2> QED BY <1>b, <2>1, <2>3
<1>10. CASE DeleteExtend(p)
  <2> DEFINE e == work[p].e
  <2>1. e \in Extend /\ extend[e].status = "pending_payment"
    BY <1>0, <1>10, WorkFields DEF DeleteExtend, OnExtend, Safe
  <2>2. /\ \A x \in Extend \ {e} : extend'[x] = extend[x]
        /\ extend'[e] \in {extend[e], Gone}
    BY <1>10, <2>1 DEF DeleteExtend, TypeOK
  <2>3. OneExtendInHand'
    BY <1>0, <2>1, <2>2, OneRowKeepsOneInHand DEF Gone, ActiveStatus
  <2>4. SerialInv'
    BY <1>10, <1>b, <2>3, IdleIsSafe DEF DeleteExtend
  <2> QED BY <2>1, <2>2, <2>4
<1> QED BY <1>1, <1>2, <1>3, <1>4, <1>5, <1>6, <1>7, <1>8, <1>9, <1>10
        DEF Continue

LEMMA RestKeepsSerial ==
  ASSUME TypeOK, SerialInv, Serial,
         \/ \E b \in Booking : \/ CreateBooking(b) \/ BookingPaid(b)
                               \/ BookingExpired(b) \/ BookingReported(b)
         \/ \E p \in Process : Fail(p)
         \/ CheckTransactionIsExpired \/ CancelNext
         \/ Tick
  PROVE  SerialInv' /\ extend' = extend
<1>1. extend' = extend
  BY DEF CreateBooking, BookingPaid, BookingExpired, BookingReported, SetBooking,
         Fail, CheckTransactionIsExpired, CancelNext, Tick, tables
<1>2. OneExtendInHand'
  BY <1>1 DEF SerialInv, OneExtendInHand, Active
<1>3. SUFFICES OneAtATime' /\ \A q \in Process : Safe(work'[q], extend')
  BY <1>1, <1>2 DEF SerialInv
<1>4. CASE UNCHANGED <<work, todo>>
  BY <1>1, <1>4 DEF SerialInv, OneAtATime
<1>5. ASSUME NEW p \in Process, Fail(p)
      PROVE  OneAtATime' /\ \A q \in Process : Safe(work'[q], extend')
  <2>1. /\ \A q \in Process : work'[q] \in {work[q], Idle}
        /\ todo' \in {todo, {}}
    BY <1>5 DEF Fail, Goto, TypeOK
  <2>2. OneAtATime'
    BY <2>1 DEF SerialInv, OneAtATime, Process
  <2> QED BY <1>1, <2>1, <2>2, IdleIsSafe DEF SerialInv
<1>6. CASE CheckTransactionIsExpired
  <2>1. work' = work /\ \A q \in Process : work[q] = Idle
    BY <1>6 DEF CheckTransactionIsExpired, MayStart, Quiet
  <2> QED BY <1>1, <2>1, IdleIsSafe DEF OneAtATime, Process
<1>7. CASE CancelNext
  <2>1. \A q \in Process : work[q] = Idle
    BY <1>7 DEF CancelNext, SerialInv, OneAtATime, Process
  <2>2. PICK t \in todo :
          IF txn[t].status = "approved"
          THEN todo' = todo \ {t} /\ Goto(Job, DeleteWork(t))
          ELSE todo' = {} /\ UNCHANGED work
    BY <1>7 DEF CancelNext
  <2>3. Safe(DeleteWork(t), extend')
    BY DEF Safe, DeleteWork
  <2>4. /\ \A c \in Call : work'[c] = Idle
        /\ work'[Job] \in {Idle, DeleteWork(t)}
    BY <2>1, <2>2, JobAssumption DEF Goto, TypeOK, Process
  <2>5. OneAtATime'
    BY <2>4 DEF OneAtATime, Process
  <2> QED BY <2>3, <2>4, <2>5, IdleIsSafe DEF Process
<1> QED BY <1>4, <1>5, <1>6, <1>7
        DEF CreateBooking, BookingPaid, BookingExpired, BookingReported,
            SetBooking, Tick

LEMMA InitSerialInv == Init => SerialInv
<1> SUFFICES ASSUME Init PROVE SerialInv
  OBVIOUS
<1>1. OneExtendInHand
  BY DEF Init, OneExtendInHand, Active, Absent
<1>2. \A p \in Process : work[p] = Idle
  BY DEF Init
<1>3. \A p \in Process : Safe(work[p], extend)
  BY <1>2 DEF Safe, Idle
<1>4. OneAtATime
  BY <1>2 DEF OneAtATime, Init
<1> QED BY <1>1, <1>3, <1>4 DEF SerialInv

LEMMA NextKeepsSerial ==
  ASSUME TypeOK, TypeOK', SerialInv, Serial, FollowsBranches, [Next]_vars
  PROVE  /\ SerialInv'
         /\ \A e \in Extend : extend[e].status = "completed"
                                => extend'[e] = extend[e]
<1>1. ASSUME NEW c \in Call, Arrive(c)
      PROVE  SerialInv' /\ extend' = extend
  <2>1. extend' = extend
    BY <1>1 DEF Arrive, CreateExtend, UpdateToPendingContract, UpdateToRejected,
         UpdateToPendingSign, UpdateToPendingPayment, UpdateUnchecked,
         HandleTransactionPayment, CancelTransaction, Start, Begin, tables
  <2> QED BY <1>1, <2>1, ArriveKeepsSerial
<1>2. CASE UNCHANGED vars
  BY <1>2 DEF vars, tables, SerialInv, OneAtATime, OneExtendInHand, Active
<1> QED BY <1>1, <1>2, ContinueKeepsSerial, RestKeepsSerial DEF Next

\* When requests do not overlap and the statuses follow the branches, a booking
\* never has two extends in hand, for any number of them and whatever fails.
THEOREM OneExtendAtATime ==
  ASSUME Serial, FollowsBranches
  PROVE  Spec => []OneExtendInHand
<1>1. TypeOK /\ TypeOK' /\ SerialInv /\ [Next]_vars => SerialInv'
  BY NextKeepsSerial
<1>2. SerialInv => OneExtendInHand
  BY DEF SerialInv
<1> QED BY ExtendTypeCorrect, InitSerialInv, <1>1, <1>2, PTL DEF Spec

\* When requests do not overlap and the statuses follow the branches, nothing
\* undoes or changes a completed extend.
THEOREM CompletedIsFinal ==
  ASSUME Serial, FollowsBranches
  PROVE  Spec => CompletedStays
<1>1. TypeOK /\ TypeOK' /\ SerialInv /\ [Next]_vars
        => SerialInv' /\ [\A e \in Extend : extend[e].status = "completed"
                                              => extend'[e] = extend[e]]_vars
  BY NextKeepsSerial
<1> QED BY ExtendTypeCorrect, InitSerialInv, <1>1, PTL DEF Spec, CompletedStays

-----------------------------------------------------------------------------
\* Where an extend is while work on it is in flight, in the tables ext and tx
\* nobody else writes.
Course(w, ext, tx) ==
  /\ w.op = "charge" => /\ ext[w.e].status = "pending_sign"
                        /\ w.row.status = "pending_payment"
  /\ w.op = "patch" => /\ ext[w.e].status \in {"pending", "pending_contract"}
                       /\ w.put.to \in {"pending_contract", "rejected"}
  /\ w.op = "save" =>
       \/ /\ ext[w.e].status \in {"pending", "pending_contract", "rejected"}
          /\ w.row.status \in {"pending_contract", "rejected", "pending_sign"}
       \/ /\ ext[w.e].status = "pending_sign"
          /\ w.row.status = "pending_payment"
  /\ w.op = "insertExtend" => w.row.status = "pending_contract"
  /\ w.op = "accept" => /\ tx[w.t].status = "approved"
                        /\ w.row = [tx[w.t] EXCEPT !.status = "succeed"]
  /\ w.op = "deleteBill" => /\ tx[w.t].status = "approved"
                            /\ tx[w.t].extend = w.e

CourseInv == \A p \in Process : Course(work[p], extend, txn)


LEMMA OnlyOneMoves ==
  ASSUME TypeOK, OneAtATime, NEW p \in Process, work[p] # Idle, NEW w, Goto(p, w)
  PROVE  work'[p] = w /\ \A q \in Process \ {p} : work'[q] = Idle
BY DEF OneAtATime, Goto, TypeOK

LEMMA IdleKeepsCourse == \A ext, tx : Course(Idle, ext, tx)
BY DEF Course, Idle

\* The work that is left by a step of the only process that is busy.
LEMMA StepKeepsCourse ==
  ASSUME TypeOK, OneAtATime, NEW p \in Process, work[p] # Idle, NEW w,
         Goto(p, w), Course(w, extend', txn')
  PROVE  CourseInv'
<1>1. work'[p] = w /\ \A q \in Process \ {p} : work'[q] = Idle
  BY OnlyOneMoves
<1>2. ASSUME NEW q \in Process PROVE Course(work'[q], extend', txn')
  BY <1>1, IdleKeepsCourse
<1> QED BY <1>2 DEF CourseInv

LEMMA StartKeepsCourse ==
  ASSUME TypeOK, CourseInv, NEW c \in Call, NEW w, Start(c, w), Course(w, extend, txn)
  PROVE  CourseInv'
<1>1. /\ extend' = extend /\ txn' = txn /\ work'[c] = w
      /\ \A q \in Process \ {c} : work'[q] = work[q]
  BY DEF Start, Begin, Goto, tables, TypeOK, Process
<1>2. ASSUME NEW q \in Process PROVE Course(work'[q], extend', txn')
  BY <1>1 DEF CourseInv
<1> QED BY <1>2 DEF CourseInv

LEMMA ArriveKeepsCourse ==
  ASSUME TypeOK, CourseInv, FollowsBranches, NEW c \in Call, Arrive(c)
  PROVE  CourseInv'
<1>1. ASSUME NEW b \in Booking, NEW m \in Months, CreateExtend(c, b, m)
      PROVE  CourseInv'
  BY <1>1, StartKeepsCourse DEF CreateExtend, Course
<1>2. ASSUME NEW e \in Extend, NEW put \in Put,
             \/ UpdateToPendingContract(c, e, put)
             \/ UpdateToRejected(c, e, put)
             \/ UpdateToPendingSign(c, e, put)
             \/ UpdateToPendingPayment(c, e, put)
             \/ UpdateUnchecked(c, e, put)
      PROVE  CourseInv'
  <2>1. ~UpdateUnchecked(c, e, put)
    BY DEF FollowsBranches, UpdateUnchecked
  <2>2. IsThere(extend[e])
    BY <1>2, <2>1 DEF UpdateToPendingContract, UpdateToRejected,
         UpdateToPendingSign, UpdateToPendingPayment, IsThere
  <2>3. extend[e] \in ExtendRow
    BY <2>2, RowThere
  <2>4. With(extend[e], put).status = put.to
    BY <2>3, WithIsRow
  <2>5. PICK w : /\ Start(c, w)
                 /\ w.e = e /\ w.row = With(extend[e], put)
                 /\ \/ /\ w.op = "patch" /\ w.put = put
                       /\ extend[e].status \in {"pending", "pending_contract"}
                       /\ put.to \in {"pending_contract", "rejected"}
                    \/ /\ w.op = "charge" /\ put.to = "pending_payment"
                       /\ extend[e].status = "pending_sign"
                    \/ /\ w.op = "save" /\ put.to = "pending_sign"
                       /\ extend[e].status = "pending_contract"
    BY <1>2, <2>1 DEF UpdateToPendingContract, UpdateToRejected,
         UpdateToPendingSign, UpdateToPendingPayment
  <2>6. Course(w, extend, txn)
    BY <2>4, <2>5 DEF Course
  <2> QED BY <2>5, <2>6, StartKeepsCourse
<1>3. ASSUME NEW t \in Bill, HandleTransactionPayment(c, t)
      PROVE  CourseInv'
  BY <1>3, StartKeepsCourse DEF HandleTransactionPayment, Course
<1>4. ASSUME NEW t \in Bill, CancelTransaction(c, t)
      PROVE  CourseInv'
  BY <1>4, StartKeepsCourse DEF CancelTransaction, DeleteWork, Course
<1> QED BY <1>1, <1>2, <1>3, <1>4 DEF Arrive

LEMMA ContinueIsBusy ==
  ASSUME NEW p \in Process, Continue(p)
  PROVE  work[p] # Idle /\ todo' = todo
BY DEF Continue, Idle, SaveNewExtend, WriteBody, CreateTransaction,
       WriteExtend, AcceptPayment, UpdateExtendToComplete, SetCompleted,
       DeleteTransaction, CancelExtend, DeleteExtend, tables

LEMMA ContinueKeepsCourse ==
  ASSUME TypeOK, SerialInv, CourseInv, NEW p \in Process, Continue(p)
  PROVE  CourseInv'
<1>0. /\ work[p] \in Work /\ Course(work[p], extend, txn)
      /\ OneAtATime /\ work[p] # Idle
  BY ContinueIsBusy DEF TypeOK, SerialInv, CourseInv
<1>1. SUFFICES \E w : Goto(p, w) /\ Course(w, extend', txn')
  BY <1>0, StepKeepsCourse
<1>2. CASE \/ SaveNewExtend(p) \/ WriteExtend(p) \/ SetCompleted(p)
           \/ DeleteExtend(p)
  BY <1>2, IdleKeepsCourse
     DEF SaveNewExtend, WriteExtend, SetCompleted, DeleteExtend
<1>3. CASE WriteBody(p)
  <2> DEFINE e == work[p].e
             w == [op |-> "save", e |-> e, row |-> work[p].row]
  <2>1. e \in Extend /\ work[p].put \in Put
    BY <1>0, <1>3, WorkFields DEF WriteBody, PatchExtend
  <2>2. /\ extend[e].status \in {"pending", "pending_contract"}
        /\ work[p].put.to \in {"pending_contract", "rejected"}
        /\ work[p].row.status = work[p].put.to
    BY <1>0, <1>3 DEF Course, Safe, SerialInv, WriteBody
  <2>3. extend[e] \in ExtendRow /\ IsThere(extend[e])
    BY <2>1, <2>2, RowThere DEF IsThere
  <2>4. extend'[e].status = work[p].put.to
    BY <1>3, <2>1, <2>3, WithIsRow DEF WriteBody, TypeOK
  <2>5. Course(w, extend', txn')
    BY <2>2, <2>4 DEF Course
  <2> QED BY <1>3, <2>5 DEF WriteBody
<1>4. CASE CreateTransaction(p)
  <2>1. Course([op |-> "save", e |-> work[p].e, row |-> work[p].row], extend', txn')
    BY <1>0, <1>4 DEF Course, CreateTransaction
  <2> QED BY <1>4, <2>1, IdleKeepsCourse DEF CreateTransaction
<1>5. CASE \/ AcceptPayment(p) \/ UpdateExtendToComplete(p)
           \/ DeleteTransaction(p) \/ CancelExtend(p)
  <2>1. PICK w : Goto(p, w) /\ (w = Idle \/ w.op \in {"settle", "complete",
                                                      "seek", "deleteExtend"})
    BY <1>5 DEF AcceptPayment, UpdateExtendToComplete, DeleteTransaction,
                CancelExtend
  <2>2. Course(w, extend', txn')
    BY <2>1, IdleKeepsCourse DEF Course
  <2> QED BY <2>1, <2>2
<1> QED BY <1>2, <1>3, <1>4, <1>5 DEF Continue

\* The steps that touch neither extends nor transactions leave work where it is,
\* end it, or give the job the next of its list.
LEMMA RestMoves ==
  ASSUME TypeOK,
         \/ \E b \in Booking : \/ CreateBooking(b) \/ BookingPaid(b)
                               \/ BookingExpired(b) \/ BookingReported(b)
         \/ \E p \in Process : Fail(p)
         \/ CheckTransactionIsExpired \/ CancelNext
         \/ Tick
         \/ UNCHANGED vars
  PROVE  /\ extend' = extend /\ txn' = txn /\ received' = received
         /\ \A q \in Process :
              \/ work'[q] = work[q]
              \/ work'[q] = Idle
              \/ /\ q = Job /\ work[q] = Idle
                 /\ \E t \in todo : /\ txn[t].status = "approved"
                                    /\ work'[q] = DeleteWork(t)
<1>1. extend' = extend /\ txn' = txn /\ received' = received
  BY DEF CreateBooking, BookingPaid, BookingExpired, BookingReported, SetBooking,
         Fail, CheckTransactionIsExpired, CancelNext, Tick, tables, vars
<1>2. CASE UNCHANGED work
  BY <1>1, <1>2
<1>3. ASSUME NEW p \in Process, Fail(p)
      PROVE  \A q \in Process : work'[q] \in {work[q], Idle}
  BY <1>3 DEF Fail, Goto, TypeOK
<1>4. CASE CancelNext
  <2>1. PICK t \in todo :
          IF txn[t].status = "approved"
          THEN todo' = todo \ {t} /\ Goto(Job, DeleteWork(t))
          ELSE todo' = {} /\ UNCHANGED work
    BY <1>4 DEF CancelNext
  <2>2. CASE txn[t].status = "approved"
    <3>1. /\ work[Job] = Idle /\ work'[Job] = DeleteWork(t)
          /\ \A q \in Process \ {Job} : work'[q] = work[q]
      BY <1>4, <2>1, <2>2 DEF CancelNext, Goto, TypeOK, Process
    <3> QED BY <1>1, <2>2, <3>1
  <2> QED BY <1>1, <1>2, <2>1, <2>2
<1> QED BY <1>1, <1>2, <1>3, <1>4
        DEF CreateBooking, BookingPaid, BookingExpired, BookingReported,
            SetBooking, CheckTransactionIsExpired, Tick, vars

LEMMA NextKeepsCourse ==
  ASSUME TypeOK, SerialInv, CourseInv, FollowsBranches, [Next]_vars
  PROVE  CourseInv'
<1>1. ASSUME /\ extend' = extend /\ txn' = txn
             /\ \A q \in Process :
                  \/ work'[q] = work[q]
                  \/ work'[q] = Idle
                  \/ /\ q = Job /\ work[q] = Idle
                     /\ \E t \in todo : /\ txn[t].status = "approved"
                                        /\ work'[q] = DeleteWork(t)
      PROVE  CourseInv'
  <2>1. ASSUME NEW t, txn[t].status = "approved"
        PROVE  Course(DeleteWork(t), extend, txn)
    BY <2>1 DEF Course, DeleteWork
  <2>2. ASSUME NEW q \in Process PROVE Course(work'[q], extend, txn)
    BY <1>1, <2>1, IdleKeepsCourse DEF CourseInv
  <2> QED BY <1>1, <2>2 DEF CourseInv
<1> QED BY <1>1, ArriveKeepsCourse, ContinueKeepsCourse, RestMoves DEF Next

LEMMA InitCourseInv == Init => CourseInv
BY IdleKeepsCourse DEF Init, CourseInv

-----------------------------------------------------------------------------
\* The months an extend is billed for are those it is for, from its bill on.
Billed(row, n) ==
  /\ row.status \in {"pending_sign", "pending_payment", "completed", "gone"}
  /\ row.status # "gone" => row.months = n

Priced(w, ext) ==
  /\ w.op = "charge" => /\ w.amount = ext[w.e].months
                        /\ w.row.months = ext[w.e].months
  /\ w.op = "save" /\ w.row.status = "pending_payment"
       => w.row.months = ext[w.e].months

MoneyInv ==
  /\ \A t \in Bill : IsThere(txn[t])
       => Billed(extend[txn[t].extend], txn[t].amount)
  /\ \A r \in received : Billed(extend[r.extend], r.amount)
  /\ \A p \in Process : Priced(work[p], extend)


\* The months may change until the bill is made, not with it.
BillKeepsMonths == \A put \in Put : put.to = "pending_payment" => put.months = 0

LEMMA IdleIsPriced == \A ext : Priced(Idle, ext)
BY DEF Priced, Idle

\* What the months and the bills of a step have to do with each other: a row
\* that was billed keeps its months, and one that is billed now has the price.
LEMMA StepKeepsMoney ==
  ASSUME TypeOK, TypeOK', OneAtATime, MoneyInv,
         NEW p \in Process, work[p] # Idle,
         NEW w, Goto(p, w), Priced(w, extend'),
         \A e \in Extend, n \in Nat : Billed(extend[e], n) => Billed(extend'[e], n),
         \A t \in Bill : IsThere(txn'[t]) =>
           \/ /\ IsThere(txn[t]) /\ txn'[t].extend = txn[t].extend
              /\ txn'[t].amount = txn[t].amount
           \/ Billed(extend'[txn'[t].extend], txn'[t].amount),
         \A r \in received' : \/ r \in received
                              \/ Billed(extend'[r.extend], r.amount)
  PROVE  MoneyInv'
<1>1. work'[p] = w /\ \A q \in Process \ {p} : work'[q] = Idle
  BY OnlyOneMoves
<1>2. ASSUME NEW q \in Process PROVE Priced(work'[q], extend')
  BY <1>1, IdleIsPriced
<1>3. ASSUME NEW t \in Bill, IsThere(txn'[t])
      PROVE  Billed(extend'[txn'[t].extend], txn'[t].amount)
  <2>1. CASE /\ IsThere(txn[t]) /\ txn'[t].extend = txn[t].extend
             /\ txn'[t].amount = txn[t].amount
    <3>1. txn[t].extend \in Extend /\ txn[t].amount \in Nat
      BY <2>1, RowThere DEF BillRow
    <3>2. Billed(extend[txn[t].extend], txn[t].amount)
      BY <2>1 DEF MoneyInv
    <3> QED BY <2>1, <3>1, <3>2
  <2> QED BY <1>3, <2>1
<1>4. ASSUME NEW r \in received' PROVE Billed(extend'[r.extend], r.amount)
  <2>1. r \in received => r.extend \in Extend /\ r.amount \in Nat
    BY DEF TypeOK, Payment
  <2> QED BY <2>1 DEF MoneyInv
<1> QED BY <1>2, <1>3, <1>4 DEF MoneyInv, IsThere

LEMMA ArriveKeepsMoney ==
  ASSUME TypeOK, MoneyInv, FollowsBranches, BillKeepsMonths,
         NEW c \in Call, Arrive(c)
  PROVE  MoneyInv'
<1>0. ASSUME NEW w, Start(c, w), Priced(w, extend)
      PROVE  MoneyInv'
  <2>1. /\ extend' = extend /\ txn' = txn /\ received' = received
        /\ work'[c] = w /\ \A q \in Process \ {c} : work'[q] = work[q]
    BY <1>0 DEF Start, Begin, Goto, tables, TypeOK, Process
  <2>2. ASSUME NEW q \in Process PROVE Priced(work'[q], extend')
    BY <1>0, <2>1 DEF MoneyInv
  <2> QED BY <2>1, <2>2 DEF MoneyInv
<1>1. ASSUME NEW b \in Booking, NEW m \in Months, CreateExtend(c, b, m)
      PROVE  MoneyInv'
  BY <1>0, <1>1 DEF CreateExtend, Priced
<1>2. ASSUME NEW e \in Extend, NEW put \in Put,
             \/ UpdateToPendingContract(c, e, put)
             \/ UpdateToRejected(c, e, put)
             \/ UpdateToPendingSign(c, e, put)
             \/ UpdateToPendingPayment(c, e, put)
             \/ UpdateUnchecked(c, e, put)
      PROVE  MoneyInv'
  <2>1. ~UpdateUnchecked(c, e, put)
    BY DEF FollowsBranches, UpdateUnchecked
  <2>2. IsThere(extend[e])
    BY <1>2, <2>1 DEF UpdateToPendingContract, UpdateToRejected,
         UpdateToPendingSign, UpdateToPendingPayment, IsThere
  <2>3. extend[e] \in ExtendRow
    BY <2>2, RowThere
  <2>4. /\ With(extend[e], put).status = put.to
        /\ put.months = 0 => With(extend[e], put).months = extend[e].months
    BY <2>3, WithIsRow DEF With, ExtendRow
  <2>5. PICK w : /\ Start(c, w)
                 /\ w.e = e /\ w.row = With(extend[e], put)
                 /\ \/ w.op = "patch"
                    \/ /\ w.op = "charge" /\ put.to = "pending_payment"
                       /\ w.amount = extend[e].months
                    \/ w.op = "save" /\ put.to = "pending_sign"
    BY <1>2, <2>1 DEF UpdateToPendingContract, UpdateToRejected,
         UpdateToPendingSign, UpdateToPendingPayment
  <2>6. Priced(w, extend)
    BY <2>4, <2>5 DEF Priced, BillKeepsMonths
  <2> QED BY <2>5, <2>6, <1>0
<1>3. ASSUME NEW t \in Bill, HandleTransactionPayment(c, t)
      PROVE  MoneyInv'
  BY <1>3, <1>0 DEF HandleTransactionPayment, Priced
<1>4. ASSUME NEW t \in Bill, CancelTransaction(c, t)
      PROVE  MoneyInv'
  BY <1>4, <1>0 DEF CancelTransaction, DeleteWork, Priced
<1> QED BY <1>1, <1>2, <1>3, <1>4 DEF Arrive

LEMMA ContinueKeepsMoney ==
  ASSUME TypeOK, TypeOK', SerialInv, CourseInv, MoneyInv,
         NEW p \in Process, Continue(p)
  PROVE  MoneyInv'
<1>0. /\ work[p] \in Work /\ Safe(work[p], extend)
      /\ Course(work[p], extend, txn) /\ Priced(work[p], extend)
      /\ OneAtATime /\ work[p] # Idle
  BY ContinueIsBusy DEF TypeOK, SerialInv, CourseInv, MoneyInv
<1>1. ASSUME NEW w, Goto(p, w), Priced(w, extend'),
             txn' = txn, received' = received,
             \A e \in Extend, n \in Nat : Billed(extend[e], n) => Billed(extend'[e], n)
      PROVE  MoneyInv'
  BY <1>0, <1>1, StepKeepsMoney
<1>2. CASE SaveNewExtend(p)
  <2>1. PICK e \in Extend : extend[e] = Absent
                            /\ extend' = [extend EXCEPT ![e] = work[p].row]
    BY <1>2 DEF SaveNewExtend
  <2>2. \A x \in Extend, n \in Nat : Billed(extend[x], n) => Billed(extend'[x], n)
    BY <2>1 DEF TypeOK, Billed, Absent
  <2>3. Priced(Idle, extend')
    BY IdleIsPriced
  <2> QED BY <1>1, <1>2, <2>2, <2>3 DEF SaveNewExtend
<1>3. CASE WriteBody(p)
  <2> DEFINE e == work[p].e
             w == [op |-> "save", e |-> e, row |-> work[p].row]
  <2>1. e \in Extend
    BY <1>0, <1>3, WorkFields DEF WriteBody, PatchExtend
  <2>2. /\ extend[e].status \in {"pending", "pending_contract"}
        /\ work[p].row.status # "pending_payment"
    BY <1>0, <1>3 DEF Course, Safe, WriteBody
  <2>3. \A x \in Extend, n \in Nat : Billed(extend[x], n) => Billed(extend'[x], n)
    BY <1>3, <2>1, <2>2 DEF WriteBody, TypeOK, Billed
  <2>4. Priced(w, extend')
    BY <2>2 DEF Priced
  <2>5. Goto(p, w) /\ txn' = txn /\ received' = received
    BY <1>3 DEF WriteBody
  <2> HIDE DEF w
  <2> QED BY <1>1, <2>3, <2>4, <2>5
<1>4. CASE CreateTransaction(p)
  <2> DEFINE e == work[p].e
             w == [op |-> "save", e |-> e, row |-> work[p].row]
  <2>1. /\ extend' = extend /\ received' = received
        /\ extend[e].status = "pending_sign"
        /\ work[p].amount = extend[e].months
        /\ work[p].row.months = extend[e].months
    BY <1>0, <1>4 DEF CreateTransaction, Course, Priced
  <2>2. Billed(extend[e], work[p].amount)
    BY <2>1 DEF Billed
  <2>3. Priced(w, extend')
    BY <2>1 DEF Priced
  <2>4. PICK t \in Bill :
          /\ txn' = [txn EXCEPT ![t] =
                       [status |-> "approved", extend |-> e,
                        amount |-> work[p].amount, due |-> now + 1]]
          /\ Goto(p, w)
    BY <1>4, <2>1 DEF CreateTransaction, IsThere
  <2>5. /\ txn'[t].extend = e /\ txn'[t].amount = work[p].amount
        /\ \A u \in Bill \ {t} : txn'[u] = txn[u]
    BY <2>4 DEF TypeOK
  <2> HIDE DEF w, e
  <2>6. \A u \in Bill : IsThere(txn'[u]) =>
          \/ /\ IsThere(txn[u]) /\ txn'[u].extend = txn[u].extend
             /\ txn'[u].amount = txn[u].amount
          \/ Billed(extend'[txn'[u].extend], txn'[u].amount)
    BY <2>1, <2>2, <2>5
  <2> QED BY <1>0, <2>1, <2>3, <2>4, <2>6, StepKeepsMoney
<1>5. CASE WriteExtend(p)
  <2> DEFINE e == work[p].e
  <2>1. e \in Extend
    BY <1>0, <1>5, WorkFields DEF WriteExtend, SaveExtend
  <2>2. /\ extend'[e] = work[p].row
        /\ \A x \in Extend \ {e} : extend'[x] = extend[x]
    BY <1>5, <2>1 DEF WriteExtend, TypeOK
  <2>3. \A n \in Nat : Billed(extend[e], n) => Billed(work[p].row, n)
    BY <1>0, <1>5 DEF WriteExtend, Course, Priced, Billed
  <2>4. \A x \in Extend, n \in Nat : Billed(extend[x], n) => Billed(extend'[x], n)
    BY <2>2, <2>3
  <2>5. Priced(Idle, extend')
    BY IdleIsPriced
  <2> QED BY <1>1, <1>5, <2>4, <2>5 DEF WriteExtend
<1>6. CASE AcceptPayment(p)
  <2> DEFINE t == work[p].t
             row == work[p].row
             r == [bill |-> t, extend |-> row.extend, amount |-> row.amount]
  <2>1. t \in Bill /\ txn[t].status = "approved"
        /\ row = [txn[t] EXCEPT !.status = "succeed"]
    BY <1>0, <1>6, WorkFields DEF AcceptPayment, Payments, Course
  <2>2. IsThere(txn[t]) /\ txn[t] \in BillRow
    BY <2>1, RowThere DEF IsThere
  <2>3. row.extend = txn[t].extend /\ row.amount = txn[t].amount
    BY <2>1, <2>2 DEF BillRow
  <2>4. /\ txn' = [txn EXCEPT ![t] = row] /\ received' = received \cup {r}
        /\ Goto(p, [op |-> "settle", e |-> row.extend]) /\ extend' = extend
    BY <1>6, <2>2 DEF AcceptPayment
  <2>5. txn'[t] = row /\ \A u \in Bill \ {t} : txn'[u] = txn[u]
    BY <2>1, <2>4 DEF TypeOK
  <2>6. \A u \in Bill : IsThere(txn'[u]) =>
          /\ IsThere(txn[u]) /\ txn'[u].extend = txn[u].extend
          /\ txn'[u].amount = txn[u].amount
    BY <2>2, <2>3, <2>5
  <2>a. Billed(extend[txn[t].extend], txn[t].amount)
    BY <2>1, <2>2 DEF MoneyInv
  <2>b. r.extend = txn[t].extend /\ r.amount = txn[t].amount
    BY <2>3
  <2>7. Billed(extend'[r.extend], r.amount)
    <3> HIDE DEF t, row, r
    <3> QED BY <2>a, <2>b, <2>4
  <2>8. \A x \in received' : x \in received \/ Billed(extend'[x.extend], x.amount)
    BY <2>4, <2>7
  <2>9. Priced([op |-> "settle", e |-> row.extend], extend')
    BY DEF Priced
  <2> HIDE DEF t, row, r
  <2> QED BY <1>0, <2>4, <2>6, <2>8, <2>9, StepKeepsMoney
<1>7. CASE SetCompleted(p)
  <2> DEFINE e == work[p].e
  <2>1. e \in Extend
    BY <1>0, <1>7, WorkFields DEF SetCompleted, OnExtend
  <2>2. IsThere(extend[e]) => extend[e] \in ExtendRow
    BY <2>1, RowThere
  <2>a. /\ IsThere(extend[e])
             => extend'[e] = [extend[e] EXCEPT !.status = "completed"]
        /\ ~IsThere(extend[e]) => extend'[e] = extend[e]
    BY <1>7, <2>1 DEF SetCompleted, TypeOK
  <2>b. IsThere(extend[e]) => /\ extend'[e].status = "completed"
                             /\ extend'[e].months = extend[e].months
    BY <2>2, <2>a DEF ExtendRow
  <2>3. \A n \in Nat : Billed(extend[e], n) => Billed(extend'[e], n)
    BY <2>a, <2>b DEF Billed, IsThere
  <2>4. \A x \in Extend \ {e} : extend'[x] = extend[x]
    BY <1>7, <2>1 DEF SetCompleted, TypeOK
  <2>5. \A x \in Extend, n \in Nat : Billed(extend[x], n) => Billed(extend'[x], n)
    BY <2>3, <2>4
  <2>6. Priced(Idle, extend')
    BY IdleIsPriced
  <2> QED BY <1>1, <1>7, <2>5, <2>6 DEF SetCompleted
<1>8. CASE DeleteTransaction(p)
  <2>1. \A u \in Bill : IsThere(txn'[u]) => txn'[u] = txn[u] /\ IsThere(txn[u])
    BY <1>8 DEF DeleteTransaction, TypeOK, IsThere, Gone
  <2>2. Priced([op |-> "seek", e |-> work[p].e], extend')
    BY DEF Priced
  <2>3. /\ Goto(p, [op |-> "seek", e |-> work[p].e])
        /\ extend' = extend /\ received' = received
    BY <1>8 DEF DeleteTransaction
  <2> QED BY <1>0, <2>1, <2>2, <2>3, StepKeepsMoney
<1>9. CASE DeleteExtend(p)
  <2>1. work[p].e \in Extend
    BY <1>0, <1>9, WorkFields DEF DeleteExtend, OnExtend
  <2>2. /\ extend'[work[p].e] \in {extend[work[p].e], Gone}
        /\ \A x \in Extend \ {work[p].e} : extend'[x] = extend[x]
    BY <1>9, <2>1 DEF DeleteExtend, TypeOK
  <2>3. \A n \in Nat : Billed(Gone, n)
    BY DEF Billed, Gone
  <2>4. \A x \in Extend, n \in Nat : Billed(extend[x], n) => Billed(extend'[x], n)
    BY <2>2, <2>3
  <2>5. Priced(Idle, extend')
    BY IdleIsPriced
  <2> QED BY <1>1, <1>9, <2>4, <2>5 DEF DeleteExtend
<1>10. CASE UpdateExtendToComplete(p) \/ CancelExtend(p)
  <2>1. extend' = extend /\ txn' = txn /\ received' = received
    BY <1>10 DEF UpdateExtendToComplete, CancelExtend, tables
  <2>2. PICK w : Goto(p, w) /\ (w = Idle \/ w.op \in {"complete", "deleteExtend"})
    BY <1>10 DEF UpdateExtendToComplete, CancelExtend
  <2>3. Priced(w, extend')
    BY <2>2, IdleIsPriced DEF Priced
  <2> QED BY <1>1, <2>1, <2>2, <2>3
<1> QED BY <1>2, <1>3, <1>4, <1>5, <1>6, <1>7, <1>8, <1>9, <1>10 DEF Continue

LEMMA NextKeepsMoney ==
  ASSUME TypeOK, TypeOK', SerialInv, CourseInv, MoneyInv, FollowsBranches,
         BillKeepsMonths, [Next]_vars
  PROVE  MoneyInv'
<1>1. ASSUME /\ extend' = extend /\ txn' = txn /\ received' = received
             /\ \A q \in Process :
                  \/ work'[q] = work[q]
                  \/ work'[q] = Idle
                  \/ /\ q = Job /\ work[q] = Idle
                     /\ \E t \in todo : /\ txn[t].status = "approved"
                                        /\ work'[q] = DeleteWork(t)
      PROVE  MoneyInv'
  <2>1. \A t : Priced(DeleteWork(t), extend)
    BY DEF Priced, DeleteWork
  <2>2. ASSUME NEW q \in Process PROVE Priced(work'[q], extend)
    BY <1>1, <2>1, IdleIsPriced DEF MoneyInv
  <2> QED BY <1>1, <2>2 DEF MoneyInv
<1> QED BY <1>1, ArriveKeepsMoney, ContinueKeepsMoney, RestMoves DEF Next

LEMMA InitMoneyInv == Init => MoneyInv
<1> SUFFICES ASSUME Init PROVE MoneyInv
  OBVIOUS
<1>1. \A t \in Bill : ~IsThere(txn[t])
  BY DEF Init, IsThere, Absent
<1>2. \A p \in Process : work[p] = Idle
  BY DEF Init
<1>3. \A p \in Process : Priced(work[p], extend)
  BY <1>2, IdleIsPriced
<1> QED BY <1>1, <1>3 DEF Init, MoneyInv

LEMMA MoneyHolds ==
  ASSUME Serial, FollowsBranches, BillKeepsMonths
  PROVE  Spec => []MoneyInv
<1>1. TypeOK /\ TypeOK' /\ SerialInv /\ [Next]_vars => SerialInv'
  BY NextKeepsSerial
<1>2. TypeOK /\ SerialInv /\ CourseInv /\ [Next]_vars => CourseInv'
  BY NextKeepsCourse
<1>3. TypeOK /\ TypeOK' /\ SerialInv /\ CourseInv /\ MoneyInv /\ [Next]_vars
        => MoneyInv'
  BY NextKeepsMoney
<1> QED BY ExtendTypeCorrect, InitSerialInv, InitCourseInv, InitMoneyInv,
           <1>1, <1>2, <1>3, PTL DEF Spec

\* updateExtendToComplete (extends.service.ts:361): the transaction service completes
\* an extend when its transaction has succeeded.
ExtendedWasPaid ==
  \A e \in Extend : extend[e].status = "completed" => PaidFor(e)

\* When the statuses follow the branches, no body says completed, and what is
\* completed was paid, even when requests overlap.
LEMMA BranchesDeclareNothing ==
  ASSUME FollowsBranches
  PROVE  Spec => []ExtendedWasPaid
<1>1. Init => declared = {}
  BY DEF Init
<1>2. declared = {} /\ [Next]_vars => (declared = {})'
  <2>1. \A c, e : \A put \in Put : ~UpdateUnchecked(c, e, put)
    BY DEF FollowsBranches, UpdateUnchecked
  <2>2. \A c : Arrive(c) => declared' = declared
    BY <2>1 DEF Arrive, CreateExtend, UpdateToPendingContract, UpdateToRejected,
                UpdateToPendingSign, UpdateToPendingPayment,
                HandleTransactionPayment, CancelTransaction, Start
  <2>3. \A p : Continue(p) \/ Fail(p) => declared' = declared
    BY DEF Continue, SaveNewExtend, WriteBody, CreateTransaction, WriteExtend,
           AcceptPayment, UpdateExtendToComplete, SetCompleted,
           DeleteTransaction, CancelExtend, DeleteExtend, Fail
  <2>4. Next => declared' = declared
    BY <2>2, <2>3
       DEF Next, CreateBooking, BookingPaid, BookingExpired, BookingReported,
           SetBooking, CheckTransactionIsExpired, CancelNext, Tick
  <2> QED BY <2>4 DEF vars
<1>3. declared = {} /\ ExtendedHasCause => ExtendedWasPaid
  BY DEF ExtendedHasCause, ExtendedWasPaid
<1> QED BY <1>1, <1>2, <1>3, ExtendedHasCauseHolds, PTL DEF Spec

\* When requests do not overlap, the statuses follow the branches and the months do
\* not change with the bill: what was paid is the price of the months the rental
\* is extended by, for any number of extends, bills and accidents.
THEOREM PaidForItsMonthsHolds ==
  ASSUME Serial, FollowsBranches, BillKeepsMonths
  PROVE  Spec => []PaidForItsMonths
<1>1. ExtendedWasPaid /\ MoneyInv => PaidForItsMonths
  <2> SUFFICES ASSUME ExtendedWasPaid, MoneyInv, NEW e \in Extend,
                      extend[e].status = "completed"
               PROVE  \E r \in received : r.extend = e /\ r.amount = extend[e].months
    BY DEF PaidForItsMonths
  <2>1. PICK r \in received : r.extend = e
    BY DEF ExtendedWasPaid, PaidFor
  <2>2. Billed(extend[e], r.amount)
    BY <2>1 DEF MoneyInv
  <2> QED BY <2>1, <2>2 DEF Billed
<1> QED BY <1>1, MoneyHolds, BranchesDeclareNothing, PTL

-----------------------------------------------------------------------------
\* The status an extend will have once the work w is done, if nothing fails.
After(w, ext, e) ==
  IF w.op = "save" /\ w.e = e THEN w.row.status
  ELSE IF w.op \in {"settle", "complete"} /\ w.e = e THEN "completed"
  ELSE IF w.op \in {"seek", "deleteExtend"} /\ w.e = e THEN "gone"
  ELSE ext[e].status

\* An extend of status s, its bills and the payments tell the same.
Agreed(tx, rec, e, s) ==
  /\ s = "pending_payment"
       <=> \E t \in Bill : tx[t].status = "approved" /\ tx[t].extend = e
  /\ \A t, u \in Bill : /\ tx[t].status = "approved" /\ tx[t].extend = e
                        /\ tx[u].status = "approved" /\ tx[u].extend = e
                        => t = u
  /\ \A t \in Bill : tx[t].status = "succeed" /\ tx[t].extend = e
                       => s = "completed"
  /\ \A r \in rec : r.extend = e => s = "completed"

\* Work in flight will leave extends and bills that agree, and what follows a
\* payment or a cancellation finds the extend waiting for its payment.
Agrees(w, ext, tx, rec) ==
  /\ \A e \in Extend : Agreed(tx, rec, e, After(w, ext, e))
  /\ w.op \in {"settle", "complete", "seek", "deleteExtend"}
       => ext[w.e].status = "pending_payment"

OthersIdle(p) == \A q \in Process \ {p} : work[q] = Idle

AgreeInv ==
  accidents = 0 => \A p \in Process :
    OthersIdle(p) => Agrees(work[p], extend, txn, received)

\* Between statuses that are neither billed nor paid there is nothing to tell.
LEMMA AgreedElsewhere ==
  ASSUME NEW tx, NEW rec, NEW e, NEW s, NEW z, Agreed(tx, rec, e, s),
         s \notin {"pending_payment", "completed"},
         z \notin {"pending_payment", "completed"}
  PROVE  Agreed(tx, rec, e, z)
BY DEF Agreed

LEMMA StepKeepsAgree ==
  ASSUME TypeOK, OneAtATime, NEW p \in Process, work[p] # Idle, NEW w,
         Goto(p, w), accidents' = accidents,
         accidents = 0 => Agrees(w, extend', txn', received')
  PROVE  AgreeInv'
<1>1. work'[p] = w /\ \A q \in Process \ {p} : work'[q] = Idle
  BY OnlyOneMoves
<1>2. SUFFICES ASSUME accidents = 0, NEW q \in Process,
                      \A x \in Process \ {q} : work'[x] = Idle
               PROVE  Agrees(work'[q], extend', txn', received')
  BY DEF AgreeInv, OthersIdle
<1>3. work'[q] = w
  BY <1>1, <1>2
<1> QED BY <1>2, <1>3

LEMMA ContinueKeepsAgree ==
  ASSUME TypeOK, TypeOK', SerialInv, CourseInv, AgreeInv,
         NEW p \in Process, Continue(p)
  PROVE  AgreeInv'
<1>a. accidents' = accidents
  BY DEF Continue, SaveNewExtend, WriteBody, CreateTransaction,
         WriteExtend, AcceptPayment, UpdateExtendToComplete, SetCompleted,
         DeleteTransaction, CancelExtend, DeleteExtend
<1>b. /\ work[p] \in Work /\ Course(work[p], extend, txn)
      /\ Safe(work[p], extend) /\ OneAtATime /\ work[p] # Idle
  BY ContinueIsBusy DEF TypeOK, SerialInv, CourseInv
<1>c. OthersIdle(p)
  BY <1>b DEF OneAtATime, OthersIdle
<1>d. SUFFICES ASSUME accidents = 0
               PROVE  \E w : Goto(p, w) /\ Agrees(w, extend', txn', received')
  <2>1. \E w : Goto(p, w)
    BY DEF Continue, SaveNewExtend, WriteBody, CreateTransaction,
           WriteExtend, AcceptPayment, UpdateExtendToComplete, SetCompleted,
           DeleteTransaction, CancelExtend, DeleteExtend
  <2>2. CASE accidents = 0
    BY <1>a, <1>b, <1>d, <2>2, StepKeepsAgree
  <2>3. CASE accidents # 0
    BY <1>a, <1>b, <2>1, <2>3, StepKeepsAgree
  <2> QED BY <2>2, <2>3
<1>e. Agrees(work[p], extend, txn, received)
  BY <1>c, <1>d DEF AgreeInv
<1>1. CASE SaveNewExtend(p)
  <2>1. PICK e \in Extend : extend[e] = Absent
                            /\ extend' = [extend EXCEPT ![e] = work[p].row]
    BY <1>1 DEF SaveNewExtend
  <2>2. /\ extend'[e].status = "pending_contract" /\ extend[e].status = "none"
        /\ \A x \in Extend \ {e} : extend'[x] = extend[x]
    BY <1>b, <1>1, <2>1 DEF SaveNewExtend, TypeOK, Course, Absent
  <2>3. \A x \in Extend : After(work[p], extend, x) = extend[x].status
    BY <1>1 DEF SaveNewExtend, After
  <2>4. \A x \in Extend : Agreed(txn, received, x, extend[x].status)
    BY <1>e, <2>3 DEF Agrees
  <2>5. Agreed(txn, received, e, extend'[e].status)
    BY <2>2, <2>4, AgreedElsewhere
  <2>6. \A x \in Extend : Agreed(txn, received, x, extend'[x].status)
    BY <2>2, <2>4, <2>5
  <2>7. Agrees(Idle, extend', txn, received)
    BY <2>6 DEF Agrees, After, Idle
  <2> QED BY <1>1, <2>7 DEF SaveNewExtend
<1>2. CASE WriteBody(p)
  <2> DEFINE e == work[p].e
             w == [op |-> "save", e |-> e, row |-> work[p].row]
  <2>1. e \in Extend
    BY <1>b, <1>2, WorkFields DEF WriteBody, PatchExtend
  <2>2. /\ extend[e].status \in {"pending", "pending_contract"}
        /\ work[p].row.status \in {"pending_contract", "rejected"}
    BY <1>b, <1>2 DEF Course, Safe, WriteBody
  <2>3. \A x \in Extend \ {e} : extend'[x] = extend[x]
    BY <1>2, <2>1 DEF WriteBody, TypeOK
  <2>4. /\ \A x \in Extend : After(work[p], extend, x) = extend[x].status
        /\ After(w, extend', e) = work[p].row.status
        /\ \A x \in Extend \ {e} : After(w, extend', x) = extend'[x].status
    BY <1>2 DEF WriteBody, After
  <2>5. \A x \in Extend : Agreed(txn, received, x, extend[x].status)
    BY <1>e, <2>4 DEF Agrees
  <2>6. Agreed(txn, received, e, After(w, extend', e))
    <3>1. Agreed(txn, received, e, extend[e].status)
      BY <2>1, <2>5
    <3> QED BY <3>1, <2>2, <2>4, AgreedElsewhere
  <2>7. \A x \in Extend : Agreed(txn, received, x, After(w, extend', x))
    <3> HIDE DEF w
    <3> QED BY <2>3, <2>4, <2>5, <2>6
  <2>8. Agrees(w, extend', txn, received)
    BY <2>7 DEF Agrees
  <2> QED BY <1>2, <2>8 DEF WriteBody
<1>3. CASE CreateTransaction(p)
  <2> DEFINE e == work[p].e
             w == [op |-> "save", e |-> e, row |-> work[p].row]
  <2>1. /\ extend' = extend /\ received' = received
        /\ extend[e].status = "pending_sign"
        /\ work[p].row.status = "pending_payment"
    BY <1>b, <1>3 DEF CreateTransaction, Course
  <2>2. e \in Extend
    BY <1>b, <1>3, WorkFields DEF CreateTransaction, ChargeExtend
  <2>3. PICK t \in Bill :
          /\ txn[t] = Absent
          /\ txn' = [txn EXCEPT ![t] =
                       [status |-> "approved", extend |-> e,
                        amount |-> work[p].amount, due |-> now + 1]]
          /\ Goto(p, w)
    BY <1>3, <2>1 DEF CreateTransaction, IsThere
  <2>4. /\ txn'[t].extend = e /\ txn'[t].status = "approved"
        /\ \A u \in Bill \ {t} : txn'[u] = txn[u]
        /\ txn[t].status = "none"
    BY <2>3 DEF TypeOK, Absent
  <2>5. /\ \A x \in Extend : After(work[p], extend, x) = extend[x].status
        /\ After(w, extend', e) = "pending_payment"
        /\ \A x \in Extend \ {e} : After(w, extend', x) = extend[x].status
    BY <1>3, <2>1 DEF CreateTransaction, After
  <2>6. \A x \in Extend : Agreed(txn, received, x, extend[x].status)
    BY <1>e, <2>5 DEF Agrees
  <2>7. Agreed(txn', received, e, "pending_payment")
    <3>1. Agreed(txn, received, e, "pending_sign")
      BY <2>1, <2>2, <2>6
    <3> QED BY <3>1, <2>4 DEF Agreed
  <2>8. ASSUME NEW x \in Extend \ {e}
        PROVE  Agreed(txn', received, x, extend[x].status)
    <3>1. Agreed(txn, received, x, extend[x].status)
      BY <2>6
    <3> HIDE DEF e
    <3> QED BY <3>1, <2>4 DEF Agreed
  <2>9. Agrees(w, extend', txn', received')
    <3>1. \A x \in Extend : Agreed(txn', received', x, After(w, extend', x))
      <4> HIDE DEF w, e
      <4> QED BY <2>1, <2>5, <2>7, <2>8
    <3> QED BY <3>1 DEF Agrees
  <2> QED BY <2>3, <2>9
<1>4. CASE WriteExtend(p)
  <2> DEFINE e == work[p].e
  <2>1. e \in Extend
    BY <1>b, <1>4, WorkFields DEF WriteExtend, SaveExtend
  <2>2. /\ extend'[e] = work[p].row
        /\ \A x \in Extend \ {e} : extend'[x] = extend[x]
    BY <1>4, <2>1 DEF WriteExtend, TypeOK
  <2>3. \A x \in Extend : After(work[p], extend, x) = After(Idle, extend', x)
    BY <1>4, <2>1, <2>2 DEF WriteExtend, After, Idle
  <2>4. Agrees(Idle, extend', txn, received)
    BY <1>e, <2>3 DEF Agrees, Idle
  <2> QED BY <1>4, <2>4 DEF WriteExtend
<1>5. CASE AcceptPayment(p)
  <2> DEFINE t == work[p].t
             row == work[p].row
             e == row.extend
             w == [op |-> "settle", e |-> e]
             r == [bill |-> t, extend |-> row.extend, amount |-> row.amount]
  <2>1. t \in Bill /\ txn[t].status = "approved"
        /\ row = [txn[t] EXCEPT !.status = "succeed"]
    BY <1>b, <1>5, WorkFields DEF AcceptPayment, Payments, Course
  <2>2. IsThere(txn[t]) /\ txn[t] \in BillRow
    BY <2>1, RowThere DEF IsThere
  <2>3. e = txn[t].extend /\ e \in Extend /\ row.status = "succeed"
    BY <2>1, <2>2 DEF BillRow
  <2>4. /\ txn' = [txn EXCEPT ![t] = row] /\ received' = received \cup {r}
        /\ Goto(p, w) /\ extend' = extend
    BY <1>5, <2>2 DEF AcceptPayment
  <2>5. txn'[t] = row /\ \A u \in Bill \ {t} : txn'[u] = txn[u]
    BY <2>1, <2>4 DEF TypeOK
  <2>6. /\ \A x \in Extend : After(work[p], extend, x) = extend[x].status
        /\ After(w, extend', e) = "completed"
        /\ \A x \in Extend \ {e} : After(w, extend', x) = extend[x].status
    BY <1>5, <2>4 DEF AcceptPayment, After
  <2>7. \A x \in Extend : Agreed(txn, received, x, extend[x].status)
    BY <1>e, <2>6 DEF Agrees
  <2>8. r.extend = e
    OBVIOUS
  <2> HIDE DEF t, row, e, w, r
  <2>9. extend[e].status = "pending_payment"
    BY <2>1, <2>3, <2>7 DEF Agreed
  <2>10. Agreed(txn', received', e, "completed")
    <3>1. Agreed(txn, received, e, "pending_payment")
      BY <2>3, <2>7, <2>9
    <3>2. txn[t].extend = e
      BY <2>3
    <3>3. \A u \in Bill : ~(txn'[u].status = "approved" /\ txn'[u].extend = e)
      BY <3>1, <3>2, <2>1, <2>3, <2>5 DEF Agreed
    <3> QED BY <3>3 DEF Agreed
  <2>11. ASSUME NEW x \in Extend \ {e}
         PROVE  Agreed(txn', received', x, extend[x].status)
    <3>1. Agreed(txn, received, x, extend[x].status)
      BY <2>7
    <3>2. txn[t].extend # x /\ txn'[t].extend # x
      BY <2>3, <2>5 DEF e
    <3>3. \A y \in received' : y.extend = x => y \in received
      BY <2>4, <2>8
    <3> QED BY <3>1, <3>2, <3>3, <2>5 DEF Agreed
  <2>12. \A x \in Extend : Agreed(txn', received', x, After(w, extend', x))
    BY <2>6, <2>10, <2>11
  <2>13. w.op = "settle" /\ w.e = e
    BY DEF w
  <2>14. Agrees(w, extend', txn', received')
    BY <2>4, <2>9, <2>12, <2>13 DEF Agrees
  <2> QED BY <2>4, <2>14
<1>6. CASE UpdateExtendToComplete(p)
  <2> DEFINE w == [op |-> "complete", e |-> work[p].e]
  <2>1. extend[work[p].e].status = "pending_payment"
    BY <1>e, <1>6 DEF Agrees, UpdateExtendToComplete
  <2>2. /\ extend' = extend /\ txn' = txn /\ received' = received /\ Goto(p, w)
    BY <1>6, <2>1 DEF UpdateExtendToComplete, tables
  <2>3. \A x \in Extend : After(work[p], extend, x) = After(w, extend, x)
    BY <1>6 DEF UpdateExtendToComplete, After
  <2>4. Agrees(w, extend, txn, received)
    BY <1>e, <2>1, <2>3 DEF Agrees
  <2> QED BY <2>2, <2>4
<1>7. CASE SetCompleted(p)
  <2> DEFINE e == work[p].e
  <2>1. e \in Extend /\ extend[e].status = "pending_payment"
    BY <1>b, <1>e, <1>7, WorkFields DEF SetCompleted, OnExtend, Agrees
  <2>2. extend[e] \in ExtendRow /\ IsThere(extend[e])
    BY <2>1, RowThere DEF IsThere
  <2>3. /\ extend'[e].status = "completed"
        /\ \A x \in Extend \ {e} : extend'[x] = extend[x]
    BY <1>7, <2>1, <2>2 DEF SetCompleted, TypeOK, ExtendRow
  <2>4. \A x \in Extend : After(work[p], extend, x) = After(Idle, extend', x)
    BY <1>7, <2>3 DEF SetCompleted, After, Idle
  <2>5. Agrees(Idle, extend', txn, received)
    BY <1>e, <2>4 DEF Agrees, Idle
  <2> QED BY <1>7, <2>5 DEF SetCompleted
<1>8. CASE DeleteTransaction(p)
  <2> DEFINE t == work[p].t
             e == work[p].e
             w == [op |-> "seek", e |-> e]
  <2>1. /\ t \in Bill /\ e \in Extend
        /\ txn[t].status = "approved" /\ txn[t].extend = e
    BY <1>b, <1>8, WorkFields DEF DeleteTransaction, DeleteBill, Course
  <2>2. /\ txn'[t].status = "gone" /\ \A u \in Bill \ {t} : txn'[u] = txn[u]
        /\ extend' = extend /\ received' = received /\ Goto(p, w)
    BY <1>8, <2>1 DEF DeleteTransaction, TypeOK, Gone
  <2>3. /\ \A x \in Extend : After(work[p], extend, x) = extend[x].status
        /\ After(w, extend', e) = "gone"
        /\ \A x \in Extend \ {e} : After(w, extend', x) = extend[x].status
    BY <1>8, <2>2 DEF DeleteTransaction, After
  <2>4. \A x \in Extend : Agreed(txn, received, x, extend[x].status)
    BY <1>e, <2>3 DEF Agrees
  <2>5. w.op = "seek" /\ w.e = e
    OBVIOUS
  <2> HIDE DEF t, e, w
  <2>6. extend[e].status = "pending_payment"
    BY <2>1, <2>4 DEF Agreed
  <2>7. Agreed(txn', received, e, "gone")
    <3>1. Agreed(txn, received, e, "pending_payment")
      BY <2>1, <2>4, <2>6
    <3> QED BY <3>1, <2>1, <2>2 DEF Agreed
  <2>8. ASSUME NEW x \in Extend \ {e}
        PROVE  Agreed(txn', received, x, extend[x].status)
    <3>1. Agreed(txn, received, x, extend[x].status)
      BY <2>4
    <3> QED BY <3>1, <2>1, <2>2 DEF Agreed
  <2>9. \A x \in Extend : Agreed(txn', received', x, After(w, extend', x))
    BY <2>2, <2>3, <2>7, <2>8
  <2>10. Agrees(w, extend', txn', received')
    BY <2>2, <2>5, <2>6, <2>9 DEF Agrees
  <2> QED BY <2>2, <2>10
<1>9. CASE CancelExtend(p)
  <2> DEFINE w == [op |-> "deleteExtend", e |-> work[p].e]
  <2>1. extend[work[p].e].status = "pending_payment"
    BY <1>e, <1>9 DEF Agrees, CancelExtend
  <2>2. /\ extend' = extend /\ txn' = txn /\ received' = received /\ Goto(p, w)
    BY <1>9, <2>1 DEF CancelExtend, tables
  <2>3. \A x \in Extend : After(work[p], extend, x) = After(w, extend, x)
    BY <1>9 DEF CancelExtend, After
  <2>4. Agrees(w, extend, txn, received)
    BY <1>e, <2>1, <2>3 DEF Agrees
  <2> QED BY <2>2, <2>4
<1>10. CASE DeleteExtend(p)
  <2> DEFINE e == work[p].e
  <2>1. e \in Extend
    BY <1>b, <1>10, WorkFields DEF DeleteExtend, OnExtend
  <2>2. Agreed(txn, received, e, "gone")
    <3>1. After(work[p], extend, e) = "gone"
      BY <1>10 DEF DeleteExtend, After
    <3> QED BY <1>e, <2>1, <3>1 DEF Agrees
  <2>3. \A t \in Bill : ~(IsThere(txn[t]) /\ txn[t].extend = e)
    <3> SUFFICES ASSUME NEW t \in Bill, IsThere(txn[t]), txn[t].extend = e
                 PROVE  FALSE
      OBVIOUS
    <3>1. txn[t].status \in {"approved", "succeed"}
      BY RowThere DEF BillRow
    <3> QED BY <2>2, <3>1 DEF Agreed
  <2>4. /\ extend'[e].status = "gone"
        /\ \A x \in Extend \ {e} : extend'[x] = extend[x]
    BY <1>10, <2>1, <2>3 DEF DeleteExtend, TypeOK, Gone
  <2>5. \A x \in Extend : After(work[p], extend, x) = After(Idle, extend', x)
    BY <1>10, <2>4 DEF DeleteExtend, After, Idle
  <2>6. Agrees(Idle, extend', txn, received)
    BY <1>e, <2>5 DEF Agrees, Idle
  <2> QED BY <1>10, <2>6 DEF DeleteExtend
<1> QED BY <1>1, <1>2, <1>3, <1>4, <1>5, <1>6, <1>7, <1>8, <1>9, <1>10
        DEF Continue

\* A request that starts leaves the tables alone; the status it will write is one
\* of an extend that is not billed.
LEMMA StartKeepsAgree ==
  ASSUME TypeOK, Serial, AgreeInv, NEW c \in Call, NEW w, Start(c, w),
         w.op \notin {"settle", "complete", "seek", "deleteExtend"},
         w.op = "save" =>
           /\ w.row.status \notin {"pending_payment", "completed"}
           /\ extend[w.e].status \notin {"pending_payment", "completed"}
  PROVE  AgreeInv'
<1>1. /\ extend' = extend /\ txn' = txn /\ received' = received
      /\ accidents' = accidents /\ c \in Process
      /\ work'[c] = w /\ \A q \in Process : work[q] = Idle
      /\ \A q \in Process \ {c} : work'[q] = Idle
  BY DEF Start, Begin, MayStart, Quiet, Goto, tables, TypeOK, Process
<1>2. SUFFICES ASSUME accidents = 0 PROVE Agrees(w, extend, txn, received)
              /\ Agrees(Idle, extend, txn, received)
  <2>1. ASSUME NEW p \in Process PROVE work'[p] = w \/ work'[p] = Idle
    BY <1>1
  <2> QED BY <1>1, <1>2, <2>1 DEF AgreeInv
<1>3. Agrees(Idle, extend, txn, received)
  BY <1>1, <1>2 DEF AgreeInv, OthersIdle
<1>4. \A x \in Extend : Agreed(txn, received, x, extend[x].status)
  BY <1>3 DEF Agrees, After, Idle
<1>5. ASSUME NEW x \in Extend
      PROVE  Agreed(txn, received, x, After(w, extend, x))
  <2>1. CASE w.op = "save" /\ w.e = x
    <3>1. After(w, extend, x) = w.row.status
      BY <2>1 DEF After
    <3>2. Agreed(txn, received, x, extend[x].status)
      BY <1>4
    <3> QED BY <2>1, <3>1, <3>2, AgreedElsewhere
  <2>2. CASE ~(w.op = "save" /\ w.e = x)
    <3>1. After(w, extend, x) = extend[x].status
      BY <2>2 DEF After
    <3> QED BY <1>4, <3>1
  <2> QED BY <2>1, <2>2
<1>6. Agrees(w, extend, txn, received)
  BY <1>5 DEF Agrees
<1> QED BY <1>3, <1>6

LEMMA ArriveKeepsAgree ==
  ASSUME TypeOK, Serial, AgreeInv, FollowsBranches, NEW c \in Call, Arrive(c)
  PROVE  AgreeInv'
<1>1. ASSUME NEW b \in Booking, NEW m \in Months, CreateExtend(c, b, m)
      PROVE  AgreeInv'
  BY <1>1, StartKeepsAgree DEF CreateExtend
<1>2. ASSUME NEW e \in Extend, NEW put \in Put,
             \/ UpdateToPendingContract(c, e, put)
             \/ UpdateToRejected(c, e, put)
             \/ UpdateToPendingSign(c, e, put)
             \/ UpdateToPendingPayment(c, e, put)
             \/ UpdateUnchecked(c, e, put)
      PROVE  AgreeInv'
  <2>1. ~UpdateUnchecked(c, e, put)
    BY DEF FollowsBranches, UpdateUnchecked
  <2>2. CASE UpdateToPendingSign(c, e, put)
    <3>1. extend[e] \in ExtendRow
      BY <2>2, RowThere DEF UpdateToPendingSign, IsThere
    <3>2. With(extend[e], put).status = "pending_sign"
      BY <2>2, <3>1, WithIsRow DEF UpdateToPendingSign
    <3>3. PICK w : /\ Start(c, w) /\ w.op = "save" /\ w.e = e
                   /\ w.row = With(extend[e], put)
      BY <2>2 DEF UpdateToPendingSign
    <3>4. extend[e].status = "pending_contract"
      BY <2>2 DEF UpdateToPendingSign
    <3> QED BY <3>2, <3>3, <3>4, StartKeepsAgree
  <2>3. CASE ~UpdateToPendingSign(c, e, put)
    <3>1. PICK w : Start(c, w) /\ w.op \in {"patch", "charge"}
      BY <1>2, <2>1, <2>3 DEF UpdateToPendingContract, UpdateToRejected,
                              UpdateToPendingPayment
    <3> QED BY <3>1, StartKeepsAgree
  <2> QED BY <2>2, <2>3
<1>3. ASSUME NEW t \in Bill, HandleTransactionPayment(c, t)
      PROVE  AgreeInv'
  BY <1>3, StartKeepsAgree DEF HandleTransactionPayment
<1>4. ASSUME NEW t \in Bill, CancelTransaction(c, t)
      PROVE  AgreeInv'
  BY <1>4, StartKeepsAgree DEF CancelTransaction, DeleteWork
<1> QED BY <1>1, <1>2, <1>3, <1>4 DEF Arrive

LEMMA NextKeepsAgree ==
  ASSUME TypeOK, TypeOK', Serial, SerialInv, CourseInv, AgreeInv,
         FollowsBranches, [Next]_vars
  PROVE  AgreeInv'
<1>1. CASE \E c \in Call : Arrive(c)
  BY <1>1, ArriveKeepsAgree
<1>2. CASE \E p \in Process : Continue(p)
  BY <1>2, ContinueKeepsAgree
<1>3. CASE \E p \in Process : Fail(p)
  <2>1. accidents' # 0
    BY <1>3 DEF Fail, TypeOK
  <2> QED BY <2>1 DEF AgreeInv
<1>4. CASE \/ \E b \in Booking : \/ CreateBooking(b) \/ BookingPaid(b)
                                 \/ BookingExpired(b) \/ BookingReported(b)
           \/ CheckTransactionIsExpired \/ Tick \/ UNCHANGED vars
  <2>1. /\ extend' = extend /\ txn' = txn /\ received' = received
        /\ accidents' = accidents /\ work' = work
    BY <1>4 DEF CreateBooking, BookingPaid, BookingExpired, BookingReported,
         SetBooking, CheckTransactionIsExpired, Tick, tables, vars
  <2> QED BY <2>1 DEF AgreeInv, OthersIdle
<1>5. CASE CancelNext
  <2>1. /\ extend' = extend /\ txn' = txn /\ received' = received
        /\ accidents' = accidents /\ work[Job] = Idle /\ Job \in Process
    BY <1>5 DEF CancelNext, tables, Process
  <2>2. \A q \in Process : work[q] = Idle
    BY <1>5, <2>1 DEF CancelNext, SerialInv, OneAtATime, Process
  <2>3. SUFFICES ASSUME accidents = 0
                 PROVE  \A q \in Process : Agrees(work'[q], extend, txn, received)
    BY <2>1 DEF AgreeInv
  <2>4. Agrees(Idle, extend, txn, received)
    BY <2>1, <2>2, <2>3 DEF AgreeInv, OthersIdle
  <2>5. \A t : Agrees(DeleteWork(t), extend, txn, received)
    BY <2>4 DEF Agrees, After, DeleteWork, Idle
  <2>6. \A q \in Process : work'[q] = Idle \/ \E t : work'[q] = DeleteWork(t)
    <3>1. PICK t \in todo :
            IF txn[t].status = "approved"
            THEN todo' = todo \ {t} /\ Goto(Job, DeleteWork(t))
            ELSE todo' = {} /\ UNCHANGED work
      BY <1>5 DEF CancelNext
    <3> QED BY <3>1, <2>2 DEF Goto, TypeOK
  <2> QED BY <2>4, <2>5, <2>6
<1> QED BY <1>1, <1>2, <1>3, <1>4, <1>5 DEF Next

LEMMA InitAgreeInv == Init => AgreeInv
<1> SUFFICES ASSUME Init PROVE AgreeInv
  OBVIOUS
<1>1. \A e \in Extend : Agreed(txn, received, e, After(Idle, extend, e))
  BY DEF Init, Agreed, After, Idle, Absent
<1>2. Agrees(Idle, extend, txn, received)
  BY <1>1 DEF Agrees, Idle
<1> QED BY <1>2 DEF Init, AgreeInv

LEMMA AgreeHolds ==
  ASSUME Serial, FollowsBranches
  PROVE  Spec => []AgreeInv
<1>1. TypeOK /\ TypeOK' /\ SerialInv /\ [Next]_vars => SerialInv'
  BY NextKeepsSerial
<1>2. TypeOK /\ SerialInv /\ CourseInv /\ [Next]_vars => CourseInv'
  BY NextKeepsCourse
<1>3. TypeOK /\ TypeOK' /\ SerialInv /\ CourseInv /\ AgreeInv /\ [Next]_vars
        => AgreeInv'
  BY NextKeepsAgree
<1> QED BY ExtendTypeCorrect, InitSerialInv, InitCourseInv, InitAgreeInv,
           <1>1, <1>2, <1>3, PTL DEF Spec

LEMMA QuietAgrees ==
  ASSUME AgreeInv, Quiet, accidents = 0
  PROVE  \A e \in Extend : Agreed(txn, received, e, extend[e].status)
<1>1. \A p \in Process : work[p] = Idle
  BY DEF Quiet
<1>2. Agrees(Idle, extend, txn, received)
  BY <1>1 DEF AgreeInv, OthersIdle, Process
<1> QED BY <1>2 DEF Agrees, After, Idle

\* When requests do not overlap, the statuses follow the branches and none fails
\* half way: an extend waits for its payment exactly as long as it has a bill that
\* can be paid or lapse, however many were made and deleted before.
THEOREM BillAndExtendAgreeHolds ==
  ASSUME Serial, FollowsBranches
  PROVE  Spec => []BillAndExtendAgree
<1>1. AgreeInv => BillAndExtendAgree
  BY QuietAgrees DEF BillAndExtendAgree, Agreed
<1> QED BY AgreeHolds, <1>1, PTL

\* When requests do not overlap and the statuses follow the branches: a payment
\* extends the rental unless a handler failed half way, and always by the months it
\* is the price of.
THEOREM PaymentExtendsHolds ==
  ASSUME Serial, FollowsBranches, BillKeepsMonths
  PROVE  Spec => []PaymentExtends
<1>1. AgreeInv => PaidIsExtended
  BY QuietAgrees DEF PaidIsExtended, PaidFor, Agreed
<1>2. PaidIsExtended /\ PaidForItsMonths => PaymentExtends
  BY DEF PaymentExtends
<1> QED BY AgreeHolds, PaidForItsMonthsHolds, <1>1, <1>2, PTL

-----------------------------------------------------------------------------
\* The renter alone says by how many months, when asking.
OnlyRenterSetsMonths == \A put \in Put : put.months = 0

\* In the table bk of bookings: b is rented, and m months more run into nothing.
Clear(b, m, bk) ==
  /\ bk[b] \in {"completed", "expired"}
  /\ \A o \in Booking \ {b} : bk[o] # "none" =>
       Span[o].start > Span[b].end + m \/ Span[o].end < Span[b].start

\* Work in flight is about the booking and the months of its extend.
Keeps(w, ext, bk) ==
  /\ w.op = "insertExtend" => Clear(w.row.booking, w.row.months, bk)
  /\ w.op \in {"patch", "charge", "save"} =>
       /\ ext[w.e].booking = w.row.booking
       /\ ext[w.e].months = w.row.months

FreeInv ==
  /\ \A b \in Booking : booking[b] = "expired" => Span[b].end <= now
  /\ \A e \in Extend : IsThere(extend[e])
       => Clear(extend[e].booking, extend[e].months, booking)
  /\ \A p \in Process : Keeps(work[p], extend, booking)

LEMMA IdleKeeps == \A ext, bk : Keeps(Idle, ext, bk)
BY DEF Keeps, Idle

\* A rental still to come that createBooking lets in lies before the rentals that
\* are paid, and there is none that has ended.
LEMMA CreatedIsClear ==
  ASSUME TypeOK, FreeInv, NEW n \in Booking, CreateBooking(n),
         NEW b \in Booking, NEW m \in Nat, Clear(b, m, booking)
  PROVE  Clear(b, m, booking')
<1>1. /\ b # n /\ booking[n] = "none" /\ booking'[n] = "pending"
      /\ \A o \in Booking \ {n} : booking'[o] = booking[o]
  BY DEF CreateBooking, SetBooking, TypeOK, Clear
<1>2. /\ Span[b].start \in Int /\ Span[b].end \in Int
      /\ Span[n].start \in Int /\ Span[n].end \in Int
      /\ Span[b].start <= Span[b].end /\ Span[n].start <= Span[n].end
  BY SpanAssumption DEF Period, WellFormed
<1>3. Span[n].end < Span[b].start
  <2>1. ~(Span[b].end <= Span[n].start)
    BY DEF CreateBooking, EndsBefore, Clear
  <2>2. CASE booking[b] = "completed"
    <3>1. ~Conflicts(Span[b], Span[n])
      BY <2>2 DEF CreateBooking
    <3> QED BY <1>2, <2>1, <3>1 DEF Conflicts
  <2>3. CASE booking[b] = "expired"
    <3>1. Span[b].end <= now /\ Span[n].start > now
      BY <2>3 DEF FreeInv, CreateBooking
    <3> QED BY <1>2, <2>1, <3>1 DEF TypeOK
  <2> QED BY <2>2, <2>3 DEF Clear
<1>4. booking'[b] \in {"completed", "expired"}
  BY <1>1 DEF Clear
<1>5. ASSUME NEW o \in Booking \ {b}, booking'[o] # "none"
      PROVE  Span[o].start > Span[b].end + m \/ Span[o].end < Span[b].start
  BY <1>1, <1>3, <1>5 DEF Clear
<1> QED BY <1>4, <1>5 DEF Clear

LEMMA BookingsKeepFree ==
  ASSUME TypeOK, TypeOK', Serial, FreeInv, NEW b \in Booking,
         \/ CreateBooking(b) \/ BookingPaid(b)
         \/ BookingExpired(b) \/ BookingReported(b)
  PROVE  FreeInv'
<1>1. /\ extend' = extend /\ work' = work /\ now' = now
      /\ \A q \in Process : work[q] = Idle
      /\ \A o \in Booking \ {b} : booking'[o] = booking[o]
  BY DEF CreateBooking, BookingPaid, BookingExpired, BookingReported, SetBooking,
         MayStart, Quiet, TypeOK
<1>2. \A q \in Process : Keeps(work'[q], extend', booking')
  BY <1>1, IdleKeeps
<1>3. \A o \in Booking : booking'[o] = "expired" => Span[o].end <= now'
  BY <1>1 DEF CreateBooking, BookingPaid, BookingExpired, BookingReported,
              SetBooking, FreeInv, TypeOK
<1>4. ASSUME NEW x \in Booking, NEW m \in Nat, Clear(x, m, booking)
      PROVE  Clear(x, m, booking')
  <2>1. CASE CreateBooking(b)
    BY <1>4, <2>1, CreatedIsClear
  <2>2. CASE ~CreateBooking(b)
    <3>1. booking[b] # "none" /\ booking'[b] \in {"completed", "expired"}
      BY <2>2 DEF BookingPaid, BookingExpired, BookingReported, SetBooking, TypeOK
    <3>2. booking'[x] \in {"completed", "expired"}
      BY <1>1, <1>4, <3>1 DEF Clear
    <3>3. \A o \in Booking : booking'[o] # "none" => booking[o] # "none"
      BY <1>1, <3>1
    <3> QED BY <1>4, <3>2, <3>3 DEF Clear
  <2> QED BY <2>1, <2>2
<1>5. \A e \in Extend : IsThere(extend[e])
        => extend[e].booking \in Booking /\ extend[e].months \in Nat
  BY RowThere DEF ExtendRow
<1>6. \A e \in Extend : IsThere(extend[e])
        => Clear(extend[e].booking, extend[e].months, booking')
  BY <1>4, <1>5 DEF FreeInv
<1> QED BY <1>1, <1>2, <1>3, <1>6 DEF FreeInv

\* A step of the only process that is busy.
LEMMA StepKeepsFree ==
  ASSUME TypeOK, OneAtATime, FreeInv, NEW p \in Process, work[p] # Idle, NEW w,
         Goto(p, w), Keeps(w, extend', booking), booking' = booking, now' = now,
         \A e \in Extend : IsThere(extend'[e])
           => Clear(extend'[e].booking, extend'[e].months, booking)
  PROVE  FreeInv'
<1>1. work'[p] = w /\ \A q \in Process \ {p} : work'[q] = Idle
  BY OnlyOneMoves
<1>2. ASSUME NEW q \in Process PROVE Keeps(work'[q], extend', booking')
  BY <1>1, IdleKeeps
<1> QED BY <1>2 DEF FreeInv

LEMMA ContinueKeepsFree ==
  ASSUME TypeOK, TypeOK', SerialInv, FreeInv, FollowsBranches,
         OnlyRenterSetsMonths, NEW p \in Process, Continue(p)
  PROVE  FreeInv'
<1>0. /\ work[p] \in Work /\ Safe(work[p], extend) /\ Keeps(work[p], extend, booking)
      /\ OneAtATime /\ work[p] # Idle
  BY ContinueIsBusy DEF TypeOK, SerialInv, FreeInv
<1>a. booking' = booking /\ now' = now
  BY DEF Continue, SaveNewExtend, WriteBody, CreateTransaction,
         WriteExtend, AcceptPayment, UpdateExtendToComplete, SetCompleted,
         DeleteTransaction, CancelExtend, DeleteExtend, tables
<1>b. ASSUME NEW w, Goto(p, w), Keeps(w, extend', booking),
             \A e \in Extend : IsThere(extend'[e])
               => \/ Clear(extend'[e].booking, extend'[e].months, booking)
                  \/ /\ IsThere(extend[e])
                     /\ extend'[e].booking = extend[e].booking
                     /\ extend'[e].months = extend[e].months
      PROVE  FreeInv'
  <2>1. ASSUME NEW e \in Extend, IsThere(extend'[e])
        PROVE  Clear(extend'[e].booking, extend'[e].months, booking)
    BY <1>b, <2>1 DEF FreeInv
  <2> QED BY <1>0, <1>a, <1>b, <2>1, StepKeepsFree
<1>1. CASE SaveNewExtend(p)
  <2>1. Clear(work[p].row.booking, work[p].row.months, booking)
    BY <1>0, <1>1 DEF Keeps, SaveNewExtend
  <2>2. PICK e \in Extend : extend' = [extend EXCEPT ![e] = work[p].row]
    BY <1>1 DEF SaveNewExtend
  <2>3. /\ extend'[e] = work[p].row
        /\ \A x \in Extend \ {e} : extend'[x] = extend[x]
    BY <2>2 DEF TypeOK
  <2>4. Keeps(Idle, extend', booking)
    BY IdleKeeps
  <2> QED BY <1>1, <1>b, <2>1, <2>3, <2>4 DEF SaveNewExtend
<1>2. CASE WriteBody(p)
  <2> DEFINE e == work[p].e
             w == [op |-> "save", e |-> e, row |-> work[p].row]
  <2>1. e \in Extend /\ work[p].put \in Put
    BY <1>0, <1>2, WorkFields DEF WriteBody, PatchExtend
  <2>2. IsThere(extend[e]) /\ extend[e] \in ExtendRow
    BY <1>0, <1>2, <2>1, RowThere DEF Safe, WriteBody, IsThere
  <2>3. extend'[e] = With(extend[e], work[p].put)
        /\ \A x \in Extend \ {e} : extend'[x] = extend[x]
    BY <1>2, <2>1, <2>2 DEF WriteBody, TypeOK
  <2>4. /\ extend'[e].booking = extend[e].booking
        /\ extend'[e].months = extend[e].months
    BY <2>1, <2>2, <2>3 DEF With, ExtendRow, OnlyRenterSetsMonths
  <2>5. Keeps(w, extend', booking)
    BY <1>0, <1>2, <2>4 DEF Keeps, WriteBody
  <2>6. Goto(p, w)
    BY <1>2 DEF WriteBody
  <2> HIDE DEF w, e
  <2> QED BY <1>b, <2>2, <2>3, <2>4, <2>5, <2>6
<1>3. CASE CreateTransaction(p)
  <2>1. extend' = extend
    BY <1>3 DEF CreateTransaction
  <2>2. Keeps([op |-> "save", e |-> work[p].e, row |-> work[p].row], extend', booking)
    BY <1>0, <1>3, <2>1 DEF Keeps, CreateTransaction
  <2>3. PICK w : Goto(p, w) /\ Keeps(w, extend', booking)
    BY <1>3, <2>2, IdleKeeps DEF CreateTransaction
  <2> QED BY <1>b, <2>1, <2>3
<1>4. CASE WriteExtend(p)
  <2> DEFINE e == work[p].e
  <2>1. e \in Extend
    BY <1>0, <1>4, WorkFields DEF WriteExtend, SaveExtend
  <2>2. /\ extend'[e] = work[p].row
        /\ \A x \in Extend \ {e} : extend'[x] = extend[x]
    BY <1>4, <2>1 DEF WriteExtend, TypeOK
  <2>3. /\ IsThere(extend[e])
        /\ extend'[e].booking = extend[e].booking
        /\ extend'[e].months = extend[e].months
    BY <1>0, <1>4, <2>2 DEF WriteExtend, Keeps, Safe, IsThere
  <2>4. Keeps(Idle, extend', booking) /\ Goto(p, Idle)
    BY <1>4, IdleKeeps DEF WriteExtend
  <2> HIDE DEF e
  <2> QED BY <1>b, <2>2, <2>3, <2>4
<1>5. CASE SetCompleted(p)
  <2> DEFINE e == work[p].e
  <2>1. e \in Extend
    BY <1>0, <1>5, WorkFields DEF SetCompleted, OnExtend
  <2>2. /\ \A x \in Extend \ {e} : extend'[x] = extend[x]
        /\ IsThere(extend[e])
             => extend'[e] = [extend[e] EXCEPT !.status = "completed"]
        /\ ~IsThere(extend[e]) => extend'[e] = extend[e]
    BY <1>5, <2>1 DEF SetCompleted, TypeOK
  <2>3. IsThere(extend[e]) => extend[e] \in ExtendRow
    BY <2>1, RowThere
  <2>4. IsThere(extend[e]) => /\ extend'[e].booking = extend[e].booking
                              /\ extend'[e].months = extend[e].months
    BY <2>2, <2>3 DEF ExtendRow
  <2>5. Keeps(Idle, extend', booking) /\ Goto(p, Idle)
    BY <1>5, IdleKeeps DEF SetCompleted
  <2> HIDE DEF e
  <2> QED BY <1>b, <2>2, <2>4, <2>5
<1>6. CASE DeleteExtend(p)
  <2>1. work[p].e \in Extend
    BY <1>0, <1>6, WorkFields DEF DeleteExtend, OnExtend
  <2>2. /\ extend'[work[p].e] \in {extend[work[p].e], Gone}
        /\ \A x \in Extend \ {work[p].e} : extend'[x] = extend[x]
    BY <1>6, <2>1 DEF DeleteExtend, TypeOK
  <2>3. ~IsThere(Gone)
    BY DEF IsThere, Gone
  <2>4. Keeps(Idle, extend', booking) /\ Goto(p, Idle)
    BY <1>6, IdleKeeps DEF DeleteExtend
  <2> QED BY <1>b, <2>2, <2>3, <2>4
<1>7. CASE \/ AcceptPayment(p) \/ UpdateExtendToComplete(p)
           \/ DeleteTransaction(p) \/ CancelExtend(p)
  <2>1. PICK w : Goto(p, w) /\ (w = Idle \/ w.op \in {"settle", "complete",
                                                      "seek", "deleteExtend"})
    BY <1>7 DEF AcceptPayment, UpdateExtendToComplete, DeleteTransaction,
                CancelExtend
  <2>2. Keeps(w, extend', booking)
    BY <2>1, IdleKeeps DEF Keeps
  <2>3. extend' = extend
    BY <1>7 DEF AcceptPayment, UpdateExtendToComplete, DeleteTransaction,
                CancelExtend, tables
  <2> QED BY <1>b, <2>1, <2>2, <2>3
<1> QED BY <1>1, <1>2, <1>3, <1>4, <1>5, <1>6, <1>7 DEF Continue

LEMMA ArriveKeepsFree ==
  ASSUME TypeOK, FreeInv, FollowsBranches, OnlyRenterSetsMonths,
         NEW c \in Call, Arrive(c)
  PROVE  FreeInv'
<1>0. ASSUME NEW w, Start(c, w), Keeps(w, extend, booking)
      PROVE  FreeInv'
  <2>1. /\ extend' = extend /\ booking' = booking /\ now' = now
        /\ work'[c] = w /\ \A q \in Process \ {c} : work'[q] = work[q]
    BY <1>0 DEF Start, Begin, Goto, tables, TypeOK, Process
  <2>2. ASSUME NEW q \in Process PROVE Keeps(work'[q], extend', booking')
    BY <1>0, <2>1 DEF FreeInv
  <2> QED BY <2>1, <2>2 DEF FreeInv
<1>1. ASSUME NEW b \in Booking, NEW m \in Months, CreateExtend(c, b, m)
      PROVE  FreeInv'
  <2>1. m \in Nat
    BY PutAssumption
  <2>2. Clear(b, m, booking)
    <3>1. booking[b] = "completed"
      BY <1>1 DEF CreateExtend
    <3>2. ASSUME NEW o \in Booking \ {b}, booking[o] # "none"
          PROVE  Span[o].start > Span[b].end + m
      <4>1. o \notin TakenUntil(b, Span[b].end + m)
        BY <1>1 DEF CreateExtend
      <4>2. Span[o].start \in Int /\ Span[o].end \in Int /\ Span[b].end \in Int
        BY SpanAssumption DEF Period
      <4> QED BY <2>1, <3>2, <4>1, <4>2 DEF TakenUntil
    <3> QED BY <3>1, <3>2 DEF Clear
  <2> DEFINE w == [op |-> "insertExtend",
                   row |-> [status |-> "pending_contract", booking |-> b,
                            months |-> m]]
  <2>3. Keeps(w, extend, booking)
    BY <2>2 DEF Keeps
  <2>4. Start(c, w)
    BY <1>1 DEF CreateExtend
  <2> HIDE DEF w
  <2> QED BY <1>0, <2>3, <2>4
<1>2. ASSUME NEW e \in Extend, NEW put \in Put,
             \/ UpdateToPendingContract(c, e, put)
             \/ UpdateToRejected(c, e, put)
             \/ UpdateToPendingSign(c, e, put)
             \/ UpdateToPendingPayment(c, e, put)
             \/ UpdateUnchecked(c, e, put)
      PROVE  FreeInv'
  <2>1. ~UpdateUnchecked(c, e, put)
    BY DEF FollowsBranches, UpdateUnchecked
  <2>2. IsThere(extend[e])
    BY <1>2, <2>1 DEF UpdateToPendingContract, UpdateToRejected,
         UpdateToPendingSign, UpdateToPendingPayment, IsThere
  <2>3. extend[e] \in ExtendRow
    BY <2>2, RowThere
  <2>4. /\ With(extend[e], put).booking = extend[e].booking
        /\ With(extend[e], put).months = extend[e].months
    BY <2>3 DEF With, ExtendRow, OnlyRenterSetsMonths
  <2>5. PICK w : /\ Start(c, w)
                 /\ w.e = e /\ w.row = With(extend[e], put)
                 /\ w.op \in {"patch", "charge", "save"}
    BY <1>2, <2>1 DEF UpdateToPendingContract, UpdateToRejected,
         UpdateToPendingSign, UpdateToPendingPayment
  <2>6. Keeps(w, extend, booking)
    BY <2>4, <2>5 DEF Keeps
  <2> QED BY <2>5, <2>6, <1>0
<1>3. ASSUME NEW t \in Bill, HandleTransactionPayment(c, t)
      PROVE  FreeInv'
  BY <1>3, <1>0 DEF HandleTransactionPayment, Keeps
<1>4. ASSUME NEW t \in Bill, CancelTransaction(c, t)
      PROVE  FreeInv'
  BY <1>4, <1>0 DEF CancelTransaction, DeleteWork, Keeps
<1> QED BY <1>1, <1>2, <1>3, <1>4 DEF Arrive

LEMMA NextKeepsFree ==
  ASSUME TypeOK, TypeOK', Serial, SerialInv, FreeInv, FollowsBranches,
         OnlyRenterSetsMonths, [Next]_vars
  PROVE  FreeInv'
<1>1. CASE \/ \E p \in Process : Fail(p)
           \/ CheckTransactionIsExpired \/ CancelNext \/ Tick \/ UNCHANGED vars
  <2>1. booking' = booking /\ now \in Int /\ now' \in {now, now + 1}
    BY <1>1 DEF Fail, CheckTransactionIsExpired, CancelNext, Tick, tables, vars,
                TypeOK
  <2>2. /\ extend' = extend
        /\ \A q \in Process :
             work'[q] = work[q] \/ work'[q] = Idle \/ \E t : work'[q] = DeleteWork(t)
    BY <1>1, RestMoves
  <2>3. \A t : Keeps(DeleteWork(t), extend, booking)
    BY DEF Keeps, DeleteWork
  <2>4. ASSUME NEW q \in Process PROVE Keeps(work'[q], extend', booking')
    BY <2>1, <2>2, <2>3, IdleKeeps DEF FreeInv
  <2>5. ASSUME NEW b \in Booking, booking'[b] = "expired"
        PROVE  Span[b].end <= now'
    <3>1. Span[b].end \in Int /\ Span[b].end <= now
      BY <2>1, <2>5, SpanAssumption DEF Period, FreeInv
    <3> QED BY <2>1, <3>1
  <2> QED BY <2>1, <2>2, <2>4, <2>5 DEF FreeInv
<1> QED BY <1>1, BookingsKeepFree, ArriveKeepsFree, ContinueKeepsFree DEF Next

\* When requests do not overlap, the statuses follow the branches and the renter
\* alone says how long: no completed extend runs, on its own, into another rental
\* of the land, for any rentals, in whatever order they were booked, ended and
\* reported.
THEOREM ExtendIsFreeHolds ==
  ASSUME Serial, FollowsBranches, OnlyRenterSetsMonths
  PROVE  Spec => []ExtendIsFree
<1>1. Init => FreeInv
  <2> SUFFICES ASSUME Init PROVE FreeInv
    OBVIOUS
  <2>1. \A e \in Extend : ~IsThere(extend[e])
    BY DEF Init, IsThere, Absent
  <2>2. \A p \in Process : Keeps(work[p], extend, booking)
    BY IdleKeeps DEF Init
  <2> QED BY <2>1, <2>2 DEF Init, FreeInv
<1>2. TypeOK /\ TypeOK' /\ SerialInv /\ [Next]_vars => SerialInv'
  BY NextKeepsSerial
<1>3. TypeOK /\ TypeOK' /\ SerialInv /\ FreeInv /\ [Next]_vars => FreeInv'
  BY NextKeepsFree
<1>4. TypeOK /\ FreeInv => ExtendIsFree
  <2> SUFFICES ASSUME TypeOK, FreeInv, NEW e \in Extend, NEW o \in Booking,
                      extend[e].status = "completed",
                      o # extend[e].booking, booking[o] # "none"
               PROVE  ~Meets(extend[e].booking, extend[e].months, o)
    BY DEF ExtendIsFree
  <2> DEFINE b == extend[e].booking
             m == extend[e].months
  <2>1. IsThere(extend[e])
    BY DEF IsThere
  <2>2. b \in Booking /\ m \in Nat
    BY <2>1, RowThere DEF ExtendRow
  <2>3. Span[o].start > Span[b].end + m \/ Span[o].end < Span[b].start
    BY <2>1 DEF FreeInv, Clear
  <2>4. /\ Span[b].start \in Int /\ Span[b].end \in Int
        /\ Span[o].start \in Int /\ Span[o].end \in Int
    BY <2>2, SpanAssumption DEF Period
  <2> HIDE DEF b, m
  <2>5. ~Meets(b, m, o)
    BY <2>2, <2>3, <2>4 DEF Meets, Overlap
  <2> QED BY <2>5 DEF b, m
<1> QED BY ExtendTypeCorrect, InitSerialInv, <1>1, <1>2, <1>3, <1>4, PTL DEF Spec
===============================================================================
