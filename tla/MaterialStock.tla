--------------------------- MODULE MaterialStock ---------------------------
(***************************************************************************)
(* The store of materials: the columns total_quantity and                  *)
(* quantity_of_rented, the orders that sell materials, the rentals         *)
(* (booking_material) that lend them, their payment, their cancellation    *)
(* when it does not come, the end of a rental and the return of its        *)
(* pieces (materials.service.ts, orders.service.ts and the branches of     *)
(* transactions, reports and requests for these two purposes).             *)
(*                                                                         *)
(* As in BookingPayment a request in flight is call[c], a read and the     *)
(* write that follows it are two steps, and a refused request is left out. *)
(* The status column (available, out_of_stock) is left out: no check reads *)
(* it.  Lists of lines are read and sent in some order; here the next line *)
(* is any of those left.  A row nothing can reach yet (an order before it  *)
(* has a transaction, its detail rows) is inserted in the step of the      *)
(* reads before it.                                                        *)
(***************************************************************************)
EXTENDS Integers, FiniteSets, FiniteSetsExt

CONSTANTS
  Buy, Rent,      \* the materials, by type
  Order, Rental,  \* the orders and booking_material rows there may be
  Call,           \* the requests that may be in flight together
  Initial,        \* total_quantity of a material when it was created
  Cart,           \* the baskets a land renter may send: sets of lines
  Edit,           \* totals a manager may set
  Delta,          \* quantities a process takes from the store or gives back
  MaxRequest,     \* bound: report requests of one rental
  MaxRefund,      \* bound: refunds of one rental
  MaxAccidents,   \* bound: awaits that throw, process deaths
  Serial          \* TRUE: a request starts only when none is in flight

Material == Buy \cup Rent
Deal == Order \cup Rental
Line == [no: Nat, m: Material, q: Nat \ {0}]

ASSUME MaterialAssumption == Buy \cap Rent = {} /\ Order \cap Rental = {}
ASSUME DealAssumption == IsFiniteSet(Order) /\ IsFiniteSet(Rental)
ASSUME InitialAssumption == Initial \in [Material -> Nat]
ASSUME CartAssumption == \A cart \in Cart : cart \subseteq Line /\ IsFiniteSet(cart)
ASSUME EditAssumption == Edit \subseteq Nat /\ Delta \subseteq Int
ASSUME StoreBoundAssumption == /\ MaxRequest \in Nat /\ MaxRefund \in Nat
                               /\ MaxAccidents \in Nat
ASSUME StoreSerialAssumption == Serial \in BOOLEAN

VARIABLES
  stock,      \* the two quantity columns of materials
  deal,       \* the status of an order or rental
  lines,      \* its detail rows
  txn,        \* the status of its payment transaction
  refund,     \* history: refunds made for a rental (what becomes of these
              \* transactions, paid, confirmed or canceled, touches nothing here)
  request,    \* the report_booking_material requests of a rental
  call,       \* requests in flight
  edited,     \* history: materials a manager or a process has changed
  accepted,   \* history: payment messages accepted for a deal
  accidents   \* history: accidents so far

store == <<stock, edited>>
deals == <<deal, lines>>
money == <<txn, refund, accepted>>
vars  == <<stock, deal, lines, txn, refund, request, call, edited, accepted,
           accidents>>

\* "none" has never existed, "gone" was deleted; an order has no status.
OrderStatus  == {"none", "gone", "open"}
RentalStatus == {"none", "gone", "pending_payment", "pending_sign",
                 "completed", "expired", "canceled"}
Exists(d) == deal[d] \notin {"none", "gone"}

StockRow == [total: Int, rented: Int]
ReportRequest == [of: Rental, no: 1 .. MaxRequest]
ReportStatus == {"none", "pending", "pending_approval", "completed", "rejected"}

\* The work left to a request in flight: `rest' are the lines of a loop, `seen'
\* is the row of materials it has read for the line `now'.
Idle     == [op |-> "idle"]
Loop     == [op: {"reserve", "restock", "deleteLines"}, d: Deal, rest: SUBSET Line]
Update   == [op: {"take", "putBack"}, d: Deal, rest: SUBSET Line, now: Line,
             seen: StockRow]
DropLine == [op: {"dropLine"}, d: Deal, rest: SUBSET Line, now: Line]
OnDeal   == [op: {"bill", "dropTxn", "cancelDeal", "accept", "settle"}, d: Deal]
SaveRow  == [op: {"saveRental"}, d: Rental, status: RentalStatus]
Expiring == [op: {"expire"}, rest: SUBSET Rental]
Filing   == [op: {"file"}, d: Rental, rest: SUBSET Rental]
Giving   == [op: {"giveBack"}, r: ReportRequest, rest: SUBSET Line]
Closing  == [op: {"close"}, r: ReportRequest, to: {"completed", "rejected"}]
SaveStockRow == [op: {"saveStock"}, m: Material, row: StockRow]
Work == {Idle} \cup Loop \cup Update \cup DropLine \cup OnDeal \cup SaveRow
          \cup Expiring \cup Filing \cup Giving \cup Closing \cup SaveStockRow

TypeOK ==
  /\ stock \in [Material -> StockRow]
  /\ deal \in [Deal -> OrderStatus \cup RentalStatus]
  /\ \A d \in Order : deal[d] \in OrderStatus
  /\ \A d \in Rental : deal[d] \in RentalStatus
  /\ lines \in [Deal -> SUBSET Line]
  /\ txn \in [Deal -> {"none", "approved", "succeed"}]
  /\ refund \in [Deal -> Nat]
  /\ request \in [ReportRequest -> ReportStatus]
  /\ call \in [Call -> Work]
  /\ edited \subseteq Material
  /\ accepted \in [Deal -> Nat]
  /\ accidents \in Nat

Init ==
  /\ stock = [m \in Material |-> [total |-> Initial[m], rented |-> 0]]
  /\ deal = [d \in Deal |-> "none"]
  /\ lines = [d \in Deal |-> {}]
  /\ txn = [d \in Deal |-> "none"]
  /\ refund = [d \in Deal |-> 0]
  /\ request = [r \in ReportRequest |-> "none"]
  /\ call = [c \in Call |-> Idle]
  /\ edited = {}
  /\ accepted = [d \in Deal |-> 0]
  /\ accidents = 0

Quiet == \A c \in Call : call[c] = Idle
MayStart == Serial => Quiet
Goto(c, work) == call' = [call EXCEPT ![c] = work]
Start(c, work) == call[c] = Idle /\ MayStart /\ Goto(c, work)

-----------------------------------------------------------------------------
\* buyMaterial and bookingMaterial: every line is checked, one by one, against
\* the store, and the order or rental is inserted; its lines come later.
Enough(cart) == \A x \in cart : stock[x.m].total >= x.q

OpenDeal(c, d, status, cart) ==
  /\ deal[d] = "none"
  /\ cart # {} /\ Enough(cart)
  /\ deal' = [deal EXCEPT ![d] = status]
  /\ Start(c, [op |-> "reserve", d |-> d, rest |-> cart])
  /\ UNCHANGED <<store, lines, money, request, accidents>>

BuyMaterial(c, d, cart) ==
  /\ d \in Order
  /\ \A x \in cart : x.m \in Buy
  /\ OpenDeal(c, d, "open", cart)

\* The booking_land of the rental is completed: a check of another table.
BookingMaterial(c, d, cart) ==
  /\ d \in Rental
  /\ \A x \in cart : x.m \in Rent
  /\ OpenDeal(c, d, "pending_payment", cart)

\* One line: the material is read again and the detail row inserted.
Reserve(c) ==
  /\ call[c].op = "reserve"
  /\ LET d == call[c].d
     IN  \E x \in call[c].rest :
           /\ lines' = [lines EXCEPT ![d] = @ \cup {x}]
           /\ Goto(c, [op |-> "take", d |-> d, rest |-> call[c].rest \ {x},
                       now |-> x, seen |-> stock[x.m]])
  /\ UNCHANGED <<store, deal, money, request, accidents>>

\* The update of the material, with what was read less the line.
Take(c) ==
  /\ call[c].op = "take"
  /\ LET w == call[c]
         x == w.now
     IN  /\ stock' = [stock EXCEPT ![x.m] =
              IF w.d \in Order THEN [@ EXCEPT !.total = w.seen.total - x.q]
              ELSE [total |-> w.seen.total - x.q, rented |-> w.seen.rented + x.q]]
         /\ Goto(c, IF w.rest = {} THEN [op |-> "bill", d |-> w.d]
                    ELSE [op |-> "reserve", d |-> w.d, rest |-> w.rest])
  /\ UNCHANGED <<edited, deals, money, request, accidents>>

CreateTransaction(c) ==
  /\ call[c].op = "bill"
  /\ txn' = [txn EXCEPT ![call[c].d] = "approved"]
  /\ Goto(c, Idle)
  /\ UNCHANGED <<store, deals, refund, accepted, request, accidents>>

-----------------------------------------------------------------------------
\* handleTransactionPayment; for an order nothing more is done.
HandleTransactionPayment(c, d) ==
  /\ txn[d] = "approved"
  /\ Start(c, [op |-> "accept", d |-> d])
  /\ UNCHANGED <<store, deals, money, request, accidents>>

\* save writes the row again if it was deleted, but not for a deal that is gone
\* (the foreign key throws).
AcceptPayment(c) ==
  /\ call[c].op = "accept"
  /\ LET d == call[c].d
     IN  IF Exists(d)
         THEN /\ txn' = [txn EXCEPT ![d] = "succeed"]
              /\ accepted' = [accepted EXCEPT ![d] = @ + 1]
              /\ Goto(c, IF d \in Rental THEN [op |-> "settle", d |-> d] ELSE Idle)
         ELSE Goto(c, Idle) /\ UNCHANGED <<txn, accepted>>
  /\ UNCHANGED <<store, deals, refund, request, accidents>>

\* handlePaymentBookingMaterial: the row is looked for, its status is not.
HandlePaymentBookingMaterial(c) ==
  /\ call[c].op = "settle"
  /\ LET d == call[c].d
     IN  deal' = IF Exists(d) THEN [deal EXCEPT ![d] = "pending_sign"] ELSE deal
  /\ Goto(c, Idle)
  /\ UNCHANGED <<store, lines, money, request, accidents>>

\* Mutant: cancelTransaction without its check of the status.
CancelAnyDeal(c, d) ==
  /\ txn[d] # "none"
  /\ Start(c, [op |-> "dropTxn", d |-> d])
  /\ UNCHANGED <<store, deals, money, request, accidents>>

\* cancelTransaction, by a user or for a transaction that is overdue.
CancelTransaction(c, d) ==
  /\ txn[d] = "approved"
  /\ Start(c, [op |-> "dropTxn", d |-> d])
  /\ UNCHANGED <<store, deals, money, request, accidents>>

DropTransaction(c) ==
  /\ call[c].op = "dropTxn"
  /\ txn' = [txn EXCEPT ![call[c].d] = "none"]
  /\ Goto(c, [op |-> "cancelDeal", d |-> call[c].d])
  /\ UNCHANGED <<store, deals, refund, accepted, request, accidents>>

\* cancelOrder or cancelBookingMaterial: the deal and its lines are read.  Only
\* an order's pieces go back to the store.
CancelDeal(c) ==
  /\ call[c].op = "cancelDeal"
  /\ LET d == call[c].d
     IN  Goto(c, IF ~Exists(d) \/ (d \in Order /\ lines[d] = {}) THEN Idle
                 ELSE [op |-> IF d \in Order THEN "restock" ELSE "deleteLines",
                       d |-> d, rest |-> lines[d]])
  /\ UNCHANGED <<store, deals, money, request, accidents>>

\* handleCancelOrder: read, then update.
Restock(c) ==
  /\ call[c].op = "restock"
  /\ \E x \in call[c].rest :
       Goto(c, [op |-> "putBack", d |-> call[c].d, rest |-> call[c].rest \ {x},
                now |-> x, seen |-> stock[x.m]])
  /\ UNCHANGED <<store, deals, money, request, accidents>>

\* Mutant: the pieces of a canceled order are forgotten.
PutBackNothing(c) ==
  /\ call[c].op = "putBack"
  /\ LET w == call[c]
     IN  Goto(c, [op |-> "dropLine", d |-> w.d, rest |-> w.rest, now |-> w.now])
  /\ UNCHANGED <<store, deals, money, request, accidents>>

PutBack(c) ==
  /\ call[c].op = "putBack"
  /\ LET w == call[c]
     IN  /\ stock' = [stock EXCEPT ![w.now.m].total = w.seen.total + w.now.q]
         /\ Goto(c, [op |-> "dropLine", d |-> w.d, rest |-> w.rest, now |-> w.now])
  /\ UNCHANGED <<edited, deals, money, request, accidents>>

DeleteLine(c) ==
  /\ \/ /\ call[c].op = "dropLine"
        /\ lines' = [lines EXCEPT ![call[c].d] = @ \ {call[c].now}]
        /\ Goto(c, [op |-> IF call[c].rest = {} THEN "deleteLines" ELSE "restock",
                    d |-> call[c].d, rest |-> call[c].rest])
     \/ /\ call[c].op = "deleteLines"
        /\ \E x \in call[c].rest :
             /\ lines' = [lines EXCEPT ![call[c].d] = @ \ {x}]
             /\ Goto(c, [call[c] EXCEPT !.rest = @ \ {x}])
  /\ UNCHANGED <<store, deal, money, request, accidents>>

\* The foreign keys of transactions and requests keep a deal they name; a rental
\* with a refund has a request.
Referred(d) == \/ txn[d] # "none"
               \/ \E r \in ReportRequest : r.of = d /\ request[r] # "none"

DeleteDeal(c) ==
  /\ call[c].op = "deleteLines" /\ call[c].rest = {}
  /\ deal' = IF Exists(call[c].d) /\ ~Referred(call[c].d)
             THEN [deal EXCEPT ![call[c].d] = "gone"] ELSE deal
  /\ Goto(c, Idle)
  /\ UNCHANGED <<store, lines, money, request, accidents>>

-----------------------------------------------------------------------------
\* Mutant: a rental is signed whatever its status.
SignAny(c, d) ==
  /\ Exists(d)
  /\ Start(c, [op |-> "saveRental", d |-> d, status |-> "completed"])
  /\ UNCHANGED <<store, deals, money, request, accidents>>

\* updateBookingMaterialStatus: only the way to completed is guarded; asked for
\* any other status it saves the row as it has read it.
UpdateBookingMaterialStatus(c, d) ==
  /\ Exists(d)
  /\ \/ /\ deal[d] = "pending_sign"
        /\ Start(c, [op |-> "saveRental", d |-> d, status |-> "completed"])
     \/ Start(c, [op |-> "saveRental", d |-> d, status |-> deal[d]])
  /\ UNCHANGED <<store, deals, money, request, accidents>>

\* save inserts the row again if it was deleted.
SaveRental(c) ==
  /\ call[c].op = "saveRental"
  /\ deal' = [deal EXCEPT ![call[c].d] = call[c].status]
  /\ Goto(c, Idle)
  /\ UNCHANGED <<store, lines, money, request, accidents>>

\* checkBookingMaterialIsExpired, of the daily job: those waiting for the
\* signature whose time_end is past, which may be any of them.
CheckBookingMaterialIsExpired(c, over) ==
  /\ over # {} /\ \A d \in over : deal[d] = "pending_sign"
  /\ Start(c, [op |-> "expire", rest |-> over])
  /\ UNCHANGED <<store, deals, money, request, accidents>>

FreeRequest(d) == {r \in ReportRequest : r.of = d /\ request[r] = "none"}

ExpireRental(c) ==
  /\ call[c].op = "expire"
  /\ \E d \in call[c].rest :
       /\ FreeRequest(d) # {}
       /\ deal' = [deal EXCEPT ![d] = "expired"]
       /\ Goto(c, [op |-> "file", d |-> d, rest |-> call[c].rest \ {d}])
  /\ UNCHANGED <<store, lines, money, request, accidents>>

CreateRequestReportBookingMaterial(c) ==
  /\ call[c].op = "file"
  /\ IF Exists(call[c].d)
     THEN \E r \in FreeRequest(call[c].d) :
            request' = [request EXCEPT ![r] = "pending"]
     ELSE UNCHANGED request
  /\ Goto(c, IF call[c].rest = {} THEN Idle
             ELSE [op |-> "expire", rest |-> call[c].rest])
  /\ UNCHANGED <<store, deals, money, accidents>>

\* createReport on the request, whatever its status: a report that exists is
\* written over.  approveTask writes the same status for a task in progress.
CreateReport(r) ==
  /\ MayStart
  /\ request[r] # "none"
  /\ request' = [request EXCEPT ![r] = "pending_approval"]
  /\ UNCHANGED <<store, deals, money, call, accidents>>

\* assignTask, at any time, and startTask.  The statuses assigned and in_progress
\* count as pending.
AssignTask(r) ==
  /\ MayStart
  /\ request[r] # "none"
  /\ request' = [request EXCEPT ![r] = "pending"]
  /\ UNCHANGED <<store, deals, money, call, accidents>>

\* confirmRequest, then createRefundTransactionBookingMaterial: the lines go
\* back to the store, a refund is made, and last the request is closed.
ConfirmRequest(c, r, outcome) ==
  /\ request[r] = "pending_approval"
  /\ refund[r.of] < MaxRefund
  /\ Start(c, IF outcome = "completed"
              THEN [op |-> "giveBack", r |-> r, rest |-> lines[r.of]]
              ELSE [op |-> "close", r |-> r, to |-> outcome])
  /\ UNCHANGED <<store, deals, money, request, accidents>>

\* Mutant: the pieces come back and stay counted as rented.
GiveBackTotalOnly(c) ==
  /\ call[c].op = "giveBack"
  /\ \E x \in call[c].rest :
       /\ stock' = [stock EXCEPT ![x.m].total = @ + x.q]
       /\ Goto(c, [call[c] EXCEPT !.rest = @ \ {x}])
  /\ UNCHANGED <<edited, deals, money, request, accidents>>

\* One line, in one statement: total + q, rented - q.
GiveBack(c) ==
  /\ call[c].op = "giveBack"
  /\ \E x \in call[c].rest :
       /\ stock' = [stock EXCEPT ![x.m] = [total |-> @.total + x.q,
                                           rented |-> @.rented - x.q]]
       /\ Goto(c, [call[c] EXCEPT !.rest = @ \ {x}])
  /\ UNCHANGED <<edited, deals, money, request, accidents>>

CreateRefund(c) ==
  /\ call[c].op = "giveBack" /\ call[c].rest = {}
  /\ refund' = [refund EXCEPT ![call[c].r.of] = @ + 1]
  /\ Goto(c, [op |-> "close", r |-> call[c].r, to |-> "completed"])
  /\ UNCHANGED <<store, deals, txn, accepted, request, accidents>>

CloseRequest(c) ==
  /\ call[c].op = "close"
  /\ request' = [request EXCEPT ![call[c].r] = call[c].to]
  /\ Goto(c, Idle)
  /\ UNCHANGED <<store, deals, money, accidents>>

-----------------------------------------------------------------------------
\* Bound: a request that edits a material starts only when none has.
EditLeft(m) == m \notin edited

\* updateMaterial by a manager: the row read, with a new total or without.
UpdateMaterial(c, m) ==
  /\ EditLeft(m)
  /\ \E total \in Edit \cup {stock[m].total} :
       Start(c, [op |-> "saveStock", m |-> m,
                 row |-> [stock[m] EXCEPT !.total = total]])
  /\ UNCHANGED <<store, deals, money, request, accidents>>

\* updateQuantityMaterial, for the materials of a process.  For a material that
\* is rented the same quantity is also added to the rented pieces.
UpdateQuantityMaterial(c, m) ==
  /\ EditLeft(m)
  /\ \E q \in Delta :
       Start(c, [op |-> "saveStock", m |-> m,
                 row |-> [total |-> stock[m].total + q,
                          rented |-> stock[m].rented
                                       + IF m \in Rent THEN q ELSE 0]])
  /\ UNCHANGED <<store, deals, money, request, accidents>>

\* save({...material_exist}): both columns, as they were read and changed.
SaveStock(c) ==
  /\ call[c].op = "saveStock"
  /\ stock' = [stock EXCEPT ![call[c].m] = call[c].row]
  /\ edited' = edited \cup {call[c].m}
  /\ Goto(c, Idle)
  /\ UNCHANGED <<deals, money, request, accidents>>

\* An await throws (the refund of a fraction of a dong, a notification, a
\* query), or the process dies: what is written stays.
Fail(c) ==
  /\ call[c] # Idle
  /\ accidents < MaxAccidents /\ accidents' = accidents + 1
  /\ Goto(c, Idle)
  /\ UNCHANGED <<store, deals, money, request>>

Arrive(c) ==
  \/ \E d \in Deal, cart \in Cart : BuyMaterial(c, d, cart) \/ BookingMaterial(c, d, cart)
  \/ \E d \in Deal : HandleTransactionPayment(c, d) \/ CancelTransaction(c, d)
  \/ \E d \in Rental : UpdateBookingMaterialStatus(c, d)
  \/ \E over \in SUBSET Rental : CheckBookingMaterialIsExpired(c, over)
  \/ \E r \in ReportRequest, o \in {"completed", "rejected"} : ConfirmRequest(c, r, o)
  \/ \E m \in Material : UpdateMaterial(c, m) \/ UpdateQuantityMaterial(c, m)

Continue(c) ==
  \/ Reserve(c) \/ Take(c) \/ CreateTransaction(c)
  \/ AcceptPayment(c) \/ HandlePaymentBookingMaterial(c)
  \/ DropTransaction(c) \/ CancelDeal(c) \/ Restock(c) \/ PutBack(c)
  \/ DeleteLine(c) \/ DeleteDeal(c)
  \/ SaveRental(c) \/ ExpireRental(c) \/ CreateRequestReportBookingMaterial(c)
  \/ GiveBack(c) \/ CreateRefund(c) \/ CloseRequest(c)
  \/ SaveStock(c)

Next == \/ \E c \in Call : Arrive(c) \/ Continue(c) \/ Fail(c)
        \/ \E r \in ReportRequest : CreateReport(r) \/ AssignTask(r)

Spec == Init /\ [][Next]_vars

-----------------------------------------------------------------------------
Pieces(set, m) == MapThenSumSet(LAMBDA x : x.q, {x \in set : x.m = m})
Out(ds, m) == MapThenSumSet(LAMBDA d : Pieces(lines[d], m), ds)

\* Pieces of a rented material move between the store and its renters and none
\* appears or is lost, in whatever order purchases, cancellations and returns
\* overlap or fail (handleCancelOrder and the checks of an order never touch
\* them), unless a manager or a process sets the columns.
RentStockConserved ==
  \A m \in Rent \ edited : stock[m].total + stock[m].rented = Initial[m]

\* When requests do not overlap: what was sold or is reserved by an order, and
\* what is in the store, is what there was.
StoreAddsUp ==
  Quiet /\ accidents = 0
  => \A m \in Buy \ edited : stock[m].total + Out(Order, m) = Initial[m]

\* When requests do not overlap and none fails: the pieces of a rental are counted
\* as rented until they come back, and they come back once with each refund (a
\* canceled rental's are counted for ever).
RentalsAreCounted ==
  Quiet /\ accidents = 0
  => \A m \in Rent \ edited :
       stock[m].rented
         >= MapThenSumSet(LAMBDA d : (1 - refund[d]) * Pieces(lines[d], m), Rental)

\* When requests do not overlap and none fails, every piece is accounted for.
PiecesAreCounted == StoreAddsUp /\ RentalsAreCounted

Signed == {"pending_sign", "completed", "expired"}

\* A rental is signed, ended or given its deposit back only if its payment was
\* accepted, whatever overlaps or fails.
SignedWasPaid ==
  \A d \in Rental : deal[d] \in Signed \/ refund[d] > 0 => accepted[d] > 0

\* Why the two hold, whatever overlaps or fails: work in flight signs, ends or
\* reports only on what was paid; an order has lines of materials that are sold
\* and a rental of those that are rented, so restocking an order never touches
\* a rented material; and the row a rental is about to write has as many pieces
\* as there were.
Fits(d, set) == \A x \in set : x.m \in IF d \in Order THEN Buy ELSE Rent

Sound(w) ==
  /\ w.op = "settle" => w.d \in Rental /\ accepted[w.d] > 0
  /\ w.op = "saveRental" /\ w.status \in Signed => accepted[w.d] > 0
  /\ w.op = "file" => accepted[w.d] > 0
  /\ w.op \in {"expire", "file"} => \A d \in w.rest : accepted[d] > 0
  /\ w.op \in {"giveBack", "close"} => accepted[w.r.of] > 0
  /\ w.op \in {"reserve", "restock", "take", "putBack", "dropLine"}
       => Fits(w.d, w.rest)
  /\ w.op \in {"take", "putBack"} => Fits(w.d, {w.now})
  /\ w.op \in {"restock", "putBack", "dropLine"} => w.d \in Order
  /\ w.op = "take" /\ w.now.m \in Rent \ edited
       => w.seen.total + w.seen.rented = Initial[w.now.m]

StoreInductive ==
  /\ TypeOK
  /\ \A c \in Call : Sound(call[c])
  /\ \A d \in Deal : Fits(d, lines[d])
  /\ \A r \in ReportRequest : request[r] # "none" => accepted[r.of] > 0
  /\ RentStockConserved
  /\ SignedWasPaid

\* When requests do not overlap, a deal that was paid keeps its lines and is
\* not deleted: a late cancellation cannot undo a payment.
PaidDealStays ==
  [][\A d \in Deal : txn[d] = "succeed"
       => txn'[d] = "succeed" /\ lines'[d] = lines[d] /\ deal'[d] # "gone"]_vars
===============================================================================
