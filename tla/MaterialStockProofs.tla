------------------------ MODULE MaterialStockProofs ------------------------
(***************************************************************************)
(* Proofs about MaterialStock, for any number of materials, deals,         *)
(* baskets, requests in flight, edits and accidents.                       *)
(***************************************************************************)
EXTENDS MaterialStock, FiniteSetTheorems, WellFoundedInduction, TLAPS

\* Payments accepted and edits made are never forgotten.
Grows == /\ \A d \in Deal : accepted[d] > 0 => accepted'[d] > 0
         /\ edited \subseteq edited'

\* The tag of a piece of work tells its shape.
LEMMA WorkShape ==
  ASSUME NEW w \in Work
  PROVE  /\ w.op \in {"reserve", "restock", "deleteLines", "take", "putBack",
                      "dropLine"} => w.d \in Deal /\ w.rest \subseteq Line
         /\ w.op \in {"take", "putBack", "dropLine"} => w.now \in Line
         /\ w.op \in {"take", "putBack"} => w.seen \in StockRow
         /\ w.op \in {"bill", "dropTxn", "cancelDeal", "accept", "settle"}
              => w.d \in Deal
         /\ w.op = "saveRental" => w.d \in Rental /\ w.status \in RentalStatus
         /\ w.op = "expire" => w.rest \subseteq Rental
         /\ w.op = "file" => w.d \in Rental /\ w.rest \subseteq Rental
         /\ w.op = "giveBack" => w.r \in ReportRequest /\ w.rest \subseteq Line
         /\ w.op = "close" => w.r \in ReportRequest
                              /\ w.to \in {"completed", "rejected"}
         /\ w.op = "saveStock" => w.m \in Material /\ w.row \in StockRow
BY DEF Work, Idle, Loop, Update, DropLine, OnDeal, SaveRow, Expiring, Filing,
       Giving, Closing, SaveStockRow

LEMMA RequestOf ==
  ASSUME NEW r \in ReportRequest
  PROVE  r.of \in Rental /\ r.of \in Deal
BY DEF ReportRequest, Deal

\* Work that was sound when it was put in flight stays so.
LEMMA SoundStays ==
  ASSUME NEW w \in Work, Grows, Sound(w)
  PROVE  Sound(w)'
<1>1. /\ w.op = "settle" => w.d \in Rental /\ accepted'[w.d] > 0
      /\ w.op = "saveRental" /\ w.status \in Signed => accepted'[w.d] > 0
      /\ w.op = "file" => accepted'[w.d] > 0
  BY WorkShape DEF Sound, Grows, Deal
<1>2. w.op \in {"expire", "file"} => \A d \in w.rest : accepted'[d] > 0
  BY WorkShape DEF Sound, Grows, Deal
<1>3. w.op \in {"giveBack", "close"} => accepted'[w.r.of] > 0
  BY WorkShape, RequestOf DEF Sound, Grows
<1>4. w.op = "take" /\ w.now.m \in Rent \ edited'
        => w.seen.total + w.seen.rented = Initial[w.now.m]
  BY DEF Sound, Grows
<1> QED BY <1>1, <1>2, <1>3, <1>4 DEF Sound, Fits

-----------------------------------------------------------------------------
\* The invariant in parts: the requests in flight, and the tables.
CallsOK == /\ call \in [Call -> Work]
           /\ \A c \in Call : Sound(call[c])

StockOK == /\ stock \in [Material -> StockRow]
           /\ edited \subseteq Material
           /\ RentStockConserved

DealsOK == /\ deal \in [Deal -> OrderStatus \cup RentalStatus]
           /\ \A d \in Order : deal[d] \in OrderStatus
           /\ \A d \in Rental : deal[d] \in RentalStatus
           /\ lines \in [Deal -> SUBSET Line]
           /\ \A d \in Deal : Fits(d, lines[d])

PaidOK == /\ txn \in [Deal -> {"none", "approved", "succeed"}]
          /\ refund \in [Deal -> Nat]
          /\ request \in [ReportRequest -> ReportStatus]
          /\ accepted \in [Deal -> Nat]
          /\ accidents \in Nat
          /\ \A r \in ReportRequest : request[r] # "none" => accepted[r.of] > 0
          /\ SignedWasPaid

LEMMA InductiveParts ==
  StoreInductive <=> CallsOK /\ StockOK /\ DealsOK /\ PaidOK
BY DEF StoreInductive, TypeOK, CallsOK, StockOK, DealsOK, PaidOK

LEMMA InductivePartsNext ==
  CallsOK' /\ StockOK' /\ DealsOK' /\ PaidOK' => StoreInductive'
BY DEF StoreInductive, TypeOK, CallsOK, StockOK, DealsOK, PaidOK

\* A slot is given sound work, or becomes idle.
LEMMA GotoKeepsCalls ==
  ASSUME NEW c \in Call, NEW w \in Work, CallsOK, Grows, Sound(w)', Goto(c, w)
  PROVE  CallsOK'
<1>1. call' \in [Call -> Work]
  BY DEF CallsOK, Goto
<1>2. ASSUME NEW d \in Call PROVE Sound(call[d])'
  <2>1. CASE d = c
    <3>1. call'[d] = w  BY <2>1 DEF CallsOK, Goto
    <3> QED BY <3>1 DEF Sound, Fits
  <2>2. CASE d # c
    <3>1. PICK v \in Work : v = call[d] /\ Sound(v) /\ call'[d] = v
      BY <2>2 DEF CallsOK, Goto
    <3>2. Sound(v)'
      BY <3>1, SoundStays
    <3> QED BY <3>1, <3>2 DEF Sound, Fits
  <2> QED BY <2>1, <2>2
<1> QED BY <1>1, <1>2 DEF CallsOK

LEMMA IdleIsSound == Idle \in Work /\ Sound(Idle) /\ Sound(Idle)'
BY DEF Idle, Work, Sound

LEMMA OnDealIsWork ==
  ASSUME NEW d \in Deal,
         NEW op \in {"bill", "dropTxn", "cancelDeal", "accept", "settle"}
  PROVE  [op |-> op, d |-> d] \in Work
BY DEF Work, OnDeal

LEMMA LoopIsWork ==
  ASSUME NEW d \in Deal, NEW op \in {"reserve", "restock", "deleteLines"},
         NEW rest \in SUBSET Line
  PROVE  [op |-> op, d |-> d, rest |-> rest] \in Work
BY DEF Work, Loop

\* Parts of the tables a step leaves alone.
LEMMA StockStays ==
  ASSUME StockOK, UNCHANGED store
  PROVE  StockOK'
BY DEF StockOK, store, RentStockConserved

LEMMA DealsStay ==
  ASSUME DealsOK, UNCHANGED deals
  PROVE  DealsOK'
BY DEF DealsOK, deals, Fits

LEMMA PaidStays ==
  ASSUME PaidOK, UNCHANGED <<deals, money, request>>, accidents' \in Nat
  PROVE  PaidOK'
BY DEF PaidOK, deals, money, SignedWasPaid, Signed

LEMMA NothingForgotten ==
  ASSUME UNCHANGED <<money, store>>
  PROVE  Grows
BY DEF Grows, money, store

\* A request that arrives, or goes on without writing.
LEMMA PlanKeepsInductive ==
  ASSUME NEW c \in Call, NEW w \in Work, StoreInductive, Sound(w), Goto(c, w),
         UNCHANGED <<store, deals, money, request>>, accidents' \in Nat
  PROVE  StoreInductive'
<1>1. Grows
  BY NothingForgotten
<1>2. CallsOK'
  BY <1>1, InductiveParts, SoundStays, GotoKeepsCalls
<1>3. StockOK' /\ DealsOK' /\ PaidOK'
  BY InductiveParts, StockStays, DealsStay, PaidStays
<1> QED BY <1>2, <1>3, InductivePartsNext

\* What a step that writes has to show.
LEMMA StepKeepsInductive ==
  ASSUME NEW c \in Call, NEW w \in Work, StoreInductive, Goto(c, w), Sound(w)',
         Grows, StockOK', DealsOK', PaidOK'
  PROVE  StoreInductive'
<1>1. CallsOK'
  BY InductiveParts, GotoKeepsCalls
<1> QED BY <1>1, InductivePartsNext

-----------------------------------------------------------------------------
\* Requests that arrive.
LEMMA OpenDealKeepsInductive ==
  ASSUME NEW c \in Call, NEW d \in Deal, NEW cart \in Cart,
         NEW status \in {"open", "pending_payment"}, StoreInductive,
         Fits(d, cart), status = "open" <=> d \in Order,
         OpenDeal(c, d, status, cart)
  PROVE  StoreInductive'
<1>1. CallsOK /\ StockOK /\ DealsOK /\ PaidOK
  BY InductiveParts
<1>2. PICK w \in Work : w = [op |-> "reserve", d |-> d, rest |-> cart]
  BY CartAssumption, LoopIsWork
<1>3. /\ deal' = [deal EXCEPT ![d] = status] /\ lines' = lines
      /\ UNCHANGED <<store, money, request, accidents>> /\ Goto(c, w)
  BY <1>2 DEF OpenDeal, Start
<1>4. Grows
  BY <1>3, NothingForgotten
<1>5. Sound(w)'
  BY <1>2 DEF Sound, Fits
<1>6. d \in Rental => d \notin Order
  BY MaterialAssumption
<1>7. DealsOK'
  <2>1. \A x \in Deal : deal'[x] = IF x = d THEN status ELSE deal[x]
    BY <1>1, <1>3 DEF DealsOK
  <2>2. status \in OrderStatus \cup RentalStatus
    BY DEF RentalStatus, OrderStatus
  <2>3. deal' \in [Deal -> OrderStatus \cup RentalStatus]
    BY <1>1, <1>3, <2>2 DEF DealsOK
  <2>4. /\ \A x \in Order : deal'[x] \in OrderStatus
        /\ \A x \in Rental : deal'[x] \in RentalStatus
    BY <1>1, <1>6, <2>1 DEF DealsOK, Deal, RentalStatus, OrderStatus
  <2> QED BY <1>1, <1>3, <2>3, <2>4 DEF DealsOK, Fits
<1>8. PaidOK'
  <2>1. \A x \in Rental : deal'[x] \in Signed => deal[x] \in Signed
    BY <1>1, <1>3 DEF DealsOK, Deal, Signed
  <2> QED BY <1>1, <1>3, <2>1 DEF PaidOK, money, SignedWasPaid
<1> QED BY <1>1, <1>2, <1>3, <1>4, <1>5, <1>7, <1>8, StockStays, StepKeepsInductive

LEMMA ArriveKeepsInductive ==
  ASSUME NEW c \in Call, StoreInductive, Arrive(c)
  PROVE  StoreInductive'
<1> USE DEF Start
<1>0. CallsOK /\ StockOK /\ DealsOK /\ PaidOK
  BY InductiveParts
<1>1. accidents \in Nat
  BY <1>0 DEF PaidOK
<1>2. ASSUME NEW d \in Deal, NEW cart \in Cart,
             BuyMaterial(c, d, cart) \/ BookingMaterial(c, d, cart)
      PROVE  StoreInductive'
  BY <1>2, MaterialAssumption, OpenDealKeepsInductive
     DEF BuyMaterial, BookingMaterial, Fits
<1>3. ASSUME NEW d \in Deal,
             HandleTransactionPayment(c, d) \/ CancelTransaction(c, d)
      PROVE  StoreInductive'
  <2>1. PICK w \in Work : /\ w = [op |-> "accept", d |-> d]
                             \/ w = [op |-> "dropTxn", d |-> d]
                          /\ Goto(c, w)
    BY <1>3, OnDealIsWork DEF HandleTransactionPayment, CancelTransaction
  <2>2. Sound(w)
    BY <2>1 DEF Sound
  <2> QED BY <1>1, <1>3, <2>1, <2>2, PlanKeepsInductive
          DEF HandleTransactionPayment, CancelTransaction
<1>4. ASSUME NEW d \in Rental, UpdateBookingMaterialStatus(c, d)
      PROVE  StoreInductive'
  <2>1. d \in Deal /\ deal[d] \in RentalStatus
    BY <1>0 DEF DealsOK, Deal
  <2>2. PICK s \in RentalStatus :
          /\ Goto(c, [op |-> "saveRental", d |-> d, status |-> s])
          /\ s \in Signed => deal[d] \in Signed
    BY <1>4, <2>1 DEF UpdateBookingMaterialStatus, Signed, RentalStatus
  <2>3. PICK w \in Work : w = [op |-> "saveRental", d |-> d, status |-> s]
    BY DEF Work, SaveRow
  <2>4. Sound(w)
    BY <1>0, <2>2, <2>3 DEF Sound, PaidOK, SignedWasPaid
  <2> QED BY <1>1, <1>4, <2>2, <2>3, <2>4, PlanKeepsInductive
          DEF UpdateBookingMaterialStatus
<1>5. ASSUME NEW over \in SUBSET Rental, CheckBookingMaterialIsExpired(c, over)
      PROVE  StoreInductive'
  <2>1. PICK w \in Work : w = [op |-> "expire", rest |-> over]
    BY DEF Work, Expiring
  <2>2. Sound(w)
    BY <1>0, <1>5, <2>1
       DEF Sound, CheckBookingMaterialIsExpired, PaidOK, SignedWasPaid, Signed
  <2> QED BY <1>1, <1>5, <2>1, <2>2, PlanKeepsInductive
          DEF CheckBookingMaterialIsExpired
<1>6. ASSUME NEW r \in ReportRequest, NEW o \in {"completed", "rejected"},
             ConfirmRequest(c, r, o)
      PROVE  StoreInductive'
  <2>1. accepted[r.of] > 0 /\ r.of \in Deal
    BY <1>0, <1>6, RequestOf DEF ConfirmRequest, PaidOK
  <2>2. lines[r.of] \in SUBSET Line
    BY <1>0, <2>1 DEF DealsOK
  <2>3. PICK w \in Work : /\ \/ w = [op |-> "giveBack", r |-> r, rest |-> lines[r.of]]
                             \/ w = [op |-> "close", r |-> r, to |-> o]
                          /\ Goto(c, w)
    BY <1>6, <2>2 DEF ConfirmRequest, Work, Giving, Closing
  <2>4. Sound(w)
    BY <2>1, <2>3 DEF Sound
  <2> QED BY <1>1, <1>6, <2>3, <2>4, PlanKeepsInductive DEF ConfirmRequest
<1>7. ASSUME NEW m \in Material,
             UpdateMaterial(c, m) \/ UpdateQuantityMaterial(c, m)
      PROVE  StoreInductive'
  <2>1. stock[m] \in StockRow /\ stock[m].total \in Int /\ stock[m].rented \in Int
    BY <1>0 DEF StockOK, StockRow
  <2>2. PICK row \in StockRow : Goto(c, [op |-> "saveStock", m |-> m, row |-> row])
    <3>1. CASE UpdateMaterial(c, m)
      <4>1. PICK total \in Edit \cup {stock[m].total} :
              Goto(c, [op |-> "saveStock", m |-> m,
                       row |-> [stock[m] EXCEPT !.total = total]])
        BY <3>1 DEF UpdateMaterial
      <4>2. [stock[m] EXCEPT !.total = total] \in StockRow
        BY <2>1, EditAssumption DEF StockRow
      <4> QED BY <4>1, <4>2
    <3>2. CASE UpdateQuantityMaterial(c, m)
      <4>1. PICK q \in Delta :
              Goto(c, [op |-> "saveStock", m |-> m,
                       row |-> [total |-> stock[m].total + q,
                                rented |-> stock[m].rented
                                             + IF m \in Rent THEN q ELSE 0]])
        BY <3>2 DEF UpdateQuantityMaterial
      <4>2. q \in Int
        BY EditAssumption
      <4>3. [total |-> stock[m].total + q,
             rented |-> stock[m].rented + IF m \in Rent THEN q ELSE 0] \in StockRow
        BY <2>1, <4>2 DEF StockRow
      <4> QED BY <4>1, <4>3
    <3> QED BY <1>7, <3>1, <3>2
  <2>3. PICK w \in Work : w = [op |-> "saveStock", m |-> m, row |-> row]
    BY DEF Work, SaveStockRow
  <2>4. Sound(w)
    BY <2>3 DEF Sound
  <2> QED BY <1>1, <1>7, <2>2, <2>3, <2>4, PlanKeepsInductive
          DEF UpdateMaterial, UpdateQuantityMaterial
<1> QED BY <1>2, <1>3, <1>4, <1>5, <1>6, <1>7 DEF Arrive

-----------------------------------------------------------------------------
\* Steps of a purchase or a rental.
LEMMA ReserveKeepsInductive ==
  ASSUME NEW c \in Call, StoreInductive, Reserve(c)
  PROVE  StoreInductive'
<1>1. CallsOK /\ StockOK /\ DealsOK /\ PaidOK
  BY InductiveParts
<1>2. PICK v \in Work : v = call[c] /\ Sound(v) /\ v.op = "reserve"
  BY <1>1 DEF CallsOK, Reserve
<1>3. v.d \in Deal /\ v.rest \subseteq Line /\ Fits(v.d, v.rest)
  BY <1>2, WorkShape DEF Sound
<1>4. PICK x \in v.rest :
        /\ lines' = [lines EXCEPT ![v.d] = @ \cup {x}]
        /\ Goto(c, [op |-> "take", d |-> v.d, rest |-> v.rest \ {x},
                    now |-> x, seen |-> stock[x.m]])
  BY <1>2 DEF Reserve
<1>5. x \in Line /\ x.m \in Material
  BY <1>3 DEF Line
<1>6. PICK w \in Work : w = [op |-> "take", d |-> v.d, rest |-> v.rest \ {x},
                             now |-> x, seen |-> stock[x.m]]
  <2>1. stock[x.m] \in StockRow
    BY <1>1, <1>5 DEF StockOK
  <2> QED BY <1>3, <1>5, <2>1 DEF Work, Update
<1>7. UNCHANGED <<store, deal, money, request, accidents>>
  BY DEF Reserve
<1>8. Grows
  BY <1>7, NothingForgotten
<1>9. Sound(w)
  <2>1. Fits(w.d, w.rest) /\ Fits(w.d, {w.now})
    BY <1>3, <1>6 DEF Fits
  <2>2. w.now.m \in Rent \ edited => w.seen.total + w.seen.rented = Initial[w.now.m]
    BY <1>1, <1>6 DEF StockOK, RentStockConserved
  <2> QED BY <1>6, <2>1, <2>2 DEF Sound
<1>10. DealsOK'
  <2>1. lines' \in [Deal -> SUBSET Line]
    BY <1>1, <1>3, <1>4, <1>5 DEF DealsOK
  <2>2. \A d \in Deal : Fits(d, lines'[d])
    BY <1>1, <1>3, <1>4 DEF DealsOK, Fits
  <2> QED BY <1>1, <1>7, <2>1, <2>2 DEF DealsOK, Fits
<1>11. PaidOK' /\ StockOK'
  BY <1>1, <1>7, StockStays DEF PaidOK, money, SignedWasPaid
<1> QED BY <1>4, <1>6, <1>8, <1>9, <1>10, <1>11, SoundStays, StepKeepsInductive

LEMMA TakeKeepsInductive ==
  ASSUME NEW c \in Call, StoreInductive, Take(c)
  PROVE  StoreInductive'
<1>1. CallsOK /\ StockOK /\ DealsOK /\ PaidOK
  BY InductiveParts
<1>2. PICK v \in Work : v = call[c] /\ Sound(v) /\ v.op = "take"
  BY <1>1 DEF CallsOK, Take
<1>3. /\ v.d \in Deal /\ v.rest \subseteq Line /\ Fits(v.d, v.rest)
      /\ v.now \in Line /\ v.seen \in StockRow /\ Fits(v.d, {v.now})
  BY <1>2, WorkShape DEF Sound
<1>4. PICK m \in Material : m = v.now.m
  BY <1>3 DEF Line
<1>5. PICK q \in Nat : q = v.now.q
  BY <1>3 DEF Line
<1>6. /\ stock' = [stock EXCEPT ![m] =
              IF v.d \in Order THEN [@ EXCEPT !.total = v.seen.total - q]
              ELSE [total |-> v.seen.total - q, rented |-> v.seen.rented + q]]
      /\ Goto(c, IF v.rest = {} THEN [op |-> "bill", d |-> v.d]
                 ELSE [op |-> "reserve", d |-> v.d, rest |-> v.rest])
      /\ UNCHANGED <<edited, deals, money, request, accidents>>
  BY <1>2, <1>4, <1>5 DEF Take
<1>7. v.seen.total \in Int /\ v.seen.rented \in Int
  BY <1>3 DEF StockRow
<1>8. StockOK'
  <2>1. \A x \in Material : x # m => stock'[x] = stock[x]
    BY <1>1, <1>6 DEF StockOK
  <2>2. CASE v.d \in Order
    <3>1. m \in Buy /\ m \notin Rent
      BY <1>3, <1>4, <2>2, MaterialAssumption DEF Fits
    <3>2. stock' \in [Material -> StockRow]
      BY <1>1, <1>6, <1>7, <2>2 DEF StockOK, StockRow
    <3> QED BY <1>1, <1>6, <2>1, <3>1, <3>2 DEF StockOK, RentStockConserved, Material
  <2>3. CASE v.d \notin Order
    <3>1. stock' = [stock EXCEPT ![m] = [total |-> v.seen.total - q,
                                         rented |-> v.seen.rented + q]]
      BY <1>6, <2>3
    <3>2. stock' \in [Material -> StockRow]
      BY <1>1, <1>7, <3>1 DEF StockOK, StockRow
    <3>3. stock'[m].total + stock'[m].rented = v.seen.total + v.seen.rented
      BY <1>1, <1>7, <3>1 DEF StockOK
    <3>4. m \in Rent \ edited => v.seen.total + v.seen.rented = Initial[m]
      BY <1>2, <1>4 DEF Sound
    <3> QED BY <1>1, <1>6, <2>1, <3>2, <3>3, <3>4
            DEF StockOK, RentStockConserved, Material
  <2> QED BY <2>2, <2>3
<1>9. Grows
  BY <1>6 DEF Grows, money
<1>10. DealsOK' /\ PaidOK'
  <2>1. accidents' \in Nat
    BY <1>1, <1>6 DEF PaidOK
  <2> QED BY <1>1, <1>6, <2>1, DealsStay, PaidStays
<1>11. PICK w \in Work : w = IF v.rest = {} THEN [op |-> "bill", d |-> v.d]
                             ELSE [op |-> "reserve", d |-> v.d, rest |-> v.rest]
  BY <1>3, OnDealIsWork, LoopIsWork
<1>12. Sound(w)'
  BY <1>3, <1>11 DEF Sound, Fits
<1> QED BY <1>6, <1>8, <1>9, <1>10, <1>11, <1>12, StepKeepsInductive

LEMMA CreateTransactionKeepsInductive ==
  ASSUME NEW c \in Call, StoreInductive, CreateTransaction(c)
  PROVE  StoreInductive'
<1>1. CallsOK /\ StockOK /\ DealsOK /\ PaidOK
  BY InductiveParts
<1>2. UNCHANGED <<store, deals, refund, accepted, request, accidents>>
      /\ txn' = [txn EXCEPT ![call[c].d] = "approved"] /\ Goto(c, Idle)
  BY DEF CreateTransaction
<1>3. Grows
  BY <1>2 DEF Grows, store
<1>4. PaidOK'
  BY <1>1, <1>2 DEF PaidOK, deals, SignedWasPaid
<1> QED BY <1>1, <1>2, <1>3, <1>4, StockStays, DealsStay, IdleIsSound,
        StepKeepsInductive

-----------------------------------------------------------------------------
\* Steps of a payment.
LEMMA AcceptPaymentKeepsInductive ==
  ASSUME NEW c \in Call, StoreInductive, AcceptPayment(c)
  PROVE  StoreInductive'
<1>1. CallsOK /\ StockOK /\ DealsOK /\ PaidOK
  BY InductiveParts
<1>2. PICK d \in Deal : d = call[c].d
  BY <1>1, WorkShape DEF CallsOK, AcceptPayment
<1>3. UNCHANGED <<store, deals, refund, request, accidents>>
  BY DEF AcceptPayment
<1>4. CASE Exists(d)
  <2>1. /\ txn' = [txn EXCEPT ![d] = "succeed"]
        /\ accepted' = [accepted EXCEPT ![d] = @ + 1]
        /\ Goto(c, IF d \in Rental THEN [op |-> "settle", d |-> d] ELSE Idle)
    BY <1>2, <1>4 DEF AcceptPayment
  <2>2. accepted'[d] > 0 /\ Grows /\ accepted' \in [Deal -> Nat]
    BY <1>1, <1>3, <2>1 DEF PaidOK, Grows, store
  <2>3. PaidOK'
    <3>1. txn' \in [Deal -> {"none", "approved", "succeed"}]
      BY <1>1, <2>1 DEF PaidOK
    <3>2. \A r \in ReportRequest : request'[r] # "none" => accepted'[r.of] > 0
      BY <1>1, <1>3, <2>2, RequestOf DEF PaidOK, Grows
    <3>3. SignedWasPaid'
      BY <1>1, <1>3, <2>2 DEF PaidOK, Grows, SignedWasPaid, deals, Deal
    <3> QED BY <1>1, <1>3, <2>2, <3>1, <3>2, <3>3 DEF PaidOK
  <2>4. PICK w \in Work : w = IF d \in Rental THEN [op |-> "settle", d |-> d] ELSE Idle
    BY OnDealIsWork, IdleIsSound
  <2>5. Sound(w)'
    BY <2>2, <2>4 DEF Sound, Idle
  <2> QED BY <1>1, <1>3, <2>1, <2>2, <2>3, <2>4, <2>5, StockStays, DealsStay,
          StepKeepsInductive
<1>5. CASE ~Exists(d)
  <2>1. Goto(c, Idle) /\ UNCHANGED <<store, deals, money, request>>
        /\ accidents' \in Nat
    BY <1>1, <1>2, <1>3, <1>5 DEF AcceptPayment, money, PaidOK
  <2> QED BY <2>1, IdleIsSound, PlanKeepsInductive
<1> QED BY <1>4, <1>5

\* A rental is given a status; a signed one only if it was paid.
LEMMA RentalWrite ==
  ASSUME NEW c \in Call, NEW w \in Work, NEW d \in Rental, NEW s \in RentalStatus,
         StoreInductive, s \in Signed => accepted[d] > 0,
         deal' = [deal EXCEPT ![d] = s], Goto(c, w), Sound(w),
         UNCHANGED <<store, lines, money, request, accidents>>
  PROVE  StoreInductive'
<1>1. CallsOK /\ StockOK /\ DealsOK /\ PaidOK
  BY InductiveParts
<1>2. d \in Deal /\ d \notin Order
  BY MaterialAssumption DEF Deal
<1>3. \A x \in Deal : deal'[x] = IF x = d THEN s ELSE deal[x]
  BY <1>1 DEF DealsOK
<1>4. DealsOK'
  <2>1. deal' \in [Deal -> OrderStatus \cup RentalStatus]
    BY <1>1 DEF DealsOK
  <2>2. /\ \A x \in Order : deal'[x] \in OrderStatus
        /\ \A x \in Rental : deal'[x] \in RentalStatus
    BY <1>1, <1>2, <1>3 DEF DealsOK, Deal
  <2> QED BY <1>1, <2>1, <2>2 DEF DealsOK, Fits
<1>5. PaidOK'
  <2>1. SignedWasPaid'
    BY <1>1, <1>3 DEF PaidOK, SignedWasPaid, money, Deal
  <2> QED BY <1>1, <2>1 DEF PaidOK, money
<1>6. Grows
  BY NothingForgotten
<1> QED BY <1>1, <1>4, <1>5, <1>6, SoundStays, StockStays, StepKeepsInductive

LEMMA HandlePaymentBookingMaterialKeepsInductive ==
  ASSUME NEW c \in Call, StoreInductive, HandlePaymentBookingMaterial(c)
  PROVE  StoreInductive'
<1>1. CallsOK /\ StockOK /\ DealsOK /\ PaidOK
  BY InductiveParts
<1>2. PICK d \in Rental : d = call[c].d /\ accepted[d] > 0
  BY <1>1 DEF CallsOK, HandlePaymentBookingMaterial, Sound
<1>3. UNCHANGED <<store, lines, money, request, accidents>> /\ Goto(c, Idle)
  BY DEF HandlePaymentBookingMaterial
<1>4. CASE Exists(d)
  <2>1. deal' = [deal EXCEPT ![d] = "pending_sign"]
    BY <1>2, <1>4 DEF HandlePaymentBookingMaterial
  <2> QED BY <1>2, <1>3, <2>1, IdleIsSound, RentalWrite DEF RentalStatus
<1>5. CASE ~Exists(d)
  <2>1. UNCHANGED <<store, deals, money, request>> /\ accidents' \in Nat
    BY <1>1, <1>2, <1>3, <1>5 DEF HandlePaymentBookingMaterial, deals, PaidOK
  <2> QED BY <1>3, <2>1, IdleIsSound, PlanKeepsInductive
<1> QED BY <1>4, <1>5

LEMMA SaveRentalKeepsInductive ==
  ASSUME NEW c \in Call, StoreInductive, SaveRental(c)
  PROVE  StoreInductive'
<1>1. CallsOK
  BY InductiveParts
<1>2. PICK v \in Work : v = call[c] /\ Sound(v) /\ v.op = "saveRental"
  BY <1>1 DEF CallsOK, SaveRental
<1>3. v.d \in Rental /\ v.status \in RentalStatus
      /\ (v.status \in Signed => accepted[v.d] > 0)
  BY <1>2, WorkShape DEF Sound
<1> QED BY <1>2, <1>3, IdleIsSound, RentalWrite DEF SaveRental

-----------------------------------------------------------------------------
\* Steps of a cancellation.
LEMMA DropTransactionKeepsInductive ==
  ASSUME NEW c \in Call, StoreInductive, DropTransaction(c)
  PROVE  StoreInductive'
<1>1. CallsOK /\ StockOK /\ DealsOK /\ PaidOK
  BY InductiveParts
<1>2. PICK d \in Deal : d = call[c].d
  BY <1>1, WorkShape DEF CallsOK, DropTransaction
<1>3. UNCHANGED <<store, deals, refund, accepted, request, accidents>>
      /\ txn' = [txn EXCEPT ![d] = "none"]
      /\ Goto(c, [op |-> "cancelDeal", d |-> d])
  BY <1>2 DEF DropTransaction
<1>4. PICK w \in Work : w = [op |-> "cancelDeal", d |-> d]
  BY OnDealIsWork
<1>5. Grows
  BY <1>3 DEF Grows, store
<1>6. PaidOK'
  BY <1>1, <1>3 DEF PaidOK, deals, SignedWasPaid
<1>7. Sound(w)'
  BY <1>4 DEF Sound
<1> QED BY <1>1, <1>3, <1>4, <1>5, <1>6, <1>7, StockStays, DealsStay,
        StepKeepsInductive

LEMMA CancelDealKeepsInductive ==
  ASSUME NEW c \in Call, StoreInductive, CancelDeal(c)
  PROVE  StoreInductive'
<1>1. CallsOK /\ DealsOK /\ PaidOK
  BY InductiveParts
<1>2. PICK d \in Deal : d = call[c].d
  BY <1>1, WorkShape DEF CallsOK, CancelDeal
<1>3. UNCHANGED <<store, deals, money, request>> /\ accidents' \in Nat
  BY <1>1 DEF CancelDeal, PaidOK
<1>4. PICK w : /\ w = IF ~Exists(d) \/ (d \in Order /\ lines[d] = {}) THEN Idle
                      ELSE [op |-> IF d \in Order THEN "restock" ELSE "deleteLines",
                            d |-> d, rest |-> lines[d]]
               /\ Goto(c, w)
  BY <1>2 DEF CancelDeal
<1>5. lines[d] \in SUBSET Line /\ Fits(d, lines[d])
  BY <1>1 DEF DealsOK
<1>6. w \in Work
  BY <1>4, <1>5, LoopIsWork, IdleIsSound
<1>7. Sound(w)
  BY <1>4, <1>5 DEF Sound, Idle
<1> QED BY <1>3, <1>4, <1>6, <1>7, PlanKeepsInductive

LEMMA RestockKeepsInductive ==
  ASSUME NEW c \in Call, StoreInductive, Restock(c)
  PROVE  StoreInductive'
<1>1. CallsOK /\ StockOK /\ PaidOK
  BY InductiveParts
<1>2. PICK v \in Work : v = call[c] /\ Sound(v) /\ v.op = "restock"
  BY <1>1 DEF CallsOK, Restock
<1>3. v.d \in Order /\ v.d \in Deal /\ v.rest \subseteq Line /\ Fits(v.d, v.rest)
  BY <1>2, WorkShape DEF Sound
<1>4. PICK x \in v.rest :
        Goto(c, [op |-> "putBack", d |-> v.d, rest |-> v.rest \ {x},
                 now |-> x, seen |-> stock[x.m]])
  BY <1>2 DEF Restock
<1>5. x \in Line /\ stock[x.m] \in StockRow
  BY <1>1, <1>3 DEF Line, StockOK
<1>6. PICK w \in Work : w = [op |-> "putBack", d |-> v.d, rest |-> v.rest \ {x},
                             now |-> x, seen |-> stock[x.m]]
  BY <1>3, <1>5 DEF Work, Update
<1>7. Sound(w)
  BY <1>3, <1>6 DEF Sound, Fits
<1>8. UNCHANGED <<store, deals, money, request>> /\ accidents' \in Nat
  BY <1>1 DEF Restock, PaidOK
<1> QED BY <1>4, <1>6, <1>7, <1>8, PlanKeepsInductive

LEMMA PutBackKeepsInductive ==
  ASSUME NEW c \in Call, StoreInductive, PutBack(c)
  PROVE  StoreInductive'
<1>1. CallsOK /\ StockOK /\ DealsOK /\ PaidOK
  BY InductiveParts
<1>2. PICK v \in Work : v = call[c] /\ Sound(v) /\ v.op = "putBack"
  BY <1>1 DEF CallsOK, PutBack
<1>3. /\ v.d \in Order /\ v.d \in Deal /\ v.rest \subseteq Line
      /\ Fits(v.d, v.rest) /\ Fits(v.d, {v.now})
      /\ v.now \in Line /\ v.seen \in StockRow
  BY <1>2, WorkShape DEF Sound
<1>4. PICK m \in Material : m = v.now.m
  BY <1>3 DEF Line
<1>5. m \in Buy /\ m \notin Rent
  BY <1>3, <1>4, MaterialAssumption DEF Fits
<1>6. PICK w \in Work :
        /\ w = [op |-> "dropLine", d |-> v.d, rest |-> v.rest, now |-> v.now]
        /\ Goto(c, w)
  BY <1>2, <1>3 DEF PutBack, Work, DropLine
<1>7. PICK n \in Int : stock' = [stock EXCEPT ![m].total = n]
  <2>1. v.seen.total + v.now.q \in Int
    BY <1>3 DEF StockRow, Line
  <2>2. stock' = [stock EXCEPT ![m].total = v.seen.total + v.now.q]
    BY <1>2, <1>4 DEF PutBack
  <2> QED BY <2>1, <2>2
<1>8. UNCHANGED <<edited, deals, money, request, accidents>>
  BY DEF PutBack
<1>9. StockOK'
  <2>1. stock' \in [Material -> StockRow]
    BY <1>1, <1>7 DEF StockOK, StockRow
  <2>2. \A x \in Material : x # m => stock'[x] = stock[x]
    BY <1>1, <1>7 DEF StockOK
  <2> QED BY <1>1, <1>5, <1>8, <2>1, <2>2 DEF StockOK, RentStockConserved, Material
<1>10. Grows /\ DealsOK' /\ PaidOK'
  <2>1. accidents' \in Nat
    BY <1>1, <1>8 DEF PaidOK
  <2> QED BY <1>1, <1>8, <2>1, DealsStay, PaidStays DEF Grows, money
<1>11. Sound(w)'
  BY <1>3, <1>6 DEF Sound, Fits
<1> QED BY <1>6, <1>9, <1>10, <1>11, StepKeepsInductive

LEMMA DeleteLineKeepsInductive ==
  ASSUME NEW c \in Call, StoreInductive, DeleteLine(c)
  PROVE  StoreInductive'
<1>1. CallsOK /\ StockOK /\ DealsOK /\ PaidOK
  BY InductiveParts
<1>2. PICK v \in Work : v = call[c] /\ Sound(v) /\ v.op \in {"dropLine", "deleteLines"}
  BY <1>1 DEF CallsOK, DeleteLine
<1>3. /\ v.d \in Deal /\ v.rest \subseteq Line
      /\ v.op = "dropLine" => v.d \in Order /\ Fits(v.d, v.rest)
  BY <1>2, WorkShape DEF Sound
<1>4. UNCHANGED <<store, deal, money, request, accidents>>
  BY DEF DeleteLine
<1>5. \E x : lines' = [lines EXCEPT ![v.d] = @ \ {x}]
  BY <1>2 DEF DeleteLine
<1>6. PICK w \in Work : Goto(c, w) /\ Sound(w)
  <2>1. CASE v.op = "dropLine"
    <3>1. PICK w : /\ w = [op |-> IF v.rest = {} THEN "deleteLines" ELSE "restock",
                           d |-> v.d, rest |-> v.rest]
                   /\ Goto(c, w)
      BY <1>2, <2>1 DEF DeleteLine
    <3>2. w \in Work
      BY <1>3, <3>1, LoopIsWork
    <3>3. Sound(w)
      BY <1>3, <2>1, <3>1 DEF Sound
    <3> QED BY <3>1, <3>2, <3>3
  <2>2. CASE v.op = "deleteLines"
    <3>1. PICK x \in v.rest : Goto(c, [v EXCEPT !.rest = @ \ {x}])
      BY <1>2, <2>2 DEF DeleteLine
    <3>2. v \in Loop
      BY <2>2 DEF Work, Idle, Loop, Update, DropLine, OnDeal, SaveRow, Expiring,
                  Filing, Giving, Closing, SaveStockRow
    <3>3. PICK w \in Work : w = [v EXCEPT !.rest = @ \ {x}]
      BY <3>2 DEF Loop, Work
    <3>4. w.op = "deleteLines"
      BY <2>2, <3>2, <3>3 DEF Loop
    <3>5. Sound(w)
      BY <3>4 DEF Sound
    <3> QED BY <3>1, <3>3, <3>5
  <2> QED BY <1>2, <2>1, <2>2
<1>7. DealsOK'
  <2>1. lines' \in [Deal -> SUBSET Line]
    BY <1>1, <1>5 DEF DealsOK
  <2>2. \A d \in Deal : lines'[d] \subseteq lines[d]
    BY <1>1, <1>5 DEF DealsOK
  <2> QED BY <1>1, <1>4, <2>1, <2>2 DEF DealsOK, Fits
<1>8. PaidOK' /\ Grows
  BY <1>1, <1>4, NothingForgotten DEF PaidOK, money, SignedWasPaid
<1> QED BY <1>1, <1>4, <1>6, <1>7, <1>8, SoundStays, StockStays, StepKeepsInductive

LEMMA DeleteDealKeepsInductive ==
  ASSUME NEW c \in Call, StoreInductive, DeleteDeal(c)
  PROVE  StoreInductive'
<1>1. CallsOK /\ StockOK /\ DealsOK /\ PaidOK
  BY InductiveParts
<1>2. PICK d \in Deal : d = call[c].d
  BY <1>1, WorkShape DEF CallsOK, DeleteDeal
<1>3. /\ deal' = deal \/ deal' = [deal EXCEPT ![d] = "gone"]
      /\ UNCHANGED <<store, lines, money, request, accidents>> /\ Goto(c, Idle)
  BY <1>2 DEF DeleteDeal
<1>4. \A x \in Deal : deal'[x] = deal[x] \/ deal'[x] = "gone"
  BY <1>1, <1>3 DEF DealsOK
<1>5. DealsOK'
  <2>1. deal' \in [Deal -> OrderStatus \cup RentalStatus]
    BY <1>1, <1>3 DEF DealsOK, OrderStatus
  <2>2. /\ \A x \in Order : deal'[x] \in OrderStatus
        /\ \A x \in Rental : deal'[x] \in RentalStatus
    BY <1>1, <1>4 DEF DealsOK, Deal, OrderStatus, RentalStatus
  <2> QED BY <1>1, <1>3, <2>1, <2>2 DEF DealsOK, Fits
<1>6. PaidOK' /\ Grows
  <2>1. SignedWasPaid'
    BY <1>1, <1>3, <1>4 DEF PaidOK, SignedWasPaid, Signed, money, Deal
  <2> QED BY <1>1, <1>3, <2>1, NothingForgotten DEF PaidOK, money
<1> QED BY <1>1, <1>3, <1>5, <1>6, IdleIsSound, StockStays, StepKeepsInductive

-----------------------------------------------------------------------------
\* Steps of the end of a rental and of its report.
LEMMA ExpireRentalKeepsInductive ==
  ASSUME NEW c \in Call, StoreInductive, ExpireRental(c)
  PROVE  StoreInductive'
<1>1. CallsOK
  BY InductiveParts
<1>2. PICK v \in Work : v = call[c] /\ Sound(v) /\ v.op = "expire"
  BY <1>1 DEF CallsOK, ExpireRental
<1>3. v.rest \subseteq Rental /\ \A x \in v.rest : accepted[x] > 0
  BY <1>2, WorkShape DEF Sound
<1>4. PICK d \in v.rest :
        /\ deal' = [deal EXCEPT ![d] = "expired"]
        /\ Goto(c, [op |-> "file", d |-> d, rest |-> v.rest \ {d}])
  BY <1>2 DEF ExpireRental
<1>5. PICK w \in Work : w = [op |-> "file", d |-> d, rest |-> v.rest \ {d}]
  BY <1>3 DEF Work, Filing
<1>6. Sound(w)
  BY <1>3, <1>5 DEF Sound
<1>7. d \in Rental /\ accepted[d] > 0
  BY <1>3
<1>8. UNCHANGED <<store, lines, money, request, accidents>>
  BY DEF ExpireRental
<1> QED BY <1>4, <1>5, <1>6, <1>7, <1>8, RentalWrite DEF RentalStatus

\* A request of a rental that was paid is given a status.
LEMMA RequestWrite ==
  ASSUME NEW r \in ReportRequest, NEW s \in ReportStatus, PaidOK, accepted[r.of] > 0,
         request' = [request EXCEPT ![r] = s], UNCHANGED <<deals, money, accidents>>
  PROVE  PaidOK'
<1>1. \A q \in ReportRequest : request'[q] # "none" => accepted'[q.of] > 0
  BY DEF PaidOK, money
<1> QED BY <1>1 DEF PaidOK, money, deals, SignedWasPaid

LEMMA CreateRequestReportBookingMaterialKeepsInductive ==
  ASSUME NEW c \in Call, StoreInductive, CreateRequestReportBookingMaterial(c)
  PROVE  StoreInductive'
<1>1. CallsOK /\ StockOK /\ DealsOK /\ PaidOK
  BY InductiveParts
<1>2. PICK v \in Work : v = call[c] /\ Sound(v) /\ v.op = "file"
  BY <1>1 DEF CallsOK, CreateRequestReportBookingMaterial
<1>3. /\ v.d \in Rental /\ accepted[v.d] > 0
      /\ v.rest \subseteq Rental /\ \A x \in v.rest : accepted[x] > 0
  BY <1>2, WorkShape DEF Sound
<1>4. UNCHANGED <<store, deals, money, accidents>>
  BY DEF CreateRequestReportBookingMaterial
<1>5. PICK w : /\ w = IF v.rest = {} THEN Idle ELSE [op |-> "expire", rest |-> v.rest]
               /\ Goto(c, w)
  BY <1>2 DEF CreateRequestReportBookingMaterial
<1>6. w \in Work /\ Sound(w)
  <2>1. w \in Work
    BY <1>3, <1>5 DEF Work, Expiring
  <2>2. Sound(w)
    BY <1>3, <1>5 DEF Sound, Idle
  <2> QED BY <2>1, <2>2
<1>7. PaidOK'
  <2>1. CASE Exists(v.d)
    <3>1. PICK r \in FreeRequest(v.d) : request' = [request EXCEPT ![r] = "pending"]
      BY <1>2, <2>1 DEF CreateRequestReportBookingMaterial
    <3>2. r \in ReportRequest /\ r.of = v.d
      BY DEF FreeRequest
    <3> QED BY <1>1, <1>3, <1>4, <3>1, <3>2, RequestWrite DEF ReportStatus
  <2>2. CASE ~Exists(v.d)
    <3>1. UNCHANGED request
      BY <1>2, <2>2 DEF CreateRequestReportBookingMaterial
    <3> QED BY <1>1, <1>4, <3>1, PaidStays DEF PaidOK
  <2> QED BY <2>1, <2>2
<1>8. Grows
  BY <1>4, NothingForgotten
<1> QED BY <1>1, <1>4, <1>5, <1>6, <1>7, <1>8, SoundStays, StockStays, DealsStay,
        StepKeepsInductive

LEMMA ReportKeepsInductive ==
  ASSUME NEW r \in ReportRequest, StoreInductive, CreateReport(r) \/ AssignTask(r)
  PROVE  StoreInductive'
<1>1. CallsOK /\ StockOK /\ DealsOK /\ PaidOK
  BY InductiveParts
<1>2. PICK s \in {"pending", "pending_approval"} :
        /\ request' = [request EXCEPT ![r] = s]
        /\ UNCHANGED <<store, deals, money, call, accidents>>
        /\ accepted[r.of] > 0
  BY <1>1 DEF CreateReport, AssignTask, PaidOK
<1>3. PaidOK'
  BY <1>1, <1>2, RequestWrite DEF ReportStatus
<1>4. CallsOK'
  BY <1>1, <1>2 DEF CallsOK, Sound, money, store, Fits
<1> QED BY <1>1, <1>2, <1>3, <1>4, StockStays, DealsStay, InductivePartsNext

LEMMA GiveBackKeepsInductive ==
  ASSUME NEW c \in Call, StoreInductive, GiveBack(c)
  PROVE  StoreInductive'
<1>1. CallsOK /\ StockOK /\ DealsOK /\ PaidOK
  BY InductiveParts
<1>2. PICK v \in Work : v = call[c] /\ Sound(v) /\ v.op = "giveBack"
  BY <1>1 DEF CallsOK, GiveBack
<1>3. v.r \in ReportRequest /\ v.rest \subseteq Line /\ accepted[v.r.of] > 0
  BY <1>2, WorkShape DEF Sound
<1>4. PICK x \in v.rest :
        /\ stock' = [stock EXCEPT ![x.m] = [total |-> @.total + x.q,
                                            rented |-> @.rented - x.q]]
        /\ Goto(c, [v EXCEPT !.rest = @ \ {x}])
  BY <1>2 DEF GiveBack
<1>5. PICK m \in Material : m = x.m
  BY <1>3 DEF Line
<1>6. PICK q \in Nat : q = x.q
  BY <1>3 DEF Line
<1>7. UNCHANGED <<edited, deals, money, request, accidents>>
  BY DEF GiveBack
<1>8. StockOK'
  <2>1. stock[m].total \in Int /\ stock[m].rented \in Int
    BY <1>1 DEF StockOK, StockRow
  <2>2. stock' = [stock EXCEPT ![m] = [total |-> stock[m].total + q,
                                       rented |-> stock[m].rented - q]]
    BY <1>4, <1>5, <1>6
  <2>3. stock' \in [Material -> StockRow]
    BY <1>1, <2>1, <2>2 DEF StockOK, StockRow
  <2>4. stock'[m].total + stock'[m].rented = stock[m].total + stock[m].rented
    BY <1>1, <2>1, <2>2 DEF StockOK
  <2>5. \A y \in Material : y # m => stock'[y] = stock[y]
    BY <1>1, <2>2 DEF StockOK
  <2> QED BY <1>1, <1>7, <2>3, <2>4, <2>5 DEF StockOK, RentStockConserved, Material
<1>9. Grows /\ DealsOK' /\ PaidOK'
  <2>1. accidents' \in Nat
    BY <1>1, <1>7 DEF PaidOK
  <2> QED BY <1>1, <1>7, <2>1, DealsStay, PaidStays DEF Grows, money
<1>10. v \in Giving
  BY <1>2 DEF Work, Idle, Loop, Update, DropLine, OnDeal, SaveRow, Expiring,
              Filing, Giving, Closing, SaveStockRow
<1>11. PICK w \in Work : w = [v EXCEPT !.rest = @ \ {x}]
  BY <1>10 DEF Giving, Work
<1>12. Sound(w)
  <2>1. w.op = "giveBack" /\ w.r = v.r
    BY <1>2, <1>10, <1>11 DEF Giving
  <2> QED BY <1>3, <2>1 DEF Sound
<1> QED BY <1>4, <1>8, <1>9, <1>11, <1>12, SoundStays, StepKeepsInductive

LEMMA CreateRefundKeepsInductive ==
  ASSUME NEW c \in Call, StoreInductive, CreateRefund(c)
  PROVE  StoreInductive'
<1>1. CallsOK /\ StockOK /\ DealsOK /\ PaidOK
  BY InductiveParts
<1>2. PICK v \in Work : v = call[c] /\ Sound(v) /\ v.op = "giveBack"
  BY <1>1 DEF CallsOK, CreateRefund
<1>3. v.r \in ReportRequest /\ accepted[v.r.of] > 0
  BY <1>2, WorkShape DEF Sound
<1>4. PICK d \in Deal : d = v.r.of /\ accepted[d] > 0
  BY <1>3, RequestOf
<1>5. PICK w \in Work :
        /\ w = [op |-> "close", r |-> v.r, to |-> "completed"] /\ Goto(c, w)
  BY <1>2, <1>3 DEF CreateRefund, Work, Closing
<1>6. /\ refund' = [refund EXCEPT ![d] = @ + 1]
      /\ UNCHANGED <<store, deals, txn, accepted, request, accidents>>
  BY <1>2, <1>4 DEF CreateRefund
<1>7. PaidOK'
  <2>1. refund' \in [Deal -> Nat] /\ \A x \in Deal : x # d => refund'[x] = refund[x]
    BY <1>1, <1>6 DEF PaidOK
  <2>2. SignedWasPaid'
    BY <1>1, <1>4, <1>6, <2>1 DEF PaidOK, SignedWasPaid, deals, Deal
  <2> QED BY <1>1, <1>6, <2>1, <2>2 DEF PaidOK
<1>8. Grows
  BY <1>6 DEF Grows, store
<1>9. Sound(w)
  BY <1>3, <1>5 DEF Sound
<1> QED BY <1>1, <1>5, <1>6, <1>7, <1>8, <1>9, SoundStays, StockStays, DealsStay,
        StepKeepsInductive

LEMMA CloseRequestKeepsInductive ==
  ASSUME NEW c \in Call, StoreInductive, CloseRequest(c)
  PROVE  StoreInductive'
<1>1. CallsOK /\ StockOK /\ DealsOK /\ PaidOK
  BY InductiveParts
<1>2. PICK v \in Work : v = call[c] /\ Sound(v) /\ v.op = "close"
  BY <1>1 DEF CallsOK, CloseRequest
<1>3. /\ v.r \in ReportRequest /\ accepted[v.r.of] > 0
      /\ v.to \in {"completed", "rejected"}
  BY <1>2, WorkShape DEF Sound
<1>4. /\ request' = [request EXCEPT ![v.r] = v.to] /\ Goto(c, Idle)
      /\ UNCHANGED <<store, deals, money, accidents>>
  BY <1>2 DEF CloseRequest
<1>5. PaidOK' /\ Grows
  BY <1>1, <1>3, <1>4, RequestWrite, NothingForgotten DEF ReportStatus
<1> QED BY <1>1, <1>4, <1>5, IdleIsSound, StockStays, DealsStay, StepKeepsInductive

-----------------------------------------------------------------------------
\* Edits of the columns, and accidents.
LEMMA SaveStockKeepsInductive ==
  ASSUME NEW c \in Call, StoreInductive, SaveStock(c)
  PROVE  StoreInductive'
<1>1. CallsOK /\ StockOK /\ DealsOK /\ PaidOK
  BY InductiveParts
<1>2. PICK v \in Work : v = call[c] /\ v.op = "saveStock"
  BY <1>1 DEF CallsOK, SaveStock
<1>3. v.m \in Material /\ v.row \in StockRow
  BY <1>2, WorkShape
<1>4. /\ stock' = [stock EXCEPT ![v.m] = v.row] /\ edited' = edited \cup {v.m}
      /\ Goto(c, Idle) /\ UNCHANGED <<deals, money, request, accidents>>
  BY <1>2 DEF SaveStock
<1>5. StockOK'
  <2>1. stock' \in [Material -> StockRow] /\ edited' \subseteq Material
    BY <1>1, <1>3, <1>4 DEF StockOK
  <2>2. \A y \in Material \ edited' : y \notin edited /\ stock'[y] = stock[y]
    BY <1>1, <1>4 DEF StockOK
  <2> QED BY <1>1, <2>1, <2>2 DEF StockOK, RentStockConserved, Material
<1>6. Grows /\ DealsOK' /\ PaidOK'
  <2>1. accidents' \in Nat
    BY <1>1, <1>4 DEF PaidOK
  <2> QED BY <1>1, <1>4, <2>1, DealsStay, PaidStays DEF Grows, money
<1> QED BY <1>4, <1>5, <1>6, IdleIsSound, StepKeepsInductive

LEMMA FailKeepsInductive ==
  ASSUME NEW c \in Call, StoreInductive, Fail(c)
  PROVE  StoreInductive'
<1>1. UNCHANGED <<store, deals, money, request>> /\ accidents' \in Nat /\ Goto(c, Idle)
  BY InductiveParts DEF Fail, PaidOK
<1> QED BY <1>1, IdleIsSound, PlanKeepsInductive

-----------------------------------------------------------------------------
\* The facts of the inductive invariant.
LEMMA InitIsInductive == Init => StoreInductive
<1> SUFFICES ASSUME Init PROVE StoreInductive
  OBVIOUS
<1>1. CallsOK
  BY DEF Init, CallsOK, Work, Idle, Sound
<1>2. StockOK
  <2>1. \A m \in Material : Initial[m] \in Nat
    BY InitialAssumption
  <2> QED BY <2>1 DEF Init, StockOK, StockRow, RentStockConserved, Material
<1>3. DealsOK
  BY DEF Init, DealsOK, OrderStatus, RentalStatus, Fits, Deal
<1>4. PaidOK
  BY DEF Init, PaidOK, ReportStatus, SignedWasPaid, Signed, Deal
<1> QED BY <1>1, <1>2, <1>3, <1>4, InductiveParts

LEMMA NextKeepsInductive ==
  ASSUME StoreInductive, [Next]_vars
  PROVE  StoreInductive'
<1>1. ASSUME NEW c \in Call, Continue(c) PROVE StoreInductive'
  BY <1>1, ReserveKeepsInductive, TakeKeepsInductive,
     CreateTransactionKeepsInductive, AcceptPaymentKeepsInductive,
     HandlePaymentBookingMaterialKeepsInductive, DropTransactionKeepsInductive,
     CancelDealKeepsInductive, RestockKeepsInductive, PutBackKeepsInductive,
     DeleteLineKeepsInductive, DeleteDealKeepsInductive, SaveRentalKeepsInductive,
     ExpireRentalKeepsInductive, CreateRequestReportBookingMaterialKeepsInductive,
     GiveBackKeepsInductive, CreateRefundKeepsInductive,
     CloseRequestKeepsInductive, SaveStockKeepsInductive DEF Continue
<1>2. CASE UNCHANGED vars
  <2>1. /\ UNCHANGED <<store, deals, money, request>> /\ call' = call
        /\ accidents' = accidents
    BY <1>2 DEF vars, store, deals, money
  <2>2. CallsOK'
    BY <2>1, InductiveParts DEF CallsOK, Sound, money, store, Fits
  <2>3. StockOK' /\ DealsOK' /\ PaidOK'
    BY <2>1, InductiveParts, StockStays, DealsStay, PaidStays DEF PaidOK
  <2> QED BY <2>2, <2>3, InductivePartsNext
<1> QED BY <1>1, <1>2, ArriveKeepsInductive, FailKeepsInductive,
        ReportKeepsInductive DEF Next

\* In every reachable state of the store the work in flight is sound and the
\* tables agree with what was paid.
THEOREM StoreInductiveHolds == Spec => []StoreInductive
<1>1. Init => StoreInductive
  BY InitIsInductive
<1>2. StoreInductive /\ [Next]_vars => StoreInductive'
  BY NextKeepsInductive
<1> QED BY <1>1, <1>2, PTL DEF Spec

\* The tables of the store and the requests in flight are well formed.
THEOREM StoreTypeCorrect == Spec => []TypeOK
<1>1. StoreInductive => TypeOK
  BY DEF StoreInductive
<1> QED BY <1>1, StoreInductiveHolds, PTL

\* No piece of a rented material appears or is lost, however many purchases,
\* rentals, cancellations and returns overlap and fail.
THEOREM RentedPiecesAreConserved == Spec => []RentStockConserved
<1>1. StoreInductive => RentStockConserved
  BY DEF StoreInductive
<1> QED BY <1>1, StoreInductiveHolds, PTL

\* A rental is signed, ended or refunded only if its payment was accepted.
THEOREM OnlyPaidIsSigned == Spec => []SignedWasPaid
<1>1. StoreInductive => SignedWasPaid
  BY DEF StoreInductive
<1> QED BY <1>1, StoreInductiveHolds, PTL

-----------------------------------------------------------------------------
\* When requests do not overlap, one call is in flight at most.
OneAtATime == \A c, d \in Call : call[c] # Idle /\ call[d] # Idle => c = d

\* What work in flight finds in the tables nobody else writes: the deal it sells
\* or cancels, the row it has read, and the lines that are left to it.
Shape(w) ==
  /\ w.op \in {"reserve", "take", "bill"} => Exists(w.d) /\ txn[w.d] = "none"
  /\ w.op \in {"dropTxn", "cancelDeal", "restock", "putBack", "dropLine",
               "deleteLines"} => txn[w.d] # "succeed"
  /\ w.op \in {"reserve", "take"} => w.rest \cap lines[w.d] = {}
  /\ w.op \in {"restock", "putBack", "dropLine", "deleteLines"}
       => w.rest \subseteq lines[w.d]
  /\ w.op \in {"take", "putBack", "dropLine"} => w.now \in lines[w.d] \ w.rest
  /\ w.op \in {"take", "putBack"} => w.seen = stock[w.now.m]
  /\ w.op = "deleteLines" /\ w.d \in Order => w.rest = {}
  /\ w.op = "saveRental" => w.status \notin {"none", "gone"}
  /\ w.op = "giveBack" => w.rest \subseteq lines[w.r.of]

\* A deal has lines from its first request on and a bill after it, and a payment
\* is not forgotten.
TablesAgree ==
  \A d \in Deal :
    /\ deal[d] = "none" => lines[d] = {}
    /\ txn[d] # "none" => Exists(d)
    /\ accepted[d] > 0 => txn[d] = "succeed"
    /\ IsFiniteSet(lines[d])

ShapeInv == OneAtATime /\ TablesAgree /\ \A c \in Call : Shape(call[c])

OthersIdle(c) == \A b \in Call \ {c} : call[b] = Idle

LEMMA IdleIsShaped == Shape(Idle) /\ Shape(Idle)'
BY DEF Shape, Idle

\* A step of the only call that is busy, or the start of one.
LEMMA StepKeepsShape ==
  ASSUME CallsOK, NEW c \in Call, OthersIdle(c), NEW w, Goto(c, w),
         TablesAgree', Shape(w)'
  PROVE  ShapeInv'
<1>1. call'[c] = w /\ \A b \in Call \ {c} : call'[b] = Idle
  BY DEF CallsOK, Goto, OthersIdle
<1>2. OneAtATime'
  BY <1>1 DEF OneAtATime
<1>3. ASSUME NEW b \in Call PROVE Shape(call[b])'
  <2>1. CASE b = c
    <3>1. call'[b] = w
      BY <1>1, <2>1
    <3> QED BY <3>1 DEF Shape, Exists
  <2>2. CASE b # c
    <3>1. call'[b] = Idle
      BY <1>1, <2>2
    <3> QED BY <3>1 DEF Shape, Idle
  <2> QED BY <2>1, <2>2
<1> QED BY <1>2, <1>3 DEF ShapeInv

LEMMA TablesStay ==
  ASSUME TablesAgree, UNCHANGED <<deals, txn, accepted>>
  PROVE  TablesAgree'
BY DEF TablesAgree, deals, Exists

\* What a step may do to a deal that was paid.
KeepsPaid == \A d \in Deal : txn[d] = "succeed"
  => txn'[d] = "succeed" /\ lines'[d] = lines[d] /\ deal'[d] # "gone"

LEMMA PaidStaysPut ==
  ASSUME TablesAgree, UNCHANGED <<deals, txn>>
  PROVE  KeepsPaid
BY DEF TablesAgree, KeepsPaid, deals, Exists

\* A step that writes none of these tables.
LEMMA PlanKeepsShape ==
  ASSUME StoreInductive, ShapeInv, NEW c \in Call, OthersIdle(c), NEW w,
         Goto(c, w), Shape(w)', UNCHANGED <<deals, txn, accepted>>
  PROVE  ShapeInv' /\ KeepsPaid
<1>1. CallsOK /\ TablesAgree
  BY InductiveParts DEF ShapeInv
<1> QED BY <1>1, StepKeepsShape, TablesStay, PaidStaysPut

LEMMA ArriveKeepsShape ==
  ASSUME StoreInductive, ShapeInv, Serial, NEW c \in Call, Arrive(c)
  PROVE  ShapeInv' /\ KeepsPaid
<1>0. CallsOK /\ DealsOK /\ PaidOK /\ TablesAgree
  BY InductiveParts DEF ShapeInv
<1>a. OthersIdle(c)
  BY DEF Arrive, BuyMaterial, BookingMaterial, OpenDeal, HandleTransactionPayment,
         CancelTransaction, UpdateBookingMaterialStatus,
         CheckBookingMaterialIsExpired, ConfirmRequest, UpdateMaterial,
         UpdateQuantityMaterial, Start, MayStart, Quiet, OthersIdle
<1>1. ASSUME NEW d \in Deal, NEW cart \in Cart, NEW s \in {"open", "pending_payment"},
             OpenDeal(c, d, s, cart)
      PROVE  ShapeInv' /\ KeepsPaid
  <2> DEFINE w == [op |-> "reserve", d |-> d, rest |-> cart]
  <2>1. /\ deal[d] = "none" /\ deal' = [deal EXCEPT ![d] = s]
        /\ UNCHANGED <<store, lines, money, request, accidents>> /\ Goto(c, w)
    BY <1>1 DEF OpenDeal, Start
  <2>2. txn[d] = "none" /\ lines[d] = {}
    BY <1>0, <2>1 DEF TablesAgree, Exists, PaidOK
  <2>3. /\ deal'[d] = s /\ \A x \in Deal \ {d} : deal'[x] = deal[x]
        /\ lines' = lines /\ txn' = txn /\ accepted' = accepted
    BY <1>0, <2>1 DEF DealsOK, money
  <2>4. TablesAgree'
    BY <1>0, <2>3 DEF TablesAgree, Exists
  <2>5. Shape(w)'
    BY <2>2, <2>3 DEF Shape, Exists
  <2>6. KeepsPaid
    BY <1>0, <2>3 DEF KeepsPaid, TablesAgree, Exists
  <2> HIDE DEF w
  <2> QED BY <1>0, <1>a, <2>1, <2>4, <2>5, <2>6, StepKeepsShape
<1>2. ASSUME NEW w, Goto(c, w), Shape(w)',
             UNCHANGED <<store, deals, money, request, accidents>>
      PROVE  ShapeInv' /\ KeepsPaid
  BY <1>a, <1>2, PlanKeepsShape DEF money
<1>3. ASSUME NEW d \in Deal, HandleTransactionPayment(c, d)
      PROVE  ShapeInv' /\ KeepsPaid
  BY <1>2, <1>3 DEF HandleTransactionPayment, Start, Shape
<1>4. ASSUME NEW d \in Deal, CancelTransaction(c, d)
      PROVE  ShapeInv' /\ KeepsPaid
  BY <1>2, <1>4 DEF CancelTransaction, Start, Shape, money
<1>5. ASSUME NEW d \in Rental, UpdateBookingMaterialStatus(c, d)
      PROVE  ShapeInv' /\ KeepsPaid
  <2>1. PICK s : /\ s \notin {"none", "gone"}
                 /\ Goto(c, [op |-> "saveRental", d |-> d, status |-> s])
    BY <1>5 DEF UpdateBookingMaterialStatus, Start, Exists
  <2>2. Shape([op |-> "saveRental", d |-> d, status |-> s])'
    BY <2>1 DEF Shape
  <2> QED BY <1>2, <1>5, <2>1, <2>2 DEF UpdateBookingMaterialStatus
<1>6. ASSUME NEW over \in SUBSET Rental, CheckBookingMaterialIsExpired(c, over)
      PROVE  ShapeInv' /\ KeepsPaid
  BY <1>2, <1>6 DEF CheckBookingMaterialIsExpired, Start, Shape
<1>7. ASSUME NEW r \in ReportRequest, NEW o \in {"completed", "rejected"},
             ConfirmRequest(c, r, o)
      PROVE  ShapeInv' /\ KeepsPaid
  <2>1. UNCHANGED <<store, deals, money, request, accidents>>
    BY <1>7 DEF ConfirmRequest
  <2>2. PICK w : /\ \/ w = [op |-> "giveBack", r |-> r, rest |-> lines[r.of]]
                    \/ w = [op |-> "close", r |-> r, to |-> o]
                 /\ Goto(c, w)
    BY <1>7 DEF ConfirmRequest, Start
  <2>3. Shape(w)'
    BY <2>1, <2>2 DEF Shape, deals
  <2> QED BY <1>2, <2>1, <2>2, <2>3
<1>8. ASSUME NEW m \in Material,
             UpdateMaterial(c, m) \/ UpdateQuantityMaterial(c, m)
      PROVE  ShapeInv' /\ KeepsPaid
  <2>1. PICK row : Goto(c, [op |-> "saveStock", m |-> m, row |-> row])
    BY <1>8 DEF UpdateMaterial, UpdateQuantityMaterial, Start
  <2>2. Shape([op |-> "saveStock", m |-> m, row |-> row])'
    BY DEF Shape
  <2> QED BY <1>2, <1>8, <2>1, <2>2 DEF UpdateMaterial, UpdateQuantityMaterial
<1> QED BY <1>1, <1>3, <1>4, <1>5, <1>6, <1>7, <1>8 DEF Arrive, BuyMaterial,
           BookingMaterial

LEMMA ContinueIsBusy ==
  ASSUME NEW c \in Call, Continue(c)
  PROVE  call[c] # Idle /\ accidents' = accidents
BY DEF Idle, Continue, Reserve, Take, CreateTransaction, AcceptPayment,
       HandlePaymentBookingMaterial, DropTransaction, CancelDeal, Restock, PutBack,
       DeleteLine, DeleteDeal, SaveRental, ExpireRental,
       CreateRequestReportBookingMaterial, GiveBack, CreateRefund, CloseRequest,
       SaveStock

LEMMA ContinueKeepsShape ==
  ASSUME StoreInductive, ShapeInv, NEW c \in Call, Continue(c)
  PROVE  ShapeInv' /\ KeepsPaid
<1>0. CallsOK /\ StockOK /\ DealsOK /\ PaidOK /\ TablesAgree
  BY InductiveParts DEF ShapeInv
<1>a. OthersIdle(c)
  BY ContinueIsBusy DEF ShapeInv, OneAtATime, OthersIdle
<1>b. PICK v \in Work : v = call[c] /\ Shape(v) /\ Sound(v)
  BY <1>0 DEF CallsOK, ShapeInv
<1>c. ASSUME NEW w, Goto(c, w), Shape(w)', UNCHANGED <<deals, txn, accepted>>
      PROVE  ShapeInv' /\ KeepsPaid
  BY <1>a, <1>c, PlanKeepsShape
<1>d. ASSUME NEW w, Goto(c, w), Shape(w)', TablesAgree', KeepsPaid
      PROVE  ShapeInv' /\ KeepsPaid
  BY <1>0, <1>a, <1>d, StepKeepsShape
<1>1. CASE Reserve(c)
  <2>1. v.op = "reserve" /\ v.d \in Deal /\ v.rest \subseteq Line
    BY <1>b, <1>1, WorkShape DEF Reserve
  <2>2. PICK x \in v.rest :
          /\ lines' = [lines EXCEPT ![v.d] = @ \cup {x}]
          /\ Goto(c, [op |-> "take", d |-> v.d, rest |-> v.rest \ {x},
                      now |-> x, seen |-> stock[x.m]])
    BY <1>b, <1>1 DEF Reserve
  <2>w. PICK w : w = [op |-> "take", d |-> v.d, rest |-> v.rest \ {x},
                      now |-> x, seen |-> stock[x.m]]
    OBVIOUS
  <2>3. /\ UNCHANGED <<store, deal, txn, accepted>>
        /\ lines'[v.d] = lines[v.d] \cup {x}
        /\ \A d \in Deal \ {v.d} : lines'[d] = lines[d]
    BY <1>0, <1>1, <2>1, <2>2 DEF Reserve, money, DealsOK
  <2>4. v.rest \cap lines[v.d] = {} /\ Exists(v.d) /\ txn[v.d] = "none"
    BY <1>b, <2>1 DEF Shape
  <2>5. Shape(w)'
    BY <2>3, <2>4, <2>w DEF Shape, Exists, store
  <2>6. TablesAgree'
    <3>1. IsFiniteSet(lines[v.d] \cup {x})
      BY <1>0, <2>1, FS_AddElement DEF TablesAgree
    <3> QED BY <1>0, <2>3, <2>4, <3>1 DEF TablesAgree, Exists
  <2>7. KeepsPaid
    BY <1>0, <2>3, <2>4 DEF KeepsPaid, TablesAgree, Exists
  <2>8. Goto(c, w)
    BY <2>2, <2>w
  <2> QED BY <1>d, <2>5, <2>6, <2>7, <2>8
<1>2. CASE Take(c)
  <2>1. v.op = "take"
    BY <1>b, <1>2 DEF Take
  <2>2. UNCHANGED <<deals, txn, accepted>>
    BY <1>2 DEF Take, money
  <2>3. PICK w : /\ Goto(c, w)
                 /\ w = IF v.rest = {} THEN [op |-> "bill", d |-> v.d]
                        ELSE [op |-> "reserve", d |-> v.d, rest |-> v.rest]
    BY <1>b, <1>2 DEF Take
  <2>4. Shape(w)'
    BY <1>b, <2>1, <2>2, <2>3 DEF Shape, Exists, deals
  <2> QED BY <1>c, <2>2, <2>3, <2>4
<1>3. CASE CreateTransaction(c)
  <2>1. v.op = "bill" /\ v.d \in Deal
    BY <1>b, <1>3, WorkShape DEF CreateTransaction
  <2>2. /\ txn'[v.d] = "approved" /\ \A d \in Deal \ {v.d} : txn'[d] = txn[d]
        /\ UNCHANGED <<deals, accepted>> /\ Goto(c, Idle)
    BY <1>0, <1>b, <1>3, <2>1 DEF CreateTransaction, PaidOK
  <2>3. Exists(v.d) /\ txn[v.d] = "none"
    BY <1>b, <2>1 DEF Shape
  <2>4. TablesAgree'
    BY <1>0, <2>2, <2>3 DEF TablesAgree, Exists, deals
  <2>5. KeepsPaid
    BY <1>0, <2>2, <2>3 DEF KeepsPaid, TablesAgree, Exists, deals
  <2> QED BY <1>d, <2>2, <2>4, <2>5, IdleIsShaped
<1>4. CASE AcceptPayment(c)
  <2>1. v.op = "accept" /\ v.d \in Deal
    BY <1>b, <1>4, WorkShape DEF AcceptPayment
  <2>2. PICK w : Goto(c, w) /\ (w = Idle \/ w.op = "settle")
    BY <1>4 DEF AcceptPayment
  <2>3. Shape(w)'
    BY <2>2, IdleIsShaped DEF Shape
  <2>4. UNCHANGED deals
    BY <1>4 DEF AcceptPayment
  <2>5. CASE Exists(v.d)
    <3>1. /\ txn'[v.d] = "succeed" /\ \A d \in Deal \ {v.d} : txn'[d] = txn[d]
          /\ \A d \in Deal \ {v.d} : accepted'[d] = accepted[d]
      BY <1>0, <1>b, <1>4, <2>1, <2>5 DEF AcceptPayment, PaidOK
    <3>2. TablesAgree'
      BY <1>0, <2>4, <2>5, <3>1 DEF TablesAgree, Exists, deals
    <3>3. KeepsPaid
      BY <1>0, <2>4, <2>5, <3>1 DEF KeepsPaid, TablesAgree, Exists, deals
    <3> QED BY <1>d, <2>2, <2>3, <3>2, <3>3
  <2>6. CASE ~Exists(v.d)
    <3>1. UNCHANGED <<txn, accepted>>
      BY <1>b, <1>4, <2>6 DEF AcceptPayment
    <3> QED BY <1>c, <2>2, <2>3, <2>4, <3>1
  <2> QED BY <2>5, <2>6
<1>5. CASE \/ HandlePaymentBookingMaterial(c) \/ SaveRental(c) \/ ExpireRental(c)
  <2>1. PICK w : Goto(c, w) /\ (w = Idle \/ w.op = "file")
    <3>1. CASE ExpireRental(c)
      <4>1. PICK d : Goto(c, [op |-> "file", d |-> d, rest |-> call[c].rest \ {d}])
        BY <3>1 DEF ExpireRental
      <4> QED BY <4>1
    <3> QED BY <1>5, <3>1 DEF HandlePaymentBookingMaterial, SaveRental
  <2>2. Shape(w)'
    BY <2>1, IdleIsShaped DEF Shape
  <2>3. UNCHANGED <<lines, txn, accepted>>
    BY <1>5 DEF HandlePaymentBookingMaterial, SaveRental, ExpireRental, money
  <2>4. \A d \in Deal : deal'[d] = deal[d] \/ deal'[d] \notin {"none", "gone"}
    <3>1. CASE HandlePaymentBookingMaterial(c)
      BY <1>0, <3>1 DEF HandlePaymentBookingMaterial, DealsOK
    <3>2. CASE SaveRental(c)
      <4>1. v.op = "saveRental" /\ v.status \notin {"none", "gone"}
        BY <1>b, <3>2 DEF SaveRental, Shape
      <4> QED BY <1>0, <1>b, <3>2, <4>1 DEF SaveRental, DealsOK
    <3>3. CASE ExpireRental(c)
      BY <1>0, <3>3 DEF ExpireRental, DealsOK
    <3> QED BY <1>5, <3>1, <3>2, <3>3
  <2>5. TablesAgree' /\ KeepsPaid
    BY <1>0, <2>3, <2>4 DEF TablesAgree, KeepsPaid, Exists
  <2> QED BY <1>d, <2>1, <2>2, <2>5
<1>6. CASE DropTransaction(c)
  <2>1. v.op = "dropTxn" /\ v.d \in Deal
    BY <1>b, <1>6, WorkShape DEF DropTransaction
  <2>2. /\ txn'[v.d] = "none" /\ \A d \in Deal \ {v.d} : txn'[d] = txn[d]
        /\ UNCHANGED <<deals, accepted>>
        /\ Goto(c, [op |-> "cancelDeal", d |-> v.d])
    BY <1>0, <1>b, <1>6, <2>1 DEF DropTransaction, PaidOK
  <2>3. txn[v.d] # "succeed"
    BY <1>b, <2>1 DEF Shape
  <2>4. TablesAgree'
    BY <1>0, <2>2, <2>3 DEF TablesAgree, Exists, deals
  <2>5. KeepsPaid
    BY <1>0, <2>2, <2>3 DEF KeepsPaid, TablesAgree, Exists, deals
  <2>6. Shape([op |-> "cancelDeal", d |-> v.d])'
    BY <2>2 DEF Shape
  <2> QED BY <1>d, <2>2, <2>4, <2>5, <2>6
<1>7. CASE CancelDeal(c)
  <2>1. v.op = "cancelDeal" /\ txn[v.d] # "succeed"
    BY <1>b, <1>7 DEF CancelDeal, Shape
  <2>2. PICK w : /\ Goto(c, w)
                 /\ w = IF ~Exists(v.d) \/ (v.d \in Order /\ lines[v.d] = {}) THEN Idle
                        ELSE [op |-> IF v.d \in Order THEN "restock" ELSE "deleteLines",
                              d |-> v.d, rest |-> lines[v.d]]
    BY <1>b, <1>7 DEF CancelDeal
  <2>3. UNCHANGED <<deals, txn, accepted>>
    BY <1>7 DEF CancelDeal, money
  <2>4. Shape(w)'
    BY <2>1, <2>2, <2>3, IdleIsShaped DEF Shape, deals
  <2> QED BY <1>c, <2>2, <2>3, <2>4
<1>8. CASE Restock(c)
  <2>1. v.op = "restock" /\ v.rest \subseteq lines[v.d] /\ txn[v.d] # "succeed"
    BY <1>b, <1>8 DEF Restock, Shape
  <2>2. PICK x \in v.rest :
          Goto(c, [op |-> "putBack", d |-> v.d, rest |-> v.rest \ {x},
                   now |-> x, seen |-> stock[x.m]])
    BY <1>b, <1>8 DEF Restock
  <2>3. UNCHANGED <<deals, txn, accepted>> /\ stock' = stock
    BY <1>8 DEF Restock, money, store
  <2>4. Shape([op |-> "putBack", d |-> v.d, rest |-> v.rest \ {x},
               now |-> x, seen |-> stock[x.m]])'
    BY <2>1, <2>3 DEF Shape, deals
  <2> QED BY <1>c, <2>2, <2>3, <2>4
<1>9. CASE PutBack(c)
  <2>1. /\ v.op = "putBack" /\ v.rest \subseteq lines[v.d]
        /\ v.now \in lines[v.d] \ v.rest /\ txn[v.d] # "succeed"
    BY <1>b, <1>9 DEF PutBack, Shape
  <2>2. Goto(c, [op |-> "dropLine", d |-> v.d, rest |-> v.rest, now |-> v.now])
    BY <1>b, <1>9 DEF PutBack
  <2>3. UNCHANGED <<deals, txn, accepted>>
    BY <1>9 DEF PutBack, money
  <2>4. Shape([op |-> "dropLine", d |-> v.d, rest |-> v.rest, now |-> v.now])'
    BY <2>1, <2>3 DEF Shape, deals
  <2> QED BY <1>c, <2>2, <2>3, <2>4
<1>10. CASE DeleteLine(c)
  <2>1. /\ v.op \in {"dropLine", "deleteLines"} /\ v.rest \subseteq lines[v.d]
        /\ txn[v.d] # "succeed" /\ v.d \in Deal
        /\ v.op = "dropLine" => v.now \notin v.rest
        /\ v.op = "deleteLines" /\ v.d \in Order => v.rest = {}
    BY <1>b, <1>10, WorkShape DEF DeleteLine, Shape
  <2>2. PICK x, w :
          /\ lines' = [lines EXCEPT ![v.d] = @ \ {x}] /\ Goto(c, w)
          /\ \/ /\ v.op = "dropLine" /\ x = v.now
                /\ w = [op |-> IF v.rest = {} THEN "deleteLines" ELSE "restock",
                        d |-> v.d, rest |-> v.rest]
             \/ /\ v.op = "deleteLines" /\ x \in v.rest
                /\ w = [v EXCEPT !.rest = @ \ {x}]
    BY <1>b, <1>10 DEF DeleteLine
  <2>3. v.op = "deleteLines" => v \in Loop
    BY DEF Work, Idle, Loop, Update, DropLine, OnDeal, SaveRow, Expiring,
           Filing, Giving, Closing, SaveStockRow
  <2>4. v.op = "deleteLines"
          => w.op = "deleteLines" /\ w.d = v.d /\ w.rest = v.rest \ {x}
    BY <2>2, <2>3 DEF Loop
  <2>5. /\ lines'[v.d] = lines[v.d] \ {x}
        /\ \A d \in Deal \ {v.d} : lines'[d] = lines[d]
        /\ UNCHANGED <<deal, txn, accepted>>
    BY <1>0, <1>10, <2>1, <2>2 DEF DeleteLine, DealsOK, money
  <2>6. TablesAgree'
    <3>1. IsFiniteSet(lines[v.d] \ {x})
      BY <1>0, <2>1, FS_RemoveElement DEF TablesAgree
    <3> QED BY <1>0, <2>5, <3>1 DEF TablesAgree, Exists
  <2>7. KeepsPaid
    BY <1>0, <2>1, <2>5 DEF KeepsPaid, TablesAgree, Exists
  <2>8. Shape(w)'
    BY <2>1, <2>2, <2>4, <2>5 DEF Shape
  <2> QED BY <1>d, <2>2, <2>6, <2>7, <2>8
<1>11. CASE DeleteDeal(c)
  <2>1. v.op = "deleteLines" /\ v.d \in Deal
    BY <1>b, <1>11, WorkShape DEF DeleteDeal
  <2>2. /\ UNCHANGED <<lines, txn, accepted>> /\ Goto(c, Idle)
        /\ \A d \in Deal : deal'[d] = deal[d] \/ (deal'[d] = "gone" /\ txn[d] = "none")
    BY <1>0, <1>b, <1>11, <2>1 DEF DeleteDeal, Referred, DealsOK, money
  <2>3. TablesAgree' /\ KeepsPaid
    BY <1>0, <2>2 DEF TablesAgree, KeepsPaid, Exists
  <2> QED BY <1>d, <2>2, <2>3, IdleIsShaped
<1>12. CASE GiveBack(c)
  <2>1. v.op = "giveBack" /\ v.rest \subseteq lines[v.r.of]
    BY <1>b, <1>12 DEF GiveBack, Shape
  <2>2. PICK x \in v.rest : Goto(c, [v EXCEPT !.rest = @ \ {x}])
    BY <1>b, <1>12 DEF GiveBack
  <2>3. v \in Giving
    BY <2>1 DEF Work, Idle, Loop, Update, DropLine, OnDeal, SaveRow, Expiring,
           Filing, Giving, Closing, SaveStockRow
  <2>4. UNCHANGED <<deals, txn, accepted>>
    BY <1>12 DEF GiveBack, money
  <2> DEFINE w == [v EXCEPT !.rest = @ \ {x}]
  <2>5. w.op = "giveBack" /\ w.r = v.r /\ w.rest = v.rest \ {x}
    BY <2>3 DEF Giving
  <2> HIDE DEF w
  <2>6. Shape(w)'
    BY <2>1, <2>4, <2>5 DEF Shape, deals
  <2> QED BY <1>c, <2>2, <2>4, <2>6 DEF w
<1>13. CASE \/ CreateRequestReportBookingMaterial(c) \/ CreateRefund(c)
            \/ CloseRequest(c) \/ SaveStock(c)
  <2>1. PICK w : Goto(c, w) /\ (w = Idle \/ w.op \in {"expire", "close"})
    BY <1>13 DEF CreateRequestReportBookingMaterial, CreateRefund, CloseRequest,
                 SaveStock
  <2>2. Shape(w)'
    BY <2>1, IdleIsShaped DEF Shape
  <2>3. UNCHANGED <<deals, txn, accepted>>
    BY <1>13 DEF CreateRequestReportBookingMaterial, CreateRefund, CloseRequest,
                 SaveStock, money
  <2> QED BY <1>c, <2>1, <2>2, <2>3
<1> QED BY <1>1, <1>2, <1>3, <1>4, <1>5, <1>6, <1>7, <1>8, <1>9, <1>10, <1>11,
           <1>12, <1>13 DEF Continue

LEMMA NextKeepsShape ==
  ASSUME StoreInductive, ShapeInv, Serial, [Next]_vars
  PROVE  ShapeInv' /\ KeepsPaid
<1>1. CASE \/ \E c \in Call : Fail(c)
           \/ \E r \in ReportRequest : CreateReport(r) \/ AssignTask(r)
           \/ UNCHANGED vars
  <2>1. UNCHANGED <<deals, txn, accepted, stock>>
    BY <1>1 DEF Fail, CreateReport, AssignTask, vars, deals, money, store
  <2>2. \A c \in Call : call'[c] = call[c] \/ call'[c] = Idle
    BY <1>1, InductiveParts
       DEF Fail, CreateReport, AssignTask, vars, Goto, CallsOK
  <2>3. TablesAgree' /\ KeepsPaid
    BY <2>1, TablesStay, PaidStaysPut DEF ShapeInv
  <2>4. OneAtATime'
    BY <2>2 DEF ShapeInv, OneAtATime
  <2>5. ASSUME NEW c \in Call PROVE Shape(call[c])'
    <3>1. CASE call'[c] = Idle
      BY <3>1 DEF Shape, Idle
    <3>2. CASE call'[c] = call[c]
      BY <2>1, <3>2 DEF ShapeInv, Shape, Exists, deals
    <3> QED BY <2>2, <3>1, <3>2
  <2> QED BY <2>3, <2>4, <2>5 DEF ShapeInv
<1> QED BY <1>1, ArriveKeepsShape, ContinueKeepsShape DEF Next

LEMMA InitShapeInv == Init => ShapeInv
<1> SUFFICES ASSUME Init PROVE ShapeInv
  OBVIOUS
<1>1. TablesAgree
  BY FS_EmptySet DEF Init, TablesAgree, Exists
<1>2. \A c \in Call : call[c] = Idle
  BY DEF Init
<1>3. \A c \in Call : Shape(call[c])
  BY <1>2 DEF Shape, Idle
<1> QED BY <1>1, <1>2, <1>3 DEF ShapeInv, OneAtATime

\* When requests do not overlap, a late or repeated cancellation undoes nothing
\* that was paid, for any deals and accidents.
THEOREM PaidDealStaysHolds ==
  ASSUME Serial
  PROVE  Spec => PaidDealStays
<1>1. StoreInductive /\ ShapeInv /\ [Next]_vars => ShapeInv'
  BY NextKeepsShape
<1>2. StoreInductive /\ ShapeInv /\ [Next]_vars
        => [\A d \in Deal : txn[d] = "succeed"
              => txn'[d] = "succeed" /\ lines'[d] = lines[d] /\ deal'[d] # "gone"]_vars
  BY NextKeepsShape DEF KeepsPaid
<1> QED BY InitShapeInv, StoreInductiveHolds, <1>1, <1>2, PTL DEF Spec, PaidDealStays

-----------------------------------------------------------------------------
\* Sums over finite sets.  The library's induction needs an operator for what is
\* proved; that a set of finite sets has a smallest does as well.
SumOver(f, X) == MapThenSumSet(LAMBDA x : f[x], X)

\* A set of finite sets has a smallest.
LEMMA SmallestSet ==
  ASSUME NEW S, IsFiniteSet(S), NEW T \in SUBSET (SUBSET S), T # {}
  PROVE  \E X \in T : \A Y \in T : Y \subseteq X => Y = X
<1>1. FiniteSubsetsOf(S) = SUBSET S
  BY FS_FiniteSubsetsOfFinite
<1>2. IsWellFoundedOn(StrictSubsetOrdering(S), SUBSET S)
  BY <1>1, FS_StrictSubsetOrderingWellFounded
<1>3. PICK X \in T : \A Y \in T : ~ (<<Y, X>> \in StrictSubsetOrdering(S))
  BY <1>2, WFMin
<1>4. \A Y \in T : <<Y, X>> \in StrictSubsetOrdering(S) <=> Y \subseteq X /\ Y # X
  BY DEF StrictSubsetOrdering
<1>5. \A Y \in T : Y \subseteq X => Y = X
  BY <1>3, <1>4
<1> QED BY <1>5

\* One step of the sum of X, given the sums it of smaller sets.
SumStep(f, it, X) ==
  IF X = {} THEN 0 ELSE LET x == CHOOSE x \in X : TRUE IN f[x] + it[X \ {x}]

Sums(f, it, S) == it = [X \in SUBSET S |-> SumStep(f, it, X)]

LEMMA SumUnfolds ==
  ASSUME NEW f, NEW X
  PROVE  SumOver(f, X) = (CHOOSE it : Sums(f, it, X))[X]
BY DEF SumOver, MapThenSumSet, MapThenFoldSet, SumStep, Sums

\* Two tables that agree on smaller sets have the same next step.
LEMMA SameStep ==
  ASSUME NEW f, NEW X, NEW i, NEW j, \A x \in X : i[X \ {x}] = j[X \ {x}]
  PROVE  SumStep(f, i, X) = SumStep(f, j, X)
<1> DEFINE x == CHOOSE x \in X : TRUE
<1>1. X # {} => i[X \ {x}] = j[X \ {x}]
  OBVIOUS
<1> QED BY <1>1 DEF SumStep

\* There is one table of sums at most.
LEMMA SumsAgree ==
  ASSUME NEW X, IsFiniteSet(X), NEW f, NEW i, NEW j, Sums(f, i, X), Sums(f, j, X)
  PROVE  \A Y \in SUBSET X : i[Y] = j[Y]
<1> DEFINE T == {Y \in SUBSET X : i[Y] # j[Y]}
<1>1. SUFFICES ASSUME T # {} PROVE FALSE
  OBVIOUS
<1>2. T \in SUBSET (SUBSET X)
  OBVIOUS
<1> HIDE DEF T
<1>3. PICK Y \in T : \A Z \in T : Z \subseteq Y => Z = Y
  BY <1>1, <1>2, SmallestSet
<1> USE DEF T
<1>4. \A y \in Y : i[Y \ {y}] = j[Y \ {y}]
  BY <1>3
<1>5. i[Y] = SumStep(f, i, Y) /\ j[Y] = SumStep(f, j, Y)
  BY DEF Sums
<1> QED BY <1>4, <1>5, SameStep

\* The sums of the subsets of a finite set are such a table.
LEMMA SumIsStep ==
  ASSUME NEW S, IsFiniteSet(S), NEW f \in [S -> Int]
  PROVE  \A X \in SUBSET S :
           /\ SumOver(f, X) \in Int
           /\ SumOver(f, X) = SumStep(f, [Y \in SUBSET X |-> SumOver(f, Y)], X)
<1> DEFINE Table(X) == [Y \in SUBSET X |-> SumOver(f, Y)]
           T == {X \in SUBSET S : ~ /\ SumOver(f, X) \in Int
                                    /\ SumOver(f, X) = SumStep(f, Table(X), X)}
<1>1. SUFFICES ASSUME T # {} PROVE FALSE
  OBVIOUS
<1>2. T \in SUBSET (SUBSET S)
  OBVIOUS
<1> HIDE DEF T
<1>3. PICK X \in T : \A Z \in T : Z \subseteq X => Z = X
  BY <1>1, <1>2, SmallestSet
<1> USE DEF T
<1> DEFINE jt == [Y \in SUBSET X |-> IF Y = X THEN SumStep(f, Table(X), X)
                                              ELSE SumOver(f, Y)]
<1>4. \A Y \in SUBSET X : \A y \in Y :
        /\ Table(Y)[Y \ {y}] = SumOver(f, Y \ {y})
        /\ jt[Y \ {y}] = SumOver(f, Y \ {y})
  OBVIOUS
<1>5. \A Y \in SUBSET X : jt[Y] = SumStep(f, Table(Y), Y)
  BY <1>3
<1>6. ASSUME NEW Y \in SUBSET X
      PROVE  jt[Y] = SumStep(f, jt, Y)
  <2>1. jt[Y] = SumStep(f, Table(Y), Y)
    BY <1>5
  <2>2. \A y \in Y : Table(Y)[Y \ {y}] = jt[Y \ {y}]
    BY <1>4
  <2> HIDE DEF jt, Table
  <2> QED BY <2>1, <2>2, SameStep
<1>7. Sums(f, jt, X) /\ IsFiniteSet(X)
  <2>1. jt = [Y \in SUBSET X |-> jt[Y]]
    OBVIOUS
  <2> HIDE DEF jt
  <2> QED BY <1>3, <1>6, <2>1, FS_Subset DEF Sums
<1>8. SumOver(f, X) = jt[X]
  <2> DEFINE it == CHOOSE it : Sums(f, it, X)
  <2> HIDE DEF jt
  <2>1. Sums(f, it, X)
    BY <1>7
  <2>2. SumOver(f, X) = it[X]
    BY SumUnfolds
  <2> HIDE DEF it
  <2> QED BY <1>7, <2>1, <2>2, SumsAgree
<1>9. SumStep(f, Table(X), X) \in Int
  <2> DEFINE x == CHOOSE x \in X : TRUE
  <2>1. ASSUME X # {}
        PROVE  x \in X /\ X \ {x} \in SUBSET S /\ X \ {x} # X
    BY <2>1
  <2>2. X # {} => X \ {x} \notin T
    BY <1>3, <2>1
  <2>3. X # {} => SumOver(f, X \ {x}) \in Int /\ f[x] \in Int
    <3> HIDE DEF Table, x
    <3> QED BY <2>1, <2>2
  <2>4. X # {} => SumStep(f, Table(X), X) = f[x] + Table(X)[X \ {x}]
    BY DEF SumStep
  <2>5. X # {} => Table(X)[X \ {x}] = SumOver(f, X \ {x})
    BY <1>4, <2>1
  <2>6. X = {} => SumStep(f, Table(X), X) = 0
    BY DEF SumStep
  <2> HIDE DEF x, Table
  <2> QED BY <2>3, <2>4, <2>5, <2>6
<1> QED BY <1>5, <1>8, <1>9

\* The sum of a set, from that of the rest of it.
LEMMA SumParts ==
  ASSUME NEW S, IsFiniteSet(S), NEW f \in [S -> Int]
  PROVE  /\ SumOver(f, {}) = 0
         /\ \A X \in SUBSET S :
              /\ SumOver(f, X) \in Int
              /\ \A x \in X : SumOver(f, X) = f[x] + SumOver(f, X \ {x})
<1> DEFINE s(X) == SumOver(f, X)
<1>1. \A X \in SUBSET S : s(X) \in Int
  BY SumIsStep
<1>2. s({}) = 0
  BY SumIsStep DEF SumStep
<1>3. ASSUME NEW X \in SUBSET S, X # {}
      PROVE  \E c \in X : s(X) = f[c] + s(X \ {c})
  <2> DEFINE t == [Y \in SUBSET X |-> SumOver(f, Y)]
  <2>1. s(X) = SumStep(f, t, X)
    BY SumIsStep
  <2>2. \A x \in X : t[X \ {x}] = s(X \ {x})
    OBVIOUS
  <2> HIDE DEF t, s
  <2> QED BY <1>3, <2>1, <2>2 DEF SumStep
<1> DEFINE T == {X \in SUBSET S : \E x \in X : s(X) # f[x] + s(X \ {x})}
<1>4. SUFFICES ASSUME T # {} PROVE FALSE
  BY <1>1, <1>2
<1>5. T \in SUBSET (SUBSET S)
  OBVIOUS
<1> HIDE DEF T
<1>6. PICK X \in T : \A Y \in T : Y \subseteq X => Y = X
  BY <1>4, <1>5, SmallestSet
<1> HIDE DEF s
<1> USE DEF T
<1>7. PICK x \in X : s(X) # f[x] + s(X \ {x})
  OBVIOUS
<1>8. PICK c \in X : s(X) = f[c] + s(X \ {c})
  BY <1>3
<1>9. X \ {c} \notin T /\ X \ {x} \notin T /\ c # x
  BY <1>6, <1>7, <1>8
<1> DEFINE R == (X \ {c}) \ {x}
<1>10. (X \ {x}) \ {c} = R
  OBVIOUS
<1>11. s(X \ {c}) = f[x] + s(R) /\ s(X \ {x}) = f[c] + s(R)
  BY <1>9, <1>10
<1>12. f[x] \in Int /\ f[c] \in Int /\ s(R) \in Int
  BY <1>1
<1> HIDE DEF R, T
<1> QED BY <1>7, <1>8, <1>11, <1>12

\* A sum only sees what it adds.
LEMMA SumSees ==
  ASSUME NEW f, NEW g, NEW X, \A x \in X : f[x] = g[x]
  PROVE  SumOver(f, X) = SumOver(g, X)
<1>1. \A Y \in SUBSET X : Y # {} => (CHOOSE x \in Y : TRUE) \in Y
  OBVIOUS
<1>2. \A it : \A Y \in SUBSET X : SumStep(f, it, Y) = SumStep(g, it, Y)
  BY <1>1 DEF SumStep
<1>3. \A it : Sums(f, it, X) <=> Sums(g, it, X)
  BY <1>2 DEF Sums
<1>4. (CHOOSE it : Sums(f, it, X)) = (CHOOSE it : Sums(g, it, X))
  BY ONLY <1>3, Zenon
<1> QED BY <1>4, SumUnfolds

\* The sum when one term changes.
LEMMA OneTermChanges ==
  ASSUME NEW S, IsFiniteSet(S), NEW f \in [S -> Int], NEW g \in [S -> Int],
         NEW e \in S, \A x \in S \ {e} : f[x] = g[x]
  PROVE  /\ SumOver(f, S) \in Int
         /\ SumOver(g, S) = SumOver(f, S) + g[e] - f[e]
<1>1. SumOver(f, S \ {e}) = SumOver(g, S \ {e})
  BY SumSees
<1>2. /\ SumOver(f, S) = f[e] + SumOver(f, S \ {e})
      /\ SumOver(g, S) = g[e] + SumOver(g, S \ {e})
      /\ SumOver(f, S) \in Int /\ SumOver(f, S \ {e}) \in Int
  <2>1. S \in SUBSET S /\ S \ {e} \in SUBSET S
    OBVIOUS
  <2> QED BY <2>1, SumParts
<1> QED BY <1>1, <1>2

\* The sums of the store as sums over a table of terms.
PieceStep(it, X) ==
  it = [Y \in SUBSET X |->
          IF Y = {} THEN 0
          ELSE LET x == CHOOSE x \in Y : TRUE IN x.q + it[Y \ {x}]]

LEMMA PiecesAreSums ==
  ASSUME NEW X, NEW f, \A x \in X : f[x] = x.q
  PROVE  MapThenSumSet(LAMBDA x : x.q, X) = SumOver(f, X)
<1>1. \A Y \in SUBSET X : Y # {} => (CHOOSE x \in Y : TRUE) \in Y
  OBVIOUS
<1>2. ASSUME NEW it, NEW Y \in SUBSET X
      PROVE  (IF Y = {} THEN 0
              ELSE LET x == CHOOSE x \in Y : TRUE IN x.q + it[Y \ {x}])
               = SumStep(f, it, Y)
  BY <1>1 DEF SumStep
<1>3. \A it : PieceStep(it, X) <=> Sums(f, it, X)
  BY <1>2 DEF PieceStep, Sums
<1>4. (CHOOSE it : PieceStep(it, X)) = (CHOOSE it : Sums(f, it, X))
  BY ONLY <1>3, Zenon
<1>5. MapThenSumSet(LAMBDA x : x.q, X) = (CHOOSE it : PieceStep(it, X))[X]
  BY DEF MapThenSumSet, MapThenFoldSet, PieceStep
<1> QED BY <1>4, <1>5, SumUnfolds

\* The pieces of m in a set of lines.
LEMMA PiecesOfLines ==
  ASSUME NEW X \in SUBSET Line, IsFiniteSet(X), NEW m
  PROVE  /\ Pieces(X, m) \in Int
         /\ X = {} => Pieces(X, m) = 0
         /\ \A x \in X : Pieces(X, m)
              = (IF x.m = m THEN x.q ELSE 0) + Pieces(X \ {x}, m)
<1> DEFINE Of(Y) == {x \in Y : x.m = m}
           f == [x \in X |-> x.q]
<1>1. f \in [X -> Int]
  BY DEF Line
<1>2. \A Y \in SUBSET X : Pieces(Y, m) = SumOver(f, Of(Y))
  BY PiecesAreSums DEF Pieces
<1>3. \A Y \in SUBSET X : SumOver(f, Of(Y)) \in Int
  <2>1. \A Y \in SUBSET X : Of(Y) \in SUBSET X
    OBVIOUS
  <2> HIDE DEF f, Of
  <2> QED BY <1>1, <2>1, SumParts
<1>4. X = {} => Pieces(X, m) = 0
  <2>1. X = {} => Of(X) = {} /\ X \in SUBSET X
    OBVIOUS
  <2> HIDE DEF f, Of
  <2> QED BY <1>1, <1>2, <2>1, SumParts
<1>5. ASSUME NEW x \in X
      PROVE  Pieces(X, m) = (IF x.m = m THEN x.q ELSE 0) + Pieces(X \ {x}, m)
  <2>1. CASE x.m = m
    <3>1. Of(X \ {x}) = Of(X) \ {x} /\ x \in Of(X) /\ Of(X) \in SUBSET X
      BY <2>1
    <3>2. f[x] = x.q
      OBVIOUS
    <3> HIDE DEF f, Of
    <3>3. SumOver(f, Of(X)) = f[x] + SumOver(f, Of(X) \ {x})
      BY <1>1, <3>1, SumParts
    <3> QED BY <1>2, <2>1, <3>1, <3>2, <3>3
  <2>2. CASE x.m # m
    <3>1. Of(X \ {x}) = Of(X)
      BY <2>2
    <3> HIDE DEF f, Of
    <3>2. Pieces(X \ {x}, m) = Pieces(X, m) /\ Pieces(X, m) \in Int
      BY <1>2, <1>3, <3>1
    <3> QED BY <2>2, <3>2
  <2> QED BY <2>1, <2>2
<1> QED BY <1>2, <1>3, <1>4, <1>5

\* The two sums over deals, of a table ls of lines and a table rf of refunds.
OutOf(ls, m) == MapThenSumSet(LAMBDA d : Pieces(ls[d], m), Order)
OwedOf(ls, rf, m) ==
  MapThenSumSet(LAMBDA d : (1 - rf[d]) * Pieces(ls[d], m), Rental)

OutStep(ls, m, it) ==
  it = [Y \in SUBSET Order |->
          IF Y = {} THEN 0
          ELSE LET x == CHOOSE x \in Y : TRUE IN Pieces(ls[x], m) + it[Y \ {x}]]

OwedStep(ls, rf, m, it) ==
  it = [Y \in SUBSET Rental |->
          IF Y = {} THEN 0
          ELSE LET x == CHOOSE x \in Y : TRUE
               IN  (1 - rf[x]) * Pieces(ls[x], m) + it[Y \ {x}]]

LEMMA OutIsSum ==
  ASSUME NEW ls, NEW m, NEW f, \A d \in Order : f[d] = Pieces(ls[d], m)
  PROVE  OutOf(ls, m) = SumOver(f, Order)
<1>1. \A Y \in SUBSET Order : Y # {} => (CHOOSE x \in Y : TRUE) \in Y
  OBVIOUS
<1>2. ASSUME NEW it, NEW Y \in SUBSET Order
      PROVE  (IF Y = {} THEN 0
              ELSE LET x == CHOOSE x \in Y : TRUE
                   IN  Pieces(ls[x], m) + it[Y \ {x}]) = SumStep(f, it, Y)
  BY <1>1 DEF SumStep
<1>3. \A it : OutStep(ls, m, it) <=> Sums(f, it, Order)
  BY <1>2 DEF OutStep, Sums
<1>4. (CHOOSE it : OutStep(ls, m, it)) = (CHOOSE it : Sums(f, it, Order))
  BY ONLY <1>3, Zenon
<1>5. OutOf(ls, m) = (CHOOSE it : OutStep(ls, m, it))[Order]
  BY DEF OutOf, MapThenSumSet, MapThenFoldSet, OutStep
<1> QED BY <1>4, <1>5, SumUnfolds

LEMMA OwedIsSum ==
  ASSUME NEW ls, NEW rf, NEW m, NEW f,
         \A d \in Rental : f[d] = (1 - rf[d]) * Pieces(ls[d], m)
  PROVE  OwedOf(ls, rf, m) = SumOver(f, Rental)
<1>1. \A Y \in SUBSET Rental : Y # {} => (CHOOSE x \in Y : TRUE) \in Y
  OBVIOUS
<1>2. ASSUME NEW it, NEW Y \in SUBSET Rental
      PROVE  (IF Y = {} THEN 0
              ELSE LET x == CHOOSE x \in Y : TRUE
                   IN  (1 - rf[x]) * Pieces(ls[x], m) + it[Y \ {x}])
               = SumStep(f, it, Y)
  BY <1>1 DEF SumStep
<1>3. \A it : OwedStep(ls, rf, m, it) <=> Sums(f, it, Rental)
  BY <1>2 DEF OwedStep, Sums
<1>4. (CHOOSE it : OwedStep(ls, rf, m, it)) = (CHOOSE it : Sums(f, it, Rental))
  BY ONLY <1>3, Zenon
<1>5. OwedOf(ls, rf, m) = (CHOOSE it : OwedStep(ls, rf, m, it))[Rental]
  BY DEF OwedOf, MapThenSumSet, MapThenFoldSet, OwedStep
<1> QED BY <1>4, <1>5, SumUnfolds

LinesTable == {ls \in [Deal -> SUBSET Line] : \A d \in Deal : IsFiniteSet(ls[d])}

\* The sum over orders, when the lines of one order change.
LEMMA OutChanges ==
  ASSUME NEW ls \in LinesTable, NEW ks \in LinesTable, NEW m, NEW e \in Order,
         \A d \in Order \ {e} : ks[d] = ls[d]
  PROVE  /\ OutOf(ls, m) \in Int
         /\ OutOf(ks, m) = OutOf(ls, m) + Pieces(ks[e], m) - Pieces(ls[e], m)
<1> DEFINE f == [d \in Order |-> Pieces(ls[d], m)]
           g == [d \in Order |-> Pieces(ks[d], m)]
<1>1. \A d \in Order : Pieces(ls[d], m) \in Int /\ Pieces(ks[d], m) \in Int
  BY PiecesOfLines DEF LinesTable, Deal
<1>2. /\ f \in [Order -> Int] /\ g \in [Order -> Int]
      /\ \A x \in Order \ {e} : f[x] = g[x]
      /\ f[e] = Pieces(ls[e], m) /\ g[e] = Pieces(ks[e], m)
  BY <1>1
<1>3. OutOf(ls, m) = SumOver(f, Order) /\ OutOf(ks, m) = SumOver(g, Order)
  BY OutIsSum
<1> HIDE DEF f, g
<1>4. SumOver(f, Order) \in Int /\ SumOver(g, Order) = SumOver(f, Order) + g[e] - f[e]
  BY <1>2, DealAssumption, OneTermChanges
<1> QED BY <1>2, <1>3, <1>4

\* The sum over rentals, when the lines or the refunds of one rental change.
LEMMA OwedChanges ==
  ASSUME NEW ls \in LinesTable, NEW ks \in LinesTable, NEW rf \in [Deal -> Nat],
         NEW sf \in [Deal -> Nat], NEW m, NEW e \in Rental,
         \A d \in Rental \ {e} : ks[d] = ls[d] /\ sf[d] = rf[d]
  PROVE  /\ OwedOf(ls, rf, m) \in Int
         /\ OwedOf(ks, sf, m) = OwedOf(ls, rf, m) + (1 - sf[e]) * Pieces(ks[e], m)
                                                  - (1 - rf[e]) * Pieces(ls[e], m)
<1> DEFINE f == [d \in Rental |-> (1 - rf[d]) * Pieces(ls[d], m)]
           g == [d \in Rental |-> (1 - sf[d]) * Pieces(ks[d], m)]
<1>1. \A d \in Rental : /\ Pieces(ls[d], m) \in Int /\ Pieces(ks[d], m) \in Int
                        /\ 1 - rf[d] \in Int /\ 1 - sf[d] \in Int
  BY PiecesOfLines DEF LinesTable, Deal
<1>2. \A a, b \in Int : a * b \in Int
  OBVIOUS
<1>3. /\ f \in [Rental -> Int] /\ g \in [Rental -> Int]
      /\ \A x \in Rental \ {e} : f[x] = g[x]
      /\ f[e] = (1 - rf[e]) * Pieces(ls[e], m) /\ g[e] = (1 - sf[e]) * Pieces(ks[e], m)
  BY <1>1, <1>2
<1>4. OwedOf(ls, rf, m) = SumOver(f, Rental) /\ OwedOf(ks, sf, m) = SumOver(g, Rental)
  BY OwedIsSum
<1> HIDE DEF f, g
<1>5. /\ SumOver(f, Rental) \in Int
      /\ SumOver(g, Rental) = SumOver(f, Rental) + g[e] - f[e]
  BY <1>3, DealAssumption, OneTermChanges
<1> QED BY <1>3, <1>4, <1>5

\* Only one of the two sums changes with the lines of a deal.
LEMMA SumsOfOthersStay ==
  ASSUME NEW ls \in LinesTable, NEW ks \in LinesTable, NEW rf, NEW m
  PROVE  /\ (\A d \in Order : ks[d] = ls[d]) => OutOf(ks, m) = OutOf(ls, m)
         /\ (\A d \in Rental : ks[d] = ls[d]) => OwedOf(ks, rf, m) = OwedOf(ls, rf, m)
<1>1. ASSUME \A d \in Order : ks[d] = ls[d]
      PROVE  OutOf(ks, m) = OutOf(ls, m)
  <2> DEFINE f == [d \in Order |-> Pieces(ls[d], m)]
  <2>1. \A d \in Order : f[d] = Pieces(ls[d], m) /\ f[d] = Pieces(ks[d], m)
    BY <1>1
  <2> HIDE DEF f
  <2> QED BY <2>1, OutIsSum
<1>2. ASSUME \A d \in Rental : ks[d] = ls[d]
      PROVE  OwedOf(ks, rf, m) = OwedOf(ls, rf, m)
  <2> DEFINE f == [d \in Rental |-> (1 - rf[d]) * Pieces(ls[d], m)]
  <2>1. \A d \in Rental : /\ f[d] = (1 - rf[d]) * Pieces(ls[d], m)
                          /\ f[d] = (1 - rf[d]) * Pieces(ks[d], m)
    BY <1>2
  <2> HIDE DEF f
  <2> QED BY <2>1, OwedIsSum
<1> QED BY <1>1, <1>2

\* What a line counts for of m.
Q(x, m) == IF x.m = m THEN x.q ELSE 0

LEMMA SumsAreIntegers ==
  ASSUME NEW ls \in LinesTable, NEW rf \in [Deal -> Nat], NEW m
  PROVE  OutOf(ls, m) \in Int /\ OwedOf(ls, rf, m) \in Int
<1>1. OutOf(ls, m) \in Int
  <2> DEFINE f == [d \in Order |-> Pieces(ls[d], m)]
  <2>1. f \in [Order -> Int] /\ \A d \in Order : f[d] = Pieces(ls[d], m)
    BY PiecesOfLines DEF LinesTable, Deal
  <2> HIDE DEF f
  <2>2. SumOver(f, Order) \in Int
    BY <2>1, DealAssumption, SumParts
  <2> QED BY <2>1, <2>2, OutIsSum
<1>2. OwedOf(ls, rf, m) \in Int
  <2> DEFINE f == [d \in Rental |-> (1 - rf[d]) * Pieces(ls[d], m)]
  <2>1. \A a, b \in Int : a * b \in Int
    OBVIOUS
  <2>2. \A d \in Rental : Pieces(ls[d], m) \in Int /\ 1 - rf[d] \in Int
    BY PiecesOfLines DEF LinesTable, Deal
  <2>3. /\ f \in [Rental -> Int]
        /\ \A d \in Rental : f[d] = (1 - rf[d]) * Pieces(ls[d], m)
    BY <2>1, <2>2
  <2> HIDE DEF f
  <2>4. SumOver(f, Rental) \in Int
    BY <2>3, DealAssumption, SumParts
  <2> QED BY <2>3, <2>4, OwedIsSum
<1> QED BY <1>1, <1>2

\* The sums before and after a line of a deal is written or deleted.
LEMMA OneLineMore ==
  ASSUME NEW ls \in LinesTable, NEW ks \in LinesTable, NEW rf \in [Deal -> Nat],
         NEW d \in Deal, NEW x \in ks[d], x \notin ls[d], ls[d] = ks[d] \ {x},
         \A e \in Deal \ {d} : ks[e] = ls[e], NEW m,
         d \in Rental => rf[d] = 0
  PROVE  /\ d \in Order => /\ OutOf(ks, m) = OutOf(ls, m) + Q(x, m)
                           /\ OwedOf(ks, rf, m) = OwedOf(ls, rf, m)
         /\ d \in Rental => /\ OwedOf(ks, rf, m) = OwedOf(ls, rf, m) + Q(x, m)
                            /\ OutOf(ks, m) = OutOf(ls, m)
         /\ Q(x, m) \in Nat
<1>1. /\ ks[d] \in SUBSET Line /\ IsFiniteSet(ks[d])
      /\ ls[d] \in SUBSET Line /\ IsFiniteSet(ls[d])
  BY DEF LinesTable
<1>2. Q(x, m) \in Nat
  BY <1>1 DEF Q, Line
<1>3. /\ Pieces(ls[d], m) \in Int /\ Pieces(ks[d], m) \in Int
      /\ Pieces(ks[d], m) = Q(x, m) + Pieces(ls[d], m)
  BY <1>1, PiecesOfLines DEF Q
<1>4. OutOf(ls, m) \in Int /\ OwedOf(ls, rf, m) \in Int
  BY SumsAreIntegers
<1>5. ASSUME d \in Order
      PROVE  /\ OutOf(ks, m) = OutOf(ls, m) + Q(x, m)
             /\ OwedOf(ks, rf, m) = OwedOf(ls, rf, m)
  <2>1. \A e \in Rental : ks[e] = ls[e]
    BY <1>5, MaterialAssumption DEF Deal
  <2>2. \A e \in Order \ {d} : ks[e] = ls[e]
    BY DEF Deal
  <2>3. OwedOf(ks, rf, m) = OwedOf(ls, rf, m)
    BY <2>1, SumsOfOthersStay
  <2>4. PICK o \in Order : o = d
    BY <1>5
  <2>5. \A e \in Order \ {o} : ks[e] = ls[e]
    BY <2>2, <2>4
  <2>6. OutOf(ks, m) = OutOf(ls, m) + Pieces(ks[o], m) - Pieces(ls[o], m)
    BY <2>5, OutChanges
  <2> QED BY <1>2, <1>3, <1>4, <2>3, <2>4, <2>6
<1>6. ASSUME d \in Rental
      PROVE  /\ OwedOf(ks, rf, m) = OwedOf(ls, rf, m) + Q(x, m)
             /\ OutOf(ks, m) = OutOf(ls, m)
  <2>1. \A e \in Order : ks[e] = ls[e]
    BY <1>6, MaterialAssumption DEF Deal
  <2>2. \A e \in Rental \ {d} : ks[e] = ls[e] /\ rf[e] = rf[e]
    BY DEF Deal
  <2>3. OutOf(ks, m) = OutOf(ls, m)
    BY <2>1, SumsOfOthersStay
  <2>4. PICK o \in Rental : o = d
    BY <1>6
  <2>5. \A e \in Rental \ {o} : ks[e] = ls[e] /\ rf[e] = rf[e]
    BY <2>2, <2>4
  <2>6. OwedOf(ks, rf, m) = OwedOf(ls, rf, m) + (1 - rf[o]) * Pieces(ks[o], m)
                                             - (1 - rf[o]) * Pieces(ls[o], m)
    BY <2>5, OwedChanges
  <2>7. rf[d] = 0
    BY <1>6
  <2> QED BY <1>2, <1>3, <1>4, <2>3, <2>4, <2>6, <2>7
<1> QED BY <1>2, <1>5, <1>6

-----------------------------------------------------------------------------
\* What a line in hand holds back or has given back already.
Sold(w, m) ==
  IF w.op \in {"take", "dropLine"} /\ w.d \in Order THEN Q(w.now, m) ELSE 0

Lent(w, ls, m) ==
  IF w.op = "take" /\ w.d \in Rental THEN Q(w.now, m)
  ELSE IF w.op = "giveBack" THEN Pieces(ls[w.r.of] \ w.rest, m) ELSE 0

\* The books are right but for the line in hand.
Counts(w, st, ls, rf, ed) ==
  /\ \A m \in Buy \ ed : st[m].total + OutOf(ls, m) = Initial[m] + Sold(w, m)
  /\ \A m \in Rent \ ed : st[m].rented + Lent(w, ls, m) >= OwedOf(ls, rf, m)

InHand(w) == IF w = Idle THEN Quiet ELSE \E c \in Call : call[c] = w

CountInv ==
  accidents = 0
  => \A w \in Work : InHand(w) => Counts(w, stock, lines, refund, edited)

LEMMA StepKeepsCount ==
  ASSUME CallsOK, NEW c \in Call, OthersIdle(c), NEW w \in Work, Goto(c, w),
         accidents' = 0 => Counts(w, stock', lines', refund', edited')
  PROVE  CountInv'
<1>1. call'[c] = w /\ \A b \in Call \ {c} : call'[b] = Idle
  BY DEF CallsOK, Goto, OthersIdle
<1>2. ASSUME NEW u \in Work, InHand(u)'
      PROVE  u = w
  <2>1. CASE u = Idle
    BY <1>1, <1>2, <2>1 DEF InHand, Quiet
  <2>2. CASE u # Idle
    <3>1. PICK b \in Call : call'[b] = u
      BY <1>2, <2>2 DEF InHand, Idle
    <3> QED BY <1>1, <2>2, <3>1
  <2> QED BY <2>1, <2>2
<1> QED BY <1>2 DEF CountInv

\* Work with no line in hand.
Empty(w) == w.op \notin {"take", "dropLine", "giveBack"}

LEMMA EmptyHands ==
  ASSUME NEW w, Empty(w), NEW ls, NEW m
  PROVE  Sold(w, m) = 0 /\ Lent(w, ls, m) = 0
BY DEF Empty, Sold, Lent

LEMMA EmptyStaysEmpty ==
  ASSUME NEW v, NEW w, Empty(v), Empty(w), NEW st, NEW ls, NEW rf, NEW ed,
         Counts(v, st, ls, rf, ed)
  PROVE  Counts(w, st, ls, rf, ed)
BY EmptyHands DEF Counts

\* The tables hold numbers, before and after a step.
LEMMA Numbers ==
  ASSUME StoreInductive, ShapeInv
  PROVE  /\ lines \in LinesTable /\ refund \in [Deal -> Nat]
         /\ \A m \in Material : /\ stock[m].total \in Int /\ stock[m].rented \in Int
                                /\ Initial[m] \in Int
         /\ \A m : OutOf(lines, m) \in Int /\ OwedOf(lines, refund, m) \in Int
<1>1. lines \in LinesTable /\ refund \in [Deal -> Nat]
  BY InductiveParts DEF DealsOK, PaidOK, ShapeInv, TablesAgree, LinesTable
<1>2. \A m \in Material : /\ stock[m].total \in Int /\ stock[m].rented \in Int
                          /\ Initial[m] \in Int
  BY InductiveParts, InitialAssumption DEF StockOK, StockRow
<1> QED BY <1>1, <1>2, SumsAreIntegers

LEMMA NumbersNext ==
  ASSUME StoreInductive', ShapeInv'
  PROVE  lines' \in LinesTable
BY DEF StoreInductive, TypeOK, ShapeInv, TablesAgree, LinesTable

-----------------------------------------------------------------------------
\* Steps of the books.
\* What the step of a busy request starts from.
LEMMA BusyCounts ==
  ASSUME StoreInductive, ShapeInv, CountInv, NEW c \in Call, Continue(c)
  PROVE  /\ OthersIdle(c) /\ accidents' = accidents
         /\ \E v \in Work : /\ v = call[c] /\ Shape(v) /\ Sound(v)
                            /\ accidents = 0
                                 => Counts(v, stock, lines, refund, edited)
<1>1. CallsOK
  BY InductiveParts
<1>2. call[c] # Idle /\ accidents' = accidents
  BY ContinueIsBusy
<1>3. PICK v \in Work : v = call[c] /\ Shape(v) /\ Sound(v)
  BY <1>1 DEF CallsOK, ShapeInv
<1>4. InHand(v)
  BY <1>2, <1>3 DEF InHand
<1>5. OthersIdle(c)
  BY <1>2 DEF ShapeInv, OneAtATime, OthersIdle
<1> QED BY <1>2, <1>3, <1>4, <1>5 DEF CountInv

LEMMA GoesToWork ==
  ASSUME CallsOK, StoreInductive', NEW c \in Call, NEW w, Goto(c, w)
  PROVE  w \in Work
<1>1. call' \in [Call -> Work]
  BY DEF StoreInductive, TypeOK
<1>2. call'[c] = w
  BY DEF CallsOK, Goto
<1> QED BY <1>1, <1>2

\* A rental that was not paid has had no refund.
LEMMA UnpaidHasNoRefund ==
  ASSUME StoreInductive, ShapeInv, NEW d \in Rental, txn[d] # "succeed"
  PROVE  refund[d] = 0
<1>1. d \in Deal
  BY DEF Deal
<1>2. accepted[d] = 0
  BY <1>1, InductiveParts DEF PaidOK, ShapeInv, TablesAgree
<1> QED BY <1>1, <1>2, InductiveParts DEF PaidOK, SignedWasPaid

LEMMA ReserveKeepsCount ==
  ASSUME StoreInductive, ShapeInv, CountInv, StoreInductive', ShapeInv',
         NEW c \in Call, Continue(c), Reserve(c)
  PROVE  CountInv'
<1>0. CallsOK /\ DealsOK /\ StockOK
  BY InductiveParts
<1>1. PICK v \in Work : /\ v = call[c] /\ Shape(v) /\ Sound(v)
                        /\ accidents = 0
                             => Counts(v, stock, lines, refund, edited)
  BY BusyCounts
<1>2. v.op = "reserve" /\ v.d \in Deal /\ v.rest \subseteq Line
  BY <1>1, WorkShape DEF Reserve
<1>3. PICK x, w :
        /\ x \in v.rest
        /\ lines' = [lines EXCEPT ![v.d] = @ \cup {x}]
        /\ w = [op |-> "take", d |-> v.d, rest |-> v.rest \ {x},
                now |-> x, seen |-> stock[x.m]]
        /\ Goto(c, w)
  BY <1>1 DEF Reserve
<1>4. UNCHANGED <<stock, edited, refund>>
  BY DEF Reserve, store, money
<1>5. v.rest \cap lines[v.d] = {} /\ txn[v.d] = "none"
  BY <1>1, <1>2 DEF Shape
<1>6. /\ x \in lines'[v.d] /\ x \notin lines[v.d] /\ lines[v.d] = lines'[v.d] \ {x}
      /\ \A e \in Deal \ {v.d} : lines'[e] = lines[e]
  BY <1>0, <1>2, <1>3, <1>5 DEF DealsOK
<1>7. v.d \in Rental => refund[v.d] = 0
  BY <1>5, UnpaidHasNoRefund
<1>8. /\ lines \in LinesTable /\ lines' \in LinesTable /\ refund \in [Deal -> Nat]
      /\ \A m \in Material : /\ stock[m].total \in Int /\ stock[m].rented \in Int
                             /\ Initial[m] \in Int
      /\ \A m : OutOf(lines, m) \in Int /\ OwedOf(lines, refund, m) \in Int
  BY Numbers, NumbersNext
<1>9. ASSUME NEW m
      PROVE  /\ v.d \in Order => /\ OutOf(lines', m) = OutOf(lines, m) + Q(x, m)
                                 /\ OwedOf(lines', refund, m) = OwedOf(lines, refund, m)
             /\ v.d \in Rental => /\ OwedOf(lines', refund, m)
                                       = OwedOf(lines, refund, m) + Q(x, m)
                                  /\ OutOf(lines', m) = OutOf(lines, m)
             /\ Q(x, m) \in Nat
  BY <1>2, <1>6, <1>7, <1>8, OneLineMore
<1>10. ASSUME NEW m
       PROVE  /\ Sold(v, m) = 0 /\ Lent(v, lines, m) = 0
              /\ Sold(w, m) = IF v.d \in Order THEN Q(x, m) ELSE 0
              /\ Lent(w, lines', m) = IF v.d \in Rental THEN Q(x, m) ELSE 0
  BY <1>2, <1>3 DEF Sold, Lent
<1>11. accidents = 0 => Counts(w, stock', lines', refund', edited')
  <2> SUFFICES ASSUME Counts(v, stock, lines, refund, edited)
               PROVE  Counts(w, stock', lines', refund', edited')
    BY <1>1
  <2>1. v.d \in Order <=> v.d \notin Rental
    BY <1>2, MaterialAssumption DEF Deal
  <2>2. ASSUME NEW m \in Buy \ edited
        PROVE  stock[m].total + OutOf(lines', m) = Initial[m] + Sold(w, m)
    <3>1. stock[m].total + OutOf(lines, m) = Initial[m] + 0
      BY <1>10 DEF Counts
    <3>2. m \in Material
      BY DEF Material
    <3> QED BY <1>8, <1>9, <1>10, <2>1, <3>1, <3>2
  <2>3. ASSUME NEW m \in Rent \ edited
        PROVE  stock[m].rented + Lent(w, lines', m) >= OwedOf(lines', refund, m)
    <3>1. stock[m].rented + 0 >= OwedOf(lines, refund, m)
      BY <1>10 DEF Counts
    <3>2. m \in Material
      BY DEF Material
    <3> QED BY <1>8, <1>9, <1>10, <2>1, <3>1, <3>2
  <2> QED BY <1>4, <2>2, <2>3 DEF Counts
<1>12. w \in Work /\ OthersIdle(c) /\ accidents' = accidents
  BY <1>0, <1>3, BusyCounts, GoesToWork
<1> QED BY <1>0, <1>3, <1>11, <1>12, StepKeepsCount

LEMMA TakeKeepsCount ==
  ASSUME StoreInductive, ShapeInv, CountInv, StoreInductive', ShapeInv',
         NEW c \in Call, Continue(c), Take(c)
  PROVE  CountInv'
<1>0. CallsOK /\ DealsOK /\ StockOK
  BY InductiveParts
<1>1. PICK v \in Work : /\ v = call[c] /\ Shape(v) /\ Sound(v)
                        /\ accidents = 0
                             => Counts(v, stock, lines, refund, edited)
  BY BusyCounts
<1>2. /\ v.op = "take" /\ v.d \in Deal /\ v.now \in Line
      /\ v.seen = stock[v.now.m] /\ Fits(v.d, {v.now})
  BY <1>1, WorkShape DEF Take, Shape, Sound
<1>3. PICK w : /\ w = IF v.rest = {} THEN [op |-> "bill", d |-> v.d]
                      ELSE [op |-> "reserve", d |-> v.d, rest |-> v.rest]
               /\ Goto(c, w)
  BY <1>1 DEF Take
<1>4. PICK x \in Line, y \in Material : x = v.now /\ y = x.m
  BY <1>2 DEF Line
<1>5. /\ stock' = [stock EXCEPT ![y] =
              IF v.d \in Order THEN [@ EXCEPT !.total = stock[y].total - x.q]
              ELSE [total |-> stock[y].total - x.q,
                    rented |-> stock[y].rented + x.q]]
      /\ UNCHANGED <<edited, lines, refund>>
  BY <1>1, <1>2, <1>4 DEF Take, deals, money
<1>6. /\ refund \in [Deal -> Nat] /\ stock \in [Material -> StockRow] /\ x.q \in Int
      /\ \A m \in Material : /\ stock[m].total \in Int /\ stock[m].rented \in Int
                             /\ Initial[m] \in Int
      /\ \A m : OutOf(lines, m) \in Int /\ OwedOf(lines, refund, m) \in Int
  BY <1>0, <1>4, Numbers DEF StockOK, Line
<1>7. /\ v.d \in Order => y \in Buy
      /\ v.d \notin Order => y \in Rent
  BY <1>2, <1>4 DEF Fits
<1>8. /\ v.d \in Order => stock'[y].total = stock[y].total - x.q
      /\ v.d \notin Order => stock'[y].rented = stock[y].rented + x.q
      /\ \A m \in Material \ {y} : stock'[m] = stock[m]
  BY <1>5, <1>6 DEF StockRow
<1>9. ASSUME NEW m
      PROVE  /\ Sold(v, m) = IF v.d \in Order THEN Q(x, m) ELSE 0
             /\ Lent(v, lines, m) = IF v.d \in Rental THEN Q(x, m) ELSE 0
             /\ Sold(w, m) = 0 /\ Lent(w, lines, m) = 0
             /\ Q(x, m) = IF y = m THEN x.q ELSE 0
  BY <1>2, <1>3, <1>4 DEF Sold, Lent, Q
<1>10. accidents = 0 => Counts(w, stock', lines', refund', edited')
  <2> SUFFICES ASSUME Counts(v, stock, lines, refund, edited)
               PROVE  Counts(w, stock', lines, refund, edited)
    BY <1>1, <1>5
  <2>1. v.d \in Order <=> v.d \notin Rental
    BY <1>2, MaterialAssumption DEF Deal
  <2>2. ASSUME NEW m \in Buy \ edited
        PROVE  stock'[m].total + OutOf(lines, m) = Initial[m] + Sold(w, m)
    <3>1. stock[m].total + OutOf(lines, m)
            = Initial[m] + (IF v.d \in Order THEN Q(x, m) ELSE 0)
      BY <1>9 DEF Counts
    <3>2. m \in Material /\ (v.d \notin Order => m # y)
      BY <1>7, MaterialAssumption DEF Material
    <3> QED BY <1>6, <1>8, <1>9, <3>1, <3>2
  <2>3. ASSUME NEW m \in Rent \ edited
        PROVE  stock'[m].rented + Lent(w, lines, m) >= OwedOf(lines, refund, m)
    <3>1. stock[m].rented + (IF v.d \in Rental THEN Q(x, m) ELSE 0)
            >= OwedOf(lines, refund, m)
      BY <1>9 DEF Counts
    <3>2. m \in Material /\ (v.d \in Order => m # y)
      BY <1>7, MaterialAssumption DEF Material
    <3> QED BY <1>6, <1>8, <1>9, <2>1, <3>1, <3>2
  <2> QED BY <2>2, <2>3 DEF Counts
<1>11. w \in Work /\ OthersIdle(c) /\ accidents' = accidents
  BY <1>0, <1>3, BusyCounts, GoesToWork
<1> QED BY <1>0, <1>3, <1>10, <1>11, StepKeepsCount

LEMMA PutBackKeepsCount ==
  ASSUME StoreInductive, ShapeInv, CountInv, StoreInductive', ShapeInv',
         NEW c \in Call, Continue(c), PutBack(c)
  PROVE  CountInv'
<1>0. CallsOK /\ DealsOK /\ StockOK
  BY InductiveParts
<1>1. PICK v \in Work : /\ v = call[c] /\ Shape(v) /\ Sound(v)
                        /\ accidents = 0
                             => Counts(v, stock, lines, refund, edited)
  BY BusyCounts
<1>2. /\ v.op = "putBack" /\ v.d \in Order /\ v.now \in Line
      /\ v.seen = stock[v.now.m] /\ Fits(v.d, {v.now})
  BY <1>1, WorkShape DEF PutBack, Shape, Sound
<1>3. PICK w : /\ w = [op |-> "dropLine", d |-> v.d, rest |-> v.rest, now |-> v.now]
               /\ Goto(c, w)
  BY <1>1 DEF PutBack
<1>4. PICK x \in Line, y \in Buy : x = v.now /\ y = x.m
  BY <1>2 DEF Fits
<1>5. /\ stock' = [stock EXCEPT ![y].total = stock[y].total + x.q]
      /\ UNCHANGED <<edited, lines, refund>>
  BY <1>1, <1>2, <1>4 DEF PutBack, deals, money
<1>6. /\ stock \in [Material -> StockRow] /\ x.q \in Int
      /\ \A m \in Material : /\ stock[m].total \in Int /\ stock[m].rented \in Int
                             /\ Initial[m] \in Int
      /\ \A m : OutOf(lines, m) \in Int /\ OwedOf(lines, refund, m) \in Int
  BY <1>0, <1>4, Numbers DEF StockOK, Line
<1>7. /\ stock'[y].total = stock[y].total + x.q
      /\ \A m \in Material \ {y} : stock'[m] = stock[m]
  BY <1>4, <1>5, <1>6 DEF StockRow, Material
<1>8. ASSUME NEW m
      PROVE  /\ Sold(v, m) = 0 /\ Lent(v, lines, m) = 0
             /\ Sold(w, m) = Q(x, m) /\ Lent(w, lines, m) = 0
             /\ Q(x, m) = IF y = m THEN x.q ELSE 0
  BY <1>2, <1>3, <1>4 DEF Sold, Lent, Q
<1>9. accidents = 0 => Counts(w, stock', lines', refund', edited')
  <2> SUFFICES ASSUME Counts(v, stock, lines, refund, edited)
               PROVE  Counts(w, stock', lines, refund, edited)
    BY <1>1, <1>5
  <2>1. ASSUME NEW m \in Buy \ edited
        PROVE  stock'[m].total + OutOf(lines, m) = Initial[m] + Sold(w, m)
    <3>1. stock[m].total + OutOf(lines, m) = Initial[m] + 0
      BY <1>8 DEF Counts
    <3>2. m \in Material
      BY DEF Material
    <3> QED BY <1>6, <1>7, <1>8, <3>1, <3>2
  <2>2. ASSUME NEW m \in Rent \ edited
        PROVE  stock'[m].rented + Lent(w, lines, m) >= OwedOf(lines, refund, m)
    <3>1. stock[m].rented + 0 >= OwedOf(lines, refund, m)
      BY <1>8 DEF Counts
    <3>2. m \in Material /\ m # y
      BY <1>4, MaterialAssumption DEF Material
    <3> QED BY <1>7, <1>8, <3>1, <3>2
  <2> QED BY <2>1, <2>2 DEF Counts
<1>10. w \in Work /\ OthersIdle(c) /\ accidents' = accidents
  BY <1>0, <1>3, BusyCounts, GoesToWork
<1> QED BY <1>0, <1>3, <1>9, <1>10, StepKeepsCount

LEMMA DeleteLineKeepsCount ==
  ASSUME StoreInductive, ShapeInv, CountInv, StoreInductive', ShapeInv',
         NEW c \in Call, Continue(c), DeleteLine(c)
  PROVE  CountInv'
<1>0. CallsOK /\ DealsOK /\ StockOK
  BY InductiveParts
<1>1. PICK v \in Work : /\ v = call[c] /\ Shape(v) /\ Sound(v)
                        /\ accidents = 0
                             => Counts(v, stock, lines, refund, edited)
  BY BusyCounts
<1>2. v.op \in {"dropLine", "deleteLines"} /\ v.d \in Deal
  BY <1>1, WorkShape DEF DeleteLine
<1>3. PICK x, w :
        /\ lines' = [lines EXCEPT ![v.d] = @ \ {x}] /\ Goto(c, w) /\ Empty(w)
        /\ \/ v.op = "dropLine" /\ x = v.now
           \/ v.op = "deleteLines" /\ x \in v.rest
  <2>1. CASE v.op = "dropLine"
    <3>1. PICK w : /\ w = [op |-> IF v.rest = {} THEN "deleteLines" ELSE "restock",
                           d |-> v.d, rest |-> v.rest]
                   /\ Goto(c, w) /\ lines' = [lines EXCEPT ![v.d] = @ \ {v.now}]
      BY <1>1, <2>1 DEF DeleteLine
    <3>2. Empty(w)
      BY <3>1 DEF Empty
    <3> QED BY <2>1, <3>1, <3>2
  <2>2. CASE v.op = "deleteLines"
    <3>1. PICK x \in v.rest : /\ lines' = [lines EXCEPT ![v.d] = @ \ {x}]
                              /\ Goto(c, [v EXCEPT !.rest = @ \ {x}])
      BY <1>1, <2>2 DEF DeleteLine
    <3>2. v \in Loop
      BY <2>2 DEF Work, Idle, Loop, Update, DropLine, OnDeal, SaveRow, Expiring,
                  Filing, Giving, Closing, SaveStockRow
    <3>3. PICK w : w = [v EXCEPT !.rest = @ \ {x}]
      OBVIOUS
    <3>4. Empty(w)
      BY <2>2, <3>2, <3>3 DEF Empty, Loop
    <3> QED BY <2>2, <3>1, <3>3, <3>4
  <2> QED BY <1>2, <2>1, <2>2
<1>4. UNCHANGED <<stock, edited, refund>>
  BY DEF DeleteLine, store, money
<1>5. x \in lines[v.d] /\ txn[v.d] # "succeed"
  BY <1>1, <1>3 DEF Shape
<1>6. /\ x \notin lines'[v.d] /\ lines'[v.d] = lines[v.d] \ {x}
      /\ \A e \in Deal \ {v.d} : lines[e] = lines'[e]
  BY <1>0, <1>2, <1>3 DEF DealsOK
<1>7. v.d \in Rental => refund[v.d] = 0
  BY <1>5, UnpaidHasNoRefund
<1>8. /\ lines \in LinesTable /\ lines' \in LinesTable /\ refund \in [Deal -> Nat]
      /\ \A m \in Material : /\ stock[m].total \in Int /\ stock[m].rented \in Int
                             /\ Initial[m] \in Int
      /\ \A m : OutOf(lines', m) \in Int /\ OwedOf(lines', refund, m) \in Int
  BY Numbers, NumbersNext, SumsAreIntegers
<1>9. ASSUME NEW m
      PROVE  /\ v.d \in Order => /\ OutOf(lines, m) = OutOf(lines', m) + Q(x, m)
                                 /\ OwedOf(lines, refund, m) = OwedOf(lines', refund, m)
             /\ v.d \in Rental => /\ OwedOf(lines, refund, m)
                                       = OwedOf(lines', refund, m) + Q(x, m)
                                  /\ OutOf(lines, m) = OutOf(lines', m)
             /\ Q(x, m) \in Nat
  BY <1>2, <1>5, <1>6, <1>7, <1>8, OneLineMore
<1>10. v.op = "dropLine" <=> v.d \in Order
  <2>1. v.op = "dropLine" => v.d \in Order
    BY <1>1 DEF Sound
  <2>2. v.op = "deleteLines" /\ v.d \in Order => FALSE
    BY <1>1, <1>3 DEF Shape
  <2> QED BY <1>2, <2>1, <2>2
<1>11. ASSUME NEW m
       PROVE  /\ Sold(v, m) = IF v.d \in Order THEN Q(x, m) ELSE 0
              /\ Lent(v, lines, m) = 0
              /\ Sold(w, m) = 0 /\ Lent(w, lines', m) = 0
  <2>1. v.op = "dropLine" => x = v.now
    BY <1>3
  <2> QED BY <1>2, <1>3, <1>10, <2>1, EmptyHands DEF Sold, Lent
<1>12. accidents = 0 => Counts(w, stock', lines', refund', edited')
  <2> SUFFICES ASSUME Counts(v, stock, lines, refund, edited)
               PROVE  Counts(w, stock, lines', refund, edited)
    BY <1>1, <1>4
  <2>1. v.d \in Order <=> v.d \notin Rental
    BY <1>2, MaterialAssumption DEF Deal
  <2>2. ASSUME NEW m \in Buy \ edited
        PROVE  stock[m].total + OutOf(lines', m) = Initial[m] + Sold(w, m)
    <3>1. stock[m].total + OutOf(lines, m)
            = Initial[m] + (IF v.d \in Order THEN Q(x, m) ELSE 0)
      BY <1>11 DEF Counts
    <3>2. m \in Material
      BY DEF Material
    <3> QED BY <1>8, <1>9, <1>11, <2>1, <3>1, <3>2
  <2>3. ASSUME NEW m \in Rent \ edited
        PROVE  stock[m].rented + Lent(w, lines', m) >= OwedOf(lines', refund, m)
    <3>1. stock[m].rented + 0 >= OwedOf(lines, refund, m)
      BY <1>11 DEF Counts
    <3>2. m \in Material
      BY DEF Material
    <3> QED BY <1>8, <1>9, <1>11, <2>1, <3>1, <3>2
  <2> QED BY <2>2, <2>3 DEF Counts
<1>13. w \in Work /\ OthersIdle(c) /\ accidents' = accidents
  BY <1>0, <1>3, BusyCounts, GoesToWork
<1> QED BY <1>0, <1>3, <1>12, <1>13, StepKeepsCount

LEMMA GiveBackKeepsCount ==
  ASSUME StoreInductive, ShapeInv, CountInv, StoreInductive', ShapeInv',
         NEW c \in Call, Continue(c), GiveBack(c)
  PROVE  CountInv'
<1>0. CallsOK /\ DealsOK /\ StockOK
  BY InductiveParts
<1>1. PICK v \in Work : /\ v = call[c] /\ Shape(v) /\ Sound(v)
                        /\ accidents = 0
                             => Counts(v, stock, lines, refund, edited)
  BY BusyCounts
<1>2. v.op = "giveBack" /\ v.r \in ReportRequest /\ v.rest \subseteq lines[v.r.of]
  BY <1>1, WorkShape DEF GiveBack, Shape
<1>3. PICK d \in Rental : d = v.r.of
  BY <1>2, RequestOf
<1>4. PICK x, w :
        /\ x \in v.rest
        /\ stock' = [stock EXCEPT ![x.m] = [total |-> @.total + x.q,
                                            rented |-> @.rented - x.q]]
        /\ w = [v EXCEPT !.rest = @ \ {x}] /\ Goto(c, w)
  BY <1>1 DEF GiveBack
<1>5. w.op = "giveBack" /\ w.r = v.r /\ w.rest = v.rest \ {x}
  <2>1. v \in Giving
    BY <1>2 DEF Work, Idle, Loop, Update, DropLine, OnDeal, SaveRow, Expiring,
                Filing, Giving, Closing, SaveStockRow
  <2> QED BY <1>2, <1>4, <2>1 DEF Giving
<1>6. UNCHANGED <<edited, lines, refund>>
  BY DEF GiveBack, deals, money
<1>7. d \in Deal /\ d \notin Order
  BY MaterialAssumption DEF Deal
<1>8. PICK y \in Rent : y = x.m
  BY <1>0, <1>2, <1>3, <1>4, <1>7 DEF DealsOK, Fits
<1>9. /\ lines \in LinesTable /\ stock \in [Material -> StockRow]
      /\ \A m \in Material : /\ stock[m].total \in Int /\ stock[m].rented \in Int
                             /\ Initial[m] \in Int
      /\ \A m : OutOf(lines, m) \in Int /\ OwedOf(lines, refund, m) \in Int
  BY <1>0, Numbers DEF StockOK
<1>10. /\ x \in lines[d] /\ x.q \in Int
       /\ lines[d] \in SUBSET Line /\ IsFiniteSet(lines[d])
  BY <1>2, <1>3, <1>4, <1>7, <1>9 DEF LinesTable, Line
<1>11. /\ stock'[y].rented = stock[y].rented - x.q
       /\ \A m \in Material \ {y} : stock'[m] = stock[m]
  BY <1>4, <1>8, <1>9 DEF Material
<1>12. ASSUME NEW m
       PROVE  /\ Sold(v, m) = 0 /\ Sold(w, m) = 0
              /\ Lent(v, lines, m) \in Int
              /\ Lent(w, lines, m) = (IF y = m THEN x.q ELSE 0) + Lent(v, lines, m)
  <2> DEFINE A == lines[d] \ w.rest
  <2>1. x \in A /\ A \ {x} = lines[d] \ v.rest
    BY <1>2, <1>3, <1>4, <1>5, <1>10
  <2>2. Lent(v, lines, m) = Pieces(A \ {x}, m) /\ Lent(w, lines, m) = Pieces(A, m)
    BY <1>2, <1>3, <1>5, <2>1 DEF Lent
  <2>3. /\ A \in SUBSET Line /\ IsFiniteSet(A)
        /\ A \ {x} \in SUBSET Line /\ IsFiniteSet(A \ {x})
    BY <1>10, FS_Subset
  <2>4. Sold(v, m) = 0 /\ Sold(w, m) = 0
    BY <1>2, <1>5 DEF Sold
  <2> HIDE DEF A
  <2>5. Pieces(A, m) = (IF x.m = m THEN x.q ELSE 0) + Pieces(A \ {x}, m)
    BY <2>1, <2>3, PiecesOfLines
  <2>6. Pieces(A \ {x}, m) \in Int
    BY <2>3, PiecesOfLines
  <2> QED BY <1>8, <2>2, <2>4, <2>5, <2>6
<1>13. accidents = 0 => Counts(w, stock', lines', refund', edited')
  <2> SUFFICES ASSUME Counts(v, stock, lines, refund, edited)
               PROVE  Counts(w, stock', lines, refund, edited)
    BY <1>1, <1>6
  <2>1. ASSUME NEW m \in Buy \ edited
        PROVE  stock'[m].total + OutOf(lines, m) = Initial[m] + Sold(w, m)
    <3>1. stock[m].total + OutOf(lines, m) = Initial[m] + 0
      BY <1>12 DEF Counts
    <3>2. m \in Material /\ m # y
      BY <1>8, MaterialAssumption DEF Material
    <3> QED BY <1>11, <1>12, <3>1, <3>2
  <2>2. ASSUME NEW m \in Rent \ edited
        PROVE  stock'[m].rented + Lent(w, lines, m) >= OwedOf(lines, refund, m)
    <3>1. stock[m].rented + Lent(v, lines, m) >= OwedOf(lines, refund, m)
      BY DEF Counts
    <3>2. m \in Material
      BY DEF Material
    <3> QED BY <1>9, <1>10, <1>11, <1>12, <3>1, <3>2
  <2> QED BY <2>1, <2>2 DEF Counts
<1>14. w \in Work /\ OthersIdle(c) /\ accidents' = accidents
  BY <1>0, <1>4, BusyCounts, GoesToWork
<1> QED BY <1>0, <1>4, <1>13, <1>14, StepKeepsCount

LEMMA CreateRefundKeepsCount ==
  ASSUME StoreInductive, ShapeInv, CountInv, StoreInductive', ShapeInv',
         NEW c \in Call, Continue(c), CreateRefund(c)
  PROVE  CountInv'
<1>0. CallsOK /\ PaidOK
  BY InductiveParts
<1>1. PICK v \in Work : /\ v = call[c] /\ Shape(v) /\ Sound(v)
                        /\ accidents = 0
                             => Counts(v, stock, lines, refund, edited)
  BY BusyCounts
<1>2. v.op = "giveBack" /\ v.r \in ReportRequest /\ v.rest = {}
  BY <1>1, WorkShape DEF CreateRefund
<1>3. PICK d \in Rental : d = v.r.of
  BY <1>2, RequestOf
<1>4. PICK w : w = [op |-> "close", r |-> v.r, to |-> "completed"] /\ Goto(c, w)
  BY <1>1 DEF CreateRefund
<1>5. /\ refund' = [refund EXCEPT ![d] = @ + 1]
      /\ UNCHANGED <<stock, edited, lines>>
  BY <1>1, <1>3 DEF CreateRefund, store, deals
<1>6. d \in Deal
  BY DEF Deal
<1>7. /\ lines \in LinesTable /\ refund \in [Deal -> Nat]
      /\ \A m \in Material : stock[m].rented \in Int
      /\ \A m : OwedOf(lines, refund, m) \in Int
  BY Numbers
<1>8. /\ refund' \in [Deal -> Nat] /\ refund'[d] = refund[d] + 1
      /\ \A e \in Rental \ {d} : lines[e] = lines[e] /\ refund'[e] = refund[e]
  BY <1>5, <1>6, <1>7 DEF Deal
<1>9. ASSUME NEW m
      PROVE  /\ Pieces(lines[d], m) \in Int
             /\ OwedOf(lines, refund', m) = OwedOf(lines, refund, m)
                                              - Pieces(lines[d], m)
  <2> DEFINE P == Pieces(lines[d], m)
             n == refund[d]
  <2>1. P \in Int /\ n \in Int
    BY <1>6, <1>7, PiecesOfLines DEF LinesTable
  <2>2. OwedOf(lines, refund', m)
          = OwedOf(lines, refund, m) + (1 - refund'[d]) * P - (1 - n) * P
    BY <1>7, <1>8, OwedChanges
  <2> HIDE DEF P, n
  <2>3. (1 - (n + 1)) * P = (1 - n) * P - P /\ (1 - n) * P \in Int
    BY <2>1
  <2>4. refund'[d] = n + 1
    BY <1>8 DEF n
  <2>5. OwedOf(lines, refund', m) = OwedOf(lines, refund, m) - P
    BY <1>7, <2>1, <2>2, <2>3, <2>4
  <2> QED BY <2>1, <2>5 DEF P
<1>10. ASSUME NEW m
       PROVE  /\ Sold(v, m) = 0 /\ Lent(v, lines, m) = Pieces(lines[d], m)
              /\ Sold(w, m) = 0 /\ Lent(w, lines, m) = 0
  <2>1. lines[d] \ v.rest = lines[d]
    BY <1>2
  <2> QED BY <1>2, <1>3, <1>4, <2>1 DEF Sold, Lent
<1>11. accidents = 0 => Counts(w, stock', lines', refund', edited')
  <2> SUFFICES ASSUME Counts(v, stock, lines, refund, edited)
               PROVE  Counts(w, stock, lines, refund', edited)
    BY <1>1, <1>5
  <2>1. ASSUME NEW m \in Buy \ edited
        PROVE  stock[m].total + OutOf(lines, m) = Initial[m] + Sold(w, m)
    BY <1>10 DEF Counts
  <2>2. ASSUME NEW m \in Rent \ edited
        PROVE  stock[m].rented + Lent(w, lines, m) >= OwedOf(lines, refund', m)
    <3>1. stock[m].rented + Pieces(lines[d], m) >= OwedOf(lines, refund, m)
      BY <1>10 DEF Counts
    <3>2. m \in Material
      BY DEF Material
    <3> QED BY <1>7, <1>9, <1>10, <3>1, <3>2
  <2> QED BY <2>1, <2>2 DEF Counts
<1>12. w \in Work /\ OthersIdle(c) /\ accidents' = accidents
  BY <1>0, <1>4, BusyCounts, GoesToWork
<1> QED BY <1>0, <1>4, <1>11, <1>12, StepKeepsCount

LEMMA SaveStockKeepsCount ==
  ASSUME StoreInductive, ShapeInv, CountInv, StoreInductive', ShapeInv',
         NEW c \in Call, Continue(c), SaveStock(c)
  PROVE  CountInv'
<1>0. CallsOK /\ StockOK
  BY InductiveParts
<1>1. PICK v \in Work : /\ v = call[c] /\ Shape(v) /\ Sound(v)
                        /\ accidents = 0
                             => Counts(v, stock, lines, refund, edited)
  BY BusyCounts
<1>2. v.op = "saveStock" /\ v.m \in Material
  BY <1>1, WorkShape DEF SaveStock
<1>3. /\ stock' = [stock EXCEPT ![v.m] = v.row] /\ edited' = edited \cup {v.m}
      /\ Goto(c, Idle) /\ UNCHANGED <<lines, refund>>
  BY <1>1 DEF SaveStock, deals, money
<1>4. \A m \in Material \ edited' : m \notin edited /\ stock'[m] = stock[m]
  BY <1>0, <1>3 DEF StockOK
<1>5. Empty(v) /\ Empty(Idle)
  BY <1>2 DEF Empty, Idle
<1>6. accidents = 0 => Counts(Idle, stock', lines', refund', edited')
  <2> SUFFICES ASSUME Counts(v, stock, lines, refund, edited)
               PROVE  Counts(Idle, stock', lines, refund, edited')
    BY <1>1, <1>3
  <2>1. Counts(Idle, stock, lines, refund, edited)
    BY <1>5, EmptyStaysEmpty
  <2> QED BY <1>4, <2>1 DEF Counts, Material
<1>7. Idle \in Work /\ OthersIdle(c) /\ accidents' = accidents
  BY BusyCounts, IdleIsSound
<1> QED BY <1>0, <1>3, <1>6, <1>7, StepKeepsCount

\* A step that writes none of the books, with no line in hand before or after.
LEMMA EmptyStepKeepsCount ==
  ASSUME StoreInductive, ShapeInv, CountInv, StoreInductive',
         NEW c \in Call, Continue(c), Empty(call[c]), NEW w, Goto(c, w), Empty(w),
         UNCHANGED <<stock, edited, lines, refund>>
  PROVE  CountInv'
<1>0. CallsOK
  BY InductiveParts
<1>1. PICK v \in Work : /\ v = call[c] /\ Empty(v)
                        /\ accidents = 0
                             => Counts(v, stock, lines, refund, edited)
  BY BusyCounts
<1>2. accidents = 0 => Counts(w, stock', lines', refund', edited')
  BY <1>1, EmptyStaysEmpty
<1>3. w \in Work /\ OthersIdle(c) /\ accidents' = accidents
  BY <1>0, BusyCounts, GoesToWork
<1> QED BY <1>0, <1>2, <1>3, StepKeepsCount

LEMMA ContinueKeepsCount ==
  ASSUME StoreInductive, ShapeInv, CountInv, StoreInductive', ShapeInv',
         NEW c \in Call, Continue(c)
  PROVE  CountInv'
<1>1. CASE \/ CreateTransaction(c) \/ HandlePaymentBookingMaterial(c)
           \/ DeleteDeal(c) \/ SaveRental(c) \/ CloseRequest(c)
  <2>1. Empty(call[c]) /\ Empty(Idle)
    BY <1>1 DEF CreateTransaction, HandlePaymentBookingMaterial, DeleteDeal,
                SaveRental, CloseRequest, Empty, Idle
  <2>2. Goto(c, Idle) /\ UNCHANGED <<stock, edited, lines, refund>>
    BY <1>1 DEF CreateTransaction, HandlePaymentBookingMaterial, DeleteDeal,
                SaveRental, CloseRequest, store, deals, money
  <2> QED BY <2>1, <2>2, EmptyStepKeepsCount
<1>2. CASE \/ AcceptPayment(c) \/ DropTransaction(c) \/ CancelDeal(c)
           \/ CreateRequestReportBookingMaterial(c)
  <2>1. Empty(call[c])
    BY <1>2 DEF AcceptPayment, DropTransaction, CancelDeal,
                CreateRequestReportBookingMaterial, Empty
  <2>2. UNCHANGED <<stock, edited, lines, refund>>
    BY <1>2 DEF AcceptPayment, DropTransaction, CancelDeal,
                CreateRequestReportBookingMaterial, store, deals, money
  <2>3. PICK w : /\ Goto(c, w)
                 /\ \/ w = Idle
                    \/ w.op \in {"settle", "cancelDeal", "restock", "deleteLines",
                                 "expire"}
    <3>1. CASE CancelDeal(c)
      <4>1. PICK w : /\ Goto(c, w)
                     /\ \/ w = Idle
                        \/ w = [op |-> IF call[c].d \in Order THEN "restock"
                                       ELSE "deleteLines",
                                d |-> call[c].d, rest |-> lines[call[c].d]]
        BY <3>1 DEF CancelDeal
      <4> QED BY <4>1
    <3>2. CASE AcceptPayment(c)
      BY <3>2 DEF AcceptPayment
    <3>3. CASE DropTransaction(c)
      BY <3>3 DEF DropTransaction
    <3>4. CASE CreateRequestReportBookingMaterial(c)
      BY <3>4 DEF CreateRequestReportBookingMaterial
    <3> QED BY <1>2, <3>1, <3>2, <3>3, <3>4
  <2>4. Empty(w)
    BY <2>3 DEF Empty, Idle
  <2> QED BY <2>1, <2>2, <2>3, <2>4, EmptyStepKeepsCount
<1>3. CASE Restock(c) \/ ExpireRental(c)
  <2>1. Empty(call[c])
    BY <1>3 DEF Restock, ExpireRental, Empty
  <2>2. UNCHANGED <<stock, edited, lines, refund>>
    BY <1>3 DEF Restock, ExpireRental, store, deals, money
  <2>3. PICK w : Goto(c, w) /\ w.op \in {"putBack", "file"}
    <3>1. CASE Restock(c)
      <4>1. PICK x : Goto(c, [op |-> "putBack", d |-> call[c].d,
                              rest |-> call[c].rest \ {x}, now |-> x,
                              seen |-> stock[x.m]])
        BY <3>1 DEF Restock
      <4> QED BY <4>1
    <3>2. CASE ExpireRental(c)
      <4>1. PICK d : Goto(c, [op |-> "file", d |-> d, rest |-> call[c].rest \ {d}])
        BY <3>2 DEF ExpireRental
      <4> QED BY <4>1
    <3> QED BY <1>3, <3>1, <3>2
  <2>4. Empty(w)
    BY <2>3 DEF Empty
  <2> QED BY <2>1, <2>2, <2>3, <2>4, EmptyStepKeepsCount
<1> QED BY <1>1, <1>2, <1>3, ReserveKeepsCount, TakeKeepsCount, PutBackKeepsCount,
        DeleteLineKeepsCount, GiveBackKeepsCount, CreateRefundKeepsCount,
        SaveStockKeepsCount DEF Continue

LEMMA ArriveKeepsCount ==
  ASSUME StoreInductive, ShapeInv, CountInv, StoreInductive', ShapeInv', Serial,
         NEW c \in Call, Arrive(c)
  PROVE  CountInv'
<1>0. CallsOK /\ DealsOK
  BY InductiveParts
<1>1. /\ Quiet /\ OthersIdle(c) /\ accidents' = accidents
      /\ UNCHANGED <<stock, edited, lines, refund>>
  BY DEF Arrive, BuyMaterial, BookingMaterial, OpenDeal, HandleTransactionPayment,
         CancelTransaction, UpdateBookingMaterialStatus,
         CheckBookingMaterialIsExpired, ConfirmRequest, UpdateMaterial,
         UpdateQuantityMaterial, Start, MayStart, Quiet, OthersIdle, store, deals,
         money
<1>2. accidents = 0 => Counts(Idle, stock, lines, refund, edited)
  BY <1>1, IdleIsSound DEF CountInv, InHand
<1>3. PICK w : /\ Goto(c, w)
               /\ \/ Empty(w)
                  \/ \E r \in ReportRequest :
                       w = [op |-> "giveBack", r |-> r, rest |-> lines[r.of]]
  <2>1. ASSUME NEW d \in Deal, NEW cart, NEW s, OpenDeal(c, d, s, cart)
        PROVE  \E w : Goto(c, w) /\ Empty(w)
    BY <2>1 DEF OpenDeal, Start, Empty
  <2>2. ASSUME NEW d \in Deal, HandleTransactionPayment(c, d) \/ CancelTransaction(c, d)
        PROVE  \E w : Goto(c, w) /\ Empty(w)
    BY <2>2 DEF HandleTransactionPayment, CancelTransaction, Start, Empty
  <2>3. ASSUME NEW d \in Rental, UpdateBookingMaterialStatus(c, d)
        PROVE  \E w : Goto(c, w) /\ Empty(w)
    <3>1. PICK s : Goto(c, [op |-> "saveRental", d |-> d, status |-> s])
      BY <2>3 DEF UpdateBookingMaterialStatus, Start
    <3> QED BY <3>1 DEF Empty
  <2>4. ASSUME NEW over \in SUBSET Rental, CheckBookingMaterialIsExpired(c, over)
        PROVE  \E w : Goto(c, w) /\ Empty(w)
    BY <2>4 DEF CheckBookingMaterialIsExpired, Start, Empty
  <2>5. ASSUME NEW r \in ReportRequest, NEW o \in {"completed", "rejected"},
               ConfirmRequest(c, r, o)
        PROVE  \E w : /\ Goto(c, w)
                      /\ \/ Empty(w)
                         \/ w = [op |-> "giveBack", r |-> r, rest |-> lines[r.of]]
    <3>1. PICK w : /\ Goto(c, w)
                   /\ \/ w = [op |-> "giveBack", r |-> r, rest |-> lines[r.of]]
                      \/ w = [op |-> "close", r |-> r, to |-> o]
      BY <2>5 DEF ConfirmRequest, Start
    <3> QED BY <3>1 DEF Empty
  <2>6. ASSUME NEW m \in Material, UpdateMaterial(c, m) \/ UpdateQuantityMaterial(c, m)
        PROVE  \E w : Goto(c, w) /\ Empty(w)
    <3>1. PICK row : Goto(c, [op |-> "saveStock", m |-> m, row |-> row])
      BY <2>6 DEF UpdateMaterial, UpdateQuantityMaterial, Start
    <3> QED BY <3>1 DEF Empty
  <2> QED BY <2>1, <2>2, <2>3, <2>4, <2>5, <2>6 DEF Arrive, BuyMaterial,
             BookingMaterial
<1>4. ASSUME NEW m
      PROVE  Sold(w, m) = 0 /\ Lent(w, lines, m) = 0 /\ Sold(Idle, m) = 0
               /\ Lent(Idle, lines, m) = 0
  <2>1. Sold(Idle, m) = 0 /\ Lent(Idle, lines, m) = 0
    BY DEF Sold, Lent, Idle
  <2>2. CASE Empty(w)
    BY <2>1, <2>2, EmptyHands
  <2>3. CASE \E r \in ReportRequest :
               w = [op |-> "giveBack", r |-> r, rest |-> lines[r.of]]
    <3>1. PICK r \in ReportRequest :
            w = [op |-> "giveBack", r |-> r, rest |-> lines[r.of]]
      BY <2>3
    <3>2. lines[w.r.of] \ w.rest = {}
      BY <3>1
    <3>3. Lent(w, lines, m) = Pieces({}, m) /\ Sold(w, m) = 0
      BY <3>1, <3>2 DEF Lent, Sold
    <3>4. Pieces({}, m) = 0
      BY PiecesOfLines, FS_EmptySet
    <3> QED BY <2>1, <3>3, <3>4
  <2> QED BY <1>3, <2>2, <2>3
<1>5. accidents = 0 => Counts(w, stock', lines', refund', edited')
  BY <1>1, <1>2, <1>4 DEF Counts
<1>6. w \in Work
  BY <1>0, <1>3, GoesToWork
<1> QED BY <1>0, <1>1, <1>3, <1>5, <1>6, StepKeepsCount

LEMMA NextKeepsCount ==
  ASSUME StoreInductive, ShapeInv, CountInv, StoreInductive', ShapeInv', Serial,
         [Next]_vars
  PROVE  CountInv'
<1>1. ASSUME NEW c \in Call, Fail(c)
      PROVE  CountInv'
  <2>1. accidents \in Nat /\ accidents' = accidents + 1
    BY <1>1, InductiveParts DEF Fail, PaidOK
  <2>2. accidents' # 0
    BY <2>1
  <2> QED BY <2>2 DEF CountInv
<1>2. CASE \/ \E r \in ReportRequest : CreateReport(r) \/ AssignTask(r)
           \/ UNCHANGED vars
  <2>1. UNCHANGED <<stock, edited, lines, refund, call, accidents>>
    BY <1>2 DEF CreateReport, AssignTask, vars, store, deals, money
  <2> QED BY <2>1 DEF CountInv, InHand, Quiet
<1> QED BY <1>1, <1>2, ArriveKeepsCount, ContinueKeepsCount DEF Next

\* A sum of zeroes.
LEMMA NothingSumsToNothing ==
  ASSUME NEW S, IsFiniteSet(S)
  PROVE  SumOver([x \in S |-> 0], S) = 0
<1> DEFINE f == [x \in S |-> 0]
           T == {X \in SUBSET S : SumOver(f, X) # 0}
<1>1. SUFFICES ASSUME T # {} PROVE FALSE
  OBVIOUS
<1>2. T \in SUBSET (SUBSET S) /\ f \in [S -> Int] /\ \A x \in S : f[x] = 0
  OBVIOUS
<1> HIDE DEF T
<1>3. PICK X \in T : \A Y \in T : Y \subseteq X => Y = X
  BY <1>1, <1>2, SmallestSet
<1> HIDE DEF f
<1> USE DEF T
<1>4. CASE X = {}
  BY <1>2, <1>4, SumParts
<1>5. CASE X # {}
  <2>1. PICK x \in X : TRUE
    BY <1>5
  <2>2. X \ {x} \in SUBSET S /\ X \ {x} # X /\ X \in SUBSET S
    OBVIOUS
  <2>3. SumOver(f, X \ {x}) = 0
    BY <1>3, <2>2
  <2>4. SumOver(f, X) = f[x] + SumOver(f, X \ {x})
    BY <1>2, <2>2, SumParts
  <2>5. f[x] = 0
    BY <1>2, <2>2
  <2> QED BY <2>3, <2>4, <2>5
<1> QED BY <1>4, <1>5

LEMMA InitCounts == Init => CountInv
<1> SUFFICES ASSUME Init PROVE CountInv
  OBVIOUS
<1>1. StoreInductive /\ ShapeInv
  BY InitIsInductive, InitShapeInv
<1>2. \A w \in Work : InHand(w) => w = Idle
  BY DEF Init, InHand
<1>3. \A m : Pieces({}, m) = 0
  BY PiecesOfLines, FS_EmptySet
<1>4. ASSUME NEW m
      PROVE  OutOf(lines, m) = 0 /\ OwedOf(lines, refund, m) = 0
  <2> DEFINE f == [d \in Order |-> 0]
             g == [d \in Rental |-> 0]
  <2>1. /\ \A d \in Order : f[d] = Pieces(lines[d], m)
        /\ \A d \in Rental : g[d] = (1 - refund[d]) * Pieces(lines[d], m)
    <3>1. \A d \in Deal : lines[d] = {} /\ refund[d] = 0
      BY DEF Init
    <3>2. Pieces({}, m) = 0
      BY <1>3
    <3>3. \A d \in Order : f[d] = Pieces(lines[d], m)
      BY <3>1, <3>2 DEF Deal
    <3>4. ASSUME NEW d \in Rental
          PROVE  g[d] = (1 - refund[d]) * Pieces(lines[d], m)
      <4>1. lines[d] = {} /\ refund[d] = 0
        BY <3>1 DEF Deal
      <4>2. Pieces(lines[d], m) = 0 /\ 1 - refund[d] = 1
        BY <3>2, <4>1
      <4>3. (1 - refund[d]) * Pieces(lines[d], m) = 0
        BY <4>2
      <4> QED BY <4>3
    <3> QED BY <3>3, <3>4
  <2>2. f \in [Order -> Int] /\ g \in [Rental -> Int]
    OBVIOUS
  <2>3. SumOver(f, Order) = 0 /\ SumOver(g, Rental) = 0
    BY NothingSumsToNothing, DealAssumption
  <2> HIDE DEF f, g
  <2>4. OutOf(lines, m) = SumOver(f, Order)
    BY <2>1, OutIsSum
  <2>5. OwedOf(lines, refund, m) = SumOver(g, Rental)
    BY <2>1, OwedIsSum
  <2> QED BY <2>3, <2>4, <2>5
<1>5. ASSUME NEW m
      PROVE  Sold(Idle, m) = 0 /\ Lent(Idle, lines, m) = 0
  BY DEF Sold, Lent, Idle
<1>6. \A m \in Material : /\ Initial[m] \in Int /\ stock[m].total = Initial[m]
                          /\ stock[m].rented = 0
  BY InitialAssumption DEF Init
<1>7. Counts(Idle, stock, lines, refund, edited)
  BY <1>4, <1>5, <1>6 DEF Counts, Material
<1> QED BY <1>2, <1>7 DEF CountInv

LEMMA CountIsRight ==
  ASSUME StoreInductive, CountInv
  PROVE  PiecesAreCounted
<1>1. ASSUME Quiet, accidents = 0
      PROVE  Counts(Idle, stock, lines, refund, edited)
  BY <1>1, IdleIsSound DEF CountInv, InHand
<1>2. \A m : Sold(Idle, m) = 0 /\ Lent(Idle, lines, m) = 0
  BY DEF Sold, Lent, Idle
<1>3. StoreAddsUp
  <2> SUFFICES ASSUME Quiet, accidents = 0, NEW m \in Buy \ edited
               PROVE  stock[m].total + Out(Order, m) = Initial[m]
    BY DEF StoreAddsUp
  <2>1. Out(Order, m) = OutOf(lines, m)
    BY DEF Out, OutOf
  <2>2. stock[m].total + OutOf(lines, m) = Initial[m] + 0
    BY <1>1, <1>2 DEF Counts
  <2>3. Initial[m] \in Int
    BY InitialAssumption DEF Material
  <2> QED BY <2>1, <2>2, <2>3
<1>4. RentalsAreCounted
  <2> SUFFICES ASSUME Quiet, accidents = 0, NEW m \in Rent \ edited
               PROVE  stock[m].rented >= OwedOf(lines, refund, m)
    BY DEF RentalsAreCounted, OwedOf
  <2>1. stock[m].rented + 0 >= OwedOf(lines, refund, m)
    BY <1>1, <1>2 DEF Counts
  <2>2. stock[m].rented \in Int
    BY InductiveParts DEF StockOK, StockRow, Material
  <2> QED BY <2>1, <2>2
<1> QED BY <1>3, <1>4 DEF PiecesAreCounted

\* When requests do not overlap and none fails, every piece sold is gone from the
\* store and every piece lent is counted as rented until its rental is refunded,
\* for any baskets, deals, reports and edits.
THEOREM PiecesAreCountedHolds ==
  ASSUME Serial
  PROVE  Spec => []PiecesAreCounted
<1>1. StoreInductive /\ ShapeInv /\ [Next]_vars => ShapeInv'
  BY NextKeepsShape
<1>2. /\ StoreInductive /\ ShapeInv /\ CountInv /\ StoreInductive' /\ ShapeInv'
      /\ [Next]_vars
      => CountInv'
  BY NextKeepsCount
<1> QED BY InitShapeInv, InitCounts, StoreInductiveHolds, CountIsRight, <1>1, <1>2,
        PTL DEF Spec
===============================================================================
