# Agrifarm-Server in TLA+

A verification project for the NestJS server in `src/src`: TLA+ modules of its
core logic, TLC configurations that check them on small instances, and theorems
about them that TLAPS proves.  Paths below are relative to `src/src/modules`
unless they say otherwise.

## The system

The server rents out lands, sells and lends materials, and sells services that
grow a plant by a process of stages.  It keeps everything in Postgres through
TypeORM.  Three facts shape every component:

* **No database transactions.**  A handler reads rows, checks them, awaits
  (queries, mail, notifications) and writes later.  Between any two awaits
  other requests and the cron jobs run.
* **Rows are saved whole.**  `save({...row})` writes every column back as it was
  read, and inserts the row again if it was deleted meanwhile.
* **Failures keep what is written.**  An await that throws, or the death of the
  process, leaves the earlier writes of the handler.

| component | state | operations that change it | depends on | hard part | correct when |
|---|---|---|---|---|---|
| bookings | `bookings_land` (status, period, appointment, contract) | create, four status strategies, completion by payment, daily job, report, refund | lands, transactions, requests, extends | stale saves, two jobs, conflict queries | status order kept, granted only when paid, no double booking |
| transactions | `transactions` (status, due, purpose) | create (one or two instalments), bank message, cancel, hourly job, confirm refund | every payable component | late, repeated and lost messages; cancel against pay | accepted once, settled stays, overdue closes |
| extends | `extends` | create, update of status, complete, cancel | bookings, transactions | transaction before status; deleted rows saved again; unchecked targets | completed by a payment, or by a body that says so; by the branches: only when paid, for good, one in hand, into nobody's time |
| materials, orders | `materials`, `booking_material` and details, `orders` and details | buy, rent, cancel, sign, expire, give back, edit | transactions, bookings, requests | lost updates, half-done loops | pieces are neither created nor lost |
| requests, tasks, reports | `requests`, `tasks`, `reports` | create (10 types), assign, start, approve, report, confirm | bookings, materials, services, processes, channels | side effects before the status; any status may be reported | one effect per confirmation, none without payment |
| servicesPackage | `services_specific` | buy, pay, sign, expire, harvest, refund | bookings, processes, transactions, requests | acreage check then save | acreage fits, used only when paid |
| processes | standard and specific processes, stages, contents | create, update, activate, daily tasks | materials, requests, services | activation takes materials in a loop | materials taken once |
| channels | `channels`, messages, members | create, join, message, close, delete | requests, tasks | reassignment during a chat; deletion against messages and foreign keys | its workers can talk; deleted only after its report, but then always |
| auths, users | OTPs in redis, `users` | send and verify an OTP, register, reset, edit | mail | a code read and written back; a password saved, then mailed | a code that was mailed and given comes before what it guards; the owner knows the password |
| lands, plants, service packages | their rows | create, edit, retire | | names and limits checked before the save; rows saved with the status they had | names differ, limits hold, decisions count |
| dinaries | `dinaries_stage` | create | processes, requests | | a diary tells of work that was started |
| crons (`../crons/job.service.ts`) | none | daily, hourly, 17h and 8h jobs call the services | all | run beside the requests | they finish what nobody else does |
| discords (`../discords/bot.gateway.ts`) | none | a message of the bank channel becomes `handleTransactionPayment` | transactions | at least once, any time | |
| notifications, mails, sockets, dashboard, uploads, logger, caches, database, common, utils, test | output, configuration, reads | | | they may throw in the middle of a handler | |

Interactions are calls between services (awaited, except the `forEach(async ...)`
of the daily job), shared rows, cron jobs and the messages of the bank channel.

## The modules

| module | what it is |
|---|---|
| `Periods` | dates and the date conditions of the queries of `createBooking` |
| `RentalLifecycle` | abstract: the statuses a booking goes through, and that the land is granted for money received |
| `BookingPayment` | `bookings_land` with `transactions`, reports and refund of a land, the daily and hourly jobs |
| `MCBookingPayment` | its instances for TLC |
| `BookingPaymentProofs` | its theorems |
| `MaterialStock` | the store: materials, orders, rentals, their payment, cancellation and return |
| `MCMaterialStock` | its instances for TLC |
| `MaterialStockProofs` | its theorems |
| `LandExtension` | `extends` with the transactions that bill them, beside the bookings of one land |
| `MCLandExtension` | its instances for TLC |
| `LandExtensionProofs` | its theorems |
| `RequestWorkflow` | requests, tasks, reports and channels, for the requests that change nothing outside them: a visit, support in person, support in a chat |
| `ServicePurchase` | `services_specific` of one land, the transactions that bill them, the processes made for them |
| `ProductPurchase` | what a service has grown: inspection, harvest, penalty and refund, with the requests, reports, transactions and the row of the service |
| `Cultivation` | a process with its stages, contents and materials, the store it takes them from, its requests and diary |
| `Calls` | requests in flight, for the next four |
| `Accounts` | `users` and the codes in redis |
| `Catalogue` | seasons of a plant; plants, lands, land types, service packages |
| `StandardProcess` | the standard processes a service's process is copied from, and the requests experts write them for |
| `Administration` | the three together, as one process serves them |
| `RequestWorkflowProofs`, `ServicePurchaseProofs`, `ProductPurchaseProofs`, `CultivationProofs`, `AdministrationProofs` | their theorems |
| `MCRequestWorkflow`, `MCServicePurchase`, `MCProductPurchase`, `MCCultivation`, `MCAdministration` | their instances for TLC |

### State and actions against the code

A request in flight is `call[c]`, a record that names the write it will do next
and carries the rows it has read.  An action `Start`s a request (its reads and
guards, from the beginning of the handler to the first write) or does one write
of one in flight.  Consecutive reads are one step, since what another request
writes between two reads could as well come before or after both for the columns
the handler looks at; one SQL statement is one step.  A request that a guard
refuses changes nothing and is left out.  `Fail` ends a request between any two
of its steps (an await throws, or the process dies); `FailDaily` and `FailHourly`
do this to a job.  `Serial = TRUE` lets a request, a job or the clock start only when
nothing is in flight: what the handlers do one after the other.  With `Serial =
FALSE` everything interleaves.

`BookingPayment`: `booking`, `txn`, `landStatus`, `request` are the tables, by
primary key; `Absent` is a row that does not exist.  Transactions are named by
booking, kind and number.  `accepted` and `accidents` are history.
`createBooking` is `CreateBooking`, `SaveNewBooking`, `UpdateLandStatus`; each
strategy of `updateStatusBookingStrategy` is an action of its name followed by
`WriteBooking`; `createTransactionPaymentBookingLand` is `SaveBill`,
`SaveSecondInstalment` and `RestartOnDuplicateCode`; `handleTransactionPayment` is
`HandleTransactionPayment`, `AcceptPayment`, `UpdateStatusToCompleted` and the
`WriteBooking` that follows; the daily job is `ListExpiredSchedule`,
`CancelBooking`, `ListExpired`, `ExpireBooking`, `CreateRequestReportLand`, the two
middle loops running unawaited beside each other; the hourly job is
`CheckTransactionIsExpired`, `CancelNext`, `ExpireNext`.  Of a request only the
report of a land is here; its statuses `pending`, `assigned` and `in_progress` are one,
because `assignTask` takes a request of any status back among them.  Of the extends
a booking sees only the days the completed ones add.

`MaterialStock`: `stock` has the two quantity columns, `deal` the status of an
order or rental, `lines` its detail rows, `txn` its payment.  A purchase or rental is
`BuyMaterial` or `BookingMaterial`, then `Reserve` (insert the line, read the
material) and `Take` (write the quantity back) for each line, then
`CreateTransaction`.  A cancellation is `CancelTransaction`, `DropTransaction`,
`CancelDeal`, then `Restock`, `PutBack`, `DeleteLine` per line of an order, or
`DeleteLine` alone for a rental, and `DeleteDeal`.  The foreign keys of Postgres are
modelled where they change an outcome (`AcceptPayment`, `DeleteDeal`).

`LandExtension`: `extend` and `txn` are the tables, and here rows are deleted:
`Absent` is an id not given out yet, `Gone` a deleted row, which a `save` brings back.
`work` has the requests in flight and the hourly job (`Job`), which runs the same
`cancelTransaction`.  `createExtend` is `CreateExtend` and `SaveNewExtend`; each
branch of `updateExtend` is an action `UpdateTo...`, with `WriteBody` or
`CreateTransaction` where the branch writes, and `WriteExtend` for the save they all
end with; a status without a branch is `UpdateUnchecked`.  A payment is
`HandleTransactionPayment`, `AcceptPayment`, `UpdateExtendToComplete`, `SetCompleted`;
a cancellation `CancelTransaction` (or the job's `CancelNext`), `DeleteTransaction`,
`CancelExtend`, `DeleteExtend`.  The bodies sent are the constant `Put`: those of the
branches (`Branches`), or also those that take an extend back, cancel it, complete it or change
its months (`AnyBody`).  `received` and `declared` are history: the payments saved, and the
extends that a body said were completed, which the code saves without a check.  The
bookings are an environment in single steps: an extend reads their status and
period once, when it is made, and their own races are in `BookingPayment`.  That
the extended days there only grow (`CompleteExtend`) is `CompletedStays` here, which supposes
that the statuses follow the branches.

In the modules below a variable `serial`, chosen at the start and never changed, says
whether calls overlap, so that one run shows both; a property that needs calls not to
overlap has it as its premise.  `work[p]` is what a request or job still has to write.

`RequestWorkflow`: `request`, `task`, `report`, `channel`, `joined`, `message`.  A task is
`"none"`, `"open"` or the expert it was assigned to; `assignTask` has no guard on the
status of the request (`AssignTask`).  `startTask` of a chat makes the channel and its
members (`InsertChannel`, `JoinChannel`), and the column `request_id` of a channel is unique,
so a second start of a chat fails there.  `checkingChannelIsExpired` is the list of the
lapsed channels and, for each, `DeleteJoins`, `DeleteMessages`, `DeleteChannel`, where the
foreign keys refuse while a message is left.

`ServicePurchase`: `service`, `txn`, `process`.  `buyServiceSpecific` is
`BuyServiceSpecific` (the sum of the acreage), `SaveService`, `CreateTransaction`; a payment
`HandleTransactionPayment`, `AcceptPayment`, `HandlePaymentServiceSpecificSuccess`,
`SetPendingSign`; the use `UpdateServiceSpecificToUsed`, `SetUsed`,
`CreateProcessSpecific`, `FillProcess`; cancellation and hourly job as for extends; the
daily job lists the services that are over and expires them, unawaited.

`ProductPurchase`: `service` has the row that reports save whole, `request`, `task`,
`report` and `txn`.  The 8h job looks for services that end in exactly `Lead` days
(`EndingSoon`) and makes a request and, for a service with a process, a task.
`AfterInspection` and `AfterHarvest` are what `confirmRequest` does for the two types:
nothing more, a penalty, the request for the harvest, or the refund.

`Cultivation`: `status` of the process, its `stages`, `quantity` of each, contents, `stock`.
The activation checks each stage alone and then reads and writes back the material of
each (`ReadStock`, `SaveStock`, with `Adjusted` for what `updateQuantityMaterial` makes of
a row); the report of a material request puts pieces back and its confirmation takes them
by the same loop.  The 17h job is `CheckAndCreateTaskProcessContentForExpert` and
`CheckNewStageProcessSpecific`.  `updateProcessSpecific` saves the row and then sets
quantities or deletes contents, materials and stages, one statement each.  The history
`owed` is what the store should have lost.

`Accounts`: `user`, `otp`, and the histories `letters`, `mailed`, `accepted`, `acted`.  A
code is drawn, mailed (`MailCode`) and kept (`PutCode`); `VerifyOTP` and `PutVerified` read
it and write it back.  It is never deleted and never lapses, which is what the code does.

`Catalogue`: one table in a behaviour (`table`), since tables do not depend on one another.
Each handler is an action with its own checks, followed by the save of the whole row
(`SaveNewEntry`, `SaveEntry`, `SaveSeason`), which the unique columns `plants.name` and
`lands.name` may refuse.

`StandardProcess`: `standard` is the status of the process of a season, `errand` its request
and task.  A decision is taken on the process (`AcceptStandard`, `RejectStandard`) or on the
request (`ConfirmErrand`, `RejectErrand`) and leaves a list of writes, one statement each
(`SetStandard`, `SetErrandStatus`, `SetTask`).  `UpdateProcessStandard` saves the row with the
status it had (`SaveEdited`), edits the stages, where it may stop half way (`EditStages`), and
puts one that was rejected up for approval again.  Without a request of the season,
`getDetailRequestPrcocessStandard` returns an object without id; the update by an undefined
id is taken to meet no row, which is up to TypeORM.

## The runs

| run | bounds | what it shows |
|---|---|---|
| `BookingSerial` | 2 bookings, 2 lands, four periods that overlap, touch, contain one another and lie apart, 1 request, 4 days, 2 transactions of a kind, 1 accident | `AcceptedOnce`, `BillAndBookingAgree`, `SettledStays`, that the tables implement `RentalLifecycle` (`FollowsLifecycle`), and `NewBookingIsClear`, when requests do not overlap, accidents included |
| `BookingConcurrent` | 1 request and both jobs together, 4 days, 1 accident; 1 booking through its whole life, or 2 whose rentals begin after the last day and whose bills are on one list of the hourly job | `GrantedWasPaid`, `RefundWasPaid`; `JobsKeepUp` under fairness, though the job gives up the rest of its list at a bill that is no longer approved |
| `DoubleBooking` (violation) | 2 bookings of a land, overlapping periods, one request at a time | two completed bookings share dates: the queries of `createBooking` do not see one that is not completed |
| `SecondInstalment` (violation) | a long rental in two instalments | the second instalment stays pending for ever |
| `StoreSerial` | 1 order, 2 rentals, 2 materials, baskets with two lines of one material, edits, 1 accident | `PiecesAreCounted`, `RentStockConserved`, `SignedWasPaid`, `PaidDealStays` |
| `ExtendSerial` | 2 bookings of a land, 2 extends, 3 transactions, 3 days, 1 accident, one request | `OneExtendInHand`, `BillAndExtendAgree`, `PaymentExtends`, `ExtendIsFree`, `CompletedStays`, when requests do not overlap; `UnpaidExtendCloses` under fairness |
| `ExtendConcurrent` | 1 booking, 1 extend, 2 transactions, 2 requests and the job together, 1 accident, bodies of every kind, `completed` included | `ExtendedHasCause`: an extend is completed by a payment or by a body that says so, and by nothing else |
| `Workflow` | 1 request of any kind, 2 experts, 2 calls and the daily job, 2 messages, 1 accident | `TypeOK`, `WorkHasAssignee`, `WorkersCanTalk`, `OnlyReportedIsDeleted`; `LapsedChannelGoes` under fairness |
| `ServiceRun` | 2 services that together exceed the land, one that outlasts the rental, 2 bills, 1 call with the hourly and daily jobs, 1 accident | `ServiceInductive` (types, `UsedWasPaid`, and why it holds), `AcreageFits`, `ServicesAgree`; `UnpaidServiceGoes` under fairness |
| `Purchase` | 1 service inspected on the first day and over after the second, 3 requests, 1 transaction, 1 call with the morning, hourly and daily jobs; 1 accident when serial | `TypeOK`, `RefundWasReported`, `OneOfEach`, `EndingIsInspected`; `OverServiceExpires` under fairness |
| `Cultivation` | 2 stages that need one rented material, a content, 1 call with the 17h job, quantities up to 2 of 1 piece; 1 accident when serial | `TypeOK`, `StockIsRight`, `WorkFollowsActivation`, `ContentIsAskedFor` |
| `Administration` | 2 addresses, 2 passwords, 2 codes, 3 roles; 3 seasons, 2 months, 2 rows, 2 names; a season with 2 requests for its standard process; 2 calls, 1 accident | `AccountsHold`, `CatalogueHolds`, `StandardsHold` |

Several of these are conjunctions of named parts, which are defined and explained one
by one: `BillAndBookingAgree` (`BilledBookingStands`, `PaidIsGranted`), `JobsKeepUp`
(`OverdueBillCloses`, `MissedScheduleCloses`, `ExpiredGetsReport`), `PiecesAreCounted` (`StoreAddsUp`,
`RentalsAreCounted`), `PaymentExtends` (`PaidIsExtended`, `PaidForItsMonths`),
`ServicesAgree` (`UsedHasProcess`, `BillAndServiceAgree`), `OneOfEach`
(`OneRequestOfAKind`, `RefundedOncePerApproval`), `StockIsRight` (`RowIsOfAPiece`,
`StoreMatches`), `AccountsHold` (types, `CodeBeforeAct`, `PasswordIsKnown`),
`CatalogueHolds` (types, `SeasonsFit`, `NamesDiffer`, `DecisionCounts`),
`StandardsHold` (types, `CompletedWasApproved`, `CompletedIsAccepted`).  The type
invariants that no run lists are theorems.

Why these bounds are enough.  The hazards of a booking are races over one row, so
one booking with a request and both jobs shows each handler meeting each job; two
overlapping requests are covered by the theorems, for any number of them.  The list of the
hourly job needs two bills for one of them to be given up with the other.  So `BookingConcurrent` has
a second booking, and a state constraint (`OneWholeOrTwoBills`) lets it come only beside another that
is only to be paid.  The constraint is about what is asked for and the clock: it cuts off no step that
fairness is about.  Two
transactions of a kind are what one accident (the restart on a duplicate code) produces.
Days: a bill is due after one day, an appointment after two, a rental of one day is over at
two or three.  Conflicts between bookings are between two of them on one land, and the second
land shows that lands do not disturb each other.  In `BookingSerial` a state constraint
(`Followed`) goes on from a booking that is alone, or from two up to the day after the
clock has moved, before any accident: what happens to one booking later does not look at
the other.  For the store, one order and two rentals over a material of each type show each
pair of reads and writes of a quantity that one request may leave behind; overlapping
requests are in `RentedPiecesAreConserved` and `OnlyPaidIsSigned`.  For extends, two of one
booking and a second booking beside it show what is summed and what is checked; a row
deleted and saved again needs one extend and two requests.

In `Workflow` a second expert makes a reassignment, and two calls and the job on one channel
every race over it.  In `ServiceRun` two services are what the sum of the acreage can get
wrong.  In `Purchase` a request for the inspection, one for the harvest and a third are
one more than there should be.  In `Cultivation` two stages that need the same material are
what the check stage by stage can get wrong.  In `Administration` the second row of a
table is the one a name or a month may collide with, a third season is what the limits
refuse, and the second request of a season is what two calls at once may insert; seasons do not
disturb each other.
Every property of a run but the liveness ones is also a theorem, which holds without any of these bounds.

Bounds that appear as guards: `Horizon` (last day), `MaxCopies` (transactions of one kind),
`MaxExtend`, `MaxAccidents` (in `ProductPurchase` and `Cultivation` by `serial`), `MaxRequest`,
`MaxRefund`, `MaxMessages`, `Cap` (quantities of a store), `EditLeft` (one edit per
material), and the finite sets of rows.  A request
that would insert a row starts only when a row is left (`RoomForBooking`,
`RoomForBill`, `RoomForRefund`, `RoomForExtend`), so no request stops half way for a bound.
`CHECK_DEADLOCK FALSE` everywhere: when the clock is at its last day, or all
rows are used, an idle server has nothing left to do.

The properties named "when requests do not overlap" are not guaranteed otherwise:
`SettledStays` fails with two requests in flight (a cancellation that read the
transaction before its payment writes `expired` over `succeed`), `OneExtendInHand`
too (two requests find no extend and both save one), and the others meet the same
stale saves.  They are checked serially because this is what the code establishes.  In those
runs jobs and messages of the bank, late and repeated ones too, come between any two
requests but not between the writes of one; between two writes of a handler or job only an
accident comes.  The hazards in `PROJECT.json` say in their notes which of their properties
cover an overlap and which do not.

**Fairness.**  `WF(Continue(c))`: a request in flight goes on, since Node's event
loop runs every settled promise and the database answers or the await throws.
`WF` of each job and of its loop (daily, hourly, the deletion of channels, the expiry of
services): `@nestjs/schedule` runs the jobs again and again, and an execution that is
running is continued.  The 8h and 17h jobs have none: what they miss on a day, they miss.  Nothing is assumed of
users, staff or the bank, nor of the clock.  A job that dies (`FailDaily`,
`FailHourly`) does so at most `MaxAccidents` times.  `ExpiredGetsReport` and
`UnpaidExtendCloses` promise nothing once an accident came between: no job looks for an expired
booking without a report, nor for an extend whose bill was deleted.

With two requests overlapping, `JobsKeepUp` may fail through a handler that keeps saving the row
as it had read it; it is stated for one request beside the jobs.

Each property has a mutant in `PROJECT.json`, an operator beside the one it changes
(marked "Mutant:"), which breaks it: a dropped status check, a lost alternative of a query, a forgotten write.

## The proofs

Every safety invariant, every action property and the refinement that the passing runs check is
also a theorem, for every value of the constants: any number of rows, requests, days, bodies and
accidents.  The named `ASSUME`s are all that the constants must satisfy: periods are well
formed, bounds are naturals, materials by type, deals by kind and jobs and calls are
disjoint; the orders, the rentals, the lines of a cart and the stages of a process are finitely many (the
sums over them need it), and those who register are among the addresses.

| module | theorems, and the property each states |
|---|---|
| `BookingPaymentProofs` | `TypeCorrect`, `OnlyPaidIsGranted` (`GrantedWasPaid`), `OnlyPaidIsRefunded` (`RefundWasPaid`); `ConflictsIsOverlap` and `OnlyEarlierPeriodsAreLeft`, on the date conditions of the queries; under `Serial`: `AcceptedOnceHolds`, `BillAndBookingAgreeHolds`, `SettledStaysHolds`, `NewBookingIsClearHolds`, `FollowsLifecycleHolds` (the tables implement `RentalLifecycle`) |
| `MaterialStockProofs` | `StoreTypeCorrect`, `RentedPiecesAreConserved` (`RentStockConserved`), `OnlyPaidIsSigned` (`SignedWasPaid`); under `Serial`: `PiecesAreCountedHolds`, `PaidDealStaysHolds` |
| `LandExtensionProofs` | `ExtendTypeCorrect`, `ExtendInductiveHolds`, `ExtendedHasCauseHolds` (`ExtendedHasCause`), for any bodies and any overlap; under `Serial` and `FollowsBranches`: `OneExtendAtATime` (`OneExtendInHand`), `CompletedIsFinal` (`CompletedStays`), `BillAndExtendAgreeHolds`, `PaidForItsMonthsHolds` and `PaymentExtendsHolds`, `ExtendIsFreeHolds` |
| `ServicePurchaseProofs` | `ServiceTypeCorrect`, `ServiceInductiveHolds`, `ServicesAgreeHolds`, `AcreageFitsHolds` |
| `RequestWorkflowProofs` | `WorkflowTypeCorrect`, `WorkHasAssigneeHolds`, `OnlyReportedIsDeletedHolds`, `WorkersCanTalkHolds` |
| `ProductPurchaseProofs` | `PurchaseTypeCorrect`, `RefundWasReportedHolds`, `OneOfEachHolds`, `EndingIsInspectedHolds` |
| `CultivationProofs` | `CultivationTypeHolds`, `WorkFollowsActivationHolds`, `StockIsRightHolds`, `ContentIsAskedForHolds` |
| `AdministrationProofs` | `AccountsHoldHolds`, `CatalogueHoldsHolds`, `StandardsHoldHolds` |

### What is supposed

Where nothing is said above, a theorem holds whatever overlaps and fails.  What a theorem supposes
beyond the `ASSUME`s stands in its statement:

* `Serial`: requests do not overlap, as in the runs that check these properties.  Jobs,
  messages of the bank and accidents still come between any two requests, and an accident
  still leaves a handler half done.  In the last five modules `serial` is a variable, and is
  the premise inside the properties that need it.
* `FollowsBranches` (for the theorems on extends under `Serial`): the bodies of `updateExtend` have
  a status it has a branch for.  The code does not see to this: it saves `pending`, `completed` and
  `canceled` as they come (see Findings).  `ExtendedHasCauseHolds` supposes
  nothing about the bodies.
* `BillKeepsMonths` (for `PaidForItsMonthsHolds` and `PaymentExtendsHolds`): the body that makes the
  bill does not change the months as well.  `OnlyRenterSetsMonths` (for `ExtendIsFreeHolds`): no
  body changes them.  The code looks at the booking's neighbours only when the
  extend is made; the other theorems on extends need neither.

The instance of each run satisfies the hypotheses of the theorems about the properties it lists.

### The arguments

*How a step is proved to keep an invariant.*  One lemma per action, or per group of actions that
write the same row, and a last lemma that goes through the disjuncts of `Next`.  What every request has in
common is in a few lemmas: a start (`Start...`, which only reads), a step of one request while the others wait
(`Step...`), an action that leaves a part of the tables alone (`Same...`, `...Stays`).
The invariants were tried on instances of the runs before they were proved.

*Bookings, whatever overlaps.*  `GrantedWasPaid` is not inductive: a handler in flight
may be about to save a row as completed, a listed booking may be about to get its
report request, and a request may be about to be confirmed.  `Inductive` says that
all work in flight is legitimate (`Legit`): whatever would grant, report on or refund a
booking belongs to one that was paid, whatever writes a transaction has one to
write, and the second instalment, which `handleTransactionPayment` would not tell
from a bill, is never payable.  That a bill was accepted is never undone
(`accepted` only grows), so what a request has read stays a sound reason for its
later write although the row may have changed; this is why the two properties
survive stale saves and `BilledBookingStands` does not.

*Bookings, one request at a time.*  `SerialInv` adds that at most one process is busy
(`OneAtATime`), and so what the work in flight has read is still so (`Fits`), what a job has still
on its lists is still what it listed (`ListsFit`), the booking, its bills, its report and what was
accepted agree (`TablesAgree`), and a bill that was paid has its effect, or a request in flight
that will bring it, or an accident (`PaidSettles`).  The refinement follows step by step: `BookingMoves`
says which changes of status a step can make, and that completion comes with the money; the
lemmas after it show that each is a step of `RentalLifecycle` or none.

*The store.*  `total_quantity + quantity_of_rented` of a material is
written by many handlers.  `StoreInductive` adds that orders have lines of sold
materials only and rentals of rented ones (`Fits`), so the read-then-write of
`handleCancelOrder` never touches a rented material, and that the row a rental is
about to write back is one whose two columns sum to the initial total (`Sound`): two rentals that
overwrite each other lose an update, but each writes a row with the right sum.
Serially, `ShapeInv` gives each deal in work the status and payment it must have, from which a paid
deal is never dropped; `CountInv` says what the store has lost: the sum of all lines, less the line in
hand, the one a handler has inserted but not yet taken, or put back but not yet deleted, until an
accident leaves a handler half done.

*Extends.*  `ExtendInductive`: work that settles a payment follows it,
and no other work carries a completed row but the save of a body that says completed
(`declared`); so a stale save may undo a completion but never makes one.  When the bodies follow the
branches, `declared` stays empty, and a completed extend was paid.  Under `Serial` the invariant is `SerialInv`:
at most one process is busy, so what its handler has read is still
true (`Safe`): the row it will save belongs to an extend that is as active as the row, the
booking it makes an extend for has none in hand, the extend it deletes still waits.
With two requests in flight the second reads before the first has saved.  On it rest `CourseInv`
(where the extend and its bill are at each step of a request), `MoneyInv` (what is billed are the months
of the extend), `AgreeInv` (a bill that waits has an extend that waits, unless an accident came between) and
`FreeInv` (an extend, saved or about to be, ends before what is booked after it).

*Services.*  `ServiceInductive` was written to be inductive.  `ServiceSerialInv` is its serial
companion for `ServicesAgree`.  `RoomInv`: what is about to be bought still fits beside what
the land already carries; a refused, cancelled or expired service only makes room.

*Workflow.*  `AssigneeInv`: no handler gives a task back, and whatever is in progress or writes a
report belongs to a task that was assigned.  `DeleteInv`: only the job deletes, and what is on its
list or in its hands is the lapsed channel of a chat that was reported.
`WorkflowSerialInv` has the members a channel must have between the steps of a start.

*Purchase.*  `BackedInv` follows a refund back: the refund, the approval it was made from, the report on which
that was given, the request for the harvest; each work in flight has the part it will add.
`PurchaseSerialInv` bounds the requests of a kind and the refunds of an approval, with those about to
be inserted; `PurchaseCleanInv` holds until the first accident and says that the 8h job misses none.

*Cultivation.*  `ActivationInv` dates the first activation and lets nothing begin before it; `PieceInv` is about the rows
of the store, and about those that a loop has read and not yet written.  In `CultivationSerialInv`,
`StoreEven` says that what is owed is what was taken and what the loop in flight has still to move.

*Administration.*  `AccountsInv`: a code accepted was mailed, an act rests on a code accepted, and, until
an accident, a password its owner was not told yet is in the post of a call in flight.  `CatalogueInv`: names differ by the unique
columns, limits by what the one call in flight has counted.  `StandardInv`: what is completed was approved,
and the writes that are left of a decision bring the process and its request in step again (`WillAgree`).  `AdministrationInv` puts them together: a
call belongs to one of the three parts, and the others do not see it.

*Sums.*  The library's induction over finite sets takes an operator, which the provers cannot
instantiate.  Facts about `MapThenSumSet` (adding or removing a member, changing one term)
are proved instead from a smallest finite set that would be a counterexample (`SmallestSet`, from the
library's `FS_StrictSubsetOrderingWellFounded`), and the rest of the proof uses only those facts.

*Only model-checked*: the liveness properties `JobsKeepUp`, `UnpaidExtendCloses`, `LapsedChannelGoes`,
`UnpaidServiceGoes` and `OverServiceExpires`, since fairness and `ENABLED` are beyond the prover, and the two
runs that end in a violation.

## Findings

Two runs expect a violation; each quotes the line of the code that says otherwise
(`PROJECT.json`, "findings"):

* `DoubleBooking`: two bookings of a land for overlapping periods are both completed.
* `SecondInstalment`: the second instalment stays pending for ever.

More disagreements were met and are not kept as runs.

* An extend can be completed, and counted by the daily job, without a payment: `updateExtend` saves a
  status it has no branch for as it comes, completed included (extends.service.ts:344), and
  `UpdateExtendDTO` only asks that there is one (dto/update-extend.dto.ts:36), while the comment of
  `updateExtendToComplete` says "update extend to complete call by transaction service when transaction
  is succeed" (extends.service.ts:361).  The instance of `ExtendConcurrent`
  gets there in six steps, requests one after the other.  What does hold is `ExtendedHasCause`, with that body sent.
* A status canceled, or any other without a branch, takes a completed and paid extend back
  (extends.service.ts:344), so `CompletedStays` supposes the branches.
* A payment accepted between the check and the update of `cancelTransaction` is overwritten
  (transactions.service.ts:457).
* Two requests at once make two extends of a booking (extends.service.ts:67), and two
  extends of a booking together run into the next rental, since each is counted from the end
  of the booking (extends.service.ts:84).
* `checkExistBookingByTimeAndLand` (bookings.service.ts:796) takes every earlier booking of the
  land for one in the time of the extension, so a land's second renter can never extend.
* Two lines of one material in a basket, or two stages of a process, each pass the check and
  together take more than there is (materials.service.ts:242, processes.service.ts:1017).
* Support in person cannot be completed by a report: `setChannelToExpired` throws without a
  channel (reports.service.ts:142), though the comment says that the request is completed.
* A chat that was rejected cannot be started again, since a channel's request is unique; one
  that `confirmRequest` closes keeps its channel open for ever.
* The comment of `sendOTPRegister` says that a code lapses after five minutes
  (auths.service.ts:181); its expiry is stored as `expired`, read as `expired_at` (:245), and
  redis is given no time to live.
* The contents of a stage that `updateProcessSpecific` or `updateProcessStandard` adds are
  saved without the id of the stage, which the column refuses: the edit stops half way.
* `confirmRequest` that rejects the request for a standard process leaves the process as it was,
  accepted included (requests.service.ts:836 looks at completed only).
* `createDinary` returns a diary that exists without completing the request it was called for.
* A second report after a harvest was paid leads to a second refund; a season that was
  deleted counts against the limits, so that an in-season cannot be replaced.

## Not modelled

Prices and amounts (a payment has the right price), who may call what (guards on roles: a
request modelled is one its author may make), texts, mail and notifications beyond that they
may throw, reads and lists, and the components listed as `not_modelled` in `PROJECT.json`
with their reasons.  The stages, contents and materials of a standard process are left out of its model;
`createMaterial` inserts one row nothing else competes for.  `updateBookingByExtend`,
`deleteOrder`, `addAssignToChannel` and `createRequestReportServiceSpecific` have no caller.

## Plan

1. `BookingPayment`, `MaterialStock`, `LandExtension`, `RequestWorkflow`, `ServicePurchase`,
   `ProductPurchase`, `Cultivation`, `Accounts`, `Catalogue`, `StandardProcess`: done.
2. The theorems on their safety and action properties, and the refinement of
   `RentalLifecycle`: done.
3. To come: which of the properties that suppose `Serial` survive with less, such as no two
   requests for the same row; the steps a liveness argument is made of, each as an action
   property (what a job has listed stays due until it is handled; a list only shrinks); one set of
   lemmas on sums, short enough for the three modules that need them.
