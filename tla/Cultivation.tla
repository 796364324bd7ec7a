------------------------------ MODULE Cultivation ------------------------------
(***************************************************************************)
(* The process a service is grown by (processes.service.ts,                *)
(* dinaries.service.ts, requests.service.ts and updateQuantityMaterial of  *)
(* materials.service.ts): its activation takes the materials of all stages *)
(* from the store, a daily job asks the expert to fetch the materials of a *)
(* stage and to do the work of a content before they begin, and a diary    *)
(* records the work.  Here one process, and the requests made for it, by   *)
(* the stage or content they are made for.                                 *)
(*                                                                         *)
(* Quantities are written back as read: a loop over materials reads a row  *)
(* in one step and saves it whole in the next.                             *)
(***************************************************************************)
EXTENDS Integers, FiniteSets, FiniteSetsExt

CONSTANTS
  Stage,          \* process_technical_specific_stage rows of the process
  Content,        \* their contents
  StageOf,        \* the stage of a content
  Begin,          \* the day a stage or content begins
  EndOfUse,       \* the last day the service is in use
  Material,       \* materials
  MaterialOf,     \* the material of a stage
  Rented,         \* the materials of type rent
  Stock,          \* how many there are of each at first
  Quantity,       \* what an edit may set the quantity of a stage to; 0: no row
  Call,           \* the HTTP requests that may be in flight together
  Job,            \* checkTaskProcessContentForExpert, run at 17h every day
  Horizon,        \* bound: the last day of the clock
  Cap,            \* bound: quantities stay between -Cap and Cap
  MaxAccidents,   \* bound: awaits that throw, process deaths, by serial
  SerialModes     \* {TRUE}: calls do not overlap, {FALSE}: they may, or both

Item == Stage \cup Content        \* what a request is made for

ASSUME CultivationAssumption ==
  /\ IsFiniteSet(Stage) /\ Stage \cap Content = {} /\ "active" \notin Stage
  /\ StageOf \in [Content -> Stage] /\ Begin \in [Item -> Nat]
  /\ MaterialOf \in [Stage -> Material] /\ Rented \subseteq Material
  /\ Stock \in [Material -> Nat \ {0}] /\ Quantity \subseteq Nat
ASSUME CultivationJobAssumption == Job \notin Call
ASSUME CultivationBoundAssumption ==
  /\ EndOfUse \in Nat /\ Horizon \in Nat /\ Cap \in Nat
  /\ MaxAccidents \in [BOOLEAN -> Nat] /\ SerialModes \subseteq BOOLEAN

VARIABLES
  status,     \* the status of the process
  stages,     \* its stages and contents that are there
  quantity,   \* the quantity of a stage's material, 0 when it has no row
  stock,      \* materials: total_quantity, quantity_of_rented, status
  request,    \* the request made for a stage or content
  task,       \* those that have a task
  report,     \* those that have a report
  diary,      \* the contents that have a diary
  work,       \* what each call in flight, and the job, still has to write
  phase,      \* what the job goes through
  visits,     \* the rest of its list
  now,        \* the day
  begun,      \* history: the day of the first activation, or never
  worked,     \* history: the contents whose request was in progress
  owed,       \* history: what the operations begun take from the store
  accidents,  \* history: accidents so far
  serial      \* whether calls overlap; never changes

tables  == <<status, stages, quantity, stock, request, task, report, diary>>
history == <<begun, worked, owed>>
vars    == <<tables, work, phase, visits, now, history, accidents, serial>>

-----------------------------------------------------------------------------
Never == -1       \* no day

ProcessStatus == {"pending", "active"}
RequestStatus == {"assigned", "in_progress", "pending_approval", "completed",
                  "rejected"}
StockRow == [total: Int, rented: Int, status: {"available", "out_of_stock"}]

\* The work left to a process.  A loop that adjusts quantities by those it has read
\* goes on with the activation, or with the request it completes.
Process == Call \cup {Job}
Idle == [op |-> "idle"]
Lists  == [Stage -> Nat]
Adjust == [op: {"readStock"}, left: SUBSET Stage, sign: {-1, 1}, list: Lists,
           next: Stage \cup {"active"}]
SaveRow == [op: {"saveStock"}, left: SUBSET Stage, sign: {-1, 1}, list: Lists,
            next: Stage \cup {"active"}, m: Material, row: StockRow]
SetActive   == [op: {"setActive"}]
SetStatusTo == [op: {"setStatus"}, i: Item, to: RequestStatus]
PutReport   == [op: {"saveReport"}, i: Item, found: BOOLEAN]
SetOne == [op: {"setQuantity"}, g: Stage, q: Quantity]
Delete == [op: {"deleteContents", "deleteMaterials", "deleteStage"}, g: Stage]
Edit   == {Idle} \cup SetOne \cup [op: {"deleteContents"}, g: Stage]
SaveProcess == [op: {"saveProcess"}, status: ProcessStatus, edit: Edit]
PutDiary == [op: {"insertDiary"}, k: Content]
OnItem   == [op: {"insertRequest", "insertTask"}, i: Item]
Work == {Idle} \cup Adjust \cup SaveRow \cup SetActive \cup SetStatusTo
          \cup PutReport \cup SaveProcess \cup SetOne \cup Delete
          \cup PutDiary \cup OnItem

\* What a row refers to is there.
TypeOK ==
  /\ status \in ProcessStatus
  /\ stages \in SUBSET Item
  /\ quantity \in Lists
  /\ stock \in [Material -> StockRow]
  /\ request \in [Item -> RequestStatus \cup {"none"}]
  /\ {i \in Item : request[i] # "none"} \in SUBSET stages
  /\ task \in SUBSET {i \in Item : request[i] # "none"}
  /\ report \in SUBSET task
  /\ diary \in SUBSET (Content \cap stages)
  /\ work \in [Process -> Work]
  /\ phase \in {"idle", "contents", "stages"}
  /\ visits \in SUBSET Item
  /\ now \in Nat
  /\ begun \in Nat \cup {Never} /\ worked \in SUBSET Content
  /\ owed \in [Material -> Int]
  /\ accidents \in Nat
  /\ serial \in BOOLEAN

\* The process as createProcessSpecific leaves it, every stage with one piece.
Init ==
  /\ status = "pending"
  /\ stages = Item
  /\ quantity = [g \in Stage |-> 1]
  /\ stock = [m \in Material |->
       [total |-> Stock[m], rented |-> 0, status |-> "available"]]
  /\ request = [i \in Item |-> "none"]
  /\ task = {} /\ report = {} /\ diary = {}
  /\ work = [p \in Process |-> Idle]
  /\ phase = "idle" /\ visits = {}
  /\ now = 0
  /\ begun = Never /\ worked = {}
  /\ owed = [m \in Material |-> 0]
  /\ accidents = 0
  /\ serial \in SerialModes

-----------------------------------------------------------------------------
Quiet == phase = "idle" /\ \A p \in Process : work[p] = Idle

MayStart == serial => Quiet

Goto(p, w) == work' = [work EXCEPT ![p] = w]

Start(c, w) ==
  /\ work[c] = Idle
  /\ MayStart
  /\ Goto(c, w)
  /\ UNCHANGED <<tables, phase, visits, now, history, accidents, serial>>

SetStatusWork(i, s) == [op |-> "setStatus", i |-> i, to |-> s]

\* What the loop, over the stages left, takes of m.
Sum(list, gs, m) ==
  MapThenSumSet(LAMBDA g : list[g], {g \in gs : MaterialOf[g] = m})

\* The history is kept for calls that do not overlap, while none has failed.
Owe(gs, sign) ==
  owed' = [m \in Material |->
             IF serial /\ accidents = 0
             THEN owed[m] - sign * Sum(quantity, gs, m)
             ELSE 0]

\* Bound: nothing starts that would take a quantity past the cap.
BelowCap(gs, sign) ==
  \A m \in Material :
    stock[m].total + sign * Sum(quantity, gs, m) \in -Cap .. Cap

-----------------------------------------------------------------------------
HasRow(g) == quantity[g] > 0

\* After the loop: the process is active, or the request completed.
AfterLoop(next) ==
  IF next = "active" THEN [op |-> "setActive"]
                     ELSE SetStatusWork(next, "completed")

LoopWork(gs, sign, list, next) ==
  IF gs = {} THEN AfterLoop(next)
  ELSE [op |-> "readStock", left |-> gs, sign |-> sign, list |-> list,
        next |-> next]

\* updateStatusProcessSpecificToACtive, down to the first write: each stage is
\* compared with the store by itself, and the status of the process is not looked at.
UpdateStatusProcessSpecificToActive(c) ==
  LET gs == {g \in stages \cap Stage : HasRow(g)}
  IN  /\ work[c] = Idle /\ MayStart
      /\ \A g \in gs : quantity[g] <= stock[MaterialOf[g]].total
      /\ BelowCap(gs, -1)
      /\ Goto(c, LoopWork(gs, -1, quantity, "active"))
      /\ Owe(gs, -1)
      /\ UNCHANGED <<tables, phase, visits, now, begun, worked, accidents,
                     serial>>

\* What updateQuantityMaterial makes of a row.  Of a rented material it moves both
\* columns the same way.
Adjusted(row, m, n) ==
  [total  |-> row.total + n,
   rented |-> IF m \in Rented THEN row.rented + n ELSE row.rented,
   status |-> IF row.total + n <= 0 THEN "out_of_stock" ELSE "available"]

ReadStock(p) ==
  /\ work[p].op = "readStock"
  /\ \E g \in work[p].left :
       LET m == MaterialOf[g]
       IN  Goto(p, [op |-> "saveStock", left |-> work[p].left \ {g},
                    sign |-> work[p].sign, list |-> work[p].list,
                    next |-> work[p].next, m |-> m,
                    row |-> Adjusted(stock[m], m,
                                     work[p].sign * work[p].list[g])])
  /\ UNCHANGED <<tables, phase, visits, now, history, accidents, serial>>

\* Mutant: the loop ends with the first material.
SaveFirstStock(p) ==
  /\ work[p].op = "saveStock"
  /\ stock' = [stock EXCEPT ![work[p].m] = work[p].row]
  /\ Goto(p, AfterLoop(work[p].next))
  /\ UNCHANGED <<status, stages, quantity, request, task, report, diary, phase,
                 visits, now, history, accidents, serial>>

SaveStock(p) ==
  /\ work[p].op = "saveStock"
  /\ stock' = [stock EXCEPT ![work[p].m] = work[p].row]
  /\ Goto(p, LoopWork(work[p].left, work[p].sign, work[p].list, work[p].next))
  /\ UNCHANGED <<status, stages, quantity, request, task, report, diary, phase,
                 visits, now, history, accidents, serial>>

SetStatusActive(p) ==
  /\ work[p].op = "setActive"
  /\ status' = "active"
  /\ begun' = IF begun = Never THEN now ELSE begun
  /\ Goto(p, Idle)
  /\ UNCHANGED <<stages, quantity, stock, request, task, report, diary, phase,
                 visits, now, worked, owed, accidents, serial>>

-----------------------------------------------------------------------------
\* Mutant: the contents that begin today.
AtFiveLateContents ==
  /\ MayStart
  /\ phase = "idle" /\ work[Job] = Idle /\ now < Horizon
  /\ now' = now + 1
  /\ phase' = "contents"
  /\ visits' = {k \in Content \cap stages : Begin[k] = now' /\ status = "active"}
  /\ UNCHANGED <<tables, work, history, accidents, serial>>

\* A day goes by, and at 17h the job lists the contents that begin within a day.
CheckAndCreateTaskProcessContentForExpert ==
  /\ MayStart
  /\ phase = "idle" /\ work[Job] = Idle /\ now < Horizon
  /\ now' = now + 1
  /\ phase' = "contents"
  /\ visits' = {k \in Content \cap stages :
                  Begin[k] = now' + 1 /\ status = "active"}
  /\ UNCHANGED <<tables, work, history, accidents, serial>>

\* Mutant: the status of the process is not looked at.
CheckNewStageOfAny ==
  /\ phase = "contents" /\ visits = {} /\ work[Job] = Idle
  /\ phase' = "stages"
  /\ visits' = {g \in Stage \cap stages :
                  Begin[g] = now + 1 /\ now <= EndOfUse /\ HasRow(g)}
  /\ UNCHANGED <<tables, work, now, history, accidents, serial>>

\* Then it lists the stages, while the service is in use; one without materials is
\* only announced.
CheckNewStageProcessSpecific ==
  /\ phase = "contents" /\ visits = {} /\ work[Job] = Idle
  /\ phase' = "stages"
  /\ visits' = {g \in Stage \cap stages :
                  /\ Begin[g] = now + 1 /\ status = "active" /\ now <= EndOfUse
                  /\ HasRow(g)}
  /\ UNCHANGED <<tables, work, now, history, accidents, serial>>

EndOfJob ==
  /\ phase = "stages" /\ visits = {} /\ work[Job] = Idle
  /\ phase' = "idle"
  /\ UNCHANGED <<tables, work, visits, now, history, accidents, serial>>

\* createRequestCultivateProcessContent or createRequestMaterialByProcessStage.
CreateRequest ==
  /\ work[Job] = Idle
  /\ \E i \in visits :
       /\ visits' = visits \ {i}
       /\ IF request[i] = "none"
          THEN Goto(Job, [op |-> "insertRequest", i |-> i])
          ELSE UNCHANGED work
  /\ UNCHANGED <<tables, phase, now, history, accidents, serial>>

\* Refused when what it is for was deleted meanwhile.
SaveRequest(p) ==
  /\ work[p].op = "insertRequest"
  /\ IF work[p].i \in stages
     THEN /\ request' = [request EXCEPT ![work[p].i] = "assigned"]
          /\ Goto(p, [op |-> "insertTask", i |-> work[p].i])
     ELSE Goto(p, Idle) /\ UNCHANGED request
  /\ UNCHANGED <<status, stages, quantity, stock, task, report, diary, phase,
                 visits, now, history, accidents, serial>>

CreateTaskAuto(p) ==
  /\ work[p].op = "insertTask"
  /\ task' = task \cup {work[p].i}
  /\ Goto(p, Idle)
  /\ UNCHANGED <<status, stages, quantity, stock, request, report, diary, phase,
                 visits, now, history, accidents, serial>>

-----------------------------------------------------------------------------
AssignTask(c, i) ==
  /\ i \in task
  /\ Start(c, SetStatusWork(i, "assigned"))

StartTask(c, i) ==
  /\ i \in task
  /\ request[i] \in {"assigned", "rejected"}
  /\ Start(c, SetStatusWork(i, "in_progress"))

ApproveTask(c, i) ==
  /\ i \in task
  /\ request[i] = "in_progress"
  /\ Start(c, SetStatusWork(i, "pending_approval"))

\* createReport, whatever the status of the request.
CreateReport(c, i) ==
  /\ i \in task
  /\ i \in Stage => BelowCap({i}, 1)
  /\ Start(c, [op |-> "saveReport", i |-> i, found |-> i \in report])

WithRow(g) == IF HasRow(g) THEN {g} ELSE {}

\* The report of a material request completes it; before that updateRequestStatus
\* calls updateMaterialSpecificStage, which puts the quantities of the stage back.
SaveReport(p) ==
  /\ work[p].op = "saveReport"
  /\ LET i == work[p].i
     IN  \/ /\ i \in report /\ ~work[p].found     \* task_id is unique
            /\ Goto(p, Idle)
            /\ UNCHANGED <<report, owed>>
         \/ /\ i \in report => work[p].found
            /\ report' = report \cup {i}
            /\ IF i \in Content
               THEN Goto(p, SetStatusWork(i, "pending_approval"))
                    /\ UNCHANGED owed
               ELSE Goto(p, LoopWork(WithRow(i), 1, quantity, i))
                    /\ Owe(WithRow(i), 1)
  /\ UNCHANGED <<status, stages, quantity, stock, request, task, diary, phase,
                 visits, now, begun, worked, accidents, serial>>

\* confirmRequest: a material request that is completed takes the quantities of its
\* stage, without a look at the store.
ConfirmMaterial(c, g) ==
  /\ work[c] = Idle /\ MayStart
  /\ request[g] = "pending_approval"
  /\ BelowCap({g}, -1)
  /\ Goto(c, LoopWork(WithRow(g), -1, quantity, g))
  /\ Owe(WithRow(g), -1)
  /\ UNCHANGED <<tables, phase, visits, now, begun, worked, accidents, serial>>

ConfirmRequest(c, i, to) ==
  /\ request[i] = "pending_approval"
  /\ to = "rejected" \/ i \in Content
  /\ Start(c, SetStatusWork(i, to))

UpdateRequestStatus(p) ==
  /\ work[p].op = "setStatus"
  /\ LET i == work[p].i
     IN  /\ request' = [request EXCEPT ![i] = work[p].to]
         /\ worked' = IF i \in Content /\ work[p].to = "in_progress"
                      THEN worked \cup {i} ELSE worked
  /\ Goto(p, Idle)
  /\ UNCHANGED <<status, stages, quantity, stock, task, report, diary, phase,
                 visits, now, begun, owed, accidents, serial>>

-----------------------------------------------------------------------------
\* createDinary; one that is there is returned, and nothing written.
CreateDinary(c, k) ==
  /\ request[k] = "in_progress" /\ k \notin diary
  /\ Start(c, [op |-> "insertDiary", k |-> k])

\* A second diary of a content is refused: its content is unique.
SaveDinary(p) ==
  /\ work[p].op = "insertDiary"
  /\ LET k == work[p].k
     IN  /\ diary' = diary \cup {k}
         /\ Goto(p, IF k \in diary THEN Idle ELSE SetStatusWork(k, "completed"))
  /\ UNCHANGED <<status, stages, quantity, stock, request, task, report, phase,
                 visits, now, history, accidents, serial>>

-----------------------------------------------------------------------------
\* updateProcessSpecific, with the edit of one stage in its body, or (Idle)
\* updateProcessSpecificPublic: the row of the process is read, and saved whole.
UpdateProcessSpecific(c, edit) ==
  Start(c, [op |-> "saveProcess", status |-> status, edit |-> edit])

SaveProcessRow(p) ==
  /\ work[p].op = "saveProcess"
  /\ status' = work[p].status
  /\ Goto(p, work[p].edit)
  /\ UNCHANGED <<stages, quantity, stock, request, task, report, diary, phase,
                 visits, now, history, accidents, serial>>

\* A material row is updated, deleted, or inserted while its stage is there.
SetQuantity(p) ==
  /\ work[p].op = "setQuantity"
  /\ LET g == work[p].g
     IN  quantity' = IF g \in stages THEN [quantity EXCEPT ![g] = work[p].q]
                                     ELSE quantity
  /\ Goto(p, Idle)
  /\ UNCHANGED <<status, stages, stock, request, task, report, diary, phase,
                 visits, now, history, accidents, serial>>

\* Mutant: a content goes whatever refers to it.
DeleteReferred(p) ==
  /\ work[p].op = "deleteContents"
  /\ LET g == work[p].g
     IN  /\ stages' = stages \ {k \in Content : StageOf[k] = g}
         /\ Goto(p, [op |-> "deleteMaterials", g |-> g])
  /\ UNCHANGED <<status, quantity, stock, request, task, report, diary, phase,
                 visits, now, history, accidents, serial>>

\* A stage is deleted after its contents and its materials; what a request or a
\* diary refers to stays, and the call ends there.
DeleteContents(p) ==
  /\ work[p].op = "deleteContents"
  /\ LET g  == work[p].g
         ks == {k \in Content : StageOf[k] = g}
     IN  IF \A k \in ks : request[k] = "none" /\ k \notin diary
         THEN /\ stages' = stages \ ks
              /\ Goto(p, [op |-> "deleteMaterials", g |-> g])
         ELSE Goto(p, Idle) /\ UNCHANGED stages
  /\ UNCHANGED <<status, quantity, stock, request, task, report, diary, phase,
                 visits, now, history, accidents, serial>>

DeleteMaterials(p) ==
  /\ work[p].op = "deleteMaterials"
  /\ quantity' = [quantity EXCEPT ![work[p].g] = 0]
  /\ Goto(p, [op |-> "deleteStage", g |-> work[p].g])
  /\ UNCHANGED <<status, stages, stock, request, task, report, diary, phase,
                 visits, now, history, accidents, serial>>

DeleteStage(p) ==
  /\ work[p].op = "deleteStage"
  /\ LET g == work[p].g
     IN  stages' = IF request[g] = "none" /\ ~HasRow(g)
                   THEN stages \ {g} ELSE stages
  /\ Goto(p, Idle)
  /\ UNCHANGED <<status, quantity, stock, request, task, report, diary, phase,
                 visits, now, history, accidents, serial>>

-----------------------------------------------------------------------------
\* An await throws, or the process dies: what is written stays.  What throws in a
\* request the job makes does not end its list.
Fail(p) ==
  /\ work[p] # Idle
  /\ accidents < MaxAccidents[serial] /\ accidents' = accidents + 1
  /\ Goto(p, Idle)
  /\ visits' \in IF p = Job THEN {visits, {}} ELSE {visits}
  /\ UNCHANGED <<tables, phase, now, history, serial>>

Arrive(c) ==
  \/ UpdateStatusProcessSpecificToActive(c)
  \/ \E i \in Item :
       \/ AssignTask(c, i) \/ StartTask(c, i) \/ ApproveTask(c, i)
       \/ CreateReport(c, i)
       \/ \E to \in {"completed", "rejected"} : ConfirmRequest(c, i, to)
  \/ \E g \in Stage : ConfirmMaterial(c, g)
  \/ \E k \in Content : CreateDinary(c, k)
  \/ \E edit \in Edit : UpdateProcessSpecific(c, edit)

Continue(p) ==
  \/ ReadStock(p) \/ SaveStock(p) \/ SetStatusActive(p)
  \/ SaveRequest(p) \/ CreateTaskAuto(p)
  \/ SaveReport(p) \/ UpdateRequestStatus(p) \/ SaveDinary(p)
  \/ SaveProcessRow(p) \/ SetQuantity(p)
  \/ DeleteContents(p) \/ DeleteMaterials(p) \/ DeleteStage(p)

Next ==
  \/ \E c \in Call : Arrive(c)
  \/ \E p \in Process : Continue(p) \/ Fail(p)
  \/ CheckAndCreateTaskProcessContentForExpert
  \/ CheckNewStageProcessSpecific \/ CreateRequest \/ EndOfJob

Spec == Init /\ [][Next]_vars

-----------------------------------------------------------------------------
\* updateQuantityMaterial: however its reads and saves interleave, a row says out of
\* stock exactly when nothing is left, and of a rented material both columns have
\* moved by the same number, since each save writes what one read gave.
RowIsOfAPiece ==
  \A m \in Material :
    LET row == stock[m]
    IN  /\ row.status = "out_of_stock" <=> row.total <= 0
        /\ row.total - Stock[m] = row.rented \/ (m \notin Rented /\ row.rented = 0)

\* updateStatusProcessSpecificToACtive, updateMaterialSpecificStage, confirmRequest:
\* when calls do not overlap and none fails half way, the store has lost what the
\* activations took and the confirmations took, and won what the reports put back,
\* of every stage and whatever was edited between.
StoreMatches ==
  serial /\ Quiet /\ accidents = 0
  => \A m \in Material : stock[m].total = Stock[m] - owed[m]

\* The rows of the store are consistent at any time, and right when nothing overlaps.
StockIsRight == RowIsOfAPiece /\ StoreMatches

\* checkAndCreateTaskProcessContentForExpert, CheckNewStageProcessSpecific: no work is
\* asked for before the process was active, and a diary tells of work that was
\* started, however calls, edits and the job interleave.
WorkFollowsActivation ==
  /\ \A i \in Item : request[i] # "none" => begun # Never
  /\ diary \subseteq worked

\* checkAndCreateTaskProcessContentForExpert looks one day ahead, once a day: when
\* calls do not overlap and nothing fails, the expert has a task for each content of a
\* process that was activated before the eve of it.
ContentIsAskedFor ==
  serial /\ Quiet /\ accidents = 0
  => \A k \in Content \cap stages :
       begun # Never /\ begun < Begin[k] - 1 /\ Begin[k] - 1 <= now
         => k \in task
===============================================================================
