----------------------------- MODULE StandardProcess -----------------------------
(***************************************************************************)
(* Standard processes, the templates the processes of services are copied  *)
(* from (processes.service.ts), and the requests experts write them for    *)
(* (requests.service.ts, tasks.service.ts, reports.service.ts).            *)
(*                                                                         *)
(* A season of a plant has at most one of them; the manager accepts or     *)
(* rejects it, either itself or by its request, and an expert may edit it: *)
(* one that was rejected is then up for approval again.  The status is     *)
(* kept twice, on the process and on the request, in two writes.  Stages,  *)
(* contents and materials are left out, but for an edit that stops at one. *)
(***************************************************************************)
EXTENDS Calls, Sequences

CONSTANTS
  PlantSeason,    \* the seasons that may get a standard process
  Errand          \* request rows of the type create_process_standard

VARIABLES
  standard,       \* processes_technical_standard: its status, by season
  errand,         \* requests, by request_id, with their task
  approved        \* history: the seasons whose process a manager accepted

standards == <<standard, errand, approved>>

-----------------------------------------------------------------------------
StandardStatus == {"pending", "accepted", "rejected", "in_active"}
ErrandStatus   == {"pending", "assigned", "in_progress", "pending_approval",
                   "completed", "rejected"}
NoErrand  == [status |-> "none"]
ErrandRow == [s: PlantSeason, status: ErrandStatus,
              task: {"none", "open", "assigned"}]

PutStandard == [s: PlantSeason, standard: StandardStatus]
PutErrand   == [r: Errand, errand: ErrandStatus]
PutTask     == [r: Errand, task: {"open", "assigned"}]
Writes      == PutStandard \cup PutErrand \cup PutTask

Insert  == [op: {"insertStandard", "insertErrand"}, s: PlantSeason]
Editing == [op: {"saveEdited", "editStages"}, s: PlantSeason, was: StandardStatus]
List    == [op: {"write"}, list: UNION {[1 .. n -> Writes] : n \in 1 .. 2}]

StandardTypeOK ==
  /\ standard \in [PlantSeason -> StandardStatus \cup {"none"}]
  /\ errand \in [Errand -> ErrandRow \cup {NoErrand}]
  /\ approved \in SUBSET PlantSeason
  /\ work \in [Call -> {Idle} \cup Insert \cup Editing \cup List]
  /\ accidents \in Nat
  /\ serial \in BOOLEAN

StandardInit ==
  /\ standard = [s \in PlantSeason |-> "none"]
  /\ errand = [r \in Errand |-> NoErrand]
  /\ approved = {}
  /\ CallsInit

-----------------------------------------------------------------------------
Errands     == {r \in Errand : errand[r] # NoErrand}
ErrandOf(s) == {r \in Errands : errand[r].s = s}

ToStandard(s, to) == [s |-> s, standard |-> to]
ToErrand(r, to)   == [r |-> r, errand |-> to]
ToTask(r, to)     == [r |-> r, task |-> to]

Todo(list) == IF list = <<>> THEN Idle ELSE [op |-> "write", list |-> list]

Arrives(c, w) == Start(c, w) /\ UNCHANGED standards

\* What the status of the request of a season is set by: findOne takes one of them;
\* where there is none the id is undefined, and the update meets no row.
ErrandWrites(s, to) ==
  IF ErrandOf(s) = {} THEN {<<>>} ELSE {<<ToErrand(r, to)>> : r \in ErrandOf(s)}

-----------------------------------------------------------------------------
CreateRequestProcessStandard(c, s) ==
  /\ ErrandOf(s) = {}
  /\ Arrives(c, [op |-> "insertErrand", s |-> s])

SaveErrand(c) ==
  /\ work[c].op = "insertErrand"
  /\ \E r \in Errand \ Errands :
       /\ errand' = [errand EXCEPT ![r] =
            [s |-> work[c].s, status |-> "pending", task |-> "none"]]
       /\ Goto(c, Todo(<<ToTask(r, "open")>>))
  /\ UNCHANGED <<standard, approved>>

HasTask(r)    == r \in Errands /\ errand[r].task # "none"
IsAssigned(r) == r \in Errands /\ errand[r].task = "assigned"

\* Whatever the status of the request.
AssignStandardTask(c, r) ==
  /\ HasTask(r)
  /\ Arrives(c, Todo(<<ToTask(r, "assigned"), ToErrand(r, "assigned")>>))

StartStandardTask(c, r) ==
  /\ IsAssigned(r)
  /\ errand[r].status \in {"assigned", "rejected"}
  /\ Arrives(c, Todo(<<ToErrand(r, "in_progress")>>))

ApproveStandardTask(c, r) ==
  /\ IsAssigned(r)
  /\ errand[r].status = "in_progress"
  /\ Arrives(c, Todo(<<ToErrand(r, "pending_approval")>>))

\* createReport asks nothing of the status; the report is left out.
ReportOnStandard(c, r) ==
  /\ IsAssigned(r)
  /\ Arrives(c, Todo(<<ToErrand(r, "pending_approval")>>))

-----------------------------------------------------------------------------
CreateProcessStandard(c, s) ==
  /\ standard[s] = "none"
  /\ Arrives(c, [op |-> "insertStandard", s |-> s])

\* A second process of the season is refused: plant_season_id is unique.
SaveNewStandard(c) ==
  /\ work[c].op = "insertStandard"
  /\ standard' = [standard EXCEPT ![work[c].s] = IF @ = "none" THEN "pending" ELSE @]
  /\ Goto(c, Idle)
  /\ UNCHANGED <<errand, approved>>

\* updateProcessStandardStatus, whatever the status; with a reason, it rejects.
AcceptStandard(c, s) ==
  /\ standard[s] # "none"
  /\ \E list \in ErrandWrites(s, "completed") :
       Arrives(c, Todo(<<ToStandard(s, "accepted")>> \o list))

RejectStandard(c, s) ==
  /\ standard[s] # "none"
  /\ \E list \in ErrandWrites(s, "rejected") :
       Arrives(c, Todo(<<ToStandard(s, "rejected")>> \o list))

RemoveProcessStandard(c, s) ==
  /\ standard[s] \notin {"none", "in_active"}
  /\ Arrives(c, Todo(<<ToStandard(s, "in_active")>>))

\* Mutant: the process is left as it is.
ConfirmErrandOnly(c, r) ==
  /\ errand[r].status = "pending_approval"
  /\ Arrives(c, Todo(<<ToErrand(r, "completed")>>))

\* confirmRequest: completed, it accepts the process, and throws if there is none.
ConfirmErrand(c, r) ==
  /\ errand[r].status = "pending_approval"
  /\ standard[errand[r].s] # "none"
  /\ Arrives(c, Todo(<<ToStandard(errand[r].s, "accepted"), ToErrand(r, "completed")>>))

\* Rejected, it leaves the process as it is.
RejectErrand(c, r) ==
  /\ errand[r].status = "pending_approval"
  /\ Arrives(c, Todo(<<ToErrand(r, "rejected")>>))

-----------------------------------------------------------------------------
UpdateProcessStandard(c, s) ==
  /\ standard[s] # "none"
  /\ Arrives(c, [op |-> "saveEdited", s |-> s, was |-> standard[s]])

\* The row is saved whole, with the status that was read.
SaveEdited(c) ==
  /\ work[c].op = "saveEdited"
  /\ standard' = [standard EXCEPT ![work[c].s] = work[c].was]
  /\ Goto(c, [work[c] EXCEPT !.op = "editStages"])
  /\ UNCHANGED <<errand, approved>>

\* An edit may stop half way: the contents of a new stage are saved without the id
\* of the stage, and a stage that has contents cannot be deleted.
EditStages(c) ==
  /\ work[c].op = "editStages"
  /\ \/ Goto(c, Idle)
     \/ /\ work[c].was = "rejected"
        /\ \E list \in ErrandWrites(work[c].s, "pending_approval") :
             Goto(c, Todo(list \o <<ToStandard(work[c].s, "pending")>>))
  /\ UNCHANGED standards

-----------------------------------------------------------------------------
IsNext(c, kind) == work[c].op = "write" /\ kind \in DOMAIN Head(work[c].list)

WriteNext(c) == Goto(c, Todo(Tail(work[c].list)))

SetStandard(c) ==
  /\ IsNext(c, "standard")
  /\ LET w == Head(work[c].list)
     IN  /\ standard' = [standard EXCEPT ![w.s] = w.standard]
         /\ approved' = IF w.standard = "accepted" THEN approved \cup {w.s} ELSE approved
  /\ WriteNext(c)
  /\ UNCHANGED errand

SetErrandStatus(c) ==
  /\ IsNext(c, "errand")
  /\ LET w == Head(work[c].list)
     IN  errand' = [errand EXCEPT ![w.r].status = w.errand]
  /\ WriteNext(c)
  /\ UNCHANGED <<standard, approved>>

SetTask(c) ==
  /\ IsNext(c, "task")
  /\ LET w == Head(work[c].list)
     IN  errand' = [errand EXCEPT ![w.r].task = w.task]
  /\ WriteNext(c)
  /\ UNCHANGED <<standard, approved>>

-----------------------------------------------------------------------------
StandardArrives(c) ==
  \/ \E s \in PlantSeason :
       \/ CreateRequestProcessStandard(c, s) \/ CreateProcessStandard(c, s)
       \/ AcceptStandard(c, s) \/ RejectStandard(c, s)
       \/ RemoveProcessStandard(c, s) \/ UpdateProcessStandard(c, s)
  \/ \E r \in Errand :
       \/ AssignStandardTask(c, r) \/ StartStandardTask(c, r)
       \/ ApproveStandardTask(c, r) \/ ReportOnStandard(c, r)
       \/ ConfirmErrand(c, r) \/ RejectErrand(c, r)

StandardNext ==
  \E c \in Call :
    \/ StandardArrives(c)
    \/ SaveErrand(c) \/ SaveNewStandard(c) \/ SaveEdited(c) \/ EditStages(c)
    \/ SetStandard(c) \/ SetErrandStatus(c) \/ SetTask(c)
    \/ Fail(c) /\ UNCHANGED standards

StandardSpec == StandardInit /\ [][StandardNext]_<<standards, calls>>

-----------------------------------------------------------------------------
\* updateProcessStandardStatus, confirmRequest, updateProcessStandard: however the
\* calls interleave and fail, no request is completed, and no process accepted,
\* unless a manager accepted the process of that season.
CompletedWasApproved ==
  /\ \A r \in Errands : errand[r].status = "completed" => errand[r].s \in approved
  /\ \A s \in PlantSeason : standard[s] = "accepted" => s \in approved

\* The status is kept on the request and on the process: when calls do not overlap
\* and none fails, a season has one request, and one that is completed has a process
\* that services may be sold with, or one that was removed since, never one that was
\* rejected or is up for approval.
CompletedIsAccepted ==
  serial /\ Quiet
  => /\ \A s \in PlantSeason : \A q, r \in ErrandOf(s) : q = r
     /\ accidents = 0
        => \A r \in Errands : errand[r].status = "completed"
             => standard[errand[r].s] \in {"accepted", "in_active"}
=================================================================================
