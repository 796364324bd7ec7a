---------------------------- MODULE RequestWorkflow ----------------------------
(***************************************************************************)
(* The work of the staff on a request: its task, report and channel        *)
(* (requests.service.ts, tasks.service.ts, reports.service.ts,             *)
(* channels.service.ts), for the requests that change nothing outside      *)
(* these tables: a visit of a land, and technical support, in person or in *)
(* a chat.  A chat has a channel, which a report closes and the daily job  *)
(* deletes, row by row, once it has lapsed.                                *)
(*                                                                         *)
(* A handler reads and checks in one step and writes, row after row, in    *)
(* steps of its own; what it still has to write is its work.  An endpoint  *)
(* that refuses leaves everything as it was and is left out.               *)
(***************************************************************************)
EXTENDS Integers, FiniteSets

CONSTANTS
  Request,        \* the request rows there may be
  Expert,         \* the experts and staff a task may be assigned to
  Renter,         \* the land renter who asks for support
  Call,           \* the HTTP requests that may be in flight together
  Job,            \* checkingChannelIsExpired, run every day
  Week,           \* the days a closed channel is kept
  Horizon,        \* bound: the last day of the clock
  MaxMessages,    \* bound: the messages in a channel
  MaxAccidents,   \* bound: awaits that throw, process deaths
  SerialModes     \* {TRUE}: calls do not overlap, {FALSE}: they may, or both

ASSUME PeopleAssumption == /\ Renter \notin Expert
                           /\ Expert \cap {"none", "open"} = {}
ASSUME WorkflowJobAssumption == Job \notin Call
ASSUME WorkflowBoundAssumption ==
  /\ Week \in Nat /\ Horizon \in Nat /\ MaxMessages \in Nat
  /\ MaxAccidents \in Nat /\ SerialModes \subseteq BOOLEAN

VARIABLES
  request,    \* requests, by request_id
  task,       \* the task of a request: who it is assigned to
  report,     \* the requests whose task has a report
  channel,    \* the channel of a request, and how many it had
  joined,     \* channels_join: who is in the channel
  message,    \* channels_message: how many messages it holds
  work,       \* what each call in flight, and the job, still has to write
  todo,       \* the rest of the job's list
  now,        \* the day
  accidents,  \* history: accidents so far
  serial      \* whether calls overlap; never changes

tables == <<request, task, report, channel, joined, message>>
vars   == <<tables, work, todo, now, accidents, serial>>

-----------------------------------------------------------------------------
Kind == {"view_land", "direct", "chat"}
RequestStatus == {"pending", "assigned", "in_progress", "pending_approval",
                  "completed", "rejected"}
Absent     == [kind |-> "none", status |-> "none"]
RequestRow == [kind: Kind, status: RequestStatus] \cup {Absent}

Assignee == Expert \cup {"open"}      \* "open": assigned to nobody yet
TaskRow  == Assignee \cup {"none"}
Member   == Expert \cup {Renter}

\* no counts the channels the request has had: a deleted one never returns.
ChannelRow == [status: {"none", "active", "expired"}, due: Nat, no: Nat]

\* The work left to a process.
Process == Call \cup {Job}
Idle == [op |-> "idle"]
InsertRequest == [op: {"insertRequest"}, kind: Kind, to: Assignee]
WriteTask     == [op: {"insertTask", "saveTask"}, r: Request, to: Assignee]
SetStatusTo   == [op: {"setStatus"}, r: Request, to: RequestStatus]
OpenChannel   == [op: {"insertChannel"}, r: Request, e: Expert]
JoinAs        == [op: {"join"}, r: Request, no: Nat, who: Member, e: Expert]
PutMessage    == [op: {"firstMessage", "saveMessage"}, r: Request, no: Nat]
PutReport     == [op: {"saveReport"}, r: Request, found: BOOLEAN]
OnChannel     == [op: {"expireChannel", "deleteJoins", "deleteMessages",
                       "deleteChannel"}, r: Request]
Work == {Idle} \cup InsertRequest \cup WriteTask \cup SetStatusTo
          \cup OpenChannel \cup JoinAs \cup PutMessage \cup PutReport
          \cup OnChannel

TypeOK ==
  /\ request \in [Request -> RequestRow]
  /\ task \in [Request -> TaskRow]
  /\ report \in SUBSET Request
  /\ channel \in [Request -> ChannelRow]
  /\ joined \in [Request -> SUBSET Member]
  /\ message \in [Request -> Nat]
  /\ work \in [Process -> Work]
  /\ todo \in SUBSET Request
  /\ now \in Nat
  /\ accidents \in Nat
  /\ serial \in BOOLEAN

Init ==
  /\ request = [r \in Request |-> Absent]
  /\ task = [r \in Request |-> "none"]
  /\ report = {}
  /\ channel = [r \in Request |-> [status |-> "none", due |-> 0, no |-> 0]]
  /\ joined = [r \in Request |-> {}]
  /\ message = [r \in Request |-> 0]
  /\ work = [p \in Process |-> Idle]
  /\ todo = {}
  /\ now = 0
  /\ accidents = 0
  /\ serial \in SerialModes

-----------------------------------------------------------------------------
Quiet == todo = {} /\ \A p \in Process : work[p] = Idle

MayStart == serial => Quiet

Goto(p, w) == work' = [work EXCEPT ![p] = w]

Start(c, w) ==
  /\ work[c] = Idle
  /\ MayStart
  /\ Goto(c, w)
  /\ UNCHANGED <<tables, todo, now, accidents, serial>>

SetStatusWork(r, s) == [op |-> "setStatus", r |-> r, to |-> s]

\* Bounds: a call that will insert a row starts only when there is room.
RoomForRequest == Cardinality({c \in Call : work[c].op = "insertRequest"})
                    < Cardinality({r \in Request : request[r] = Absent})
RoomForMessage(r) ==
  message[r] + Cardinality({c \in Call : work[c].op = "saveMessage"})
    < MaxMessages

-----------------------------------------------------------------------------
CreateRequestViewLand(c) ==
  /\ RoomForRequest
  /\ Start(c, [op |-> "insertRequest", kind |-> "view_land", to |-> "open"])

\* With a service in use, the expert of its process gets the task at once; the
\* read of a process that is not there throws later, between two writes (Fail).
CreateRequestTechnicalSupport(c, kind, to) ==
  /\ RoomForRequest
  /\ Start(c, [op |-> "insertRequest", kind |-> kind, to |-> to])

SaveRequest(p) ==
  /\ work[p].op = "insertRequest"
  /\ LET to == work[p].to
     IN \E r \in Request :
          /\ request[r] = Absent
          /\ request' = [request EXCEPT ![r] =
               [kind |-> work[p].kind,
                status |-> IF to = "open" THEN "pending" ELSE "assigned"]]
          /\ Goto(p, [op |-> "insertTask", r |-> r, to |-> to])
  /\ UNCHANGED <<task, report, channel, joined, message, todo, now, accidents,
                 serial>>

\* createTask, createTaskAuto.
CreateTask(p) ==
  /\ work[p].op = "insertTask"
  /\ task' = [task EXCEPT ![work[p].r] = work[p].to]
  /\ Goto(p, Idle)
  /\ UNCHANGED <<request, report, channel, joined, message, todo, now,
                 accidents, serial>>

-----------------------------------------------------------------------------
\* Mutant: the task is not looked for.
AssignUnseen(c, r, e) == Start(c, [op |-> "saveTask", r |-> r, to |-> e])

\* assignTask asks nothing of the request: whatever its status, it is assigned.
AssignTask(c, r, e) ==
  /\ task[r] # "none"
  /\ Start(c, [op |-> "saveTask", r |-> r, to |-> e])

\* Mutant: the task gets another expert, the request stays as it is.
AssignTaskOnly(p) ==
  /\ work[p].op = "saveTask"
  /\ task' = [task EXCEPT ![work[p].r] = work[p].to]
  /\ Goto(p, Idle)
  /\ UNCHANGED <<request, report, channel, joined, message, todo, now,
                 accidents, serial>>

SaveTask(p) ==
  /\ work[p].op = "saveTask"
  /\ task' = [task EXCEPT ![work[p].r] = work[p].to]
  /\ Goto(p, SetStatusWork(work[p].r, "assigned"))
  /\ UNCHANGED <<request, report, channel, joined, message, todo, now,
                 accidents, serial>>

\* updateRequestStatus; the mail a visit of a land is announced with comes
\* before the update, and may throw (Fail).
UpdateRequestStatus(p) ==
  /\ work[p].op = "setStatus"
  /\ request' = [request EXCEPT ![work[p].r].status = work[p].to]
  /\ Goto(p, Idle)
  /\ UNCHANGED <<task, report, channel, joined, message, todo, now, accidents,
                 serial>>

\* Mutant: a task nobody was assigned to may be started.
StartOpenTask(c, r) ==
  /\ task[r] # "none" /\ request[r].kind # "chat"
  /\ request[r].status \in {"pending", "assigned", "rejected"}
  /\ Start(c, SetStatusWork(r, "in_progress"))

\* startTask, called by whom the task is assigned to.
StartTask(c, r) ==
  /\ task[r] \in Expert
  /\ request[r].status \in {"assigned", "rejected"}
  /\ Start(c, IF request[r].kind = "chat"
              THEN [op |-> "insertChannel", r |-> r, e |-> task[r]]
              ELSE SetStatusWork(r, "in_progress"))

ApproveTask(c, r) ==
  /\ task[r] \in Expert
  /\ request[r].status = "in_progress"
  /\ Start(c, SetStatusWork(r, "pending_approval"))

\* confirmRequest of a request without consequences.
ConfirmRequest(c, r, s) ==
  /\ request[r].status = "pending_approval"
  /\ Start(c, SetStatusWork(r, s))

-----------------------------------------------------------------------------
\* createChannel: the column request_id is unique, so a second channel of the
\* request is refused and the task is not started.
InsertChannel(p) ==
  /\ work[p].op = "insertChannel"
  /\ LET r == work[p].r
         no == channel[r].no + 1
     IN  IF channel[r].status = "none"
         THEN /\ channel' = [channel EXCEPT ![r] =
                   [status |-> "active", due |-> 0, no |-> no]]
              /\ Goto(p, [op |-> "join", r |-> r, no |-> no, who |-> Renter,
                          e |-> work[p].e])
         ELSE Goto(p, Idle) /\ UNCHANGED channel
  /\ UNCHANGED <<request, task, report, joined, message, todo, now, accidents,
                 serial>>

IsThere(r, no) == channel[r].status # "none" /\ channel[r].no = no

\* The sender joins, then the expert; the foreign key wants the channel.
JoinChannel(p) ==
  /\ work[p].op = "join"
  /\ LET r == work[p].r
         no == work[p].no
     IN  IF IsThere(r, no)
         THEN /\ joined' = [joined EXCEPT ![r] = @ \cup {work[p].who}]
              /\ Goto(p, IF work[p].who = Renter
                         THEN [work[p] EXCEPT !.who = work[p].e]
                         ELSE [op |-> "firstMessage", r |-> r, no |-> no])
         ELSE Goto(p, Idle) /\ UNCHANGED joined
  /\ UNCHANGED <<request, task, report, channel, message, todo, now, accidents,
                 serial>>

CreateMessage(c, r, u) ==
  /\ channel[r].status = "active"
  /\ u \in joined[r]
  /\ RoomForMessage(r)
  /\ Start(c, [op |-> "saveMessage", r |-> r, no |-> channel[r].no])

SaveMessage(p) ==
  /\ work[p].op \in {"firstMessage", "saveMessage"}
  /\ LET r == work[p].r
     IN  IF IsThere(r, work[p].no)
         THEN /\ message' = [message EXCEPT ![r] = @ + 1]
              /\ Goto(p, IF work[p].op = "firstMessage"
                         THEN SetStatusWork(r, "in_progress") ELSE Idle)
         ELSE Goto(p, Idle) /\ UNCHANGED message
  /\ UNCHANGED <<request, task, report, channel, joined, todo, now, accidents,
                 serial>>

-----------------------------------------------------------------------------
\* Mutant: the channel of a chat is closed before its report is saved.
CloseBeforeReport(c, r) ==
  /\ task[r] \in Expert
  /\ Start(c, IF request[r].kind = "chat"
              THEN [op |-> "expireChannel", r |-> r]
              ELSE [op |-> "saveReport", r |-> r, found |-> r \in report])

\* createReport, by whom the task is assigned to, whatever the status.
CreateReport(c, r) ==
  /\ task[r] \in Expert
  /\ Start(c, [op |-> "saveReport", r |-> r, found |-> r \in report])

\* A second first report of the same task is refused: task_id is unique.
SaveReport(p) ==
  /\ work[p].op = "saveReport"
  /\ LET r == work[p].r
     IN  IF r \in report /\ ~work[p].found
         THEN Goto(p, Idle) /\ UNCHANGED report
         ELSE /\ report' = report \cup {r}
              /\ Goto(p, IF request[r].kind = "view_land"
                         THEN SetStatusWork(r, "completed")
                         ELSE [op |-> "expireChannel", r |-> r])
  /\ UNCHANGED <<request, task, channel, joined, message, todo, now, accidents,
                 serial>>

\* setChannelToExpired throws when there is no channel: so does the report of a
\* support in person, and the request is left as it was.
SetChannelToExpired(p) ==
  /\ work[p].op = "expireChannel"
  /\ LET r == work[p].r
     IN  IF channel[r].status = "none"
         THEN Goto(p, Idle) /\ UNCHANGED channel
         ELSE /\ channel' = [channel EXCEPT ![r].status = "expired",
                                            ![r].due = now + Week]
              /\ Goto(p, SetStatusWork(r, "completed"))
  /\ UNCHANGED <<request, task, report, joined, message, todo, now, accidents,
                 serial>>

-----------------------------------------------------------------------------
Lapsed(r) == channel[r].status = "expired" /\ channel[r].due < now

CheckingChannelIsExpired ==
  /\ work[Job] = Idle /\ todo = {}
  /\ MayStart
  /\ \E r \in Request : Lapsed(r)
  /\ todo' = {r \in Request : Lapsed(r)}
  /\ UNCHANGED <<tables, work, now, accidents, serial>>

\* Mutant: the messages are left to the foreign key, which refuses.
NextChannelOnly ==
  /\ work[Job] = Idle
  /\ \E r \in todo : /\ todo' = todo \ {r}
                     /\ Goto(Job, [op |-> "deleteChannel", r |-> r])
  /\ UNCHANGED <<tables, now, accidents, serial>>

NextChannel ==
  /\ work[Job] = Idle
  /\ \E r \in todo : /\ todo' = todo \ {r}
                     /\ Goto(Job, [op |-> "deleteJoins", r |-> r])
  /\ UNCHANGED <<tables, now, accidents, serial>>

DeleteJoins(p) ==
  /\ work[p].op = "deleteJoins"
  /\ joined' = [joined EXCEPT ![work[p].r] = {}]
  /\ Goto(p, [op |-> "deleteMessages", r |-> work[p].r])
  /\ UNCHANGED <<request, task, report, channel, message, todo, now, accidents,
                 serial>>

DeleteMessages(p) ==
  /\ work[p].op = "deleteMessages"
  /\ message' = [message EXCEPT ![work[p].r] = 0]
  /\ Goto(p, [op |-> "deleteChannel", r |-> work[p].r])
  /\ UNCHANGED <<request, task, report, channel, joined, todo, now, accidents,
                 serial>>

\* A message or a join saved meanwhile still refers to the channel: the delete
\* is refused, and the rest of the list given up.
DeleteChannel(p) ==
  /\ work[p].op = "deleteChannel"
  /\ LET r == work[p].r
     IN  IF joined[r] = {} /\ message[r] = 0
         THEN /\ channel' = [channel EXCEPT ![r].status = "none", ![r].due = 0]
              /\ UNCHANGED todo
         ELSE todo' = {} /\ UNCHANGED channel
  /\ Goto(p, Idle)
  /\ UNCHANGED <<request, task, report, joined, message, now, accidents,
                 serial>>

-----------------------------------------------------------------------------
\* An await throws, or the process dies: what is written stays.
Fail(p) ==
  /\ work[p] # Idle
  /\ accidents < MaxAccidents /\ accidents' = accidents + 1
  /\ Goto(p, Idle)
  /\ todo' = IF p = Job THEN {} ELSE todo
  /\ UNCHANGED <<tables, now, serial>>

Tick ==
  /\ MayStart
  /\ now < Horizon
  /\ now' = now + 1
  /\ UNCHANGED <<tables, work, todo, accidents, serial>>

Arrive(c) ==
  \/ CreateRequestViewLand(c)
  \/ \E kind \in {"direct", "chat"}, to \in Assignee :
       CreateRequestTechnicalSupport(c, kind, to)
  \/ \E r \in Request :
       \/ \E e \in Expert : AssignTask(c, r, e)
       \/ StartTask(c, r) \/ ApproveTask(c, r) \/ CreateReport(c, r)
       \/ \E s \in {"completed", "rejected"} : ConfirmRequest(c, r, s)
       \/ \E u \in Member : CreateMessage(c, r, u)

Continue(p) ==
  \/ SaveRequest(p) \/ CreateTask(p) \/ SaveTask(p) \/ UpdateRequestStatus(p)
  \/ InsertChannel(p) \/ JoinChannel(p) \/ SaveMessage(p)
  \/ SaveReport(p) \/ SetChannelToExpired(p)
  \/ DeleteJoins(p) \/ DeleteMessages(p) \/ DeleteChannel(p)

Next ==
  \/ \E c \in Call : Arrive(c)
  \/ \E p \in Process : Continue(p) \/ Fail(p)
  \/ CheckingChannelIsExpired \/ NextChannel
  \/ Tick

Spec == Init /\ [][Next]_vars

\* What is in flight goes on; the job runs every day and takes up its list.
Fairness == /\ \A p \in Process : WF_vars(Continue(p))
            /\ WF_vars(CheckingChannelIsExpired \/ NextChannel)

FairSpec == Spec /\ Fairness

-----------------------------------------------------------------------------
\* startTask, approveTask, createReport (tasks.service.ts:270, reports.service.ts:81):
\* however calls interleave and fail, no request is worked on or done without
\* somebody its task was assigned to.
WorkHasAssignee ==
  \A r \in Request :
    request[r].status \in {"in_progress", "pending_approval", "completed"}
      => task[r] \in Expert

\* When calls do not overlap and none fails half way: the land renter and the
\* expert at work on a chat are both in its channel, and it takes messages,
\* whoever the task was assigned to before.
WorkersCanTalk ==
  serial /\ Quiet /\ accidents = 0
  => \A r \in Request :
       request[r].kind = "chat" /\ request[r].status = "in_progress"
         => channel[r].status = "active" /\ {Renter, task[r]} \subseteq joined[r]

\* createChannel, checkingChannelIsExpired: a conversation is deleted only after its
\* support was reported, however the job, reports and messages interleave.
OnlyReportedIsDeleted ==
  [][\A r \in Request :
       message'[r] < message[r] \/ (joined[r] # {} /\ joined'[r] = {})
         => r \in report /\ channel[r].status = "expired"]_vars

\* checkingChannelIsExpired, whose run overlaps the calls: a channel that has lapsed
\* is deleted in the end, whatever is written to it meanwhile and wherever the job
\* fails, unless another report keeps it.
LapsedChannelGoes ==
  \A r \in Request : ~serial /\ Lapsed(r) ~> ~Lapsed(r)
===============================================================================
