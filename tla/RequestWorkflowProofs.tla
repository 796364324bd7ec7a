------------------------- MODULE RequestWorkflowProofs -------------------------
(***************************************************************************)
(* Proofs about RequestWorkflow, for every value of the constants: any     *)
(* number of requests, experts, calls in flight and accidents.             *)
(***************************************************************************)
EXTENDS RequestWorkflow, TLAPS

Worked == {"in_progress", "pending_approval", "completed"}
ByAssignee == {"insertChannel", "join", "firstMessage", "saveReport",
               "expireChannel"}
Delete == {"deleteJoins", "deleteMessages", "deleteChannel"}

\* What backs a piece of work in flight: the rows it writes to are there, and what
\* only an assignee does is done on a task that was assigned.
Backed(w, rq, tk) ==
  /\ w.op = "insertTask" => rq[w.r] # Absent /\ tk[w.r] = "none"
  /\ w.op = "saveTask" => w.to \in Expert
  /\ w.op \in {"saveTask", "setStatus"} \cup ByAssignee => tk[w.r] # "none"
  /\ \/ w.op \in ByAssignee
     \/ w.op = "setStatus" /\ w.to \in Worked
     => tk[w.r] \in Expert

\* WorkHasAssignee is not inductive as it stands: what is in flight was started by
\* an assignee, a task never goes back to nobody, and no second task is inserted.
AssigneeInv ==
  /\ TypeOK
  /\ WorkHasAssignee
  /\ \A r \in Request : task[r] # "none" => request[r] # Absent
  /\ \A p \in Process : Backed(work[p], request, task)
  /\ \A p, q \in Process :
       work[p].op = "insertTask" /\ work[q].op = "insertTask"
         /\ work[p].r = work[q].r => p = q

\* What the daily job may delete: the channel of a chat that was reported, and that
\* nothing but the job itself takes from the list.
DeleteInv ==
  /\ \A r \in Request : channel[r].status = "expired" => r \in report
  /\ \A p \in Process : work[p].op = "expireChannel" => work[p].r \in report
  /\ \A p \in Process : work[p].op \in Delete
       => p = Job /\ channel[work[p].r].status = "expired" /\ work[p].r \notin todo
  /\ \A r \in todo : channel[r].status = "expired"

-----------------------------------------------------------------------------
\* What a kind of work carries.
LEMMA WorkFields ==
  ASSUME NEW w \in Work
  PROVE  /\ w.op = "insertRequest" => w \in InsertRequest
         /\ w.op \in {"insertTask", "saveTask"} => w \in WriteTask
         /\ w.op = "setStatus" => w \in SetStatusTo
         /\ w.op = "insertChannel" => w \in OpenChannel
         /\ w.op = "join" => w \in JoinAs
         /\ w.op \in {"firstMessage", "saveMessage"} => w \in PutMessage
         /\ w.op = "saveReport" => w \in PutReport
         /\ w.op \in {"expireChannel"} \cup Delete => w \in OnChannel
BY DEF Work, Idle, InsertRequest, WriteTask, SetStatusTo, OpenChannel, JoinAs,
       PutMessage, PutReport, OnChannel, Delete

\* What is left to a process that goes on, or ends.
LEMMA NextWork ==
  /\ Idle \in Work
  /\ \A r \in Request :
       /\ \A s \in RequestStatus : SetStatusWork(r, s) \in Work
       /\ \A to \in Assignee :
            /\ [op |-> "insertTask", r |-> r, to |-> to] \in Work
            /\ [op |-> "saveTask", r |-> r, to |-> to] \in Work
       /\ \A e \in Expert : [op |-> "insertChannel", r |-> r, e |-> e] \in Work
       /\ \A no \in Nat, e \in Expert, u \in Member :
            [op |-> "join", r |-> r, no |-> no, who |-> u, e |-> e] \in Work
       /\ \A no \in Nat :
            /\ [op |-> "firstMessage", r |-> r, no |-> no] \in Work
            /\ [op |-> "saveMessage", r |-> r, no |-> no] \in Work
       /\ \A b \in BOOLEAN : [op |-> "saveReport", r |-> r, found |-> b] \in Work
       /\ [op |-> "expireChannel", r |-> r] \in Work
       /\ [op |-> "deleteJoins", r |-> r] \in Work
       /\ [op |-> "deleteMessages", r |-> r] \in Work
       /\ [op |-> "deleteChannel", r |-> r] \in Work
<1>1. Idle \in Work
  BY DEF Work
<1>2. ASSUME NEW r \in Request
      PROVE  /\ \A s \in RequestStatus : SetStatusWork(r, s) \in SetStatusTo
             /\ \A to \in Assignee :
                  /\ [op |-> "insertTask", r |-> r, to |-> to] \in WriteTask
                  /\ [op |-> "saveTask", r |-> r, to |-> to] \in WriteTask
             /\ \A e \in Expert :
                  [op |-> "insertChannel", r |-> r, e |-> e] \in OpenChannel
  BY DEF SetStatusWork, SetStatusTo, WriteTask, OpenChannel
<1>3. ASSUME NEW r \in Request, NEW no \in Nat
      PROVE  /\ \A e \in Expert, u \in Member :
                  [op |-> "join", r |-> r, no |-> no, who |-> u, e |-> e] \in JoinAs
             /\ [op |-> "firstMessage", r |-> r, no |-> no] \in PutMessage
             /\ [op |-> "saveMessage", r |-> r, no |-> no] \in PutMessage
  BY DEF JoinAs, PutMessage
<1>4. ASSUME NEW r \in Request
      PROVE  /\ \A b \in BOOLEAN :
                  [op |-> "saveReport", r |-> r, found |-> b] \in PutReport
             /\ [op |-> "expireChannel", r |-> r] \in OnChannel
             /\ [op |-> "deleteJoins", r |-> r] \in OnChannel
             /\ [op |-> "deleteMessages", r |-> r] \in OnChannel
             /\ [op |-> "deleteChannel", r |-> r] \in OnChannel
  BY DEF PutReport, OnChannel
<1> QED BY <1>1, <1>2, <1>3, <1>4 DEF Work

LEMMA InitTypeOK == Init => TypeOK
BY WorkflowBoundAssumption
   DEF Init, TypeOK, Work, Idle, Absent, RequestRow, TaskRow, ChannelRow

LEMMA GotoKeepsType ==
  ASSUME TypeOK, NEW p \in Process, NEW w \in Work, Goto(p, w)
  PROVE  work' \in [Process -> Work]
BY DEF TypeOK, Goto

\* A request that starts: its work is well formed and backed.
LEMMA ArriveStarts ==
  ASSUME AssigneeInv, NEW c \in Call, Arrive(c)
  PROVE  \E w \in Work :
           /\ Start(c, w) /\ Backed(w, request, task)
           /\ w.op \in {"insertRequest", "saveTask", "setStatus", "insertChannel",
                        "saveReport", "saveMessage"}
<1>0. TypeOK /\ WorkHasAssignee
  BY DEF AssigneeInv
<1> DEFINE Goal == \E w \in Work :
           /\ Start(c, w) /\ Backed(w, request, task)
           /\ w.op \in {"insertRequest", "saveTask", "setStatus", "insertChannel",
                        "saveReport", "saveMessage"}
<1>a. \A e \in Expert : e \in Assignee /\ e \in Member /\ e # "none"
  BY PeopleAssumption DEF Assignee, Member
<1>1. ASSUME NEW kind \in Kind, NEW to \in Assignee,
             Start(c, [op |-> "insertRequest", kind |-> kind, to |-> to])
      PROVE  Goal
  <2> DEFINE w == [op |-> "insertRequest", kind |-> kind, to |-> to]
  <2>1. w \in Work /\ Backed(w, request, task)
    BY DEF Work, InsertRequest, Backed, ByAssignee
  <2> QED BY <1>1, <2>1
<1>2. CreateRequestViewLand(c) => Goal
  BY <1>1 DEF CreateRequestViewLand, Kind, Assignee
<1>3. ASSUME NEW kind \in {"direct", "chat"}, NEW to \in Assignee,
             CreateRequestTechnicalSupport(c, kind, to)
      PROVE  Goal
  BY <1>1, <1>3 DEF CreateRequestTechnicalSupport, Kind
<1>4. ASSUME NEW r \in Request, NEW e \in Expert, AssignTask(c, r, e)
      PROVE  Goal
  <2> DEFINE w == [op |-> "saveTask", r |-> r, to |-> e]
  <2>1. w \in Work /\ Backed(w, request, task)
    BY <1>4, <1>a, NextWork DEF AssignTask, Backed, ByAssignee
  <2> QED BY <1>4, <2>1 DEF AssignTask
<1>5. ASSUME NEW r \in Request, StartTask(c, r)
      PROVE  Goal
  <2>1. PICK w : /\ Start(c, w)
                 /\ \/ w = [op |-> "insertChannel", r |-> r, e |-> task[r]]
                    \/ w = SetStatusWork(r, "in_progress")
    BY <1>5 DEF StartTask
  <2>2. w \in Work
    <3>1. task[r] \in Expert /\ "in_progress" \in RequestStatus
      BY <1>5 DEF StartTask, RequestStatus
    <3>2. /\ [op |-> "insertChannel", r |-> r, e |-> task[r]] \in Work
          /\ SetStatusWork(r, "in_progress") \in Work
      BY <3>1, NextWork
    <3>3. CASE w = [op |-> "insertChannel", r |-> r, e |-> task[r]]
      BY <3>2, <3>3
    <3>4. CASE w = SetStatusWork(r, "in_progress")
      BY <3>2, <3>4
    <3> QED BY <2>1, <3>3, <3>4
  <2>3. Backed(w, request, task) /\ w.op \in {"insertChannel", "setStatus"}
    BY <1>5, <1>a, <2>1 DEF StartTask, SetStatusWork, Backed, ByAssignee
  <2> QED BY <2>1, <2>2, <2>3
<1>6. ASSUME NEW r \in Request, ApproveTask(c, r)
      PROVE  Goal
  <2> DEFINE w == SetStatusWork(r, "pending_approval")
  <2>1. w \in Work
    BY NextWork DEF RequestStatus
  <2>2. Backed(w, request, task) /\ w.op = "setStatus"
    BY <1>6, <1>a DEF ApproveTask, SetStatusWork, Backed, ByAssignee
  <2> QED BY <1>6, <2>1, <2>2 DEF ApproveTask
<1>7. ASSUME NEW r \in Request, CreateReport(c, r)
      PROVE  Goal
  <2> DEFINE w == [op |-> "saveReport", r |-> r, found |-> r \in report]
  <2>1. w \in Work
    <3>1. (r \in report) \in BOOLEAN
      OBVIOUS
    <3>2. \A b \in BOOLEAN : [op |-> "saveReport", r |-> r, found |-> b] \in Work
      BY NextWork
    <3> QED BY <3>1, <3>2, Zenon
  <2>2. Backed(w, request, task)
    BY <1>7, <1>a DEF CreateReport, Backed, ByAssignee
  <2> QED BY <1>7, <2>1, <2>2 DEF CreateReport
<1>8. ASSUME NEW r \in Request, NEW s \in {"completed", "rejected"},
             ConfirmRequest(c, r, s)
      PROVE  Goal
  <2> DEFINE w == SetStatusWork(r, s)
  <2>1. w \in Work
    BY NextWork DEF RequestStatus
  <2>2. task[r] \in Expert
    BY <1>0, <1>8 DEF ConfirmRequest, WorkHasAssignee
  <2>3. Backed(w, request, task) /\ w.op = "setStatus"
    BY <1>a, <2>2 DEF SetStatusWork, Backed, ByAssignee
  <2> QED BY <1>8, <2>1, <2>3 DEF ConfirmRequest
<1>9. ASSUME NEW r \in Request, NEW u \in Member, CreateMessage(c, r, u)
      PROVE  Goal
  <2> DEFINE w == [op |-> "saveMessage", r |-> r, no |-> channel[r].no]
  <2>1. channel[r].no \in Nat
    BY <1>0 DEF TypeOK, ChannelRow
  <2>2. w \in Work /\ Backed(w, request, task)
    BY <2>1, NextWork DEF Backed, ByAssignee
  <2> QED BY <1>9, <2>2 DEF CreateMessage
<1> HIDE DEF Goal
<1>10. Goal
  BY <1>2, <1>3, <1>4, <1>5, <1>6, <1>7, <1>8, <1>9 DEF Arrive
<1> QED BY <1>10 DEF Goal

LEMMA ContinueKeepsType ==
  ASSUME AssigneeInv, NEW p \in Process, Continue(p)
  PROVE  TypeOK'
<1>0. /\ TypeOK /\ work[p] \in Work /\ Backed(work[p], request, task)
      /\ \A r \in Request : task[r] # "none" => request[r] # Absent
  BY DEF AssigneeInv, TypeOK
<1>1. CASE SaveRequest(p)
  <2>1. PICK r \in Request :
          /\ request[r] = Absent
          /\ request' = [request EXCEPT ![r] =
               [kind |-> work[p].kind,
                status |-> IF work[p].to = "open" THEN "pending"
                                                  ELSE "assigned"]]
          /\ Goto(p, [op |-> "insertTask", r |-> r, to |-> work[p].to])
    BY <1>1 DEF SaveRequest
  <2>2. work[p].kind \in Kind /\ work[p].to \in Assignee
    BY <1>0, <1>1, WorkFields DEF SaveRequest, InsertRequest
  <2>3. request' \in [Request -> RequestRow]
    BY <1>0, <2>1, <2>2 DEF TypeOK, RequestRow, RequestStatus
  <2>4. work' \in [Process -> Work]
    BY <1>0, <2>1, <2>2, NextWork, GotoKeepsType
  <2> QED BY <1>0, <1>1, <2>3, <2>4 DEF TypeOK, SaveRequest
<1>2. CASE CreateTask(p) \/ SaveTask(p)
  <2>1. work[p].r \in Request /\ work[p].to \in TaskRow
    BY <1>0, <1>2, WorkFields DEF CreateTask, SaveTask, WriteTask, TaskRow
  <2>2. work' \in [Process -> Work]
    BY <1>0, <1>2, <2>1, NextWork, GotoKeepsType
       DEF CreateTask, SaveTask, RequestStatus
  <2> QED BY <1>0, <1>2, <2>1, <2>2 DEF TypeOK, CreateTask, SaveTask
<1>3. CASE UpdateRequestStatus(p)
  <2>1. work[p].r \in Request /\ work[p].to \in RequestStatus
    BY <1>0, <1>3, WorkFields DEF UpdateRequestStatus, SetStatusTo
  <2>2. request[work[p].r] \in [kind: Kind, status: RequestStatus]
    BY <1>0, <1>3, <2>1
       DEF UpdateRequestStatus, Backed, TypeOK, RequestRow
  <2>3. request' \in [Request -> RequestRow]
    BY <1>0, <1>3, <2>1, <2>2 DEF UpdateRequestStatus, TypeOK, RequestRow
  <2>4. work' \in [Process -> Work]
    BY <1>0, <1>3, NextWork, GotoKeepsType DEF UpdateRequestStatus
  <2> QED BY <1>0, <1>3, <2>3, <2>4 DEF TypeOK, UpdateRequestStatus
<1>4. CASE InsertChannel(p)
  <2>1. work[p].r \in Request /\ work[p].e \in Expert
    BY <1>0, <1>4, WorkFields DEF InsertChannel, OpenChannel
  <2>2. channel[work[p].r].no + 1 \in Nat
    BY <1>0, <2>1 DEF TypeOK, ChannelRow
  <2>3. channel' \in [Request -> ChannelRow]
    BY <1>0, <1>4, <2>2 DEF InsertChannel, TypeOK, ChannelRow
  <2>4. work' \in [Process -> Work]
    BY <1>0, <1>4, <2>1, <2>2, NextWork, GotoKeepsType DEF InsertChannel, Member
  <2> QED BY <1>0, <1>4, <2>3, <2>4 DEF TypeOK, InsertChannel
<1>5. CASE JoinChannel(p)
  <2>1. /\ work[p] \in JoinAs /\ work[p].r \in Request /\ work[p].no \in Nat
        /\ work[p].who \in Member
    BY <1>0, <1>5, WorkFields DEF JoinChannel, JoinAs
  <2>2. [work[p] EXCEPT !.who = work[p].e] \in JoinAs
    BY <2>1 DEF JoinAs, Member
  <2>3. [work[p] EXCEPT !.who = work[p].e] \in Work
    BY <2>2 DEF Work
  <2>4. work' \in [Process -> Work]
    BY <1>0, <1>5, <2>1, <2>3, NextWork, GotoKeepsType DEF JoinChannel
  <2>5. joined' \in [Request -> SUBSET Member]
    BY <1>0, <1>5, <2>1 DEF JoinChannel, TypeOK
  <2> QED BY <1>0, <1>5, <2>4, <2>5 DEF TypeOK, JoinChannel
<1>6. CASE SaveMessage(p)
  <2>1. work[p].r \in Request
    BY <1>0, <1>6, WorkFields DEF SaveMessage, PutMessage
  <2>2. work' \in [Process -> Work]
    BY <1>0, <1>6, <2>1, NextWork, GotoKeepsType DEF SaveMessage, RequestStatus
  <2>3. message' \in [Request -> Nat]
    BY <1>0, <1>6, <2>1 DEF SaveMessage, TypeOK
  <2> QED BY <1>0, <1>6, <2>2, <2>3 DEF TypeOK, SaveMessage
<1>7. CASE SaveReport(p)
  <2>1. work[p].r \in Request
    BY <1>0, <1>7, WorkFields DEF SaveReport, PutReport
  <2>2. work' \in [Process -> Work]
    BY <1>0, <1>7, <2>1, NextWork, GotoKeepsType DEF SaveReport, RequestStatus
  <2> QED BY <1>0, <1>7, <2>1, <2>2 DEF TypeOK, SaveReport
<1>8. CASE SetChannelToExpired(p)
  <2>1. work[p].r \in Request
    BY <1>0, <1>8, WorkFields DEF SetChannelToExpired, OnChannel
  <2>2. work' \in [Process -> Work]
    BY <1>0, <1>8, <2>1, NextWork, GotoKeepsType
       DEF SetChannelToExpired, RequestStatus
  <2>3. now + Week \in Nat
    BY <1>0, WorkflowBoundAssumption DEF TypeOK
  <2>4. channel' \in [Request -> ChannelRow]
    BY <1>0, <1>8, <2>1, <2>3 DEF SetChannelToExpired, TypeOK, ChannelRow
  <2> QED BY <1>0, <1>8, <2>2, <2>4 DEF TypeOK, SetChannelToExpired
<1>9. CASE DeleteJoins(p) \/ DeleteMessages(p)
  <2>1. work[p].r \in Request
    BY <1>0, <1>9, WorkFields DEF DeleteJoins, DeleteMessages, OnChannel, Delete
  <2>2. work' \in [Process -> Work]
    BY <1>0, <1>9, <2>1, NextWork, GotoKeepsType DEF DeleteJoins, DeleteMessages
  <2>3. joined' \in [Request -> SUBSET Member] /\ message' \in [Request -> Nat]
    BY <1>0, <1>9 DEF DeleteJoins, DeleteMessages, TypeOK
  <2> QED BY <1>0, <1>9, <2>2, <2>3 DEF TypeOK, DeleteJoins, DeleteMessages
<1>10. CASE DeleteChannel(p)
  <2>1. work' \in [Process -> Work]
    BY <1>0, <1>10, NextWork, GotoKeepsType DEF DeleteChannel
  <2>2. channel' \in [Request -> ChannelRow]
    BY <1>0, <1>10 DEF DeleteChannel, TypeOK, ChannelRow
  <2> QED BY <1>0, <1>10, <2>1, <2>2 DEF TypeOK, DeleteChannel
<1> QED BY <1>1, <1>2, <1>3, <1>4, <1>5, <1>6, <1>7, <1>8, <1>9, <1>10
        DEF Continue

\* A step of process p keeps the invariant if the work it leaves p is backed, and
\* no row that backs the work of another goes back.
LEMMA StepKeepsAssignee ==
  ASSUME AssigneeInv, TypeOK', WorkHasAssignee', NEW p \in Process, NEW w,
         Goto(p, w), Backed(w, request', task'),
         \A r \in Request :
           /\ task'[r] # "none" => request'[r] # Absent
           /\ request[r] # Absent => request'[r] # Absent
           /\ task[r] # "none" => task'[r] # "none"
           /\ task[r] \in Expert => task'[r] \in Expert,
         \A q \in Process \ {p} : work[q].op = "insertTask"
           => /\ task'[work[q].r] = "none"
              /\ w.op = "insertTask" => w.r # work[q].r
  PROVE  AssigneeInv'
<1>1. \A q \in Process : work'[q] = IF q = p THEN w ELSE work[q]
  BY DEF AssigneeInv, TypeOK, Goto
<1>2. \A q \in Process : /\ work[q] \in Work
                         /\ Backed(work[q], request, task)
  BY DEF AssigneeInv, TypeOK
<1>3. ASSUME NEW q \in Process \ {p}
      PROVE  Backed(work[q], request', task')
  <2>1. work[q].op \in {"insertTask", "saveTask", "setStatus"} \cup ByAssignee
          => work[q].r \in Request
    BY <1>2, WorkFields DEF ByAssignee, WriteTask, SetStatusTo, OpenChannel,
       JoinAs, PutMessage, PutReport, OnChannel
  <2> QED BY <1>2, <2>1 DEF Backed
<1>4. \A q \in Process : Backed(work'[q], request', task')
  BY <1>1, <1>3
<1>5. \A q, o \in Process :
        work'[q].op = "insertTask" /\ work'[o].op = "insertTask"
          /\ work'[q].r = work'[o].r => q = o
  BY <1>1 DEF AssigneeInv
<1> QED BY <1>4, <1>5 DEF AssigneeInv

\* A step that writes neither requests nor tasks.
LEMMA AsideKeepsAssignee ==
  ASSUME AssigneeInv, TypeOK', NEW p \in Process, NEW w, Goto(p, w),
         Backed(w, request, task), w.op # "insertTask",
         request' = request, task' = task
  PROVE  AssigneeInv'
<1>1. \A q \in Process : work[q].op = "insertTask" => task[work[q].r] = "none"
  BY DEF AssigneeInv, Backed
<1>2. WorkHasAssignee'
  BY DEF AssigneeInv, WorkHasAssignee
<1>3. \A r \in Request : task[r] # "none" => request[r] # Absent
  BY DEF AssigneeInv
<1> QED BY <1>1, <1>2, <1>3, StepKeepsAssignee

LEMMA ContinueKeepsAssignee ==
  ASSUME AssigneeInv, NEW p \in Process, Continue(p)
  PROVE  AssigneeInv'
<1>0. /\ TypeOK /\ TypeOK' /\ work[p] \in Work /\ WorkHasAssignee
      /\ Backed(work[p], request, task)
      /\ \A r \in Request : task[r] # "none" => request[r] # Absent
      /\ \A q \in Process : Backed(work[q], request, task)
      /\ \A q \in Process : work[q] \in Work
  BY ContinueKeepsType DEF AssigneeInv, TypeOK
<1>a. \A e \in Expert : e \in Assignee /\ e # "none"
  BY PeopleAssumption DEF Assignee
<1>b. Backed(Idle, request, task) /\ Backed(Idle, request', task')
  BY DEF Backed, Idle, ByAssignee
<1>c. \A q \in Process : work[q].op = "insertTask"
        => /\ work[q].r \in Request /\ task[work[q].r] = "none"
           /\ request[work[q].r] # Absent
  BY <1>0, WorkFields DEF Backed, WriteTask
<1>1. CASE SaveRequest(p)
  <2>1. PICK r \in Request :
          /\ request[r] = Absent
          /\ request' = [request EXCEPT ![r] =
               [kind |-> work[p].kind,
                status |-> IF work[p].to = "open" THEN "pending"
                                                  ELSE "assigned"]]
          /\ Goto(p, [op |-> "insertTask", r |-> r, to |-> work[p].to])
    BY <1>1 DEF SaveRequest
  <2> DEFINE w == [op |-> "insertTask", r |-> r, to |-> work[p].to]
  <2>2. /\ request'[r].status \in {"pending", "assigned"} /\ task' = task
        /\ request'[r] # Absent
        /\ \A x \in Request \ {r} : request'[x] = request[x]
    <3>1. request'[r] = [kind |-> work[p].kind,
                         status |-> IF work[p].to = "open" THEN "pending"
                                                           ELSE "assigned"]
      BY <1>0, <2>1 DEF TypeOK
    <3> QED BY <1>0, <1>1, <2>1, <3>1 DEF TypeOK, Absent, SaveRequest
  <2>3. task[r] = "none"
    BY <1>0, <2>1
  <2>4. WorkHasAssignee'
    BY <1>0, <2>2 DEF WorkHasAssignee
  <2>5. Backed(w, request', task')
    BY <2>2, <2>3 DEF Backed, ByAssignee
  <2>6. \A q \in Process \ {p} : work[q].op = "insertTask"
          => task'[work[q].r] = "none" /\ r # work[q].r
    BY <1>c, <2>1, <2>2
  <2>7. \A x \in Request :
           /\ task'[x] # "none" => request'[x] # Absent
           /\ request[x] # Absent => request'[x] # Absent
    BY <1>0, <2>1, <2>2
  <2>8. Goto(p, w) /\ w.op = "insertTask" /\ w.r = r
    BY <2>1
  <2> HIDE DEF w
  <2> QED BY <1>0, <2>2, <2>4, <2>5, <2>6, <2>7, <2>8, StepKeepsAssignee
<1>2. CASE CreateTask(p)
  <2> DEFINE r == work[p].r
  <2>1. /\ r \in Request /\ work[p].to \in Assignee /\ task[r] = "none"
        /\ request[r] # Absent /\ work[p].op = "insertTask"
    BY <1>0, <1>2, WorkFields DEF CreateTask, WriteTask, Backed
  <2>2. /\ task'[r] = work[p].to /\ request' = request /\ Goto(p, Idle)
        /\ \A x \in Request \ {r} : task'[x] = task[x]
    BY <1>0, <1>2, <2>1 DEF CreateTask, TypeOK
  <2>3. task[r] \notin Expert
    BY <1>a, <2>1
  <2>4. WorkHasAssignee'
    BY <1>0, <2>2, <2>3 DEF WorkHasAssignee
  <2>5. \A q \in Process \ {p} : work[q].op = "insertTask"
          => task'[work[q].r] = "none" /\ Idle.op # "insertTask"
    <3>1. \A q \in Process \ {p} : work[q].op = "insertTask" => work[q].r # r
      BY <2>1 DEF AssigneeInv
    <3> QED BY <1>c, <2>2, <3>1 DEF Idle
  <2>6. \A x \in Request : task'[x] # "none" => request'[x] # Absent
    BY <1>0, <2>1, <2>2
  <2> QED BY <1>0, <1>b, <2>1, <2>2, <2>3, <2>4, <2>5, <2>6, StepKeepsAssignee
<1>3. CASE SaveTask(p)
  <2> DEFINE r == work[p].r
             w == SetStatusWork(r, "assigned")
  <2>1. /\ r \in Request /\ work[p].to \in Expert /\ task[r] # "none"
        /\ request[r] # Absent /\ work[p].op # "insertTask"
    BY <1>0, <1>3, WorkFields DEF SaveTask, WriteTask, Backed
  <2>2. /\ task'[r] = work[p].to /\ request' = request /\ Goto(p, w)
        /\ \A x \in Request \ {r} : task'[x] = task[x]
    BY <1>0, <1>3, <2>1 DEF SaveTask, TypeOK
  <2>3. task'[r] \in Expert /\ task'[r] # "none"
    BY <1>a, <2>1, <2>2
  <2>4. WorkHasAssignee'
    BY <1>0, <2>2, <2>3 DEF WorkHasAssignee
  <2>5. w.op = "setStatus" /\ w.r = r /\ w.to = "assigned"
    BY DEF SetStatusWork
  <2>6. Backed(w, request', task')
    BY <2>3, <2>5 DEF Backed, ByAssignee, Worked
  <2>7. \A q \in Process : work[q].op = "insertTask" => task'[work[q].r] = "none"
    BY <1>c, <2>1, <2>2
  <2>8. \A x \in Request : task'[x] # "none" => request'[x] # Absent
    BY <1>0, <2>1, <2>2
  <2> HIDE DEF w
  <2> QED BY <1>0, <2>2, <2>3, <2>4, <2>5, <2>6, <2>7, <2>8, StepKeepsAssignee
<1>4. CASE UpdateRequestStatus(p)
  <2> DEFINE r == work[p].r
  <2>1. /\ r \in Request /\ work[p].to \in RequestStatus /\ task[r] # "none"
        /\ work[p].to \in Worked => task[r] \in Expert
        /\ request[r] # Absent
    BY <1>0, <1>4, WorkFields DEF UpdateRequestStatus, SetStatusTo, Backed
  <2>2. request[r] \in [kind: Kind, status: RequestStatus]
    BY <1>0, <2>1 DEF TypeOK, RequestRow
  <2>3. /\ request'[r] = [request[r] EXCEPT !.status = work[p].to]
        /\ task' = task /\ Goto(p, Idle)
        /\ \A x \in Request \ {r} : request'[x] = request[x]
    BY <1>0, <1>4, <2>1 DEF UpdateRequestStatus, TypeOK
  <2>4. request'[r].status = work[p].to /\ request'[r] # Absent
    BY <2>1, <2>2, <2>3 DEF Absent, RequestStatus
  <2>5. WorkHasAssignee'
    BY <1>0, <2>1, <2>3, <2>4 DEF WorkHasAssignee, Worked
  <2>6. \A q \in Process : work[q].op = "insertTask" => task'[work[q].r] = "none"
    BY <1>c, <2>3
  <2>7. \A x \in Request :
           /\ task'[x] # "none" => request'[x] # Absent
           /\ request[x] # Absent => request'[x] # Absent
    BY <1>0, <2>3, <2>4
  <2>8. Idle.op # "insertTask"
    BY DEF Idle
  <2> QED BY <1>0, <1>b, <2>3, <2>5, <2>6, <2>7, <2>8, StepKeepsAssignee
<1>5. CASE \/ InsertChannel(p) \/ JoinChannel(p) \/ SaveMessage(p)
           \/ SaveReport(p) \/ SetChannelToExpired(p)
  <2>1. request' = request /\ task' = task
    BY <1>5 DEF InsertChannel, JoinChannel, SaveMessage, SaveReport,
         SetChannelToExpired
  <2>2. PICK w : /\ Goto(p, w)
                 /\ \/ w = Idle
                    \/ /\ work[p].op \in ByAssignee /\ w.r = work[p].r
                       /\ w.op \in {"setStatus"} \cup ByAssignee
    <3>1. CASE InsertChannel(p)
      BY <3>1 DEF InsertChannel, ByAssignee
    <3>2. CASE JoinChannel(p)
      <4>1. work[p] \in JoinAs
        BY <1>0, <3>2, WorkFields DEF JoinChannel
      <4>2. /\ [work[p] EXCEPT !.who = work[p].e].op = "join"
            /\ [work[p] EXCEPT !.who = work[p].e].r = work[p].r
        BY <4>1 DEF JoinAs
      <4>3. \/ Goto(p, Idle)
            \/ Goto(p, [work[p] EXCEPT !.who = work[p].e])
            \/ Goto(p, [op |-> "firstMessage", r |-> work[p].r,
                        no |-> work[p].no])
        BY <3>2 DEF JoinChannel
      <4>4. work[p].op = "join"
        BY <3>2 DEF JoinChannel
      <4>5. CASE Goto(p, [work[p] EXCEPT !.who = work[p].e])
        <5> DEFINE w == [work[p] EXCEPT !.who = work[p].e]
        <5>1. Goto(p, w) /\ w.op = "join" /\ w.r = work[p].r
          BY <4>2, <4>5
        <5> HIDE DEF w
        <5> QED BY <4>4, <5>1 DEF ByAssignee
      <4> QED BY <4>3, <4>4, <4>5 DEF ByAssignee
    <3>3. CASE SaveMessage(p)
      <4>1. CASE Goto(p, Idle)
        BY <4>1
      <4>2. CASE ~Goto(p, Idle)
        <5> DEFINE w == SetStatusWork(work[p].r, "in_progress")
        <5>1. Goto(p, w) /\ work[p].op = "firstMessage"
          BY <3>3, <4>2 DEF SaveMessage
        <5>2. w.op = "setStatus" /\ w.r = work[p].r
          BY DEF SetStatusWork
        <5> HIDE DEF w
        <5> QED BY <5>1, <5>2 DEF ByAssignee
      <4> QED BY <4>1, <4>2
    <3>4. CASE SaveReport(p)
      BY <3>4 DEF SaveReport, SetStatusWork, ByAssignee
    <3>5. CASE SetChannelToExpired(p)
      BY <3>5 DEF SetChannelToExpired, SetStatusWork, ByAssignee
    <3> QED BY <1>5, <3>1, <3>2, <3>3, <3>4, <3>5
  <2>3. Backed(w, request, task) /\ w.op # "insertTask"
    BY <1>0, <1>a, <1>b, <2>2 DEF Backed, ByAssignee, Idle
  <2> QED BY <1>0, <2>1, <2>2, <2>3, AsideKeepsAssignee
<1>6. CASE DeleteJoins(p) \/ DeleteMessages(p) \/ DeleteChannel(p)
  <2>1. request' = request /\ task' = task
    BY <1>6 DEF DeleteJoins, DeleteMessages, DeleteChannel
  <2>2. PICK w : Goto(p, w) /\ (w = Idle \/ w.op \in Delete)
    BY <1>6 DEF DeleteJoins, DeleteMessages, DeleteChannel, Delete
  <2>3. Backed(w, request, task) /\ w.op # "insertTask"
    BY <1>b, <2>2 DEF Backed, ByAssignee, Delete, Idle
  <2> QED BY <1>0, <2>1, <2>2, <2>3, AsideKeepsAssignee
<1> QED BY <1>1, <1>2, <1>3, <1>4, <1>5, <1>6 DEF Continue

LEMMA RestKeepsAssignee ==
  ASSUME AssigneeInv,
         \/ \E p \in Process : Fail(p)
         \/ CheckingChannelIsExpired \/ NextChannel \/ Tick \/ UNCHANGED vars
  PROVE  AssigneeInv'
<1>0. TypeOK /\ Backed(Idle, request, task) /\ Idle.op # "insertTask"
  BY DEF AssigneeInv, Backed, Idle, ByAssignee
<1>1. ASSUME NEW p \in Process, Fail(p)
      PROVE  AssigneeInv'
  <2>1. work' \in [Process -> Work]
    BY <1>0, <1>1, NextWork, GotoKeepsType DEF Fail
  <2>2. TypeOK'
    BY <1>0, <1>1, <2>1 DEF TypeOK, Fail, tables
  <2>3. Goto(p, Idle) /\ request' = request /\ task' = task
    BY <1>1 DEF Fail, tables
  <2> QED BY <1>0, <2>2, <2>3, AsideKeepsAssignee
<1>2. CASE NextChannel
  <2>1. PICK r \in todo : /\ todo' = todo \ {r}
                          /\ Goto(Job, [op |-> "deleteJoins", r |-> r])
    BY <1>2 DEF NextChannel
  <2> DEFINE w == [op |-> "deleteJoins", r |-> r]
  <2>2. /\ w \in Work /\ Job \in Process /\ Backed(w, request, task)
        /\ w.op # "insertTask" /\ Goto(Job, w)
    BY <1>0, <2>1, NextWork DEF TypeOK, Process, Backed, ByAssignee
  <2> HIDE DEF w
  <2>3. work' \in [Process -> Work]
    BY <1>0, <2>2, GotoKeepsType
  <2>4. TypeOK' /\ request' = request /\ task' = task
    BY <1>0, <1>2, <2>1, <2>3 DEF TypeOK, NextChannel, tables
  <2> QED BY <2>2, <2>4, AsideKeepsAssignee
<1>3. CASE CheckingChannelIsExpired \/ Tick \/ UNCHANGED vars
  <2>1. request' = request /\ task' = task /\ work' = work
    BY <1>3 DEF CheckingChannelIsExpired, Tick, vars, tables
  <2>2. TypeOK'
    BY <1>0, <1>3 DEF CheckingChannelIsExpired, Tick, vars, tables, TypeOK
  <2> QED BY <2>1, <2>2 DEF AssigneeInv, WorkHasAssignee
<1> QED BY <1>1, <1>2, <1>3

LEMMA NextKeepsAssignee ==
  ASSUME AssigneeInv, [Next]_vars
  PROVE  AssigneeInv'
<1>1. ASSUME NEW c \in Call, Arrive(c)
      PROVE  AssigneeInv'
  <2>1. PICK w \in Work :
          /\ Start(c, w) /\ Backed(w, request, task)
          /\ w.op \in {"insertRequest", "saveTask", "setStatus", "insertChannel",
                       "saveReport", "saveMessage"}
    BY <1>1, ArriveStarts
  <2>2. /\ Goto(c, w) /\ c \in Process /\ w.op # "insertTask"
        /\ request' = request /\ task' = task /\ TypeOK
    BY <2>1 DEF Start, tables, Process, AssigneeInv
  <2>3. work' \in [Process -> Work]
    BY <2>2, GotoKeepsType
  <2>4. TypeOK'
    BY <2>1, <2>2, <2>3 DEF TypeOK, Start, tables
  <2> QED BY <2>1, <2>2, <2>4, AsideKeepsAssignee
<1> QED BY <1>1, ContinueKeepsAssignee, RestKeepsAssignee DEF Next

LEMMA InitAssigneeInv == Init => AssigneeInv
<1> SUFFICES ASSUME Init PROVE AssigneeInv
  OBVIOUS
<1>1. /\ \A p \in Process : work[p] = Idle
      /\ \A r \in Request : request[r].status = "none" /\ task[r] = "none"
  BY DEF Init, Absent
<1>2. \A p \in Process : Backed(work[p], request, task)
  BY <1>1 DEF Backed, Idle, ByAssignee
<1>3. \A p \in Process : work[p].op # "insertTask"
  BY <1>1 DEF Idle
<1> QED BY <1>1, <1>2, <1>3, InitTypeOK DEF AssigneeInv, WorkHasAssignee

LEMMA AssigneeInvHolds == Spec => []AssigneeInv
<1>1. AssigneeInv /\ [Next]_vars => AssigneeInv'
  BY NextKeepsAssignee
<1> QED BY InitAssigneeInv, <1>1, PTL DEF Spec

\* The rows of requests, tasks, channels and messages and the work in flight are
\* well formed, however calls and the job interleave and fail: an update never
\* meets a request, or a task, that was not saved.
THEOREM WorkflowTypeCorrect == Spec => []TypeOK
<1>1. AssigneeInv => TypeOK
  BY DEF AssigneeInv
<1> QED BY AssigneeInvHolds, <1>1, PTL

\* However calls interleave and fail, no request is worked on, or done, without
\* somebody its task was assigned to, for any number of requests and calls.
THEOREM WorkHasAssigneeHolds == Spec => []WorkHasAssignee
<1>1. AssigneeInv => WorkHasAssignee
  BY DEF AssigneeInv
<1> QED BY AssigneeInvHolds, <1>1, PTL

-----------------------------------------------------------------------------
\* A step of process p keeps what the job may delete if it only adds reports,
\* expires only the channels of reported chats and takes none back but the one
\* it deletes.
LEMMA StepKeepsDelete ==
  ASSUME AssigneeInv, DeleteInv, NEW p \in Process, NEW w, Goto(p, w),
         report \subseteq report', todo' \subseteq todo,
         \A r \in Request :
           /\ channel'[r].status = "expired"
                => channel[r].status = "expired" \/ r \in report'
           /\ channel[r].status = "expired"
                => \/ channel'[r].status = "expired"
                   \/ work[p].op = "deleteChannel" /\ work[p].r = r,
         w.op = "expireChannel" => w.r \in report',
         w.op \in Delete
           => p = Job /\ channel'[w.r].status = "expired" /\ w.r \notin todo'
  PROVE  DeleteInv'
<1>1. \A q \in Process : work'[q] = IF q = p THEN w ELSE work[q]
  BY DEF AssigneeInv, TypeOK, Goto
<1>2. \A q \in Process : work[q].op \in Delete => work[q].r \in Request
  BY WorkFields DEF AssigneeInv, TypeOK, OnChannel
<1>3. todo \subseteq Request
  BY DEF AssigneeInv, TypeOK
<1>4. \A r \in Request : channel'[r].status = "expired" => r \in report'
  BY DEF DeleteInv
<1>5. \A q \in Process : work'[q].op = "expireChannel" => work'[q].r \in report'
  BY <1>1 DEF DeleteInv
<1>6. \A q \in Process : work'[q].op \in Delete
        => /\ q = Job /\ channel'[work'[q].r].status = "expired"
           /\ work'[q].r \notin todo'
  <2> SUFFICES ASSUME NEW q \in Process, work'[q].op \in Delete, q # p
               PROVE  /\ q = Job /\ channel'[work'[q].r].status = "expired"
                      /\ work'[q].r \notin todo'
    BY <1>1
  <2>1. /\ work'[q] = work[q] /\ work[q].op \in Delete /\ q = Job
        /\ channel[work[q].r].status = "expired" /\ work[q].r \notin todo
        /\ work[p].op \notin Delete
    BY <1>1 DEF DeleteInv
  <2> QED BY <1>2, <2>1 DEF Delete
<1>7. \A r \in todo' : channel'[r].status = "expired"
  <2> SUFFICES ASSUME NEW r \in todo' PROVE channel'[r].status = "expired"
    OBVIOUS
  <2>1. r \in Request /\ channel[r].status = "expired"
    BY <1>3 DEF DeleteInv
  <2>2. work[p].op = "deleteChannel" => work[p].r # r
    BY DEF DeleteInv, Delete
  <2> QED BY <2>1, <2>2
<1> QED BY <1>4, <1>5, <1>6, <1>7 DEF DeleteInv

LEMMA ContinueKeepsDelete ==
  ASSUME AssigneeInv, DeleteInv, NEW p \in Process, Continue(p)
  PROVE  DeleteInv'
<1>0. TypeOK /\ work[p] \in Work
  BY DEF AssigneeInv, TypeOK
<1>1. CASE \/ SaveRequest(p) \/ CreateTask(p) \/ SaveTask(p)
           \/ UpdateRequestStatus(p) \/ SaveMessage(p)
  <2>1. channel' = channel /\ report' = report /\ todo' = todo
    BY <1>1 DEF SaveRequest, CreateTask, SaveTask, UpdateRequestStatus,
         SaveMessage
  <2>2. PICK w : Goto(p, w) /\ w.op \in {"insertTask", "setStatus", "idle"}
    <3>1. CASE SaveRequest(p)
      <4>1. PICK r \in Request :
              Goto(p, [op |-> "insertTask", r |-> r, to |-> work[p].to])
        BY <3>1 DEF SaveRequest
      <4> QED BY <4>1
    <3>2. CASE CreateTask(p) \/ UpdateRequestStatus(p)
      BY <3>2 DEF CreateTask, UpdateRequestStatus, Idle
    <3>3. CASE SaveTask(p)
      BY <3>3 DEF SaveTask, SetStatusWork
    <3>4. CASE SaveMessage(p)
      <4>1. Goto(p, Idle) \/ Goto(p, SetStatusWork(work[p].r, "in_progress"))
        BY <3>4 DEF SaveMessage
      <4> QED BY <4>1 DEF Idle, SetStatusWork
    <3> QED BY <1>1, <3>1, <3>2, <3>3, <3>4
  <2> QED BY <2>1, <2>2, StepKeepsDelete DEF Delete
<1>2. CASE InsertChannel(p)
  <2> DEFINE r == work[p].r
  <2>1. r \in Request /\ work[p].op = "insertChannel"
    BY <1>0, <1>2, WorkFields DEF InsertChannel, OpenChannel
  <2>2. /\ \A x \in Request \ {r} : channel'[x] = channel[x]
        /\ channel'[r].status \in {channel[r].status, "active"}
        /\ channel[r].status = "expired" => channel'[r] = channel[r]
        /\ report' = report /\ todo' = todo
    BY <1>0, <1>2, <2>1 DEF InsertChannel, TypeOK
  <2>3. PICK w : Goto(p, w) /\ w.op \in {"join", "idle"}
    BY <1>2 DEF InsertChannel, Idle
  <2> QED BY <2>1, <2>2, <2>3, StepKeepsDelete DEF Delete
<1>3. CASE JoinChannel(p)
  <2>1. channel' = channel /\ report' = report /\ todo' = todo
    BY <1>3 DEF JoinChannel
  <2>2. \/ Goto(p, Idle) \/ Goto(p, [work[p] EXCEPT !.who = work[p].e])
        \/ Goto(p, [op |-> "firstMessage", r |-> work[p].r, no |-> work[p].no])
    BY <1>3 DEF JoinChannel
  <2>3. [work[p] EXCEPT !.who = work[p].e].op = "join"
    BY <1>0, <1>3, WorkFields DEF JoinChannel, JoinAs
  <2>4. CASE Goto(p, [work[p] EXCEPT !.who = work[p].e])
    BY <2>1, <2>3, <2>4, StepKeepsDelete DEF Delete
  <2>5. CASE Goto(p, Idle)
    BY <2>1, <2>5, StepKeepsDelete DEF Delete, Idle
  <2>6. CASE Goto(p, [op |-> "firstMessage", r |-> work[p].r, no |-> work[p].no])
    BY <2>1, <2>6, StepKeepsDelete DEF Delete
  <2> QED BY <2>2, <2>4, <2>5, <2>6
<1>4. CASE SaveReport(p)
  <2>1. /\ channel' = channel /\ todo' = todo /\ report \subseteq report'
    BY <1>4 DEF SaveReport
  <2>2. \/ Goto(p, Idle) \/ Goto(p, SetStatusWork(work[p].r, "completed"))
        \/ /\ Goto(p, [op |-> "expireChannel", r |-> work[p].r])
           /\ work[p].r \in report'
    BY <1>4 DEF SaveReport
  <2>3. CASE Goto(p, Idle)
    BY <2>1, <2>3, StepKeepsDelete DEF Delete, Idle
  <2>4. CASE Goto(p, SetStatusWork(work[p].r, "completed"))
    BY <2>1, <2>4, StepKeepsDelete DEF Delete, SetStatusWork
  <2>5. CASE /\ Goto(p, [op |-> "expireChannel", r |-> work[p].r])
             /\ work[p].r \in report'
    BY <2>1, <2>5, StepKeepsDelete DEF Delete
  <2> QED BY <2>2, <2>3, <2>4, <2>5
<1>5. CASE SetChannelToExpired(p)
  <2> DEFINE r == work[p].r
  <2>1. /\ r \in Request /\ r \in report /\ work[p].op = "expireChannel"
    BY <1>0, <1>5, WorkFields DEF SetChannelToExpired, OnChannel, DeleteInv
  <2>2. /\ \A x \in Request \ {r} : channel'[x] = channel[x]
        /\ channel[r].status = "expired" => channel'[r].status = "expired"
        /\ report' = report /\ todo' = todo
    BY <1>0, <1>5, <2>1 DEF SetChannelToExpired, TypeOK, ChannelRow
  <2>3. PICK w : Goto(p, w) /\ w.op \in {"setStatus", "idle"}
    BY <1>5 DEF SetChannelToExpired, Idle, SetStatusWork
  <2> QED BY <2>1, <2>2, <2>3, StepKeepsDelete DEF Delete
<1>6. CASE DeleteJoins(p) \/ DeleteMessages(p)
  <2>1. channel' = channel /\ report' = report /\ todo' = todo
    BY <1>6 DEF DeleteJoins, DeleteMessages
  <2>2. PICK w : /\ Goto(p, w) /\ w.r = work[p].r
                 /\ w.op \in {"deleteMessages", "deleteChannel"}
    BY <1>6 DEF DeleteJoins, DeleteMessages
  <2>3. /\ p = Job /\ channel[work[p].r].status = "expired"
        /\ work[p].r \notin todo
    BY <1>6 DEF DeleteJoins, DeleteMessages, DeleteInv, Delete
  <2> QED BY <2>1, <2>2, <2>3, StepKeepsDelete
<1>7. CASE DeleteChannel(p)
  <2> DEFINE r == work[p].r
  <2>1. r \in Request /\ work[p].op = "deleteChannel"
    BY <1>0, <1>7, WorkFields DEF DeleteChannel, OnChannel, Delete
  <2>2. /\ \A x \in Request \ {r} : channel'[x] = channel[x]
        /\ channel'[r].status \in {channel[r].status, "none"}
        /\ report' = report /\ todo' \subseteq todo /\ Goto(p, Idle)
    BY <1>0, <1>7, <2>1 DEF DeleteChannel, TypeOK, ChannelRow
  <2> QED BY <2>1, <2>2, StepKeepsDelete DEF Delete, Idle
<1> QED BY <1>1, <1>2, <1>3, <1>4, <1>5, <1>6, <1>7 DEF Continue

LEMMA NextKeepsDelete ==
  ASSUME AssigneeInv, DeleteInv, [Next]_vars
  PROVE  DeleteInv'
<1>0. TypeOK
  BY DEF AssigneeInv
<1>1. ASSUME NEW c \in Call, Arrive(c)
      PROVE  DeleteInv'
  <2>1. PICK w \in Work :
          /\ Start(c, w)
          /\ w.op \in {"insertRequest", "saveTask", "setStatus", "insertChannel",
                       "saveReport", "saveMessage"}
    BY <1>1, ArriveStarts
  <2>2. /\ Goto(c, w) /\ c \in Process /\ channel' = channel /\ todo' = todo
        /\ report' = report
    BY <2>1 DEF Start, tables, Process
  <2> QED BY <2>1, <2>2, StepKeepsDelete DEF Delete
<1>2. ASSUME NEW p \in Process, Fail(p)
      PROVE  DeleteInv'
  <2>1. /\ Goto(p, Idle) /\ channel' = channel /\ report' = report
        /\ todo' \subseteq todo
    BY <1>2 DEF Fail, tables
  <2> QED BY <2>1, StepKeepsDelete DEF Delete, Idle
<1>3. CASE CheckingChannelIsExpired
  <2>1. /\ work[Job] = Idle /\ work' = work /\ channel' = channel
        /\ report' = report /\ todo' = {r \in Request : Lapsed(r)}
    BY <1>3 DEF CheckingChannelIsExpired, tables
  <2>2. \A p \in Process : work[p].op \notin Delete
    BY <2>1 DEF DeleteInv, Delete, Idle
  <2> QED BY <2>1, <2>2 DEF DeleteInv, Lapsed
<1>4. CASE NextChannel
  <2>1. PICK r \in todo : /\ todo' = todo \ {r}
                          /\ Goto(Job, [op |-> "deleteJoins", r |-> r])
    BY <1>4 DEF NextChannel
  <2>2. /\ channel' = channel /\ report' = report /\ Job \in Process
        /\ channel[r].status = "expired"
    BY <1>4 DEF NextChannel, tables, Process, DeleteInv
  <2> QED BY <2>1, <2>2, StepKeepsDelete DEF Delete
<1>5. CASE Tick \/ UNCHANGED vars
  <2>1. /\ work' = work /\ channel' = channel /\ report' = report
        /\ todo' = todo
    BY <1>5 DEF Tick, vars, tables
  <2> QED BY <2>1 DEF DeleteInv
<1> QED BY <1>1, <1>2, <1>3, <1>4, <1>5, ContinueKeepsDelete DEF Next

\* Messages and memberships go only with a channel that is on its way out.
LEMMA OnlyExpiredLoses ==
  ASSUME AssigneeInv, DeleteInv, [Next]_vars, NEW r \in Request,
         message'[r] < message[r] \/ (joined[r] # {} /\ joined'[r] = {})
  PROVE  r \in report /\ channel[r].status = "expired"
<1>0. TypeOK
  BY DEF AssigneeInv
<1>1. PICK p \in Process : DeleteJoins(p) \/ DeleteMessages(p)
  <2> SUFFICES ASSUME ~ \E p \in Process : DeleteJoins(p) \/ DeleteMessages(p)
               PROVE  FALSE
    OBVIOUS
  <2>1. CASE UNCHANGED <<joined, message>>
    BY <1>0, <2>1 DEF TypeOK
  <2>2. ASSUME NEW p \in Process, JoinChannel(p) \/ SaveMessage(p)
        PROVE  FALSE
    <3>1. work[p] \in Work
      BY <1>0 DEF TypeOK
    <3>2. work[p].r \in Request
      BY <2>2, <3>1, WorkFields DEF JoinChannel, SaveMessage, JoinAs, PutMessage
    <3>3. CASE JoinChannel(p)
      <4>1. message' = message /\ joined[r] \subseteq joined'[r]
        BY <1>0, <3>2, <3>3 DEF JoinChannel, TypeOK
      <4> QED BY <1>0, <4>1 DEF TypeOK
    <3>4. CASE SaveMessage(p)
      <4>1. joined' = joined /\ message'[r] \in {message[r], message[r] + 1}
        BY <1>0, <3>2, <3>4 DEF SaveMessage, TypeOK
      <4> QED BY <1>0, <4>1 DEF TypeOK
    <3> QED BY <2>2, <3>3, <3>4
  <2>3. ASSUME NEW c \in Call, Arrive(c)
        PROVE  UNCHANGED <<joined, message>>
    BY <2>3, ArriveStarts DEF Start, tables
  <2>4. ASSUME NEW p \in Process, Continue(p)
        PROVE  FALSE
    BY <2>1, <2>2, <2>4 DEF Continue, SaveRequest, CreateTask, SaveTask,
       UpdateRequestStatus, InsertChannel, SaveReport, SetChannelToExpired,
       DeleteChannel
  <2> QED BY <2>1, <2>3, <2>4 DEF Next, Fail, CheckingChannelIsExpired,
           NextChannel, Tick, vars, tables
<1>2. work[p].op \in Delete /\ work[p] \in Work
  BY <1>0, <1>1 DEF DeleteJoins, DeleteMessages, Delete, TypeOK
<1>3. work[p].r \in Request
  BY <1>2, WorkFields DEF OnChannel
<1>4. work[p].r = r
  BY <1>0, <1>1, <1>3 DEF DeleteJoins, DeleteMessages, TypeOK
<1> QED BY <1>2, <1>4 DEF DeleteInv

\* A conversation is deleted only after its support was reported, and once its
\* channel is closed, however the job, reports, messages and failures interleave.
THEOREM OnlyReportedIsDeletedHolds == Spec => OnlyReportedIsDeleted
<1>1. Init => DeleteInv
  <2> SUFFICES ASSUME Init PROVE DeleteInv
    OBVIOUS
  <2>1. /\ todo = {} /\ \A p \in Process : work[p].op = "idle"
        /\ \A r \in Request : channel[r].status = "none"
    BY DEF Init, Idle
  <2> QED BY <2>1 DEF DeleteInv, Delete
<1>2. AssigneeInv /\ DeleteInv /\ [Next]_vars => DeleteInv'
  BY NextKeepsDelete
<1>3. AssigneeInv /\ DeleteInv /\ [Next]_vars
        => [\A r \in Request :
              message'[r] < message[r] \/ (joined[r] # {} /\ joined'[r] = {})
                => r \in report /\ channel[r].status = "expired"]_vars
  BY OnlyExpiredLoses
<1> QED BY AssigneeInvHolds, <1>1, <1>2, <1>3, PTL DEF Spec,
           OnlyReportedIsDeleted

-----------------------------------------------------------------------------
\* The people of a support can talk: r's channel is open and both are in it.
Talks(r, tk, ch, jn) == ch[r].status = "active" /\ {Renter, tk[r]} \subseteq jn[r]

\* While w is the only work in flight, the people of a chat at work can talk, but
\* for the chat w is about to move on; and w opens a channel for the expert that
\* the task still has.
Agree(w, rq, tk, ch, jn) ==
  /\ \A r \in Request :
       rq[r].kind = "chat" /\ rq[r].status = "in_progress"
         => Talks(r, tk, ch, jn) \/ (w.op = "setStatus" /\ w.r = r)
  /\ w.op = "insertChannel" => rq[w.r].kind = "chat" /\ w.e = tk[w.r]
  /\ w.op = "join" =>
       /\ rq[w.r].kind = "chat" /\ w.e = tk[w.r] /\ w.who \in {Renter, w.e}
       /\ ch[w.r].status = "active" /\ ch[w.r].no = w.no
       /\ w.who # Renter => Renter \in jn[w.r]
  /\ w.op = "firstMessage" => /\ Talks(w.r, tk, ch, jn) /\ ch[w.r].no = w.no
  /\ w.op = "setStatus" /\ w.to = "in_progress" /\ rq[w.r].kind = "chat"
       => Talks(w.r, tk, ch, jn)

OneAtATime ==
  /\ \A p, q \in Process : work[p] # Idle /\ work[q] # Idle => p = q
  /\ todo # {} => \A c \in Call : work[c] = Idle

SerialInv ==
  /\ OneAtATime
  /\ (\A p \in Process : work[p] = Idle)
       => Agree(Idle, request, task, channel, joined)
  /\ \A p \in Process : work[p] # Idle
       => Agree(work[p], request, task, channel, joined)

WorkflowSerialInv == serial /\ accidents = 0 => SerialInv

\* A step of the only process at work, which leaves it the work w.
LEMMA StepKeepsSerial ==
  ASSUME TypeOK, OneAtATime, NEW p \in Process, work[p] # Idle, NEW w,
         Goto(p, w), todo' \in {todo, {}},
         Agree(w, request', task', channel', joined')
  PROVE  SerialInv'
<1>1. \A q \in Process \ {p} : work'[q] = Idle
  BY DEF OneAtATime, Goto, TypeOK
<1>2. work'[p] = w
  BY DEF Goto, TypeOK
<1>3. OneAtATime'
  BY <1>1 DEF OneAtATime, Process
<1> QED BY <1>1, <1>2, <1>3 DEF SerialInv

\* A request that starts when nothing is in flight.
LEMMA StartKeepsSerial ==
  ASSUME TypeOK, SerialInv, serial, NEW c \in Call, NEW w, Start(c, w),
         w # Idle,
         Agree(Idle, request, task, channel, joined)
           => Agree(w, request, task, channel, joined)
  PROVE  SerialInv'
<1>1. /\ Quiet /\ Goto(c, w) /\ todo' = todo /\ request' = request
      /\ task' = task /\ channel' = channel /\ joined' = joined
      /\ c \in Process
  BY DEF Start, MayStart, tables, Process
<1>2. /\ \A q \in Process \ {c} : work'[q] = Idle
      /\ work'[c] = w
  BY <1>1 DEF Quiet, Goto, TypeOK
<1>3. Agree(w, request', task', channel', joined')
  BY <1>1 DEF SerialInv, Quiet
<1>4. OneAtATime'
  BY <1>1, <1>2 DEF OneAtATime, Quiet
<1> QED BY <1>1, <1>2, <1>3, <1>4 DEF SerialInv

\* Work that opens no channel and starts no chat rests on nothing.
LEMMA OtherAgrees ==
  ASSUME NEW w, w.op \notin {"idle", "insertChannel", "join", "firstMessage"},
         w.op = "setStatus" =>
           w.to # "in_progress" \/ request[w.r].kind # "chat",
         Agree(Idle, request, task, channel, joined)
  PROVE  Agree(w, request, task, channel, joined) /\ w # Idle
BY DEF Agree, Idle

LEMMA ArriveKeepsSerial ==
  ASSUME TypeOK, SerialInv, serial, NEW c \in Call, Arrive(c)
  PROVE  SerialInv'
<1>1. ASSUME NEW w, Start(c, w),
             w.op \notin {"idle", "insertChannel", "join", "firstMessage"},
             w.op = "setStatus" =>
               w.to # "in_progress" \/ request[w.r].kind # "chat"
      PROVE  SerialInv'
  <2>1. w # Idle
    BY <1>1 DEF Idle
  <2> QED BY <1>1, <2>1, OtherAgrees, StartKeepsSerial
<1>2. CASE CreateRequestViewLand(c)
  BY <1>1, <1>2 DEF CreateRequestViewLand
<1>3. ASSUME NEW kind \in {"direct", "chat"}, NEW to \in Assignee,
             CreateRequestTechnicalSupport(c, kind, to)
      PROVE  SerialInv'
  BY <1>1, <1>3 DEF CreateRequestTechnicalSupport
<1>4. ASSUME NEW r \in Request, NEW e \in Expert, AssignTask(c, r, e)
      PROVE  SerialInv'
  BY <1>1, <1>4 DEF AssignTask
<1>5. ASSUME NEW r \in Request, StartTask(c, r)
      PROVE  SerialInv'
  <2>1. CASE request[r].kind = "chat"
    <3> DEFINE w == [op |-> "insertChannel", r |-> r, e |-> task[r]]
    <3>1. Start(c, w) /\ w # Idle
      BY <1>5, <2>1 DEF StartTask, Idle
    <3>2. Agree(Idle, request, task, channel, joined)
            => Agree(w, request, task, channel, joined)
      BY <2>1 DEF Agree, Idle
    <3> HIDE DEF w
    <3> QED BY <3>1, <3>2, StartKeepsSerial
  <2>2. CASE request[r].kind # "chat"
    BY <1>1, <1>5, <2>2 DEF StartTask, SetStatusWork
  <2> QED BY <2>1, <2>2
<1>6. ASSUME NEW r \in Request, ApproveTask(c, r)
      PROVE  SerialInv'
  BY <1>1, <1>6 DEF ApproveTask, SetStatusWork
<1>7. ASSUME NEW r \in Request, CreateReport(c, r)
      PROVE  SerialInv'
  <2>1. PICK w : Start(c, w) /\ w.op = "saveReport"
    BY <1>7 DEF CreateReport
  <2> QED BY <1>1, <2>1
<1>8. ASSUME NEW r \in Request, NEW s \in {"completed", "rejected"},
             ConfirmRequest(c, r, s)
      PROVE  SerialInv'
  BY <1>1, <1>8 DEF ConfirmRequest, SetStatusWork
<1>9. ASSUME NEW r \in Request, NEW u \in Member, CreateMessage(c, r, u)
      PROVE  SerialInv'
  BY <1>1, <1>9 DEF CreateMessage
<1> QED BY <1>2, <1>3, <1>4, <1>5, <1>6, <1>7, <1>8, <1>9 DEF Arrive

\* The writes to requests and tasks, by the only process at work.
LEMMA RequestKeepsSerial ==
  ASSUME AssigneeInv, SerialInv, NEW p \in Process,
         SaveRequest(p) \/ CreateTask(p) \/ SaveTask(p) \/ UpdateRequestStatus(p)
  PROVE  SerialInv'
<1>0. /\ TypeOK /\ WorkHasAssignee /\ OneAtATime /\ work[p] \in Work
      /\ Backed(work[p], request, task)
  BY DEF AssigneeInv, SerialInv, TypeOK
<1>a. /\ work[p] # Idle /\ todo' = todo
      /\ channel' = channel /\ joined' = joined
      /\ Agree(work[p], request, task, channel, joined)
  BY DEF SaveRequest, CreateTask, SaveTask, UpdateRequestStatus, Idle, SerialInv
<1>1. CASE SaveRequest(p)
  <2>1. PICK r \in Request :
          /\ request' = [request EXCEPT ![r] =
               [kind |-> work[p].kind,
                status |-> IF work[p].to = "open" THEN "pending"
                                                  ELSE "assigned"]]
          /\ Goto(p, [op |-> "insertTask", r |-> r, to |-> work[p].to])
    BY <1>1 DEF SaveRequest
  <2> DEFINE w == [op |-> "insertTask", r |-> r, to |-> work[p].to]
  <2>2. /\ request'[r].status # "in_progress" /\ task' = task
        /\ \A x \in Request \ {r} : request'[x] = request[x]
    BY <1>0, <1>1, <2>1 DEF SaveRequest, TypeOK
  <2>3. Agree(w, request', task', channel', joined')
    BY <1>1, <1>a, <2>2 DEF Agree, SaveRequest
  <2> HIDE DEF w
  <2>4. Goto(p, w)
    BY <2>1 DEF w
  <2> QED BY <1>0, <1>a, <2>3, <2>4, StepKeepsSerial
<1>2. CASE CreateTask(p)
  <2>1. /\ work[p].r \in Request /\ task[work[p].r] = "none"
        /\ work[p].op = "insertTask" /\ Goto(p, Idle) /\ request' = request
    BY <1>0, <1>2, WorkFields DEF CreateTask, Backed, WriteTask
  <2>2. request[work[p].r].status # "in_progress"
    BY <1>0, <2>1, PeopleAssumption DEF WorkHasAssignee
  <2>3. \A x \in Request \ {work[p].r} : task'[x] = task[x]
    BY <1>0, <1>2, <2>1 DEF CreateTask, TypeOK
  <2>4. Agree(Idle, request', task', channel', joined')
    BY <1>a, <2>1, <2>2, <2>3 DEF Agree, Talks, Idle
  <2> QED BY <1>0, <1>a, <2>1, <2>4, StepKeepsSerial
<1>3. CASE SaveTask(p)
  <2> DEFINE r == work[p].r
             w == SetStatusWork(r, "assigned")
  <2>1. /\ r \in Request /\ work[p].op = "saveTask" /\ Goto(p, w)
        /\ request' = request
    BY <1>0, <1>3, WorkFields DEF SaveTask, WriteTask
  <2>2. \A x \in Request \ {r} : task'[x] = task[x]
    BY <1>0, <1>3, <2>1 DEF SaveTask, TypeOK
  <2>3. w.op = "setStatus" /\ w.r = r /\ w.to = "assigned"
    BY DEF SetStatusWork
  <2> HIDE DEF w
  <2>4. Agree(w, request', task', channel', joined')
    BY <1>a, <2>1, <2>2, <2>3 DEF Agree, Talks
  <2> QED BY <1>0, <1>a, <2>1, <2>4, StepKeepsSerial
<1>4. CASE UpdateRequestStatus(p)
  <2> DEFINE r == work[p].r
  <2>1. /\ r \in Request /\ work[p].op = "setStatus" /\ Goto(p, Idle)
        /\ task' = task /\ request[r] # Absent
    BY <1>0, <1>4, WorkFields
       DEF UpdateRequestStatus, SetStatusTo, Backed, AssigneeInv
  <2>2. request[r] \in [kind: Kind, status: RequestStatus]
    BY <1>0, <2>1 DEF TypeOK, RequestRow
  <2>3. /\ request'[r].kind = request[r].kind
        /\ request'[r].status = work[p].to
        /\ \A x \in Request \ {r} : request'[x] = request[x]
    BY <1>0, <1>4, <2>1, <2>2 DEF UpdateRequestStatus, TypeOK
  <2>4. Agree(Idle, request', task', channel', joined')
    BY <1>a, <2>1, <2>3 DEF Agree, Talks, Idle
  <2> QED BY <1>0, <1>a, <2>1, <2>4, StepKeepsSerial
<1> QED BY <1>1, <1>2, <1>3, <1>4

\* The opening of a channel.
LEMMA OpeningKeepsSerial ==
  ASSUME AssigneeInv, SerialInv, NEW p \in Process,
         InsertChannel(p) \/ JoinChannel(p) \/ SaveMessage(p)
  PROVE  SerialInv'
<1> DEFINE r == work[p].r
<1>0. /\ TypeOK /\ OneAtATime /\ work[p] \in Work
      /\ Backed(work[p], request, task)
  BY DEF AssigneeInv, SerialInv, TypeOK
<1>a. /\ work[p] # Idle /\ todo' = todo /\ request' = request /\ task' = task
      /\ Agree(work[p], request, task, channel, joined)
  BY DEF InsertChannel, JoinChannel, SaveMessage, Idle, SerialInv
<1>b. r \in Request
  BY <1>0, WorkFields DEF InsertChannel, JoinChannel, SaveMessage, OpenChannel,
     JoinAs, PutMessage
<1>1. CASE InsertChannel(p)
  <2>1. /\ work[p].op = "insertChannel" /\ joined' = joined
        /\ request[r].kind = "chat" /\ work[p].e = task[r]
    BY <1>1, <1>a DEF InsertChannel, Agree
  <2>2. CASE channel[r].status = "none"
    <3> DEFINE w == [op |-> "join", r |-> r, no |-> channel[r].no + 1,
                     who |-> Renter, e |-> work[p].e]
    <3>1. /\ channel' = [channel EXCEPT ![r] =
               [status |-> "active", due |-> 0, no |-> channel[r].no + 1]]
          /\ Goto(p, w)
      BY <1>1, <2>2 DEF InsertChannel
    <3>2. /\ channel'[r].status = "active"
          /\ channel'[r].no = channel[r].no + 1
          /\ \A x \in Request \ {r} : channel'[x] = channel[x]
      BY <1>0, <1>b, <3>1 DEF TypeOK
    <3>3. \A x \in Request :
            request[x].kind = "chat" /\ request[x].status = "in_progress"
              => Talks(x, task, channel, joined)
      BY <1>a, <2>1 DEF Agree
    <3>4. Agree(w, request', task', channel', joined')
      BY <1>a, <2>1, <2>2, <3>2, <3>3 DEF Agree, Talks
    <3> HIDE DEF w
    <3> QED BY <1>0, <1>a, <3>1, <3>4, StepKeepsSerial
  <2>3. CASE channel[r].status # "none"
    <3>1. channel' = channel /\ Goto(p, Idle)
      BY <1>1, <2>3 DEF InsertChannel
    <3>2. Agree(Idle, request', task', channel', joined')
      BY <1>a, <2>1, <3>1 DEF Agree, Talks, Idle
    <3> QED BY <1>0, <1>a, <3>1, <3>2, StepKeepsSerial
  <2> QED BY <2>2, <2>3
<1>2. CASE JoinChannel(p)
  <2>1. /\ work[p].op = "join" /\ channel' = channel
        /\ request[r].kind = "chat" /\ work[p].e = task[r]
        /\ work[p].who \in {Renter, task[r]}
        /\ channel[r].status = "active" /\ channel[r].no = work[p].no
        /\ work[p].who # Renter => Renter \in joined[r]
    BY <1>2, <1>a DEF JoinChannel, Agree
  <2>2. joined' = [joined EXCEPT ![r] = @ \cup {work[p].who}]
    BY <1>2, <2>1 DEF JoinChannel, IsThere
  <2>3. /\ joined'[r] = joined[r] \cup {work[p].who}
        /\ \A x \in Request \ {r} : joined'[x] = joined[x]
    BY <1>0, <1>b, <2>2 DEF TypeOK
  <2>4. \A x \in Request :
          request[x].kind = "chat" /\ request[x].status = "in_progress"
            => Talks(x, task, channel, joined')
    BY <1>a, <2>1, <2>3 DEF Agree, Talks
  <2>5. CASE work[p].who = Renter
    <3> DEFINE w == [work[p] EXCEPT !.who = work[p].e]
    <3>1. Goto(p, w)
      BY <1>2, <2>1, <2>5 DEF JoinChannel, IsThere
    <3>2. work[p] \in JoinAs
      BY <1>0, <2>1, WorkFields
    <3>3. /\ w.op = "join" /\ w.r = r /\ w.who = task[r] /\ w.e = task[r]
          /\ w.no = work[p].no
      BY <2>1, <3>2 DEF JoinAs
    <3> HIDE DEF w
    <3>4. Agree(w, request', task', channel', joined')
      BY <1>a, <2>1, <2>3, <2>4, <2>5, <3>3 DEF Agree
    <3> QED BY <1>0, <1>a, <3>1, <3>4, StepKeepsSerial
  <2>6. CASE work[p].who # Renter
    <3> DEFINE w == [op |-> "firstMessage", r |-> r, no |-> work[p].no]
    <3>1. Goto(p, w)
      BY <1>2, <2>1, <2>6 DEF JoinChannel, IsThere
    <3>2. Agree(w, request', task', channel', joined')
      BY <1>a, <2>1, <2>3, <2>4, <2>6 DEF Agree, Talks
    <3> HIDE DEF w
    <3> QED BY <1>0, <1>a, <3>1, <3>2, StepKeepsSerial
  <2> QED BY <2>5, <2>6
<1>3. CASE SaveMessage(p)
  <2>1. /\ work[p].op \in {"firstMessage", "saveMessage"}
        /\ channel' = channel /\ joined' = joined
    BY <1>3 DEF SaveMessage
  <2>2. Agree(Idle, request', task', channel', joined')
    BY <1>a, <2>1 DEF Agree, Idle
  <2>3. CASE Goto(p, Idle)
    BY <1>0, <1>a, <2>2, <2>3, StepKeepsSerial
  <2>4. CASE ~Goto(p, Idle)
    <3> DEFINE w == SetStatusWork(r, "in_progress")
    <3>1. Goto(p, w) /\ work[p].op = "firstMessage"
      BY <1>3, <2>4 DEF SaveMessage
    <3>2. w.op = "setStatus" /\ w.r = r /\ w.to = "in_progress"
      BY DEF SetStatusWork
    <3> HIDE DEF w
    <3>3. Agree(w, request', task', channel', joined')
      BY <1>a, <2>1, <3>1, <3>2 DEF Agree
    <3> QED BY <1>0, <1>a, <3>1, <3>3, StepKeepsSerial
  <2> QED BY <2>3, <2>4
<1> QED BY <1>1, <1>2, <1>3

\* The closing of a channel, and its deletion.
LEMMA ClosingKeepsSerial ==
  ASSUME AssigneeInv, DeleteInv, SerialInv, NEW p \in Process,
         \/ SaveReport(p) \/ SetChannelToExpired(p)
         \/ DeleteJoins(p) \/ DeleteMessages(p) \/ DeleteChannel(p)
  PROVE  SerialInv'
<1> DEFINE r == work[p].r
<1>0. /\ TypeOK /\ OneAtATime /\ work[p] \in Work
  BY DEF AssigneeInv, SerialInv, TypeOK
<1>a. /\ work[p] # Idle /\ todo' \in {todo, {}}
      /\ work[p].op \in {"saveReport", "expireChannel"} \cup Delete
      /\ request' = request /\ task' = task
      /\ Agree(work[p], request, task, channel, joined)
  BY DEF SaveReport, SetChannelToExpired, DeleteJoins, DeleteMessages,
     DeleteChannel, Idle, SerialInv, Delete
<1>b. r \in Request
  BY <1>0, <1>a, WorkFields DEF PutReport, OnChannel
<1>c. \A x \in Request :
        request[x].kind = "chat" /\ request[x].status = "in_progress"
          => Talks(x, task, channel, joined)
  BY <1>a DEF Agree, Delete
<1>1. CASE SaveReport(p)
  <2>1. channel' = channel /\ joined' = joined
    BY <1>1 DEF SaveReport
  <2>2. PICK w : /\ Goto(p, w)
                 /\ w.op \in {"idle", "expireChannel", "setStatus"}
                 /\ w.op = "setStatus" => w.to = "completed"
    <3>1. \/ Goto(p, Idle) \/ Goto(p, SetStatusWork(r, "completed"))
          \/ Goto(p, [op |-> "expireChannel", r |-> r])
      BY <1>1 DEF SaveReport
    <3> QED BY <3>1 DEF Idle, SetStatusWork
  <2>3. Agree(w, request', task', channel', joined')
    BY <1>a, <1>c, <2>1, <2>2 DEF Agree
  <2> QED BY <1>0, <1>a, <2>2, <2>3, StepKeepsSerial
<1>2. CASE SetChannelToExpired(p)
  <2>1. CASE channel[r].status = "none"
    <3>1. channel' = channel /\ joined' = joined /\ Goto(p, Idle)
      BY <1>2, <2>1 DEF SetChannelToExpired
    <3>2. Agree(Idle, request', task', channel', joined')
      BY <1>a, <1>c, <3>1 DEF Agree, Idle
    <3> QED BY <1>0, <1>a, <3>1, <3>2, StepKeepsSerial
  <2>2. CASE channel[r].status # "none"
    <3> DEFINE w == SetStatusWork(r, "completed")
    <3>1. /\ \A x \in Request \ {r} : channel'[x] = channel[x]
          /\ joined' = joined /\ Goto(p, w)
      BY <1>0, <1>2, <2>2 DEF SetChannelToExpired, TypeOK
    <3>2. w.op = "setStatus" /\ w.r = r /\ w.to = "completed"
      BY DEF SetStatusWork
    <3> HIDE DEF w
    <3>3. Agree(w, request', task', channel', joined')
      BY <1>a, <1>c, <3>1, <3>2 DEF Agree, Talks
    <3> QED BY <1>0, <1>a, <3>1, <3>3, StepKeepsSerial
  <2> QED BY <2>1, <2>2
<1>3. CASE DeleteJoins(p) \/ DeleteMessages(p) \/ DeleteChannel(p)
  <2>1. channel[r].status = "expired"
    BY <1>3 DEF DeleteJoins, DeleteMessages, DeleteChannel, DeleteInv, Delete
  <2>2. \A x \in Request \ {r} : channel'[x] = channel[x] /\ joined'[x] = joined[x]
    BY <1>0, <1>3 DEF DeleteJoins, DeleteMessages, DeleteChannel, TypeOK
  <2>3. PICK w : Goto(p, w) /\ w.op \in {"idle", "deleteMessages", "deleteChannel"}
    BY <1>3 DEF DeleteJoins, DeleteMessages, DeleteChannel, Idle
  <2>4. Agree(w, request', task', channel', joined')
    BY <1>a, <1>b, <1>c, <2>1, <2>2, <2>3 DEF Agree, Talks
  <2> QED BY <1>0, <1>a, <2>3, <2>4, StepKeepsSerial
<1> QED BY <1>1, <1>2, <1>3

LEMMA JobKeepsSerial ==
  ASSUME TypeOK, SerialInv, serial,
         CheckingChannelIsExpired \/ NextChannel \/ Tick
  PROVE  SerialInv'
<1>1. CASE CheckingChannelIsExpired
  <2>1. /\ Quiet /\ work' = work /\ request' = request /\ task' = task
        /\ channel' = channel /\ joined' = joined
    BY <1>1 DEF CheckingChannelIsExpired, MayStart, tables
  <2> QED BY <2>1 DEF SerialInv, OneAtATime, Quiet, Process
<1>2. CASE NextChannel
  <2>1. PICK r \in todo : /\ todo' = todo \ {r}
                          /\ Goto(Job, [op |-> "deleteJoins", r |-> r])
    BY <1>2 DEF NextChannel
  <2>2. /\ \A q \in Process : work[q] = Idle
        /\ request' = request /\ task' = task /\ channel' = channel
        /\ joined' = joined /\ Agree(Idle, request, task, channel, joined)
    BY <1>2 DEF NextChannel, SerialInv, OneAtATime, Process, tables
  <2> DEFINE w == [op |-> "deleteJoins", r |-> r]
  <2>3. Agree(w, request', task', channel', joined') /\ w # Idle
    BY <2>2, OtherAgrees
  <2>4. /\ \A q \in Process \ {Job} : work'[q] = Idle
        /\ work'[Job] = w
    BY <2>1, <2>2 DEF Goto, TypeOK, Process
  <2>5. OneAtATime'
    BY <2>4, WorkflowJobAssumption DEF OneAtATime, Process
  <2> HIDE DEF w
  <2> QED BY <2>3, <2>4, <2>5 DEF SerialInv, Process
<1>3. CASE Tick
  BY <1>3 DEF Tick, tables, SerialInv, OneAtATime
<1> QED BY <1>1, <1>2, <1>3

LEMMA NextKeepsSerial ==
  ASSUME AssigneeInv, DeleteInv, WorkflowSerialInv, [Next]_vars
  PROVE  WorkflowSerialInv'
<1>0. TypeOK
  BY DEF AssigneeInv
<1>1. SUFFICES ASSUME serial', accidents' = 0 PROVE SerialInv'
  BY DEF WorkflowSerialInv
<1>2. ASSUME NEW p \in Process, Fail(p) PROVE FALSE
  BY <1>0, <1>1, <1>2 DEF Fail, TypeOK
<1>3. serial /\ accidents = 0
  <2>1. ASSUME NEW c \in Call, Arrive(c) PROVE serial /\ accidents = 0
    BY <1>1, <2>1, ArriveStarts DEF Start
  <2> QED BY <1>1, <1>2, <2>1 DEF Next, Continue, SaveRequest, CreateTask,
       SaveTask, UpdateRequestStatus, InsertChannel, JoinChannel, SaveMessage,
       SaveReport, SetChannelToExpired, DeleteJoins, DeleteMessages,
       DeleteChannel, CheckingChannelIsExpired, NextChannel, Tick, vars
<1>4. SerialInv
  BY <1>3 DEF WorkflowSerialInv
<1>5. ASSUME NEW p \in Process, Continue(p) PROVE SerialInv'
  BY <1>4, <1>5, RequestKeepsSerial, OpeningKeepsSerial, ClosingKeepsSerial
     DEF Continue
<1>6. CASE UNCHANGED vars
  BY <1>4, <1>6 DEF vars, tables, SerialInv, OneAtATime
<1> QED BY <1>0, <1>2, <1>3, <1>4, <1>5, <1>6, ArriveKeepsSerial, JobKeepsSerial
        DEF Next

\* When calls do not overlap and nothing has failed, then whenever nothing is in
\* flight the land renter and the expert at work on a chat are both in its channel,
\* and it takes messages: for any number of requests and experts.
THEOREM WorkersCanTalkHolds == Spec => []WorkersCanTalk
<1>1. Init => WorkflowSerialInv /\ DeleteInv
  <2> SUFFICES ASSUME Init PROVE SerialInv /\ DeleteInv
    BY DEF WorkflowSerialInv
  <2>1. /\ todo = {} /\ \A p \in Process : work[p] = Idle
        /\ \A r \in Request : /\ channel[r].status = "none"
                              /\ request[r].status = "none"
    BY DEF Init, Absent
  <2>2. Agree(Idle, request, task, channel, joined)
    BY <2>1 DEF Agree, Idle
  <2>3. DeleteInv
    BY <2>1 DEF DeleteInv, Delete, Idle
  <2>4. OneAtATime
    BY <2>1 DEF OneAtATime
  <2> QED BY <2>1, <2>2, <2>3, <2>4 DEF SerialInv
<1>2. AssigneeInv /\ DeleteInv /\ [Next]_vars => DeleteInv'
  BY NextKeepsDelete
<1>3. AssigneeInv /\ DeleteInv /\ WorkflowSerialInv /\ [Next]_vars
        => WorkflowSerialInv'
  BY NextKeepsSerial
<1>4. WorkflowSerialInv => WorkersCanTalk
  <2> SUFFICES ASSUME WorkflowSerialInv, serial, Quiet, accidents = 0,
                      NEW r \in Request, request[r].kind = "chat",
                      request[r].status = "in_progress"
               PROVE  /\ channel[r].status = "active"
                      /\ {Renter, task[r]} \subseteq joined[r]
    BY DEF WorkersCanTalk
  <2>1. Agree(Idle, request, task, channel, joined)
    BY DEF WorkflowSerialInv, SerialInv, Quiet
  <2> QED BY <2>1 DEF Agree, Talks, Idle
<1> QED BY AssigneeInvHolds, <1>1, <1>2, <1>3, <1>4, PTL DEF Spec
===============================================================================
