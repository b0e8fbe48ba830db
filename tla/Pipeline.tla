------------------------------ MODULE Pipeline ------------------------------
(***************************************************************************)
(* The life of one row of the projects table: its status, the auto-reject  *)
(* deadline auto_reject_at, reject_reason, the documents attached to it    *)
(* and the last line of its status log.  The handlers of                   *)
(* handlers/{projects,documents,appointments,companies}.go, the cron of    *)
(* handlers/cron.go and the Lark inbound path of handlers/lark_inbound.go  *)
(* all update that row, and none of them holds a transaction around its    *)
(* read of the status and its write: every SQL statement is an action of   *)
(* its own here, and a worker (a goroutine serving a request, or the cron) *)
(* keeps between two statements only what it read.                         *)
(***************************************************************************)
EXTENDS StatusRules

CONSTANTS
  Worker,     \* goroutines: requests in flight, the cron, Lark inbound pulls
  DocId,      \* ids of documents ever inserted: the bound on uploads
  DocTypes,   \* the document types uploaded in this instance
  Requested,  \* the statuses users and the Lark table ask for in this instance
  Features    \* which of "lark", "appointments", "faults", "blind" are in play:
              \* "faults", statements fail and processes die; "blind", the read
              \* of the old status fails too, which UpdateProjectStatus ignores

None == "none"

ASSUME DocTypesAssumption == DocTypes \subseteq DocType
ASSUME RequestedAssumption == Requested \subseteq Status
ASSUME DocIdAssumption == DocId \cap DocType = {} /\ None \notin DocId

VARIABLES
  status,     \* projects.status
  timer,      \* projects.auto_reject_at: "null", "armed", or "expired" (in the past)
  reason,     \* projects.reject_reason: "null", "user" or "timeout"
  ownerIsSupport, \* role of the user in projects.created_by is support or admin
  doc,        \* documents rows: the type of each id, or "unused" / "deleted"
  logged,     \* to_status of the newest project_status_logs row
  req         \* what each worker is doing and what it has read

vars == <<status, timer, reason, ownerIsSupport, doc, logged, req>>

Step == {"idle", "touch", "advanceRead", "advanceRole", "advanceDecide", "advanceWrite",
         "deleteRow", "reconcileRead", "reconcileRole", "reconcileDecide", "reconcileWrite",
         "statusWrite", "editWrite", "presentSync", "cronWrite",
         "inboundWrite", "log", "cronLog"}

\* The step a goroutine takes next, the document or document type it is about,
\* the status and the owner's role it read and the status it is going to store.
Request == [step : Step,
            arg : DocType \cup DocId \cup {None},
            seen : Status \cup {None},
            support : BOOLEAN,
            target : Status \cup {None}]

Idle == [step |-> "idle", arg |-> None, seen |-> None, support |-> FALSE, target |-> None]

Docs == {doc[d] : d \in DocId} \cap DocType
Count(t) == Cardinality({d \in DocId : doc[d] = t})

TypeOK ==
  /\ status \in Status
  /\ timer \in {"null", "armed", "expired"}
  /\ reason \in {"null", "user", "timeout"}
  /\ ownerIsSupport \in BOOLEAN
  /\ doc \in [DocId -> DocType \cup {"unused", "deleted"}]
  /\ logged \in Status
  /\ req \in [Worker -> Request]

\* The state CreateProject's INSERT leaves.  It writes no log line.
Init ==
  /\ status = "register"
  /\ timer = "armed"
  /\ reason = "null"
  /\ ownerIsSupport \in BOOLEAN
  /\ doc = [d \in DocId |-> "unused"]
  /\ logged = "register"
  /\ req = [w \in Worker |-> Idle]

At(w, step) == req[w].step = step
GoTo(w, step) == req' = [req EXCEPT ![w].step = step]
Finish(w) == req' = [req EXCEPT ![w] = Idle]

row == <<status, timer, reason>>

\* What the two helper queries may answer.  Their errors are not reported: an
\* owner whose role cannot be read is no support, and a count that fails yields
\* the types scanned until then, none at all when the query itself fails.
RoleRead == {ownerIsSupport} \cup (IF "faults" \in Features THEN {FALSE} ELSE {})
DocsCounted == {Docs} \cup (IF "faults" \in Features THEN SUBSET Docs ELSE {})

\* The UPDATE that changes a status: auto_reject_at follows in the same statement.
StoreStatusOnly(s) == status' = s /\ UNCHANGED timer
StoreStatus(s) == status' = s /\ timer' = TimerFor(s)

\* The guard of every handler that refuses a closed project.
EditableAlways == TRUE
Editable == status # "closed"

\* The values reject_reason can get with status s: a rejection must say why.
ReasonOptional(s) == {"null", "user"}
ReasonsFor(s) == IF s = "reject" THEN {"user"} ELSE {"null", "user"}

\* The cron's WHERE clause.
OverdueRegister == timer = "expired" /\ status = "register"
Overdue == timer = "expired" /\ status \notin Terminal

\* The status a log line says the project moved to.
FromStatus(w) == req[w].seen
UploadedType(w) == req[w].arg
ToStatus(w) == req[w].target

-----------------------------------------------------------------------------
\* POST /documents: the row, inserted under the project's row lock together
\* with the count it depends on.  Nothing looks at the project's status.
CreateDocument(w) ==
  /\ At(w, "idle")
  /\ \E t \in DocTypes, role \in Role, d \in DocId :
       /\ roleMayUploadDocType(role, t)
       /\ Count(t) < DocLimit(t)
       /\ doc[d] = "unused"
       /\ doc' = [doc EXCEPT ![d] = t]
       /\ req' = [req EXCEPT ![w] = [@ EXCEPT !.step = "touch", !.arg = t]]
  /\ UNCHANGED <<row, ownerIsSupport, logged>>

\* Any upload is activity: one UPDATE reads the status and sets the deadline.
ResetTimer(w) ==
  /\ At(w, "touch")
  /\ timer' = TimerFor(status)
  /\ IF req[w].arg \in multiUploadDocs THEN Finish(w) ELSE GoTo(w, "advanceRead")
  /\ UNCHANGED <<status, reason, ownerIsSupport, doc, logged>>

AutoAdvanceRead(w) ==
  /\ At(w, "advanceRead")
  /\ IF status \in {"closed", "reject"}
     THEN Finish(w)
     ELSE req' = [req EXCEPT ![w] = [@ EXCEPT !.step = "advanceRole", !.seen = status]]
  /\ UNCHANGED <<row, ownerIsSupport, doc, logged>>

\* The owner's role, read after the status ...
AutoAdvanceRole(w) ==
  /\ At(w, "advanceRole")
  /\ \E support \in RoleRead :
       req' = [req EXCEPT ![w] = [@ EXCEPT !.step = "advanceDecide", !.support = support]]
  /\ UNCHANGED <<row, ownerIsSupport, doc, logged>>

\* ... and the document counts, read last.
AutoAdvanceDecide(w) ==
  /\ At(w, "advanceDecide")
  /\ \E docs \in DocsCounted :
       LET next == Advance(req[w].seen, req[w].arg, docs, req[w].support)
       IN IF next = req[w].seen
          THEN Finish(w)
          ELSE req' = [req EXCEPT ![w] = [@ EXCEPT !.step = "advanceWrite", !.target = next]]
  /\ UNCHANGED <<row, ownerIsSupport, doc, logged>>

AutoAdvanceWrite(w) ==
  /\ At(w, "advanceWrite")
  /\ StoreStatus(req[w].target)
  /\ GoTo(w, "log")
  /\ UNCHANGED <<reason, ownerIsSupport, doc, logged>>

-----------------------------------------------------------------------------
\* DELETE /documents/:id: the joined read that refuses a closed project.
DeleteDocumentRead(w) ==
  /\ At(w, "idle")
  /\ Editable
  /\ \E d \in DocId :
       /\ doc[d] \in DocType
       /\ req' = [req EXCEPT ![w] = [@ EXCEPT !.step = "deleteRow", !.arg = d]]
  /\ UNCHANGED <<row, ownerIsSupport, doc, logged>>

\* The DELETE itself; a row somebody else removed answers 404.
DeleteDocumentRow(w) ==
  /\ At(w, "deleteRow")
  /\ IF doc[req[w].arg] \in DocType
     THEN /\ doc' = [doc EXCEPT ![req[w].arg] = "deleted"]
          /\ req' = [req EXCEPT ![w] = [@ EXCEPT !.step = "reconcileRead", !.arg = doc[req[w].arg]]]
     ELSE Finish(w) /\ UNCHANGED doc
  /\ UNCHANGED <<row, ownerIsSupport, logged>>

ReconcileRead(w) ==
  /\ At(w, "reconcileRead")
  /\ req' = [req EXCEPT ![w] = [@ EXCEPT !.step = "reconcileRole", !.seen = status]]
  /\ UNCHANGED <<row, ownerIsSupport, doc, logged>>

ReconcileRole(w) ==
  /\ At(w, "reconcileRole")
  /\ \E support \in RoleRead :
       req' = [req EXCEPT ![w] = [@ EXCEPT !.step = "reconcileDecide", !.support = support]]
  /\ UNCHANGED <<row, ownerIsSupport, doc, logged>>

\* A count that failed looks like documents removed: the project is moved back.
ReconcileDecide(w) ==
  /\ At(w, "reconcileDecide")
  /\ \E docs \in DocsCounted :
       LET next == Reconcile(req[w].seen, docs, req[w].support)
       IN IF next = req[w].seen
          THEN Finish(w)
          ELSE req' = [req EXCEPT ![w] = [@ EXCEPT !.step = "reconcileWrite", !.target = next]]
  /\ UNCHANGED <<row, ownerIsSupport, doc, logged>>

ReconcileWrite(w) ==
  /\ At(w, "reconcileWrite")
  /\ StoreStatus(req[w].target)
  /\ GoTo(w, "log")
  /\ UNCHANGED <<reason, ownerIsSupport, doc, logged>>

-----------------------------------------------------------------------------
\* PUT /projects/:id/status: the read that refuses a closed project.
UpdateProjectStatusRead(w) ==
  /\ At(w, "idle")
  /\ Editable
  /\ \E s \in Requested :
       req' = [req EXCEPT ![w] = [@ EXCEPT !.step = "statusWrite", !.seen = status, !.target = s]]
  /\ UNCHANGED <<row, ownerIsSupport, doc, logged>>

\* Its UPDATE stores whatever reason the request carried; a rejection needs one.
UpdateProjectStatusWrite(w) ==
  /\ At(w, "statusWrite")
  /\ StoreStatus(req[w].target)
  /\ reason' \in ReasonsFor(req[w].target)
  /\ GoTo(w, "log")
  /\ UNCHANGED <<ownerIsSupport, doc, logged>>

\* The project_status_logs INSERT of every handler that changed the status.
WriteStatusLog(w) ==
  /\ At(w, "log") \/ At(w, "cronLog")
  /\ logged' = ToStatus(w)
  /\ Finish(w)
  /\ UNCHANGED <<row, ownerIsSupport, doc>>

-----------------------------------------------------------------------------
\* PUT /projects/:id: the status is read first, and the deadline of a project
\* that was not terminal then is armed by the later UPDATE.
UpdateProjectRead(w) ==
  /\ At(w, "idle")
  /\ Editable
  /\ req' = [req EXCEPT ![w] = [@ EXCEPT !.step = "editWrite", !.seen = status]]
  /\ UNCHANGED <<row, ownerIsSupport, doc, logged>>

UpdateProjectWrite(w) ==
  /\ At(w, "editWrite")
  /\ timer' = IF req[w].seen \in Terminal THEN timer ELSE "armed"
  /\ Finish(w)
  /\ UNCHANGED <<status, reason, ownerIsSupport, doc, logged>>

\* Creating or deleting an appointment refuses a closed project, and ends in
\* syncLatestPresentLegacyColumns.
AppointmentRead(w) ==
  /\ "appointments" \in Features
  /\ At(w, "idle")
  /\ Editable
  /\ GoTo(w, "presentSync")
  /\ UNCHANGED <<row, ownerIsSupport, doc, logged>>

\* With a present appointment on the project COALESCE fills an empty deadline;
\* with none the deadline is left alone.
SyncLatestPresent(w) ==
  /\ At(w, "presentSync")
  /\ timer' \in {timer, IF timer = "null" THEN "armed" ELSE timer}
  /\ Finish(w)
  /\ UNCHANGED <<status, reason, ownerIsSupport, doc, logged>>

\* The owner is promoted, demoted, or deleted (created_by becomes NULL).
ChangeOwnerRole(w) ==
  /\ At(w, "idle")
  /\ ownerIsSupport' \in BOOLEAN \ {ownerIsSupport}
  /\ UNCHANGED <<row, doc, logged, req>>

-----------------------------------------------------------------------------
\* runAutoReject: one goroutine, which first collects the overdue projects ...
RunAutoRejectSelect(w) ==
  /\ At(w, "idle")
  /\ \A v \in Worker : ~At(v, "cronWrite") /\ ~At(v, "cronLog")
  /\ Overdue
  /\ req' = [req EXCEPT ![w] = [@ EXCEPT !.step = "cronWrite", !.seen = status, !.target = "reject"]]
  /\ UNCHANGED <<row, ownerIsSupport, doc, logged>>

\* ... and then rejects them one by one, by id.
RunAutoRejectWrite(w) ==
  /\ At(w, "cronWrite")
  /\ status' = "reject"
  /\ timer' = "null"
  /\ reason' = "timeout"
  /\ GoTo(w, "cronLog")
  /\ UNCHANGED <<ownerIsSupport, doc, logged>>

\* A Lark record was edited: its status cell is fetched ...
PullLarkRecord(w) ==
  /\ "lark" \in Features
  /\ At(w, "idle")
  /\ \E s \in Requested :
       req' = [req EXCEPT ![w] = [@ EXCEPT !.step = "inboundWrite", !.target = s]]
  /\ UNCHANGED <<row, ownerIsSupport, doc, logged>>

\* ... and stored as it is: no look at the present status, no deadline, no log.
\* The appointment columns of the record follow.
ApplyLarkInboundPatch(w) ==
  /\ At(w, "inboundWrite")
  /\ status' = req[w].target
  /\ req' = [req EXCEPT ![w] = [Idle EXCEPT !.step = "presentSync"]]
  /\ UNCHANGED <<timer, reason, ownerIsSupport, doc, logged>>

-----------------------------------------------------------------------------
NinetyDaysPass ==
  /\ timer = "armed"
  /\ timer' = "expired"
  /\ UNCHANGED <<status, reason, ownerIsSupport, doc, logged, req>>

\* A statement fails and the handler returns, or the process dies: the rest of
\* the request is lost.
Fault(w) ==
  /\ "faults" \in Features
  /\ ~At(w, "idle")
  /\ Finish(w)
  /\ UNCHANGED <<row, ownerIsSupport, doc, logged>>

\* The UPDATE of ResetTimer fails: its error is ignored and the upload goes on.
ResetTimerFails(w) ==
  /\ "faults" \in Features
  /\ At(w, "touch")
  /\ req[w].arg \notin multiUploadDocs
  /\ GoTo(w, "advanceRead")
  /\ UNCHANGED <<row, ownerIsSupport, doc, logged>>

\* The SELECT of PUT /projects/:id/status fails: its error is ignored, so the old
\* status is empty, which is not "closed", and the handler goes on to its UPDATE.
StatusReadFails(w) ==
  /\ "blind" \in Features
  /\ At(w, "idle")
  /\ \E s \in Requested :
       req' = [req EXCEPT ![w] = [@ EXCEPT !.step = "statusWrite", !.target = s]]
  /\ UNCHANGED <<row, ownerIsSupport, doc, logged>>

Upload(w) == CreateDocument(w) \/ ResetTimer(w) \/ AutoAdvanceRead(w) \/ AutoAdvanceRole(w)
             \/ AutoAdvanceDecide(w) \/ AutoAdvanceWrite(w)
Delete(w) == DeleteDocumentRead(w) \/ DeleteDocumentRow(w) \/ ReconcileRead(w)
             \/ ReconcileRole(w) \/ ReconcileDecide(w) \/ ReconcileWrite(w)
Edit(w) == UpdateProjectStatusRead(w) \/ UpdateProjectStatusWrite(w)
           \/ UpdateProjectRead(w) \/ UpdateProjectWrite(w)
           \/ AppointmentRead(w) \/ SyncLatestPresent(w) \/ ChangeOwnerRole(w)
AutoReject(w) == RunAutoRejectSelect(w) \/ RunAutoRejectWrite(w)
Inbound(w) == PullLarkRecord(w) \/ ApplyLarkInboundPatch(w)
Failure(w) == Fault(w) \/ ResetTimerFails(w) \/ StatusReadFails(w)

Next ==
  \/ NinetyDaysPass
  \/ \E w \in Worker : Upload(w) \/ Delete(w) \/ Edit(w) \/ WriteStatusLog(w)
                       \/ AutoReject(w) \/ Inbound(w) \/ Failure(w)

Spec == Init /\ [][Next]_vars

\* net/http serves every request it accepted to its end, and the ticker of
\* StartAutoRejectCron calls runAutoReject every hour.  The cron's goroutine is
\* never held by a request, so a worker stands ready for it again and again:
\* strong fairness for its selection.  Nobody is obliged to start a request.
Continue(w) ==
  /\ ~At(w, "idle")
  /\ Upload(w) \/ Delete(w) \/ Edit(w) \/ WriteStatusLog(w) \/ AutoReject(w) \/ Inbound(w)

FairSpec ==
  /\ Spec
  /\ \A w \in Worker : WF_vars(Continue(w))
  /\ SF_vars(\E w \in Worker : RunAutoRejectSelect(w))

-----------------------------------------------------------------------------
(***************************************************************************)
(* Properties that hold whatever requests overlap.                         *)
(***************************************************************************)

\* A project in a non-terminal status always has a deadline, so the cron never
\* loses sight of it: each of the eight statements that write status or
\* auto_reject_at keeps the two together although most act on a stale read.
ActiveHasTimer == status \notin Terminal => timer # "null"

\* A rejected project says why, although reject_reason is written by two of the
\* four statements that can change the status and never cleared by the others.
RejectHasReason == status = "reject" => reason # "null"

\* The deadline of a project that is not terminal is dealt with: once it has
\* passed, the cron rejects the project unless somebody acts on it first.
OverdueIsSettled ==
  (timer = "expired" /\ status \notin Terminal)
     ~> (status \in Terminal \/ timer # "expired")

(***************************************************************************)
(* Properties of the handlers when one runs at a time.  With overlapping   *)
(* requests, or with Lark writing into the row, each of them can fail: the *)
(* runs that expect a violation show how.                                  *)
(***************************************************************************)

\* A closed project stays closed (projects.go:408, 532; documents.go:361), whatever
\* else fails, as long as the read that projects.go:404 ignores the error of does not.
ClosedIsFinal == [][status = "closed" => status' = "closed"]_vars

\* Between requests the newest log line names the present status.
LogMatchesStatus == (\A w \in Worker : At(w, "idle")) => logged = status

\* An upload or a deletion moves the project only to a status whose documents
\* are on the project at that moment.
DocumentsBackStatus ==
  [][\A w \in Worker : AutoAdvanceWrite(w) \/ ReconcileWrite(w)
        => Evidence(status', Docs, ownerIsSupport)]_vars

\* "autoAdvanceStatus moves the project to the next sequential status"
\* (documents.go:246): one stage forward, never back and never over a stage.
AdvanceIsSequential ==
  [][\A w \in Worker : AutoAdvanceWrite(w)
        => <<status, status'>> \in {<<"register", "quotation">>, <<"quotation", "tor">>,
                                   <<"tor", "contract">>, <<"contract", "closed">>}]_vars

\* The cron's log line says that nothing was updated for 90 days (cron.go:66):
\* at the moment of the rejection the deadline has passed and nobody re-armed it.
CronRejectsOnlyOverdue ==
  [][\A w \in Worker : RunAutoRejectWrite(w)
        => timer = "expired" /\ status \notin Terminal]_vars

\* "auto_reject_at: NULL for terminal statuses; 90-day window otherwise"
\* (projects.go:439).
TimerMatchesStatus == (status \in Terminal) <=> (timer = "null")

\* "site_survey / attachment do not change pipeline status." (documents.go:237):
\* neither when one is attached nor when one is removed.
ExtrasNeverMoveStatus ==
  [][\A w \in Worker : AutoAdvanceWrite(w) \/ ReconcileWrite(w)
        => req[w].arg \notin multiUploadDocs]_vars

\* One request at a time, the pipeline is the lifecycle its users are promised.
\* A deadline left behind on a terminal project is invisible: the cron's WHERE
\* clause and every later status change pass over it.
Life == INSTANCE Lifecycle WITH
          timer <- IF status \in Terminal THEN "null" ELSE timer

ImplementsLifecycle == Life!Spec
=============================================================================
