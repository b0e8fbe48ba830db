------------------------ MODULE PipelineSerialProofs ------------------------
(***************************************************************************)
(* One goroutine at a time, no Lark: Pipeline implements Lifecycle, for    *)
(* any documents, any requests and any failures but one, that of the read  *)
(* whose error UpdateProjectStatus ignores.  The status a request read is  *)
(* then still the status when it writes (SerialInv), which is all the      *)
(* handlers rely on; the counterexamples kept with two workers, with Lark  *)
(* and with that failing read show that each assumption is needed.         *)
(***************************************************************************)
EXTENDS PipelineProofs

Serial == \A v, w \in Worker : v = w

\* What is still true of the row at the later steps of the only request.
Fresh(r) ==
  /\ r.step \in {"advanceRole", "advanceDecide", "advanceWrite", "deleteRow", "reconcileRead",
                 "reconcileRole", "reconcileDecide", "reconcileWrite", "statusWrite", "editWrite",
                 "presentSync"} => status # "closed"
  /\ r.step = "editWrite" => r.seen = status
  /\ r.step = "cronWrite" => Overdue

SerialInv == RowInv /\ \A w \in Worker : Fresh(req[w])

LEMMA FreshInit == Init => \A w \in Worker : Fresh(req[w])
BY DEF Init, Idle, Fresh

\* The record of the only worker is the only one there is to look at.
LEMMA FreshOne ==
  ASSUME Serial, NEW w \in Worker, Fresh(req[w])'
  PROVE  (\A v \in Worker : Fresh(req[v]))'
BY DEF Serial

LEMMA FreshAt ==
  ASSUME Serial, NEW w \in Worker, req'[w].step \notin {"editWrite", "cronWrite"},
         status' # "closed" \/ req'[w].step \in {"idle", "touch", "advanceRead", "log", "cronLog"}
  PROVE  (\A v \in Worker : Fresh(req[v]))'
BY FreshOne DEF Fresh

LEMMA FreshFinish ==
  ASSUME Serial, TypeOK, NEW w \in Worker, Finish(w)
  PROVE  (\A v \in Worker : Fresh(req[v]))'
<1>1. req'[w].step = "idle"
  BY DEF TypeOK, Finish, Idle
<1> QED
  BY <1>1, FreshAt

\* How a statement leaves the step of its own worker.
LEMMA StepAfter ==
  ASSUME TypeOK, NEW w \in Worker, NEW s
  PROVE  /\ GoTo(w, s) => req'[w].step = s
         /\ \A x : req' = [req EXCEPT ![w] = [@ EXCEPT !.step = s, !.arg = x]]
                  => req'[w].step = s
         /\ \A x : req' = [req EXCEPT ![w] = [@ EXCEPT !.step = s, !.seen = x]]
                  => req'[w].step = s /\ req'[w].seen = x
         /\ \A x : req' = [req EXCEPT ![w] = [@ EXCEPT !.step = s, !.target = x]]
                  => req'[w].step = s
         /\ \A x : req' = [req EXCEPT ![w] = [@ EXCEPT !.step = s, !.support = x]]
                  => req'[w].step = s
         /\ \A x, y : req' = [req EXCEPT ![w] = [@ EXCEPT !.step = s, !.seen = x, !.target = y]]
                  => req'[w].step = s
<1>1. req[w] \in Request /\ w \in DOMAIN req
  BY DEF TypeOK
<1>2. GoTo(w, s) => req'[w].step = s
  BY <1>1 DEF Request, GoTo
<1>3. \A x : req' = [req EXCEPT ![w] = [@ EXCEPT !.step = s, !.arg = x]] => req'[w].step = s
  BY <1>1 DEF Request
<1>4. \A x : req' = [req EXCEPT ![w] = [@ EXCEPT !.step = s, !.seen = x]]
           => req'[w].step = s /\ req'[w].seen = x
  BY <1>1 DEF Request
<1>5. \A x : req' = [req EXCEPT ![w] = [@ EXCEPT !.step = s, !.target = x]] => req'[w].step = s
  BY <1>1 DEF Request
<1>6. \A x, y : req' = [req EXCEPT ![w] = [@ EXCEPT !.step = s, !.seen = x, !.target = y]]
           => req'[w].step = s
  <2> SUFFICES ASSUME NEW x, NEW y,
                      req' = [req EXCEPT ![w] = [@ EXCEPT !.step = s, !.seen = x, !.target = y]]
               PROVE  req'[w].step = s
    OBVIOUS
  <2>1. req'[w] = [req[w] EXCEPT !.step = s, !.seen = x, !.target = y]
    BY <1>1
  <2> QED
    BY <1>1, <2>1 DEF Request
<1>7. \A x : req' = [req EXCEPT ![w] = [@ EXCEPT !.step = s, !.support = x]] => req'[w].step = s
  BY <1>1 DEF Request
<1> QED
  BY <1>2, <1>3, <1>4, <1>5, <1>6, <1>7

LEMMA FreshUpload ==
  ASSUME Serial, SerialInv, NEW w \in Worker, Upload(w)
  PROVE  (\A v \in Worker : Fresh(req[v]))'
<1> USE DEF SerialInv, RowInv
<1>1. CASE CreateDocument(w)
  <2>0. PICK t : req' = [req EXCEPT ![w] = [@ EXCEPT !.step = "touch", !.arg = t]]
    BY <1>1 DEF CreateDocument
  <2>1. req'[w].step = "touch"
    BY <2>0, StepAfter
  <2> QED
    BY <2>1, FreshAt
<1>2. CASE ResetTimer(w)
  <2>1. Finish(w) \/ req'[w].step = "advanceRead"
    BY <1>2, StepAfter DEF ResetTimer
  <2> QED
    BY <2>1, FreshAt, FreshFinish
<1>3. CASE AutoAdvanceRead(w)
  <2>1. Finish(w) \/ (status' # "closed" /\ req'[w].step = "advanceRole")
    BY <1>3, StepAfter DEF AutoAdvanceRead, row
  <2> QED
    BY <2>1, FreshAt, FreshFinish
<1>4. CASE AutoAdvanceDecide(w)
  <2>1. status' # "closed"
    BY <1>4 DEF AutoAdvanceDecide, At, Fresh, row
  <2>2. Finish(w) \/ req'[w].step = "advanceWrite"
    BY <1>4, StepAfter DEF AutoAdvanceDecide
  <2> QED
    BY <2>1, <2>2, FreshAt, FreshFinish
<1>5. CASE AutoAdvanceWrite(w)
  <2>1. req'[w].step = "log"
    BY <1>5, StepAfter DEF AutoAdvanceWrite
  <2> QED
    BY <2>1, FreshAt
<1>6. CASE AutoAdvanceRole(w)
  <2>1. PICK x : req' = [req EXCEPT ![w] = [@ EXCEPT !.step = "advanceDecide", !.support = x]]
    BY <1>6 DEF AutoAdvanceRole
  <2>2. req'[w].step = "advanceDecide"
    BY <2>1, StepAfter
  <2>3. status' # "closed"
    BY <1>6 DEF AutoAdvanceRole, At, Fresh, row
  <2> QED
    BY <2>2, <2>3, FreshAt
<1> QED
  BY <1>1, <1>2, <1>3, <1>4, <1>5, <1>6 DEF Upload

LEMMA FreshDelete ==
  ASSUME Serial, SerialInv, NEW w \in Worker, Delete(w)
  PROVE  (\A v \in Worker : Fresh(req[v]))'
<1> USE DEF SerialInv, RowInv
<1>1. CASE DeleteDocumentRead(w)
  <2>1. status' # "closed" /\ req'[w].step = "deleteRow"
    BY <1>1, StepAfter DEF DeleteDocumentRead, Editable, row
  <2> QED
    BY <2>1, FreshAt
<1>2. CASE DeleteDocumentRow(w)
  <2>1. status' # "closed"
    BY <1>2 DEF DeleteDocumentRow, At, Fresh, row
  <2>2. Finish(w) \/ req'[w].step = "reconcileRead"
    BY <1>2, StepAfter DEF DeleteDocumentRow
  <2> QED
    BY <2>1, <2>2, FreshAt, FreshFinish
<1>3. CASE ReconcileRead(w)
  <2>1. status' # "closed" /\ req'[w].step = "reconcileRole"
    BY <1>3, StepAfter DEF ReconcileRead, At, Fresh, row
  <2> QED
    BY <2>1, FreshAt
<1>4. CASE ReconcileDecide(w)
  <2>1. status' # "closed"
    BY <1>4 DEF ReconcileDecide, At, Fresh, row
  <2>2. Finish(w) \/ req'[w].step = "reconcileWrite"
    BY <1>4, StepAfter DEF ReconcileDecide
  <2> QED
    BY <2>1, <2>2, FreshAt, FreshFinish
<1>5. CASE ReconcileWrite(w)
  <2>1. req'[w].step = "log"
    BY <1>5, StepAfter DEF ReconcileWrite
  <2> QED
    BY <2>1, FreshAt
<1>6. CASE ReconcileRole(w)
  <2>1. PICK x : req' = [req EXCEPT ![w] = [@ EXCEPT !.step = "reconcileDecide", !.support = x]]
    BY <1>6 DEF ReconcileRole
  <2>2. req'[w].step = "reconcileDecide"
    BY <2>1, StepAfter
  <2>3. status' # "closed"
    BY <1>6 DEF ReconcileRole, At, Fresh, row
  <2> QED
    BY <2>2, <2>3, FreshAt
<1> QED
  BY <1>1, <1>2, <1>3, <1>4, <1>5, <1>6 DEF Delete

LEMMA FreshEdit ==
  ASSUME Serial, SerialInv, NEW w \in Worker, Edit(w)
  PROVE  (\A v \in Worker : Fresh(req[v]))'
<1> USE DEF SerialInv, RowInv
<1>1. CASE UpdateProjectStatusRead(w)
  <2>1. PICK s : req' = [req EXCEPT ![w] = [@ EXCEPT !.step = "statusWrite", !.seen = status,
                                                    !.target = s]]
    BY <1>1 DEF UpdateProjectStatusRead
  <2>2. req'[w].step = "statusWrite"
    BY <2>1, StepAfter
  <2>3. status' # "closed"
    BY <1>1 DEF UpdateProjectStatusRead, Editable, row
  <2> QED
    BY <2>2, <2>3, FreshAt
<1>2. CASE UpdateProjectStatusWrite(w)
  <2>1. req'[w].step = "log"
    BY <1>2, StepAfter DEF UpdateProjectStatusWrite
  <2> QED
    BY <2>1, FreshAt
<1>3. CASE UpdateProjectRead(w)
  <2>1. status' # "closed" /\ req'[w].step = "editWrite" /\ req'[w].seen = status'
    BY <1>3, StepAfter DEF UpdateProjectRead, Editable, row
  <2> QED
    BY <2>1, FreshOne DEF Fresh
<1>4. CASE UpdateProjectWrite(w) \/ SyncLatestPresent(w)
  BY <1>4, FreshFinish DEF UpdateProjectWrite, SyncLatestPresent
<1>5. CASE AppointmentRead(w)
  <2>1. status' # "closed" /\ req'[w].step = "presentSync"
    BY <1>5, StepAfter DEF AppointmentRead, Editable, row
  <2> QED
    BY <2>1, FreshAt
<1>6. CASE ChangeOwnerRole(w)
  BY <1>6 DEF ChangeOwnerRole, row, Fresh, Overdue
<1> QED
  BY <1>1, <1>2, <1>3, <1>4, <1>5, <1>6 DEF Edit

LEMMA FreshRest ==
  ASSUME Serial, {"lark", "blind"} \cap Features = {}, SerialInv, NEW w \in Worker,
         WriteStatusLog(w) \/ AutoReject(w) \/ Inbound(w) \/ Failure(w)
  PROVE  (\A v \in Worker : Fresh(req[v]))'
<1> USE DEF SerialInv, RowInv
<1>1. CASE WriteStatusLog(w) \/ Fault(w)
  BY <1>1, FreshFinish DEF WriteStatusLog, Fault
<1>2. CASE RunAutoRejectSelect(w)
  <2>1. req'[w].step = "cronWrite" /\ Overdue'
    BY <1>2, StepAfter DEF RunAutoRejectSelect, Overdue, row
  <2> QED
    BY <2>1, FreshOne DEF Fresh
<1>3. CASE RunAutoRejectWrite(w)
  <2>1. req'[w].step = "cronLog"
    BY <1>3, StepAfter DEF RunAutoRejectWrite
  <2> QED
    BY <2>1, FreshAt
<1>4. CASE ResetTimerFails(w)
  <2>1. req'[w].step = "advanceRead"
    BY <1>4, StepAfter DEF ResetTimerFails
  <2> QED
    BY <2>1, FreshAt
<1>5. ~Inbound(w) /\ ~StatusReadFails(w)
  BY DEF Inbound, PullLarkRecord, ApplyLarkInboundPatch, StatusReadFails, NoInbound, At
<1> QED
  BY <1>1, <1>2, <1>3, <1>4, <1>5 DEF AutoReject, Failure

LEMMA SerialInvStep ==
  ASSUME Serial, {"lark", "blind"} \cap Features = {}, SerialInv, [Next]_vars
  PROVE  SerialInv'
<1>1. RowInv'
  BY NextTyped, NoInboundStep, RowStep DEF SerialInv, RowInv
<1>2. CASE UNCHANGED vars
  BY <1>1, <1>2 DEF SerialInv, Fresh, Overdue, vars
<1>3. CASE NinetyDaysPass
  BY <1>1, <1>3 DEF SerialInv, NinetyDaysPass, Fresh, Overdue
<1>4. ASSUME NEW w \in Worker,
             Upload(w) \/ Delete(w) \/ Edit(w) \/ WriteStatusLog(w)
               \/ AutoReject(w) \/ Inbound(w) \/ Failure(w)
      PROVE  SerialInv'
  BY <1>1, <1>4, FreshUpload, FreshDelete, FreshEdit, FreshRest DEF SerialInv
<1> QED
  BY <1>2, <1>3, <1>4 DEF Next

-----------------------------------------------------------------------------
\* With one request at a time a closed project stays closed (projects.go:408),
\* whatever fails but the read of projects.go:404, whose error is ignored.
THEOREM ClosedStaysClosed ==
  ASSUME Serial, {"lark", "blind"} \cap Features = {}
  PROVE  Spec => ClosedIsFinal
<1>1. Init => SerialInv
  BY RowInit, FreshInit DEF SerialInv
<1>2. SerialInv /\ [Next]_vars => SerialInv'
  BY SerialInvStep
<1>3. SerialInv /\ [Next]_vars => [status = "closed" => status' = "closed"]_vars
  <2> SUFFICES ASSUME SerialInv, Next, status = "closed" PROVE status' = "closed"
    BY DEF vars
  <2> USE DEF SerialInv, RowInv
  <2>1. ASSUME NEW w \in Worker, Upload(w) PROVE UNCHANGED status
    BY <2>1 DEF Upload, CreateDocument, ResetTimer, AutoAdvanceRead, AutoAdvanceDecide,
                AutoAdvanceRole, AutoAdvanceWrite, At, Fresh, row
  <2>2. ASSUME NEW w \in Worker, Delete(w) PROVE UNCHANGED status
    BY <2>2 DEF Delete, DeleteDocumentRead, DeleteDocumentRow, ReconcileRead, ReconcileDecide,
                ReconcileRole, ReconcileWrite, At, Fresh, row
  <2>3. ASSUME NEW w \in Worker, Edit(w) PROVE UNCHANGED status
    BY <2>3 DEF Edit, UpdateProjectStatusRead, UpdateProjectStatusWrite, UpdateProjectRead,
                UpdateProjectWrite, AppointmentRead, SyncLatestPresent, ChangeOwnerRole,
                At, Fresh, row
  <2>4. ASSUME NEW w \in Worker, WriteStatusLog(w) \/ AutoReject(w) \/ Inbound(w) \/ Failure(w)
        PROVE UNCHANGED status
    BY <2>4 DEF WriteStatusLog, AutoReject, RunAutoRejectSelect, RunAutoRejectWrite, Overdue,
                Terminal, Inbound, PullLarkRecord, ApplyLarkInboundPatch, NoInbound, Failure,
                Fault, ResetTimerFails, StatusReadFails, At, Fresh, row
  <2> QED
    BY <2>1, <2>2, <2>3, <2>4 DEF Next, NinetyDaysPass
<1> QED
  BY <1>1, <1>2, <1>3, PTL DEF Spec, ClosedIsFinal

-----------------------------------------------------------------------------
(***************************************************************************)
(* The refinement.  Every statement is a Move, an Activity, an AutoReject  *)
(* or nothing at all in the lifecycle.                                     *)
(***************************************************************************)
lifeTimer == IF status \in Terminal THEN "null" ELSE timer

\* The statement that stores a status is the lifecycle's Move.
LEMMA StoreIsMove ==
  ASSUME NEW s \in Status, status # "closed", StoreStatus(s),
         reason' \in IF s = "reject" THEN {"user"} ELSE {"null", "user", reason}
  PROVE  Life!Next
<1>1. lifeTimer' = TimerFor(s) /\ status' = s
  BY DEF StoreStatus, TimerFor, lifeTimer
<1>2. Life!Move(s)
  BY <1>1 DEF Life!Move, Life!TimerFor, Life!Terminal, TimerFor, Terminal, lifeTimer
<1> QED
  BY <1>2 DEF Life!Next, Life!Status, Status

\* Re-arming the deadline is activity, or invisible on a terminal project.
LEMMA ArmIsActivity ==
  ASSUME UNCHANGED <<status, reason>>, timer' = "armed"
  PROVE  Life!Next \/ UNCHANGED Life!lifeVars
<1>1. CASE status \in Terminal
  BY <1>1 DEF Life!lifeVars
<1>2. CASE status \notin Terminal
  <2>1. Life!Activity
    BY <1>2 DEF Life!Activity, Life!Terminal, Terminal
  <2> QED
    BY <2>1 DEF Life!Next
<1> QED
  BY <1>1, <1>2

LEMMA RowUnchanged ==
  ASSUME UNCHANGED <<status, timer, reason>>
  PROVE  UNCHANGED Life!lifeVars
BY DEF Life!lifeVars

LEMMA LifeInit == Init => Life!Init
BY DEF Init, Life!Init, Terminal

LEMMA LifeStep ==
  ASSUME Serial, {"lark", "blind"} \cap Features = {}, SerialInv, [Next]_vars
  PROVE  [Life!Next]_(Life!lifeVars)
<1> USE DEF SerialInv, RowInv
<1>1. CASE UNCHANGED <<status, timer, reason>>
  BY <1>1, RowUnchanged
<1>2. CASE NinetyDaysPass
  <2>1. CASE status \in Terminal
    BY <1>2, <2>1 DEF NinetyDaysPass, Life!lifeVars
  <2>2. CASE status \notin Terminal
    <3>1. Life!NinetyDaysPass
      BY <1>2, <2>2 DEF NinetyDaysPass, Life!NinetyDaysPass
    <3> QED
      BY <3>1 DEF Life!Next
  <2> QED
    BY <2>1, <2>2
<1>3. ASSUME NEW w \in Worker, Upload(w) PROVE [Life!Next]_(Life!lifeVars)
  <2>1. CASE ResetTimer(w)
    <3>1. CASE status \in Terminal
      BY <2>1, <3>1 DEF ResetTimer, Life!lifeVars
    <3>2. CASE status \notin Terminal
      BY <2>1, <3>2, ArmIsActivity DEF ResetTimer, TimerFor
    <3> QED
      BY <3>1, <3>2
  <2>2. CASE AutoAdvanceWrite(w)
    <3>1. status # "closed" /\ req[w].target \in Status \ {"reject"}
      BY <2>2 DEF AutoAdvanceWrite, At, Fresh, ReqOK, Sound
    <3> QED
      BY <2>2, <3>1, StoreIsMove DEF AutoAdvanceWrite
  <2>3. CASE UNCHANGED <<status, timer, reason>>
    BY <2>3, RowUnchanged
  <2> QED
    BY <1>3, <2>1, <2>2, <2>3
    DEF Upload, CreateDocument, AutoAdvanceRead, AutoAdvanceRole, AutoAdvanceDecide, row
<1>4. ASSUME NEW w \in Worker, Delete(w) PROVE [Life!Next]_(Life!lifeVars)
  <2>1. CASE ReconcileWrite(w)
    <3>1. status # "closed" /\ req[w].target \in Status \ {"reject"}
      BY <2>1 DEF ReconcileWrite, At, Fresh, ReqOK, Sound
    <3> QED
      BY <2>1, <3>1, StoreIsMove DEF ReconcileWrite
  <2>2. CASE UNCHANGED <<status, timer, reason>>
    BY <2>2, RowUnchanged
  <2> QED
    BY <1>4, <2>1, <2>2
    DEF Delete, DeleteDocumentRead, DeleteDocumentRow, ReconcileRead, ReconcileRole,
        ReconcileDecide, row
<1>5. ASSUME NEW w \in Worker, Edit(w) PROVE [Life!Next]_(Life!lifeVars)
  <2>1. CASE UpdateProjectStatusWrite(w)
    <3>1. status # "closed" /\ req[w].target \in Status
      BY <2>1 DEF UpdateProjectStatusWrite, At, Fresh, ReqOK, Sound
    <3> QED
      BY <2>1, <3>1, StoreIsMove DEF UpdateProjectStatusWrite, ReasonsFor
  <2>2. CASE UpdateProjectWrite(w)
    <3>1. timer' = timer \/ timer' = "armed"
      BY <2>2 DEF UpdateProjectWrite
    <3> QED
      BY <2>2, <3>1, ArmIsActivity, RowUnchanged DEF UpdateProjectWrite
  <2>3. CASE SyncLatestPresent(w)
    <3>1. UNCHANGED lifeTimer
      BY <2>3 DEF SyncLatestPresent, lifeTimer, ActiveHasTimer
    <3> QED
      BY <2>3, <3>1 DEF SyncLatestPresent, Life!lifeVars, lifeTimer
  <2>4. CASE UNCHANGED <<status, timer, reason>>
    BY <2>4, RowUnchanged
  <2> QED
    BY <1>5, <2>1, <2>2, <2>3, <2>4
    DEF Edit, UpdateProjectStatusRead, UpdateProjectRead, AppointmentRead, ChangeOwnerRole, row
<1>6. ASSUME NEW w \in Worker, WriteStatusLog(w) \/ AutoReject(w) \/ Inbound(w) \/ Failure(w)
      PROVE  [Life!Next]_(Life!lifeVars)
  <2>1. CASE RunAutoRejectWrite(w)
    <3>1. Overdue
      BY <2>1 DEF RunAutoRejectWrite, At, Fresh
    <3>2. Life!AutoReject
      BY <2>1, <3>1 DEF RunAutoRejectWrite, Overdue, Life!AutoReject, Terminal
    <3> QED
      BY <3>2 DEF Life!Next
  <2>2. CASE UNCHANGED <<status, timer, reason>>
    BY <2>2, RowUnchanged
  <2> QED
    BY <1>6, <2>1, <2>2
    DEF WriteStatusLog, AutoReject, RunAutoRejectSelect, Inbound, PullLarkRecord,
        ApplyLarkInboundPatch, NoInbound, At, Failure, Fault, ResetTimerFails,
        StatusReadFails, row
<1> QED
  BY <1>1, <1>2, <1>3, <1>4, <1>5, <1>6 DEF Next, vars

\* One request at a time, Pipeline implements Lifecycle: the deadline follows
\* the status, a rejection has its reason, only an overdue project is rejected
\* unasked and a closed project is final.  Any statement may fail but the read of
\* projects.go:404, after which a closed project can move.
THEOREM SerialRefinement ==
  ASSUME Serial, {"lark", "blind"} \cap Features = {}
  PROVE  Spec => ImplementsLifecycle
<1>1. Init => SerialInv /\ Life!Init
  BY RowInit, FreshInit, LifeInit DEF SerialInv
<1>2. SerialInv /\ [Next]_vars => SerialInv' /\ [Life!Next]_(Life!lifeVars)
  BY SerialInvStep, LifeStep
<1> QED
  BY <1>1, <1>2, PTL DEF Spec, ImplementsLifecycle, Life!Spec
-----------------------------------------------------------------------------
(***************************************************************************)
(* What the one request is about is still on the project when it writes.   *)
(* A query that fails under it finds less than there is, never more.       *)
(***************************************************************************)
Backed(r) ==
  /\ r.step \in {"touch", "advanceRead", "advanceRole", "advanceDecide"} => r.arg \in Docs
  /\ r.step \in {"advanceDecide", "reconcileDecide"} => (r.support => ownerIsSupport)
  /\ r.step \in {"advanceWrite", "reconcileWrite"} => Evidence(r.target, Docs, ownerIsSupport)

BackedInv == TypeOK /\ ReqOK /\ \A w \in Worker : Backed(req[w])

\* The rules move a project only to a status that its documents bear out, although
\* they may have counted but some of them and missed the role of the owner.
LEMMA AdvanceBacked ==
  ASSUME NEW s \in Status \ {"closed", "reject"}, NEW docs, NEW t \in docs, NEW o \in BOOLEAN,
         NEW counted \in SUBSET docs, NEW read \in BOOLEAN, read => o,
         Advance(s, t, counted, read) # s
  PROVE  Evidence(Advance(s, t, counted, read), docs, o)
BY DEF Advance, Evidence, Status, TorGate

LEMMA ReconcileBacked ==
  ASSUME NEW s \in Status, NEW docs, NEW o \in BOOLEAN,
         NEW counted \in SUBSET docs, NEW read \in BOOLEAN, read => o,
         Reconcile(s, counted, read) # s
  PROVE  Evidence(Reconcile(s, counted, read), docs, o)
BY DEF Reconcile, Evidence, Status, TorGate

LEMMA BackedOne ==
  ASSUME Serial, NEW w \in Worker, Backed(req[w])'
  PROVE  (\A v \in Worker : Backed(req[v]))'
BY DEF Serial

\* Only the steps named in Backed carry an obligation.
LEMMA BackedAt ==
  ASSUME Serial, NEW w \in Worker,
         req'[w].step \notin {"touch", "advanceRead", "advanceRole", "advanceDecide",
                              "advanceWrite", "reconcileDecide", "reconcileWrite"}
  PROVE  (\A v \in Worker : Backed(req[v]))'
BY BackedOne DEF Backed

LEMMA BackedFinish ==
  ASSUME Serial, TypeOK, NEW w \in Worker, Finish(w)
  PROVE  (\A v \in Worker : Backed(req[v]))'
<1>1. req'[w].step = "idle"
  BY DEF TypeOK, Finish, Idle
<1> QED
  BY <1>1, BackedAt

LEMMA BackedUpload ==
  ASSUME Serial, BackedInv, NEW w \in Worker, Upload(w)
  PROVE  (\A v \in Worker : Backed(req[v]))'
<1> USE DEF BackedInv
<1>0. req[w] \in Request /\ Sound(req[w]) /\ Backed(req[w]) /\ w \in DOMAIN req
  BY DEF TypeOK, ReqOK
<1>1. CASE CreateDocument(w)
  <2>1. PICK t \in DocType, d \in DocId :
           /\ doc' = [doc EXCEPT ![d] = t]
           /\ req' = [req EXCEPT ![w] = [@ EXCEPT !.step = "touch", !.arg = t]]
    BY <1>1, DocTypesAssumption DEF CreateDocument
  <2>2. req'[w].step = "touch" /\ req'[w].arg = t
    BY <1>0, <2>1 DEF Request
  <2>3. t \in Docs'
    BY <2>1 DEF Docs, TypeOK
  <2> QED
    BY <2>2, <2>3, BackedOne DEF Backed
<1>2. CASE ResetTimer(w)
  <2>1. CASE Finish(w)
    BY <2>1, BackedFinish
  <2>2. CASE GoTo(w, "advanceRead")
    <3>1. req'[w].step = "advanceRead" /\ req'[w].arg = req[w].arg
      BY <1>0, <2>2 DEF GoTo, Request
    <3>2. req[w].arg \in Docs'
      BY <1>0, <1>2 DEF ResetTimer, At, Backed, Docs
    <3> QED
      BY <3>1, <3>2, BackedOne DEF Backed
  <2> QED
    BY <1>2, <2>1, <2>2 DEF ResetTimer
<1>3. CASE AutoAdvanceRead(w)
  <2>1. CASE Finish(w)
    BY <2>1, BackedFinish
  <2>2. CASE req' = [req EXCEPT ![w] = [@ EXCEPT !.step = "advanceRole", !.seen = status]]
    <3>1. req'[w].step = "advanceRole" /\ req'[w].arg = req[w].arg
      BY <1>0, <2>2 DEF Request
    <3>2. req[w].arg \in Docs'
      BY <1>0, <1>3 DEF AutoAdvanceRead, At, Backed, Docs
    <3> QED
      BY <3>1, <3>2, BackedOne DEF Backed
  <2> QED
    BY <1>3, <2>1, <2>2 DEF AutoAdvanceRead
<1>4. CASE AutoAdvanceDecide(w)
  <2>0. PICK docs \in SUBSET Docs :
           LET next == Advance(req[w].seen, req[w].arg, docs, req[w].support)
           IN IF next = req[w].seen
              THEN Finish(w)
              ELSE req' = [req EXCEPT ![w] = [@ EXCEPT !.step = "advanceWrite", !.target = next]]
    BY <1>4 DEF AutoAdvanceDecide, DocsCounted
  <2> DEFINE next == Advance(req[w].seen, req[w].arg, docs, req[w].support)
  <2>1. CASE Finish(w)
    BY <2>1, BackedFinish
  <2>2. CASE /\ next # req[w].seen
             /\ req' = [req EXCEPT ![w] = [@ EXCEPT !.step = "advanceWrite", !.target = next]]
    <3>1. req'[w].step = "advanceWrite" /\ req'[w].target = next
      BY <1>0, <2>2 DEF Request
    <3>2. Evidence(next, Docs, ownerIsSupport)
      <4>1. /\ req[w].seen \in Status \ {"closed", "reject"} /\ req[w].arg \in Docs
            /\ req[w].support \in BOOLEAN /\ (req[w].support => ownerIsSupport)
        BY <1>0, <1>4 DEF AutoAdvanceDecide, At, Sound, Backed, Request
      <4> QED
        BY <2>2, <4>1, AdvanceBacked DEF TypeOK
    <3>3. UNCHANGED <<Docs, ownerIsSupport>>
      BY <1>4 DEF AutoAdvanceDecide, Docs
    <3> HIDE DEF next
    <3> QED
      BY <3>1, <3>2, <3>3, BackedOne DEF Backed
  <2> QED
    BY <2>0, <2>1, <2>2
<1>5. CASE AutoAdvanceWrite(w)
  <2>1. req'[w].step = "log"
    BY <1>5, StepAfter DEF AutoAdvanceWrite
  <2> QED
    BY <2>1, BackedAt
<1>6. CASE AutoAdvanceRole(w)
  <2>1. PICK support \in RoleRead :
           req' = [req EXCEPT ![w] = [@ EXCEPT !.step = "advanceDecide", !.support = support]]
    BY <1>6 DEF AutoAdvanceRole
  <2>2. req'[w].step = "advanceDecide" /\ req'[w].arg = req[w].arg /\ req'[w].support = support
    BY <1>0, <2>1 DEF Request
  <2>3. support => ownerIsSupport'
    BY <1>6 DEF AutoAdvanceRole, RoleRead
  <2>4. req[w].arg \in Docs'
    BY <1>0, <1>6 DEF AutoAdvanceRole, At, Backed, Docs
  <2> QED
    BY <2>2, <2>3, <2>4, BackedOne DEF Backed
<1> QED
  BY <1>1, <1>2, <1>3, <1>4, <1>5, <1>6 DEF Upload

LEMMA BackedDelete ==
  ASSUME Serial, BackedInv, NEW w \in Worker, Delete(w)
  PROVE  (\A v \in Worker : Backed(req[v]))'
<1> USE DEF BackedInv
<1>0. req[w] \in Request /\ Sound(req[w]) /\ Backed(req[w]) /\ w \in DOMAIN req
  BY DEF TypeOK, ReqOK
<1>1. CASE DeleteDocumentRead(w)
  <2>1. req'[w].step = "deleteRow"
    BY <1>1, StepAfter DEF DeleteDocumentRead
  <2> QED
    BY <2>1, BackedAt
<1>2. CASE DeleteDocumentRow(w)
  <2>1. Finish(w) \/ req'[w].step = "reconcileRead"
    BY <1>2, StepAfter DEF DeleteDocumentRow
  <2> QED
    BY <2>1, BackedAt, BackedFinish
<1>3. CASE ReconcileRead(w)
  <2>1. req'[w].step = "reconcileRole"
    BY <1>3, StepAfter DEF ReconcileRead
  <2> QED
    BY <2>1, BackedAt
<1>4. CASE ReconcileDecide(w)
  <2>0. PICK docs \in SUBSET Docs :
           LET next == Reconcile(req[w].seen, docs, req[w].support)
           IN IF next = req[w].seen
              THEN Finish(w)
              ELSE req' = [req EXCEPT ![w] = [@ EXCEPT !.step = "reconcileWrite", !.target = next]]
    BY <1>4 DEF ReconcileDecide, DocsCounted
  <2> DEFINE next == Reconcile(req[w].seen, docs, req[w].support)
  <2>1. CASE Finish(w)
    BY <2>1, BackedFinish
  <2>2. CASE /\ next # req[w].seen
             /\ req' = [req EXCEPT ![w] = [@ EXCEPT !.step = "reconcileWrite", !.target = next]]
    <3>1. req'[w].step = "reconcileWrite" /\ req'[w].target = next
      BY <1>0, <2>2 DEF Request
    <3>2. Evidence(next, Docs, ownerIsSupport)
      <4>1. /\ req[w].seen \in Status
            /\ req[w].support \in BOOLEAN /\ (req[w].support => ownerIsSupport)
        BY <1>0, <1>4 DEF ReconcileDecide, At, Sound, Backed, Request
      <4> QED
        BY <2>2, <4>1, ReconcileBacked DEF TypeOK
    <3>3. UNCHANGED <<Docs, ownerIsSupport>>
      BY <1>4 DEF ReconcileDecide, Docs
    <3> HIDE DEF next
    <3> QED
      BY <3>1, <3>2, <3>3, BackedOne DEF Backed
  <2> QED
    BY <2>0, <2>1, <2>2
<1>5. CASE ReconcileWrite(w)
  <2>1. req'[w].step = "log"
    BY <1>5, StepAfter DEF ReconcileWrite
  <2> QED
    BY <2>1, BackedAt
<1>6. CASE ReconcileRole(w)
  <2>1. PICK support \in RoleRead :
           req' = [req EXCEPT ![w] = [@ EXCEPT !.step = "reconcileDecide", !.support = support]]
    BY <1>6 DEF ReconcileRole
  <2>2. req'[w].step = "reconcileDecide" /\ req'[w].arg = req[w].arg /\ req'[w].support = support
    BY <1>0, <2>1 DEF Request
  <2>3. support => ownerIsSupport'
    BY <1>6 DEF ReconcileRole, RoleRead
  <2> QED
    BY <2>2, <2>3, BackedOne DEF Backed
<1> QED
  BY <1>1, <1>2, <1>3, <1>4, <1>5, <1>6 DEF Delete

LEMMA BackedRest ==
  ASSUME Serial, BackedInv, NEW w \in Worker,
         Edit(w) \/ WriteStatusLog(w) \/ AutoReject(w) \/ Inbound(w) \/ Failure(w)
  PROVE  (\A v \in Worker : Backed(req[v]))'
<1>0. TypeOK /\ Backed(req[w])
  BY DEF BackedInv
<1>a. req[w] \in Request /\ w \in DOMAIN req
  BY <1>0 DEF TypeOK
<1>1. CASE Finish(w)
  BY <1>1, <1>0, BackedFinish
<1>2. CASE ChangeOwnerRole(w)
  <2>1. req'[w].step = "idle"
    BY <1>2 DEF ChangeOwnerRole, At
  <2> QED
    BY <2>1, BackedAt
<1>3. CASE ResetTimerFails(w)
  <2>1. req'[w].step = "advanceRead" /\ req'[w].arg = req[w].arg
    BY <1>a, <1>3 DEF ResetTimerFails, GoTo, Request
  <2>2. req[w].arg \in Docs'
    BY <1>0, <1>3 DEF ResetTimerFails, At, Backed, Docs
  <2> QED
    BY <2>1, <2>2, BackedOne DEF Backed
<1>4. CASE UpdateProjectStatusRead(w) \/ PullLarkRecord(w)
  <2>1. ASSUME NEW s, req' = [req EXCEPT ![w] = [@ EXCEPT !.step = "statusWrite",
                                                   !.seen = status, !.target = s]]
        PROVE  req'[w].step = "statusWrite"
    BY <2>1, <1>0, StepAfter
  <2>2. ASSUME NEW s, req' = [req EXCEPT ![w] = [@ EXCEPT !.step = "inboundWrite", !.target = s]]
        PROVE  req'[w].step = "inboundWrite"
    BY <2>2, <1>0, StepAfter
  <2>3. req'[w].step \in {"statusWrite", "inboundWrite"}
    BY <1>4, <2>1, <2>2 DEF UpdateProjectStatusRead, PullLarkRecord
  <2> QED
    BY <2>3, BackedAt
<1>5. CASE UpdateProjectStatusWrite(w) \/ UpdateProjectRead(w) \/ AppointmentRead(w)
           \/ RunAutoRejectWrite(w)
  <2>1. UpdateProjectStatusWrite(w) => req'[w].step = "log"
    BY <1>0, StepAfter DEF UpdateProjectStatusWrite
  <2>2. UpdateProjectRead(w) => req'[w].step = "editWrite"
    BY <1>0, StepAfter DEF UpdateProjectRead
  <2>3. AppointmentRead(w) => req'[w].step = "presentSync"
    BY <1>0, StepAfter DEF AppointmentRead
  <2>4. RunAutoRejectWrite(w) => req'[w].step = "cronLog"
    BY <1>0, StepAfter DEF RunAutoRejectWrite
  <2> QED
    BY <1>5, <2>1, <2>2, <2>3, <2>4, BackedAt
<1>6. CASE RunAutoRejectSelect(w)
  <2>1. req'[w].step = "cronWrite"
    BY <1>6, <1>0, StepAfter DEF RunAutoRejectSelect
  <2> QED
    BY <2>1, BackedAt
<1>7. CASE ApplyLarkInboundPatch(w)
  <2>1. req'[w].step = "presentSync"
    BY <1>a, <1>7 DEF ApplyLarkInboundPatch, Idle
  <2> QED
    BY <2>1, BackedAt
<1>8. CASE StatusReadFails(w)
  <2>1. PICK s : req' = [req EXCEPT ![w] = [@ EXCEPT !.step = "statusWrite", !.target = s]]
    BY <1>8 DEF StatusReadFails
  <2>2. req'[w].step = "statusWrite"
    BY <1>0, <2>1, StepAfter
  <2> QED
    BY <2>2, BackedAt
<1> QED
  BY <1>1, <1>2, <1>3, <1>4, <1>5, <1>6, <1>7, <1>8
  DEF Edit, WriteStatusLog, AutoReject, Inbound, Failure, Fault, UpdateProjectWrite,
      SyncLatestPresent

\* One request at a time, an upload or a deletion moves the project only to a
\* status whose documents are on it, whatever fails and whatever Lark writes
\* (documents.go:246, 399).
THEOREM DocumentsBackEveryMove ==
  ASSUME Serial
  PROVE  Spec => DocumentsBackStatus
<1>1. Init => BackedInv
  BY InitTyped DEF BackedInv, Init, Idle, Backed
<1>2. BackedInv /\ [Next]_vars => BackedInv'
  <2> SUFFICES ASSUME BackedInv, [Next]_vars PROVE BackedInv'
    OBVIOUS
  <2>1. TypeOK' /\ ReqOK'
    BY NextTyped DEF BackedInv
  <2>2. CASE UNCHANGED vars
    BY <2>1, <2>2 DEF BackedInv, Backed, Docs, vars
  <2>3. CASE NinetyDaysPass
    BY <2>1, <2>3 DEF BackedInv, Backed, Docs, NinetyDaysPass
  <2>4. ASSUME NEW w \in Worker,
               Upload(w) \/ Delete(w) \/ Edit(w) \/ WriteStatusLog(w)
                 \/ AutoReject(w) \/ Inbound(w) \/ Failure(w)
        PROVE  BackedInv'
    BY <2>1, <2>4, BackedUpload, BackedDelete, BackedRest DEF BackedInv
  <2> QED
    BY <2>2, <2>3, <2>4 DEF Next
<1>3. BackedInv
        => \A w \in Worker : AutoAdvanceWrite(w) \/ ReconcileWrite(w)
                               => Evidence(status', Docs, ownerIsSupport)
  BY DEF BackedInv, Backed, AutoAdvanceWrite, ReconcileWrite, At, StoreStatus
<1> QED
  BY <1>1, <1>2, <1>3, PTL DEF Spec, DocumentsBackStatus

-----------------------------------------------------------------------------
(***************************************************************************)
(* The status log.  It lags behind only between the UPDATE of a status and *)
(* the INSERT of its line, and that request carries the missing line.      *)
(***************************************************************************)
Logging(w) == At(w, "log") \/ At(w, "cronLog")

LogInv ==
  /\ RowInv
  /\ \A w \in Worker : Logging(w) => req[w].target = status
  /\ (\A w \in Worker : ~Logging(w)) => logged = status

\* A statement that leaves the status alone and no log line behind keeps LogInv.
LEMMA LogKept ==
  ASSUME Serial, LogInv, NEW w \in Worker, ~Logging(w), ~Logging(w)', UNCHANGED <<status, logged>>
  PROVE  /\ (\A v \in Worker : Logging(v) => req[v].target = status)'
         /\ ((\A v \in Worker : ~Logging(v)) => logged = status)'
BY DEF Serial, LogInv

\* A statement that stores a status leaves the log line of that status behind.
LEMMA LogOwed ==
  ASSUME Serial, NEW w \in Worker, Logging(w)', req'[w].target = status'
  PROVE  /\ (\A v \in Worker : Logging(v) => req[v].target = status)'
         /\ ((\A v \in Worker : ~Logging(v)) => logged = status)'
BY DEF Serial

LEMMA LogStep ==
  ASSUME Serial, {"lark", "faults", "blind"} \cap Features = {}, LogInv, NEW w \in Worker,
         Upload(w) \/ Delete(w) \/ Edit(w) \/ WriteStatusLog(w)
           \/ AutoReject(w) \/ Inbound(w) \/ Failure(w)
  PROVE  /\ (\A v \in Worker : Logging(v) => req[v].target = status)'
         /\ ((\A v \in Worker : ~Logging(v)) => logged = status)'
<1>0. TypeOK /\ ReqOK /\ NoInbound
  BY DEF LogInv, RowInv
<1>a. req[w] \in Request /\ Sound(req[w]) /\ w \in DOMAIN req
  BY <1>0 DEF TypeOK, ReqOK
<1>1. CASE AutoAdvanceWrite(w) \/ ReconcileWrite(w) \/ UpdateProjectStatusWrite(w)
  <2>1. GoTo(w, "log") /\ status' = req[w].target
    BY <1>1 DEF AutoAdvanceWrite, ReconcileWrite, UpdateProjectStatusWrite, StoreStatus
  <2>2. req'[w].step = "log" /\ req'[w].target = req[w].target
    BY <1>a, <2>1 DEF GoTo, Request
  <2> QED
    BY <2>1, <2>2, LogOwed DEF Logging, At
<1>2. CASE RunAutoRejectWrite(w)
  <2>1. req[w].target = "reject"
    BY <1>a, <1>2 DEF RunAutoRejectWrite, At, Sound
  <2>2. req'[w].step = "cronLog" /\ req'[w].target = req[w].target
    BY <1>a, <1>2 DEF RunAutoRejectWrite, GoTo, Request
  <2> QED
    BY <1>2, <2>1, <2>2, LogOwed DEF Logging, At, RunAutoRejectWrite
<1>3. CASE WriteStatusLog(w)
  <2>1. logged' = status'
    BY <1>3 DEF LogInv, WriteStatusLog, ToStatus, Logging, row
  <2>2. req'[w].step = "idle"
    BY <1>a, <1>3 DEF WriteStatusLog, Finish, Idle
  <2> QED
    BY <2>1, <2>2 DEF Serial, Logging, At
<1>4. ASSUME ~Logging(w), ~Logging(w)', UNCHANGED <<status, logged>>
      PROVE  /\ (\A v \in Worker : Logging(v) => req[v].target = status)'
             /\ ((\A v \in Worker : ~Logging(v)) => logged = status)'
  BY <1>4, LogKept
<1>5. Finish(w) => ~Logging(w)'
  BY <1>a DEF Finish, Logging, At, Idle
<1>6. CASE Upload(w) /\ ~AutoAdvanceWrite(w)
  <2>1. ~Logging(w) /\ UNCHANGED <<status, logged>>
    BY <1>6 DEF Upload, CreateDocument, ResetTimer, AutoAdvanceRead, AutoAdvanceRole,
                AutoAdvanceDecide, Logging, At, row
  <2>2. CASE CreateDocument(w)
    <3>1. PICK t : req' = [req EXCEPT ![w] = [@ EXCEPT !.step = "touch", !.arg = t]]
      BY <2>2 DEF CreateDocument
    <3>2. req'[w].step = "touch"
      BY <3>1, <1>0, StepAfter
    <3> QED
      BY <1>4, <2>1, <3>2 DEF Logging, At
  <2>3. CASE ResetTimer(w) \/ AutoAdvanceRead(w) \/ AutoAdvanceRole(w) \/ AutoAdvanceDecide(w)
    <3>1. Finish(w) \/ req'[w].step \in {"advanceRead", "advanceRole", "advanceDecide",
                                         "advanceWrite"}
      <4>1. ResetTimer(w) => Finish(w) \/ req'[w].step = "advanceRead"
        BY <1>0, StepAfter DEF ResetTimer
      <4>2. AutoAdvanceRead(w) => Finish(w) \/ req'[w].step = "advanceRole"
        BY <1>0, StepAfter DEF AutoAdvanceRead
      <4>4. AutoAdvanceRole(w) => req'[w].step = "advanceDecide"
        BY <1>0, StepAfter DEF AutoAdvanceRole
      <4>3. AutoAdvanceDecide(w) => Finish(w) \/ req'[w].step = "advanceWrite"
        BY <1>0, StepAfter DEF AutoAdvanceDecide
      <4> QED
        BY <2>3, <4>1, <4>2, <4>3, <4>4
    <3>2. ~Logging(w)'
      BY <1>5, <3>1 DEF Logging, At
    <3> QED
      BY <1>4, <2>1, <3>2
  <2> QED
    BY <1>6, <2>2, <2>3 DEF Upload
<1>7. CASE Delete(w) /\ ~ReconcileWrite(w)
  <2>1. ~Logging(w) /\ UNCHANGED <<status, logged>>
    BY <1>7 DEF Delete, DeleteDocumentRead, DeleteDocumentRow, ReconcileRead, ReconcileRole,
                ReconcileDecide, Logging, At, row
  <2>2. Finish(w) \/ req'[w].step \in {"deleteRow", "reconcileRead", "reconcileRole",
                                       "reconcileDecide", "reconcileWrite"}
    <3>1. DeleteDocumentRead(w) => req'[w].step = "deleteRow"
      BY <1>0, StepAfter DEF DeleteDocumentRead
    <3>2. ASSUME DeleteDocumentRow(w), ~Finish(w) PROVE req'[w].step = "reconcileRead"
      <4>1. req' = [req EXCEPT ![w] = [@ EXCEPT !.step = "reconcileRead", !.arg = doc[req[w].arg]]]
        BY <3>2 DEF DeleteDocumentRow
      <4> QED
        BY <1>0, <4>1, StepAfter
    <3>3. ReconcileRead(w) => req'[w].step = "reconcileRole"
      BY <1>0, StepAfter DEF ReconcileRead
    <3>5. ReconcileRole(w) => req'[w].step = "reconcileDecide"
      BY <1>0, StepAfter DEF ReconcileRole
    <3>4. ReconcileDecide(w) => Finish(w) \/ req'[w].step = "reconcileWrite"
      BY <1>0, StepAfter DEF ReconcileDecide
    <3> QED
      BY <1>7, <3>1, <3>2, <3>3, <3>4, <3>5 DEF Delete
  <2>3. ~Logging(w)'
    BY <1>5, <2>2 DEF Logging, At
  <2> QED
    BY <1>4, <2>1, <2>3
<1>8. CASE Edit(w) /\ ~UpdateProjectStatusWrite(w)
  <2>1. ~Logging(w) /\ UNCHANGED <<status, logged>>
    BY <1>8 DEF Edit, UpdateProjectStatusRead, UpdateProjectRead, UpdateProjectWrite,
                AppointmentRead, SyncLatestPresent, ChangeOwnerRole, Logging, At, row
  <2>2. CASE UpdateProjectStatusRead(w)
    <3>1. PICK s : req' = [req EXCEPT ![w] = [@ EXCEPT !.step = "statusWrite", !.seen = status,
                                                      !.target = s]]
      BY <2>2 DEF UpdateProjectStatusRead
    <3>2. req'[w].step = "statusWrite"
      BY <3>1, <1>0, StepAfter
    <3> QED
      BY <1>4, <2>1, <3>2 DEF Logging, At
  <2>3. CASE ChangeOwnerRole(w)
    BY <1>4, <2>1, <2>3 DEF ChangeOwnerRole, Logging, At
  <2>4. CASE UpdateProjectRead(w) \/ UpdateProjectWrite(w) \/ AppointmentRead(w)
             \/ SyncLatestPresent(w)
    <3>1. Finish(w) \/ req'[w].step \in {"editWrite", "presentSync"}
      <4>1. UpdateProjectRead(w) => req'[w].step = "editWrite"
        BY <1>0, StepAfter DEF UpdateProjectRead
      <4>2. AppointmentRead(w) => req'[w].step = "presentSync"
        BY <1>0, StepAfter DEF AppointmentRead
      <4> QED
        BY <2>4, <4>1, <4>2 DEF UpdateProjectWrite, SyncLatestPresent
    <3>2. ~Logging(w)'
      BY <1>5, <3>1 DEF Logging, At
    <3> QED
      BY <1>4, <2>1, <3>2
  <2> QED
    BY <1>8, <2>2, <2>3, <2>4 DEF Edit
<1>9. CASE RunAutoRejectSelect(w)
  <2>1. req'[w].step = "cronWrite"
    BY <1>9, <1>0, StepAfter DEF RunAutoRejectSelect
  <2> QED
    BY <1>4, <1>9, <2>1 DEF RunAutoRejectSelect, Logging, At, row
<1>10. ~Inbound(w) /\ ~Failure(w)
  BY <1>0 DEF Inbound, PullLarkRecord, ApplyLarkInboundPatch, NoInbound, At, Failure, Fault,
         ResetTimerFails, StatusReadFails
<1> QED
  BY <1>1, <1>2, <1>3, <1>6, <1>7, <1>8, <1>9, <1>10 DEF AutoReject

\* One request at a time, with every statement going through, the newest log
\* line names the present status whenever no request is under way: the five
\* handlers that write a status all log what they wrote (projects.go:471).
THEOREM LogIsComplete ==
  ASSUME Serial, {"lark", "faults", "blind"} \cap Features = {}
  PROVE  Spec => []LogMatchesStatus
<1>1. Init => LogInv
  BY RowInit DEF LogInv, Init, Idle, Logging, At
<1>2. LogInv /\ [Next]_vars => LogInv'
  <2> SUFFICES ASSUME LogInv, [Next]_vars PROVE LogInv'
    OBVIOUS
  <2>1. RowInv'
    BY NextTyped, NoInboundStep, RowStep DEF LogInv, RowInv
  <2>2. CASE UNCHANGED vars
    BY <2>1, <2>2 DEF LogInv, Logging, At, vars
  <2>3. CASE NinetyDaysPass
    BY <2>1, <2>3 DEF LogInv, Logging, At, NinetyDaysPass
  <2>4. ASSUME NEW w \in Worker,
               Upload(w) \/ Delete(w) \/ Edit(w) \/ WriteStatusLog(w)
                 \/ AutoReject(w) \/ Inbound(w) \/ Failure(w)
        PROVE  LogInv'
    BY <2>1, <2>4, LogStep DEF LogInv
  <2> QED
    BY <2>2, <2>3, <2>4 DEF Next
<1>3. LogInv => LogMatchesStatus
  BY DEF LogInv, LogMatchesStatus, Logging, At
<1> QED
  BY <1>1, <1>2, <1>3, PTL DEF Spec
=============================================================================
