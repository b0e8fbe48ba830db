--------------------------- MODULE PipelineProofs ---------------------------
(***************************************************************************)
(* Proofs about Pipeline, for any number of workers, documents and         *)
(* requests.  A request is described by what it holds between two          *)
(* statements (ReqOK); type correctness follows from it, then the two      *)
(* invariants that survive overlapping requests when Lark does not write   *)
(* into the row, and for one worker the lifecycle itself.                  *)
(***************************************************************************)
EXTENDS Pipeline, TLAPS

\* What a request has read by the time it reaches each step.
Sound(r) ==
  /\ r.step \in {"touch", "advanceRead", "advanceRole", "advanceDecide"} => r.arg \in DocType
  /\ r.step \in {"advanceRole", "advanceDecide"} => r.seen \in Status \ {"closed", "reject"}
  /\ r.step = "advanceWrite" => r.target \in Status \ {"reject"}
  /\ r.step = "deleteRow" => r.arg \in DocId
  /\ r.step \in {"reconcileRole", "reconcileDecide"} => r.seen \in Status
  /\ r.step = "reconcileWrite" => r.target \in Status \ {"reject"}
  /\ r.step \in {"statusWrite", "inboundWrite", "log", "cronLog"} => r.target \in Status
  /\ r.step = "cronWrite" => r.target = "reject"

ReqOK == \A w \in Worker : Sound(req[w])

\* A document that moves a project never moves it to reject, nor out of Status.
LEMMA AdvanceRange ==
  ASSUME NEW s \in Status \ {"closed", "reject"}, NEW t, NEW docs, NEW o
  PROVE  Advance(s, t, docs, o) \in Status \ {"reject"}
BY SMT DEF Advance, Status

\* A deletion leaves a rejected project rejected unless its documents say more.
LEMMA ReconcileRange ==
  ASSUME NEW s \in Status, NEW docs, NEW o
  PROVE  /\ Reconcile(s, docs, o) \in Status
         /\ Reconcile(s, docs, o) # s => Reconcile(s, docs, o) # "reject"
BY SMT DEF Reconcile, Status, TorGate

LEMMA TimerForRange ==
  ASSUME NEW s PROVE TimerFor(s) \in {"null", "armed"}
BY DEF TimerFor

LEMMA IdleSound == Idle \in Request /\ Sound(Idle)
BY DEF Idle, Request, Sound, Step, None

\* A step changes the record of one worker only: it is enough to look at that one.
LEMMA OneRequest ==
  ASSUME TypeOK, ReqOK, NEW w \in Worker, NEW r \in Request, Sound(r),
         req' = [req EXCEPT ![w] = r]
  PROVE  req' \in [Worker -> Request] /\ ReqOK'
BY DEF TypeOK, ReqOK

LEMMA FinishTyped ==
  ASSUME TypeOK, ReqOK, NEW w \in Worker, Finish(w)
  PROVE  req' \in [Worker -> Request] /\ ReqOK'
BY OneRequest, IdleSound DEF Finish

\* A worker's record stays well formed when only its step changes.
LEMMA GoToTyped ==
  ASSUME TypeOK, ReqOK, NEW w \in Worker, NEW s \in Step, GoTo(w, s),
         Sound([req[w] EXCEPT !.step = s])
  PROVE  req' \in [Worker -> Request] /\ ReqOK'
<1> DEFINE r == [req[w] EXCEPT !.step = s]
<1>1. r \in Request
  BY DEF TypeOK, Request
<1>2. req' = [req EXCEPT ![w] = r]
  BY DEF GoTo
<1> QED
  BY <1>1, <1>2, OneRequest

LEMMA InitTyped == Init => TypeOK /\ ReqOK
BY IdleSound DEF Init, TypeOK, ReqOK, Status

\* A role that is read, or taken as none when it cannot be, is yes or no.
LEMMA RoleRange == TypeOK => RoleRead \subseteq BOOLEAN
BY DEF TypeOK, RoleRead

LEMMA UploadTyped ==
  ASSUME TypeOK, ReqOK, NEW w \in Worker, Upload(w)
  PROVE  TypeOK' /\ ReqOK'
<1>0. req[w] \in Request /\ Sound(req[w])
  BY DEF TypeOK, ReqOK
<1>1. CASE CreateDocument(w)
  <2>1. PICK t \in DocType, d \in DocId :
           /\ doc' = [doc EXCEPT ![d] = t]
           /\ req' = [req EXCEPT ![w] = [@ EXCEPT !.step = "touch", !.arg = t]]
    BY <1>1, DocTypesAssumption DEF CreateDocument
  <2> DEFINE r == [req[w] EXCEPT !.step = "touch", !.arg = t]
  <2>2. r \in Request /\ Sound(r)
    BY <1>0 DEF Request, Sound, Step
  <2>3. req' \in [Worker -> Request] /\ ReqOK'
    BY <2>1, <2>2, OneRequest
  <2>4. UNCHANGED <<status, timer, reason, ownerIsSupport, logged>>
    BY <1>1 DEF CreateDocument, row
  <2> QED
    BY <2>1, <2>3, <2>4 DEF TypeOK
<1>2. CASE ResetTimer(w)
  <2>1. Sound([req[w] EXCEPT !.step = "advanceRead"])
    BY <1>0, <1>2 DEF ResetTimer, At, Sound, Request
  <2>2. req' \in [Worker -> Request] /\ ReqOK'
    BY <1>2, <2>1, FinishTyped, GoToTyped DEF ResetTimer, Step
  <2> QED
    BY <1>2, <2>2 DEF ResetTimer, TypeOK, TimerFor
<1>3. CASE AutoAdvanceRead(w)
  <2> DEFINE r == [req[w] EXCEPT !.step = "advanceRole", !.seen = status]
  <2>1. ASSUME status \notin {"closed", "reject"} PROVE r \in Request /\ Sound(r)
    BY <1>0, <1>3, <2>1 DEF AutoAdvanceRead, At, Request, Sound, Step, TypeOK
  <2>2. req' \in [Worker -> Request] /\ ReqOK'
    BY <1>3, <2>1, FinishTyped, OneRequest DEF AutoAdvanceRead
  <2> QED
    BY <1>3, <2>2 DEF AutoAdvanceRead, TypeOK, row
<1>4. CASE AutoAdvanceDecide(w)
  <2>0. PICK docs : LET next == Advance(req[w].seen, req[w].arg, docs, req[w].support)
                    IN IF next = req[w].seen
                       THEN Finish(w)
                       ELSE req' = [req EXCEPT ![w] = [@ EXCEPT !.step = "advanceWrite",
                                                               !.target = next]]
    BY <1>4 DEF AutoAdvanceDecide
  <2> DEFINE next == Advance(req[w].seen, req[w].arg, docs, req[w].support)
             r == [req[w] EXCEPT !.step = "advanceWrite", !.target = next]
  <2>1. next \in Status \ {"reject"}
    BY <1>0, <1>4, AdvanceRange DEF AutoAdvanceDecide, Sound, At
  <2>2. r \in Request /\ Sound(r)
    BY <1>0, <2>1 DEF Request, Sound, Step
  <2>3. req' \in [Worker -> Request] /\ ReqOK'
    BY <2>0, <2>2, FinishTyped, OneRequest
  <2> QED
    BY <1>4, <2>3 DEF AutoAdvanceDecide, TypeOK, row
<1>5. CASE AutoAdvanceWrite(w)
  <2>1. Sound([req[w] EXCEPT !.step = "log"]) /\ req[w].target \in Status
    BY <1>0, <1>5 DEF AutoAdvanceWrite, At, Sound, Request
  <2>2. req' \in [Worker -> Request] /\ ReqOK'
    BY <1>5, <2>1, GoToTyped DEF AutoAdvanceWrite, Step
  <2> QED
    BY <1>5, <2>1, <2>2 DEF AutoAdvanceWrite, StoreStatus, TypeOK, TimerFor
<1>6. CASE AutoAdvanceRole(w)
  <2>1. PICK support \in BOOLEAN :
           req' = [req EXCEPT ![w] = [@ EXCEPT !.step = "advanceDecide", !.support = support]]
    BY <1>6, RoleRange DEF AutoAdvanceRole
  <2> DEFINE r == [req[w] EXCEPT !.step = "advanceDecide", !.support = support]
  <2>2. r \in Request /\ Sound(r)
    BY <1>0, <1>6 DEF AutoAdvanceRole, At, Request, Sound, Step
  <2>3. req' \in [Worker -> Request] /\ ReqOK'
    BY <2>1, <2>2, OneRequest
  <2> QED
    BY <1>6, <2>3 DEF AutoAdvanceRole, TypeOK, row
<1> QED
  BY <1>1, <1>2, <1>3, <1>4, <1>5, <1>6 DEF Upload

LEMMA DeleteTyped ==
  ASSUME TypeOK, ReqOK, NEW w \in Worker, Delete(w)
  PROVE  TypeOK' /\ ReqOK'
<1>0. req[w] \in Request /\ Sound(req[w])
  BY DEF TypeOK, ReqOK
<1>1. CASE DeleteDocumentRead(w)
  <2>1. PICK d \in DocId : req' = [req EXCEPT ![w] = [@ EXCEPT !.step = "deleteRow", !.arg = d]]
    BY <1>1 DEF DeleteDocumentRead
  <2> DEFINE r == [req[w] EXCEPT !.step = "deleteRow", !.arg = d]
  <2>2. r \in Request /\ Sound(r)
    BY <1>0 DEF Request, Sound, Step
  <2>3. req' \in [Worker -> Request] /\ ReqOK'
    BY <2>1, <2>2, OneRequest
  <2> QED
    BY <1>1, <2>3 DEF DeleteDocumentRead, TypeOK, row
<1>2. CASE DeleteDocumentRow(w)
  <2> DEFINE d == req[w].arg
             r == [req[w] EXCEPT !.step = "reconcileRead", !.arg = doc[d]]
  <2>1. d \in DocId
    BY <1>0, <1>2 DEF DeleteDocumentRow, At, Sound
  <2>2. CASE doc[d] \in DocType
    <3>1. r \in Request /\ Sound(r)
      BY <1>0, <2>2 DEF Request, Sound, Step
    <3>2. req' = [req EXCEPT ![w] = r] /\ doc' = [doc EXCEPT ![d] = "deleted"]
      BY <1>2, <2>2 DEF DeleteDocumentRow
    <3>3. req' \in [Worker -> Request] /\ ReqOK'
      BY <3>1, <3>2, OneRequest
    <3> QED
      BY <1>2, <2>1, <3>2, <3>3 DEF DeleteDocumentRow, TypeOK, row
  <2>3. CASE doc[d] \notin DocType
    BY <1>2, <2>3, FinishTyped DEF DeleteDocumentRow, TypeOK, row
  <2> QED
    BY <2>2, <2>3
<1>3. CASE ReconcileRead(w)
  <2> DEFINE r == [req[w] EXCEPT !.step = "reconcileRole", !.seen = status]
  <2>1. r \in Request /\ Sound(r)
    BY <1>0 DEF Request, Sound, Step, TypeOK
  <2>2. req' \in [Worker -> Request] /\ ReqOK'
    BY <1>3, <2>1, OneRequest DEF ReconcileRead
  <2> QED
    BY <1>3, <2>2 DEF ReconcileRead, TypeOK, row
<1>4. CASE ReconcileDecide(w)
  <2>0. PICK docs : LET next == Reconcile(req[w].seen, docs, req[w].support)
                    IN IF next = req[w].seen
                       THEN Finish(w)
                       ELSE req' = [req EXCEPT ![w] = [@ EXCEPT !.step = "reconcileWrite",
                                                               !.target = next]]
    BY <1>4 DEF ReconcileDecide
  <2> DEFINE next == Reconcile(req[w].seen, docs, req[w].support)
             r == [req[w] EXCEPT !.step = "reconcileWrite", !.target = next]
  <2>1. next \in Status /\ (next # req[w].seen => next # "reject")
    BY <1>0, <1>4, ReconcileRange DEF ReconcileDecide, Sound, At
  <2>2. ASSUME next # req[w].seen PROVE r \in Request /\ Sound(r)
    BY <1>0, <2>1, <2>2 DEF Request, Sound, Step
  <2>3. req' \in [Worker -> Request] /\ ReqOK'
    BY <2>0, <2>2, FinishTyped, OneRequest
  <2> QED
    BY <1>4, <2>3 DEF ReconcileDecide, TypeOK, row
<1>5. CASE ReconcileWrite(w)
  <2>1. Sound([req[w] EXCEPT !.step = "log"]) /\ req[w].target \in Status
    BY <1>0, <1>5 DEF ReconcileWrite, At, Sound, Request
  <2>2. req' \in [Worker -> Request] /\ ReqOK'
    BY <1>5, <2>1, GoToTyped DEF ReconcileWrite, Step
  <2> QED
    BY <1>5, <2>1, <2>2 DEF ReconcileWrite, StoreStatus, TypeOK, TimerFor
<1>6. CASE ReconcileRole(w)
  <2>1. PICK support \in BOOLEAN :
           req' = [req EXCEPT ![w] = [@ EXCEPT !.step = "reconcileDecide", !.support = support]]
    BY <1>6, RoleRange DEF ReconcileRole
  <2> DEFINE r == [req[w] EXCEPT !.step = "reconcileDecide", !.support = support]
  <2>2. r \in Request /\ Sound(r)
    BY <1>0, <1>6 DEF ReconcileRole, At, Request, Sound, Step
  <2>3. req' \in [Worker -> Request] /\ ReqOK'
    BY <2>1, <2>2, OneRequest
  <2> QED
    BY <1>6, <2>3 DEF ReconcileRole, TypeOK, row
<1> QED
  BY <1>1, <1>2, <1>3, <1>4, <1>5, <1>6 DEF Delete

LEMMA EditTyped ==
  ASSUME TypeOK, ReqOK, NEW w \in Worker, Edit(w)
  PROVE  TypeOK' /\ ReqOK'
<1>0. req[w] \in Request /\ Sound(req[w])
  BY DEF TypeOK, ReqOK
<1>1. CASE UpdateProjectStatusRead(w)
  <2>1. PICK s \in Status :
           req' = [req EXCEPT ![w] = [@ EXCEPT !.step = "statusWrite", !.seen = status, !.target = s]]
    BY <1>1, RequestedAssumption DEF UpdateProjectStatusRead
  <2> DEFINE r == [req[w] EXCEPT !.step = "statusWrite", !.seen = status, !.target = s]
  <2>2. r \in Request /\ Sound(r)
    BY <1>0 DEF Request, Sound, Step, TypeOK
  <2>3. req' \in [Worker -> Request] /\ ReqOK'
    BY <2>1, <2>2, OneRequest
  <2> QED
    BY <1>1, <2>3 DEF UpdateProjectStatusRead, TypeOK, row
<1>2. CASE UpdateProjectStatusWrite(w)
  <2>1. Sound([req[w] EXCEPT !.step = "log"]) /\ req[w].target \in Status
    BY <1>0, <1>2 DEF UpdateProjectStatusWrite, At, Sound, Request
  <2>2. req' \in [Worker -> Request] /\ ReqOK'
    BY <1>2, <2>1, GoToTyped DEF UpdateProjectStatusWrite, Step
  <2> QED
    BY <1>2, <2>1, <2>2
    DEF UpdateProjectStatusWrite, StoreStatus, ReasonsFor, TypeOK, TimerFor
<1>3. CASE UpdateProjectRead(w)
  <2> DEFINE r == [req[w] EXCEPT !.step = "editWrite", !.seen = status]
  <2>1. r \in Request /\ Sound(r)
    BY <1>0 DEF Request, Sound, Step, TypeOK
  <2>2. req' \in [Worker -> Request] /\ ReqOK'
    BY <1>3, <2>1, OneRequest DEF UpdateProjectRead
  <2> QED
    BY <1>3, <2>2 DEF UpdateProjectRead, TypeOK, row
<1>4. CASE UpdateProjectWrite(w)
  BY <1>4, FinishTyped DEF UpdateProjectWrite, TypeOK
<1>5. CASE AppointmentRead(w)
  <2>1. Sound([req[w] EXCEPT !.step = "presentSync"])
    BY <1>0 DEF Sound, Request
  <2>2. req' \in [Worker -> Request] /\ ReqOK'
    BY <1>5, <2>1, GoToTyped DEF AppointmentRead, Step
  <2> QED
    BY <1>5, <2>2 DEF AppointmentRead, TypeOK, row
<1>6. CASE SyncLatestPresent(w)
  BY <1>6, FinishTyped DEF SyncLatestPresent, TypeOK
<1>7. CASE ChangeOwnerRole(w)
  BY <1>7 DEF ChangeOwnerRole, TypeOK, ReqOK, row
<1> QED
  BY <1>1, <1>2, <1>3, <1>4, <1>5, <1>6, <1>7 DEF Edit

LEMMA RestTyped ==
  ASSUME TypeOK, ReqOK, NEW w \in Worker,
         WriteStatusLog(w) \/ AutoReject(w) \/ Inbound(w) \/ Failure(w)
  PROVE  TypeOK' /\ ReqOK'
<1>0. req[w] \in Request /\ Sound(req[w])
  BY DEF TypeOK, ReqOK
<1>1. CASE WriteStatusLog(w)
  <2>1. req[w].target \in Status
    BY <1>0, <1>1 DEF WriteStatusLog, At, Sound
  <2> QED
    BY <1>1, <2>1, FinishTyped DEF WriteStatusLog, ToStatus, TypeOK, row
<1>2. CASE RunAutoRejectSelect(w)
  <2> DEFINE r == [req[w] EXCEPT !.step = "cronWrite", !.seen = status, !.target = "reject"]
  <2>0. "reject" \in Status
    BY DEF Status
  <2>1. r \in Request /\ Sound(r)
    BY <1>0, <2>0 DEF Request, Sound, Step, TypeOK
  <2>2. req' \in [Worker -> Request] /\ ReqOK'
    BY <1>2, <2>1, OneRequest DEF RunAutoRejectSelect
  <2> QED
    BY <1>2, <2>2 DEF RunAutoRejectSelect, TypeOK, row
<1>3. CASE RunAutoRejectWrite(w)
  <2>1. Sound([req[w] EXCEPT !.step = "cronLog"])
    BY <1>0, <1>3 DEF RunAutoRejectWrite, At, Sound, Request, Status
  <2>2. req' \in [Worker -> Request] /\ ReqOK'
    BY <1>3, <2>1, GoToTyped DEF RunAutoRejectWrite, Step
  <2> QED
    BY <1>3, <2>2 DEF RunAutoRejectWrite, TypeOK, Status
<1>4. CASE PullLarkRecord(w)
  <2>1. PICK s \in Status :
           req' = [req EXCEPT ![w] = [@ EXCEPT !.step = "inboundWrite", !.target = s]]
    BY <1>4, RequestedAssumption DEF PullLarkRecord
  <2> DEFINE r == [req[w] EXCEPT !.step = "inboundWrite", !.target = s]
  <2>2. r \in Request /\ Sound(r)
    BY <1>0 DEF Request, Sound, Step
  <2>3. req' \in [Worker -> Request] /\ ReqOK'
    BY <2>1, <2>2, OneRequest
  <2> QED
    BY <1>4, <2>3 DEF PullLarkRecord, TypeOK, row
<1>5. CASE ApplyLarkInboundPatch(w)
  <2> DEFINE r == [Idle EXCEPT !.step = "presentSync"]
  <2>1. r \in Request /\ Sound(r)
    BY DEF Request, Sound, Step, Idle, None
  <2>2. req' \in [Worker -> Request] /\ ReqOK'
    BY <1>5, <2>1, OneRequest DEF ApplyLarkInboundPatch
  <2>3. req[w].target \in Status
    BY <1>0, <1>5 DEF ApplyLarkInboundPatch, At, Sound
  <2> QED
    BY <1>5, <2>2, <2>3 DEF ApplyLarkInboundPatch, TypeOK
<1>6. CASE Fault(w)
  BY <1>6, FinishTyped DEF Fault, TypeOK, row
<1>7. CASE ResetTimerFails(w)
  <2>1. Sound([req[w] EXCEPT !.step = "advanceRead"])
    BY <1>0, <1>7 DEF ResetTimerFails, At, Sound, Request
  <2>2. req' \in [Worker -> Request] /\ ReqOK'
    BY <1>7, <2>1, GoToTyped DEF ResetTimerFails, Step
  <2> QED
    BY <1>7, <2>2 DEF ResetTimerFails, TypeOK, row
<1>8. CASE StatusReadFails(w)
  <2>1. PICK s \in Status :
           req' = [req EXCEPT ![w] = [@ EXCEPT !.step = "statusWrite", !.target = s]]
    BY <1>8, RequestedAssumption DEF StatusReadFails
  <2> DEFINE r == [req[w] EXCEPT !.step = "statusWrite", !.target = s]
  <2>2. r \in Request /\ Sound(r)
    BY <1>0 DEF Request, Sound, Step
  <2>3. req' \in [Worker -> Request] /\ ReqOK'
    BY <2>1, <2>2, OneRequest
  <2> QED
    BY <1>8, <2>3 DEF StatusReadFails, TypeOK, row
<1> QED
  BY <1>1, <1>2, <1>3, <1>4, <1>5, <1>6, <1>7, <1>8 DEF AutoReject, Inbound, Failure

LEMMA NextTyped == TypeOK /\ ReqOK /\ [Next]_vars => TypeOK' /\ ReqOK'
<1> SUFFICES ASSUME TypeOK, ReqOK, [Next]_vars PROVE TypeOK' /\ ReqOK'
  OBVIOUS
<1>1. CASE NinetyDaysPass
  BY <1>1 DEF NinetyDaysPass, TypeOK, ReqOK
<1>2. CASE UNCHANGED vars
  BY <1>2 DEF vars, TypeOK, ReqOK
<1> QED
  BY <1>1, <1>2, UploadTyped, DeleteTyped, EditTyped, RestTyped DEF Next

\* Every variable keeps its type and every request holds what its next statement
\* needs, whatever requests overlap, fail or come from Lark.
THEOREM TypeCorrect == Spec => [](TypeOK /\ ReqOK)
  BY InitTyped, NextTyped, PTL DEF Spec

-----------------------------------------------------------------------------
(***************************************************************************)
(* What overlapping requests cannot break, as long as Lark does not write  *)
(* into the row.  Both invariants speak of two columns that are written by *)
(* different statements; what makes them inductive is that the statement   *)
(* that stores a status stores its deadline too, and that neither an       *)
(* upload nor a deletion carries the target "reject" (ReqOK).              *)
(***************************************************************************)
NoInbound == \A w \in Worker : req[w].step # "inboundWrite"

RowInv == TypeOK /\ ReqOK /\ NoInbound /\ ActiveHasTimer /\ RejectHasReason

LEMMA NoInboundStep ==
  ASSUME "lark" \notin Features, TypeOK, ReqOK, NoInbound, [Next]_vars
  PROVE  NoInbound'
<1>1. CASE UNCHANGED req
  BY <1>1 DEF NoInbound
<1>2. ASSUME NEW w \in Worker, NEW r, req' = [req EXCEPT ![w] = r], r.step # "inboundWrite"
      PROVE  NoInbound'
  BY <1>2 DEF NoInbound, TypeOK
<1>3. ASSUME NEW w \in Worker, Finish(w) PROVE NoInbound'
  <2>1. Idle.step # "inboundWrite"
    BY DEF Idle
  <2> QED
    BY <1>2, <1>3, <2>1 DEF Finish
<1>4. ASSUME NEW w \in Worker, NEW s, s # "inboundWrite", GoTo(w, s) PROVE NoInbound'
  <2> DEFINE r == [req[w] EXCEPT !.step = s]
  <2>1. req[w] \in Request
    BY DEF TypeOK
  <2>2. r.step = s
    BY <2>1 DEF Request
  <2> QED
    BY <1>2, <1>4, <2>2 DEF GoTo
<1>5. ASSUME NEW w \in Worker, Upload(w) PROVE NoInbound'
  BY <1>1, <1>3, <1>4, <1>5
  DEF Upload, CreateDocument, ResetTimer, AutoAdvanceRead, AutoAdvanceRole, AutoAdvanceDecide,
      AutoAdvanceWrite, NoInbound, TypeOK, Request
<1>6. ASSUME NEW w \in Worker, Delete(w) PROVE NoInbound'
  <2>1. CASE DeleteDocumentRead(w) \/ DeleteDocumentRow(w)
    BY <1>3, <2>1 DEF DeleteDocumentRead, DeleteDocumentRow, NoInbound, TypeOK, Request
  <2>2. CASE ReconcileRead(w) \/ ReconcileRole(w) \/ ReconcileDecide(w)
    BY <1>3, <2>2 DEF ReconcileRead, ReconcileRole, ReconcileDecide, NoInbound, TypeOK, Request
  <2>3. CASE ReconcileWrite(w)
    BY <1>4, <2>3 DEF ReconcileWrite
  <2> QED
    BY <1>6, <2>1, <2>2, <2>3 DEF Delete
<1>7. ASSUME NEW w \in Worker, Edit(w) PROVE NoInbound'
  BY <1>1, <1>3, <1>4, <1>7
  DEF Edit, UpdateProjectStatusRead, UpdateProjectStatusWrite, UpdateProjectRead,
      UpdateProjectWrite, AppointmentRead, SyncLatestPresent, ChangeOwnerRole,
      NoInbound, TypeOK, Request
<1>8. ASSUME NEW w \in Worker, WriteStatusLog(w) \/ AutoReject(w) \/ Inbound(w) \/ Failure(w)
      PROVE  NoInbound'
  BY <1>1, <1>3, <1>4, <1>8
  DEF WriteStatusLog, AutoReject, RunAutoRejectSelect, RunAutoRejectWrite, Inbound,
      PullLarkRecord, ApplyLarkInboundPatch, Failure, Fault, ResetTimerFails, StatusReadFails,
      NoInbound, At, TypeOK, Request
<1> QED
  BY <1>1, <1>5, <1>6, <1>7, <1>8 DEF Next, NinetyDaysPass, vars

LEMMA RowStep ==
  ASSUME "lark" \notin Features, RowInv, [Next]_vars
  PROVE  ActiveHasTimer' /\ RejectHasReason'
<1> USE DEF RowInv, ActiveHasTimer, RejectHasReason
<1>1. CASE UNCHANGED <<status, timer, reason>>
  BY <1>1
<1>2. ASSUME NEW w \in Worker, Upload(w) PROVE ActiveHasTimer' /\ RejectHasReason'
  <2>1. ResetTimer(w) \/ AutoAdvanceWrite(w) \/ UNCHANGED <<status, timer, reason>>
    BY <1>2 DEF Upload, CreateDocument, AutoAdvanceRead, AutoAdvanceRole, AutoAdvanceDecide, row
  <2>2. CASE ResetTimer(w)
    BY <2>2 DEF ResetTimer, TimerFor
  <2>3. CASE AutoAdvanceWrite(w)
    BY <2>3 DEF AutoAdvanceWrite, StoreStatus, TimerFor, ReqOK, Sound, At
  <2> QED
    BY <1>1, <2>1, <2>2, <2>3
<1>3. ASSUME NEW w \in Worker, Delete(w) PROVE ActiveHasTimer' /\ RejectHasReason'
  <2>1. ReconcileWrite(w) \/ UNCHANGED <<status, timer, reason>>
    BY <1>3 DEF Delete, DeleteDocumentRead, DeleteDocumentRow, ReconcileRead,
                ReconcileRole, ReconcileDecide, row
  <2>2. CASE ReconcileWrite(w)
    BY <2>2 DEF ReconcileWrite, StoreStatus, TimerFor, ReqOK, Sound, At
  <2> QED
    BY <1>1, <2>1, <2>2
<1>4. ASSUME NEW w \in Worker, Edit(w) PROVE ActiveHasTimer' /\ RejectHasReason'
  <2>1. \/ UpdateProjectStatusWrite(w) \/ UpdateProjectWrite(w) \/ SyncLatestPresent(w)
        \/ UNCHANGED <<status, timer, reason>>
    BY <1>4 DEF Edit, UpdateProjectStatusRead, UpdateProjectRead, AppointmentRead,
                ChangeOwnerRole, row
  <2>2. CASE UpdateProjectStatusWrite(w)
    BY <2>2 DEF UpdateProjectStatusWrite, StoreStatus, TimerFor, ReasonsFor
  <2>3. CASE UpdateProjectWrite(w)
    BY <2>3 DEF UpdateProjectWrite
  <2>4. CASE SyncLatestPresent(w)
    BY <2>4 DEF SyncLatestPresent
  <2> QED
    BY <1>1, <2>1, <2>2, <2>3, <2>4
<1>5. ASSUME NEW w \in Worker, WriteStatusLog(w) \/ AutoReject(w) \/ Inbound(w) \/ Failure(w)
      PROVE  ActiveHasTimer' /\ RejectHasReason'
  <2>1. RunAutoRejectWrite(w) \/ UNCHANGED <<status, timer, reason>>
    BY <1>5 DEF WriteStatusLog, AutoReject, RunAutoRejectSelect, Inbound, PullLarkRecord,
                ApplyLarkInboundPatch, NoInbound, At, Failure, Fault, ResetTimerFails,
                StatusReadFails, row
  <2>2. CASE RunAutoRejectWrite(w)
    BY <2>2 DEF RunAutoRejectWrite, Terminal
  <2> QED
    BY <1>1, <2>1, <2>2
<1>6. CASE NinetyDaysPass
  BY <1>6 DEF NinetyDaysPass
<1> QED
  BY <1>1, <1>2, <1>3, <1>4, <1>5, <1>6 DEF Next, vars

LEMMA RowInit == Init => RowInv
<1>1. Init => NoInbound /\ ActiveHasTimer /\ RejectHasReason
  BY DEF Init, Idle, NoInbound, ActiveHasTimer, RejectHasReason
<1> QED
  BY <1>1, InitTyped DEF RowInv

\* Without Lark, a project that is not terminal has a deadline and a rejected
\* one has a reason, for any number of overlapping and failing requests.
THEOREM RowStaysCoherent ==
  ASSUME "lark" \notin Features
  PROVE  Spec => [](ActiveHasTimer /\ RejectHasReason)
<1>1. RowInv /\ [Next]_vars => RowInv'
  BY NextTyped, NoInboundStep, RowStep DEF RowInv
<1>2. RowInv => ActiveHasTimer /\ RejectHasReason
  BY DEF RowInv
<1> QED
  BY RowInit, <1>1, <1>2, PTL DEF Spec

\* Whoever overlaps with whom, a rejected project says why: the cron and the
\* status change store a reason with a rejection, and no statement clears one.
THEOREM RejectionsSayWhy ==
  ASSUME "lark" \notin Features
  PROVE  Spec => []RejectHasReason
BY RowStaysCoherent, PTL
=============================================================================
