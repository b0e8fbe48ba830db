--------------------------- MODULE AppointmentMirror ---------------------------
(***************************************************************************)
(* The present appointments of a project and the column sets of its Lark   *)
(* record, which are to mirror each other: a request that changes          *)
(* appointments leaves a goroutine behind that loads them and writes one   *)
(* column after the other, and a pull fetches the columns and merges them  *)
(* into the rows (Appointments).  A column set is its date.  Whatever else *)
(* the record holds, and how the project finds it, is in LarkSync.         *)
(***************************************************************************)
EXTENDS Appointments

\* Features has three more members: "pull", "gaps" (support fills any column) and
\* "midpush" (at any time).
VARIABLES
  column,   \* dates in Lark; column 0 is the old, unnumbered name of column 1
  push,     \* the goroutine each request leaves behind
  fetched,  \* what a pull has fetched, and what was outstanding then
  muted,    \* the project is in inboundPushSkip, not yet 45 seconds ago
  pending   \* auxiliary: "app" and "lark" changes the other side was not given, or
            \* given from a load that failed

mirrorVars == <<column, push, fetched, muted, pending>>
allVars == <<vars, mirrorVars>>

ColumnSet == 1..maxAppointmentsPerType
Column == {0} \cup ColumnSet

NoPush == [step |-> "none", slots |-> <<>>, left |-> {}]
NoFetch == [edit |-> NoEdit, pending |-> {}, busy |-> FALSE]

MirrorInit ==
  /\ Init
  /\ column = [n \in Column |-> NoDate]
  /\ push = [w \in Worker |-> NoPush]
  /\ fetched = [w \in Worker |-> NoFetch]
  /\ muted = FALSE
  /\ pending = {}

Free(w) == At(w, "idle") /\ push[w] = NoPush /\ ~fetched[w].busy

\* Lark leaves an empty field out of a record, so that the old name is read
\* when the numbered column is empty.
ReadColumn(n) == IF n = 1 /\ column[1] = NoDate THEN column[0] ELSE column[n]
RecordInLark == [n \in ColumnSet |-> [column |-> IF ReadColumn(n) = NoDate THEN "absent" ELSE "date",
                                      date |-> ReadColumn(n)]]

-----------------------------------------------------------------------------
\* A request of the app takes its steps in Appointments; when it has written the
\* legacy columns it answers and leaves a push behind.
StartRequest(w) ==
  /\ Free(w)
  /\ CreateProjectAppointment(w) \/ DeleteProjectAppointment(w) \/ MoveToPresent(w)
  /\ UNCHANGED mirrorVars

\* A status request that adds no row answers at once.
AnswerStatus(w) ==
  /\ Free(w)
  /\ UpdateProjectStatus(w)
  /\ push' = [push EXCEPT ![w].step = "check"]
  /\ UNCHANGED <<column, fetched, muted, pending>>

IsPull(w) == req[w].edit # NoEdit

Respond(w) ==
  /\ ~IsPull(w)
  /\ SyncWrite(w)
  /\ push' = [push EXCEPT ![w].step = "check"]
  /\ UNCHANGED <<column, fetched, muted, pending>>

ContinueRequest(w) ==
  /\ \/ InsertAppointment(w) \/ InsertDated(w) \/ DeleteAppointmentRow(w) \/ SyncRead(w)
     \/ DeleteAllAppointmentsOfType(w) \/ ClearLegacy(w) \/ InsertSlot(w) \/ LastSync(w)
     \/ req[w].inbound /\ SyncWrite(w)
  /\ UNCHANGED mirrorVars

\* Every other handler that changes the project pushes its appointments, too.
PushAnyway(w) ==
  /\ Free(w)
  /\ push' = [push EXCEPT ![w].step = "check"]
  /\ UNCHANGED <<vars, column, fetched, muted, pending>>

\* SyncProjectToLark: a push of a muted project is dropped for good.
SkipPush(w) ==
  /\ push[w].step = "check"
  /\ muted
  /\ push' = [push EXCEPT ![w] = NoPush]
  /\ pending' = pending \cup {"app"}
  /\ UNCHANGED <<vars, column, fetched, muted>>

\* buildLarkAppointmentFields: the n-th appointment by date is column set n, and
\* the sets beyond the last one are cleared.
LoadSlots(w) ==
  /\ push[w].step = "check"
  /\ ~muted
  /\ push' = [push EXCEPT ![w] = [step |-> "write", slots |-> Loaded, left |-> Column]]
  /\ pending' = {}
  /\ UNCHANGED <<vars, column, fetched, muted>>

\* It does the same with what a failed load returns: appointments move to other
\* column sets or vanish from Lark, and nobody knows.
LoadSlotsBlind(w) ==
  /\ "faults" \in Features
  /\ push[w].step = "check"
  /\ ~muted
  /\ \E slots \in CutShort :
       push' = [push EXCEPT ![w] = [step |-> "write", slots |-> slots, left |-> Column]]
  /\ pending' = pending \cup {"app"}
  /\ UNCHANGED <<vars, column, fetched, muted>>

\* The goroutine does not get as far: the project cannot be read, Lark gives no
\* token or no record, or the process is stopped.
PushFails(w) ==
  /\ "faults" \in Features
  /\ push[w].step = "check"
  /\ push' = [push EXCEPT ![w] = NoPush]
  /\ pending' = pending \cup {"app"}
  /\ UNCHANGED <<vars, column, fetched, muted>>

SlotOf(slots, n) == Base(slots, IF n = 0 THEN 1 ELSE n)

\* syncLarkFieldsGradual: one call per column, in the order a Go map gives; a call
\* that fails is logged and left.
Unwritten(w, n) ==
  IF push[w].left # {n} THEN [push EXCEPT ![w].left = @ \ {n}] ELSE [push EXCEPT ![w] = NoPush]
WriteColumnIfDated(w, n) ==
  /\ push[w].step = "write" /\ n \in push[w].left
  /\ column' = [column EXCEPT ![n] = IF SlotOf(push[w].slots, n) = NoDate THEN @
                                     ELSE SlotOf(push[w].slots, n)]
  /\ push' = Unwritten(w, n)
  /\ UNCHANGED <<vars, fetched, muted, pending>>
WriteColumn(w, n) ==
  /\ push[w].step = "write" /\ n \in push[w].left
  /\ column' = [column EXCEPT ![n] = SlotOf(push[w].slots, n)]
  /\ push' = Unwritten(w, n)
  /\ UNCHANGED <<vars, fetched, muted, pending>>

WriteFails(w, n) ==
  /\ "faults" \in Features
  /\ push[w].step = "write" /\ n \in push[w].left
  /\ push' = Unwritten(w, n)
  /\ pending' = pending \cup {"app"}
  /\ UNCHANGED <<vars, column, fetched, muted>>

-----------------------------------------------------------------------------
\* PullLarkRecordInbound, for a webhook or for whoever opens the project: the
\* record is fetched in one call ...
PullLarkRecordInbound(w) ==
  /\ "pull" \in Features
  /\ Free(w)
  /\ fetched' = [fetched EXCEPT ![w] =
       [edit |-> RecordInLark, pending |-> pending, busy |-> TRUE]]
  /\ UNCHANGED <<vars, column, push, muted, pending>>

\* ... the patch mutes the project, and the columns are merged into the rows.
ApplyFetched(w) ==
  /\ fetched[w].busy
  /\ ApplyLarkInboundAppointments(w, fetched[w].edit)
  /\ muted' = TRUE
  /\ UNCHANGED <<column, push, fetched, pending>>

NothingFetched(w) ==
  /\ fetched[w].busy /\ At(w, "idle")
  /\ fetched[w].edit = NoEdit
  /\ muted' = TRUE
  /\ fetched' = [fetched EXCEPT ![w] = NoFetch]
  /\ UNCHANGED <<vars, column, push, pending>>

EndPull(w) ==
  /\ IsPull(w) /\ ~req[w].inbound
  /\ SyncWrite(w)
  /\ fetched' = [fetched EXCEPT ![w] = NoFetch]
  /\ pending' = IF fetched[w].edit = RecordInLark THEN pending \ {"lark"} ELSE pending
  /\ UNCHANGED <<column, push, muted>>

\* Support dates a column set that is in use or the next one, and not while a push
\* is rewriting them ...
EditInLark ==
  /\ "midpush" \in Features \/ \A w \in Worker : push[w].step # "write"
  /\ \E n \in Column, t \in Time :
       /\ "gaps" \in Features \/ \A k \in 1..(n - 1) : ReadColumn(k) # NoDate
       /\ column' = [column EXCEPT ![n] = t]
  /\ pending' = pending \cup {"lark"}
  /\ UNCHANGED <<vars, push, fetched, muted>>

\* ... or clears one, which a pull passes over (Merge) and the next push undoes.
ClearInLark ==
  /\ \E n \in Column : column[n] # NoDate /\ column' = [column EXCEPT ![n] = NoDate]
  /\ pending' = pending \cup {"app"}
  /\ UNCHANGED <<vars, push, fetched, muted>>

FortyFiveSecondsPass ==
  /\ muted
  /\ muted' = FALSE
  /\ UNCHANGED <<vars, column, push, fetched, pending>>

\* A statement fails; the columns and the rows are left as they are.
RequestFails(w) ==
  /\ Fault(w)
  /\ pending' = pending \cup {IF IsPull(w) THEN "lark" ELSE "app"}
  /\ fetched' = [fetched EXCEPT ![w] = NoFetch]
  /\ UNCHANGED <<column, push, muted>>

MirrorNext ==
  \/ EditInLark \/ ClearInLark \/ FortyFiveSecondsPass
  \/ \E w \in Worker :
       \/ StartRequest(w) \/ AnswerStatus(w) \/ ContinueRequest(w) \/ Respond(w)
       \/ PushAnyway(w) \/ SkipPush(w) \/ LoadSlots(w) \/ LoadSlotsBlind(w) \/ PushFails(w)
       \/ \E n \in Column : WriteColumn(w, n) \/ WriteFails(w, n)
       \/ PullLarkRecordInbound(w) \/ ApplyFetched(w) \/ NothingFetched(w) \/ EndPull(w)
       \/ RequestFails(w)

MirrorSpec == MirrorInit /\ [][MirrorNext]_allVars

-----------------------------------------------------------------------------
MirrorTypeOK ==
  /\ TypeOK
  /\ column \in [Column -> Time \cup {NoDate}]
  /\ muted \in BOOLEAN
  /\ pending \in SUBSET {"app", "lark"}
  /\ push \in [Worker -> [step: {"none", "check", "write"}, slots: Seq(Time), left: SUBSET Column]]
  /\ fetched \in [Worker -> [edit: Edit, pending: SUBSET {"app", "lark"}, busy: BOOLEAN]]
  /\ \A w \in Worker : push[w].step = "write" <=> push[w].left # {}

Times(slots, t) == Cardinality({n \in DOMAIN slots : slots[n] = t})

\* The appointments there is a column set for.
Shown(list) ==
  FirstOf(list, IF Len(list) < maxAppointmentsPerType THEN Len(list) ELSE maxAppointmentsPerType)

\* When nothing is under way and nothing is outstanding, support and dealers see the
\* same appointments, one column set for each (lark_extras.go:291).  What a failed load
\* made of the columns is outstanding until a push whose load succeeds.
SameAppointments ==
  (\A w \in Worker : Free(w)) /\ pending = {} =>
    \A t \in Time :
      Times(Shown(Loaded), t) = Times([n \in ColumnSet |-> ReadColumn(n)], t)

\* A pull that brings nothing new deletes and inserts every row and changes none,
\* unless there are more than columns.
EchoChangesNothing ==
  [][\A w \in Worker :
       EndPull(w) /\ fetched[w].pending = {} =>
         \A t \in Time : Times(Loaded', t) = Times(Shown(req[w].was), t)]_allVars

\* Support changed nothing: then a pull undoes nothing of the app either.
EditsSurvivePull ==
  [][\A w \in Worker :
       EndPull(w) /\ "lark" \notin fetched[w].pending =>
         \A t \in Time : Times(Loaded', t) = Times(req[w].was, t)]_allVars
================================================================================
