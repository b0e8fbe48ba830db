---------------------------- MODULE Appointments ----------------------------
(***************************************************************************)
(* The present appointments of one project: the rows of                    *)
(* project_appointments, the legacy columns of projects that copy the      *)
(* latest of them, and the writers that overlap: the appointment handlers, *)
(* PUT /projects/:id/status, which overwrites the legacy columns and may   *)
(* add a row, the inbound Lark edit, which deletes every row of the type   *)
(* and inserts the merged slots again, and syncLatestPresentLegacyColumns, *)
(* which each of them calls.  A row is its date; notes, links and the      *)
(* calendar event travel with it.  UpdateProjectAppointment changes only   *)
(* the link and the note and has no action here.                           *)
(* Of a closed project most of them refuse to do anything; its status is   *)
(* Pipeline's, and here any request may simply not be made.                *)
(*                                                                         *)
(* Most of these readers pass over the error of a SELECT and go on with    *)
(* what they have; with "faults" they do so here.                          *)
(***************************************************************************)
EXTENDS Naturals, Sequences, FiniteSets

CONSTANTS
  Worker,               \* goroutines: appointment and status requests, inbound edits
  Id,                   \* primary keys of rows; bound: a key is reused once free
  Time,                 \* dates, numbers above NoDate in their order
  maxAppointmentsPerType,
  Features              \* which of "lark", "faults" are in play

NoDate == 0

ASSUME TimeAssumption == Time \subseteq Nat \ {NoDate}
ASSUME LimitAssumption == maxAppointmentsPerType \in Nat \ {0}

VARIABLES
  date,    \* scheduled_at of each row, NoDate where there is no row
  legacy,  \* projects.appointment_date
  req      \* what each goroutine is doing

vars == <<date, legacy, req>>

\* What the record in Lark has in column set n: nothing, a note or a link
\* without a date, an empty date, or a date.
Slot == {[column |-> c, date |-> NoDate] : c \in {"absent", "note", "cleared"}}
          \cup {[column |-> "date", date |-> t] : t \in Time}
Edit == [1..maxAppointmentsPerType -> Slot]
NoEdit == [n \in 1..maxAppointmentsPerType |-> [column |-> "absent", date |-> NoDate]]
Touched(slot) == slot.column # "absent"

\* plan is what is left to insert.  was is what there was when an inbound edit
\* loaded the rows, and blind whether its load failed and showed it less.
Request == [step: {"idle", "insert", "insertDated", "delete", "sync", "syncWrite",
                   "wipe", "wipeLegacy", "insertSlot"},
            arg: Id \cup Time \cup {NoDate}, plan: Seq(Time), was: Seq(Time),
            edit: Edit, inbound: BOOLEAN, blind: BOOLEAN]
Idle == [step |-> "idle", arg |-> NoDate, plan |-> <<>>, was |-> <<>>,
         edit |-> NoEdit, inbound |-> FALSE, blind |-> FALSE]

Init ==
  /\ date = [i \in Id |-> NoDate]
  /\ legacy = NoDate
  /\ req = [w \in Worker |-> Idle]

At(w, step) == req[w].step = step
GoTo(w, step) == req' = [req EXCEPT ![w].step = step]
Finish(w) == req' = [req EXCEPT ![w] = Idle]

Rows == {i \in Id : date[i] # NoDate}
Dates == {date[i] : i \in Rows}
Latest == IF Rows = {} THEN NoDate ELSE CHOOSE t \in Dates : \A u \in Dates : u <= t

\* The elements of S by key, those with the same key in any order.
InOrder(S, key) ==
  CHOOSE f \in [1..Cardinality(S) -> S] :
    \A m, n \in 1..Cardinality(S) : m < n => f[m] # f[n] /\ key[f[m]] <= key[f[n]]

\* loadLarkAppointmentsByType: the rows by date, or the legacy columns if there
\* is no row.
Loaded ==
  IF Rows # {} THEN [n \in 1..Cardinality(Rows) |-> date[InOrder(Rows, date)[n]]]
  ELSE IF legacy # NoDate THEN <<legacy>> ELSE <<>>

\* What it returns when a query of it fails, of which it says nothing: no rows, or
\* those that came before the connection broke, and without rows the legacy columns,
\* which may fail as well.
FirstOf(list, k) == [n \in 1..k |-> list[n]]
CutShort ==
  {FirstOf(Loaded, k) : k \in 0..(Len(Loaded) - 1)}
    \cup {<<>>} \cup (IF legacy # NoDate THEN {<<legacy>>} ELSE {})

(***************************************************************************)
(* mergeInboundSlots: slot n is the n-th existing appointment, moved to    *)
(* the edit's date if the edit has one.                                    *)
(***************************************************************************)
Base(existing, n) == IF n <= Len(existing) THEN existing[n] ELSE NoDate
HasTime(d) == d # NoDate

\* The slots that have a date, in the order of the slots.
Filled(slots) ==
  LET S == {n \in DOMAIN slots : HasTime(slots[n])}
  IN [m \in 1..Cardinality(S) |-> slots[InOrder(S, [n \in S |-> n])[m]]]

MergeDroppingRest(existing, edit) ==
  Filled([n \in 1..maxAppointmentsPerType |-> edit[n].date])
MergeKeepingEmpty(existing, edit) ==
  [n \in 1..maxAppointmentsPerType |->
     IF HasTime(edit[n].date) THEN edit[n].date ELSE Base(existing, n)]
Merge(existing, edit) ==
  Filled([n \in 1..maxAppointmentsPerType |->
            IF Touched(edit[n]) /\ HasTime(edit[n].date) THEN edit[n].date
            ELSE Base(existing, n)])

-----------------------------------------------------------------------------
\* POST /projects/:id/appointments/present: the status and the count are read,
\* the invitations go out, and then the row is inserted.
CreateRegardless(w) ==
  /\ At(w, "idle")
  /\ \E t \in Time : req' = [req EXCEPT ![w] = [@ EXCEPT !.step = "insert", !.arg = t]]
  /\ UNCHANGED <<date, legacy>>
CreateProjectAppointment(w) ==
  /\ At(w, "idle")
  /\ Cardinality(Rows) < maxAppointmentsPerType
  /\ \E t \in Time : req' = [req EXCEPT ![w] = [@ EXCEPT !.step = "insert", !.arg = t]]
  /\ UNCHANGED <<date, legacy>>

InsertAppointment(w) ==
  /\ At(w, "insert")
  /\ \E i \in Id \ Rows : date' = [date EXCEPT ![i] = req[w].arg]
  /\ GoTo(w, "sync")
  /\ UNCHANGED legacy

\* DELETE /projects/:id/appointments/:apptId; a row that is gone by then is
\* answered with 404.
DeleteProjectAppointment(w) ==
  /\ At(w, "idle")
  /\ \E i \in Id : req' = [req EXCEPT ![w] = [@ EXCEPT !.step = "delete", !.arg = i]]
  /\ UNCHANGED <<date, legacy>>

DeleteAppointmentRow(w) ==
  /\ At(w, "delete")
  /\ IF req[w].arg \in Rows
       THEN /\ date' = [date EXCEPT ![req[w].arg] = NoDate]
            /\ req' = [req EXCEPT ![w] = [@ EXCEPT !.step = "sync", !.arg = NoDate]]
       ELSE Finish(w) /\ UNCHANGED date
  /\ UNCHANGED legacy

\* PUT /projects/:id/status: the legacy columns are set to the request's date or
\* cleared.
UpdateProjectStatus(w) ==
  /\ At(w, "idle")
  /\ legacy' \in Time \cup {NoDate}
  /\ UNCHANGED <<date, req>>

\* Status present with a date: the row is inserted, too, however many there are.
MoveToPresent(w) ==
  /\ At(w, "idle")
  /\ \E t \in Time :
       /\ legacy' = t
       /\ req' = [req EXCEPT ![w] = [@ EXCEPT !.step = "insertDated", !.arg = t]]
  /\ UNCHANGED date

InsertDated(w) ==
  /\ At(w, "insertDated")
  /\ \E i \in Id \ Rows : date' = [date EXCEPT ![i] = req[w].arg]
  /\ GoTo(w, "sync")
  /\ UNCHANGED legacy

\* syncLatestPresentLegacyColumns reads the latest row, and takes an error for no
\* row ...
SyncRead(w) ==
  /\ At(w, "sync")
  /\ \E t \in {Latest} \cup (IF "faults" \in Features THEN {NoDate} ELSE {}) :
       req' = [req EXCEPT ![w] = [@ EXCEPT !.step = "syncWrite", !.arg = t]]
  /\ UNCHANGED <<date, legacy>>

\* ... and writes what it read, or fails to; an inbound edit goes on with its next
\* slot.
SyncWrite(w) ==
  /\ At(w, "syncWrite")
  /\ \/ legacy' = req[w].arg
     \/ "faults" \in Features /\ UNCHANGED legacy
  /\ IF req[w].inbound THEN GoTo(w, "insertSlot") ELSE Finish(w)
  /\ UNCHANGED date

-----------------------------------------------------------------------------
\* applyLarkInboundAppointments: loads the rows and merges the record into them,
\* or into what a failed load returned; it asks for no status.
ApplyLarkInboundAppointments(w, edit) ==
  /\ At(w, "idle")
  /\ \E n \in DOMAIN edit : Touched(edit[n])
  /\ \E blind \in (IF "faults" \in Features THEN BOOLEAN ELSE {FALSE}) :
       \E existing \in (IF blind THEN CutShort ELSE {Loaded}) :
         req' = [req EXCEPT ![w] =
           [@ EXCEPT !.step = "wipe", !.plan = Merge(existing, edit), !.was = Loaded,
                     !.edit = edit, !.inbound = TRUE, !.blind = blind]]
  /\ UNCHANGED <<date, legacy>>

\* deleteAllAppointmentsOfType: the rows, then the legacy columns.
DeleteNothing(w) ==
  /\ At(w, "wipe")
  /\ GoTo(w, "wipeLegacy")
  /\ UNCHANGED <<date, legacy>>
DeleteAllAppointmentsOfType(w) ==
  /\ At(w, "wipe")
  /\ date' = [i \in Id |-> NoDate]
  /\ GoTo(w, "wipeLegacy")
  /\ UNCHANGED legacy

ClearLegacy(w) ==
  /\ At(w, "wipeLegacy")
  /\ legacy' = NoDate
  /\ GoTo(w, "insertSlot")
  /\ UNCHANGED date

\* insertProjectAppointmentRow for each slot, each followed by a sync, and a
\* last sync after them.
InsertSlot(w) ==
  /\ At(w, "insertSlot")
  /\ req[w].plan # <<>>
  /\ \E i \in Id \ Rows : date' = [date EXCEPT ![i] = Head(req[w].plan)]
  /\ req' = [req EXCEPT ![w] = [@ EXCEPT !.step = "sync", !.plan = Tail(req[w].plan)]]
  /\ UNCHANGED legacy

LastSync(w) ==
  /\ At(w, "insertSlot")
  /\ req[w].plan = <<>>
  /\ req' = [req EXCEPT ![w] = [@ EXCEPT !.step = "sync", !.inbound = FALSE]]
  /\ UNCHANGED <<date, legacy>>

\* A statement whose error ends the handler fails, or the process is stopped: the
\* request ends where it is, there is no transaction.
Fault(w) ==
  /\ "faults" \in Features
  /\ ~At(w, "idle")
  /\ Finish(w)
  /\ UNCHANGED <<date, legacy>>

Next ==
  \E w \in Worker :
    \/ CreateProjectAppointment(w) \/ InsertAppointment(w)
    \/ DeleteProjectAppointment(w) \/ DeleteAppointmentRow(w)
    \/ UpdateProjectStatus(w) \/ MoveToPresent(w) \/ InsertDated(w)
    \/ SyncRead(w) \/ SyncWrite(w)
    \/ "lark" \in Features /\ \E edit \in Edit : ApplyLarkInboundAppointments(w, edit)
    \/ DeleteAllAppointmentsOfType(w)
    \/ ClearLegacy(w) \/ InsertSlot(w) \/ LastSync(w) \/ Fault(w)

Spec == Init /\ [][Next]_vars

-----------------------------------------------------------------------------
TypeOK ==
  /\ date \in [Id -> Time \cup {NoDate}]
  /\ legacy \in Time \cup {NoDate}
  /\ req \in [Worker -> Request]
  /\ \A w \in Worker : /\ At(w, "insert") \/ At(w, "insertDated") => req[w].arg \in Time
                       /\ At(w, "delete") => req[w].arg \in Id
                       /\ At(w, "syncWrite") => req[w].arg \in Time \cup {NoDate}

\* A type holds at most maxAppointmentsPerType rows ("max 10 per type",
\* appointments.go:108), which is also how many column sets Lark has for them.  The
\* code does not keep to it: the next property says who breaks it.
AtMostMax == Cardinality(Rows) <= maxAppointmentsPerType

\* Nobody adds a row to a full type but the status handler: not the appointment
\* handler, which counted the rows before the invitations went out, and not an inbound
\* edit, which inserts up to maxAppointmentsPerType slots one by one.
LimitKept ==
  [][AtMostMax' \/ Cardinality(Rows') <= Cardinality(Rows)
       \/ \E w \in Worker : InsertDated(w)]_vars

\* A sync leaves the legacy columns with the latest row (appointments.go:353), whoever
\* else syncs meanwhile; a status request overwrites them whatever the rows are.
SyncLeavesLatest == [][\A w \in Worker : SyncWrite(w) => legacy' = Latest]_vars

\* When an inbound edit has come to its last sync, every appointment whose column
\* set it did not touch is there, although it deleted and inserted them all again.
\* Lost are what a failed load did not show it, and appointments beyond the last
\* column set.
UntouchedSurvive ==
  \A w \in Worker :
    At(w, "syncWrite") /\ req[w].edit # NoEdit /\ ~req[w].inbound /\ ~req[w].blind =>
      \A n \in DOMAIN req[w].edit \cap DOMAIN req[w].was :
        ~Touched(req[w].edit[n]) => req[w].was[n] \in Dates

\* Clearing the date of column set n deletes appointment n
\* (lark_extras.go:293, the guide the program writes into the Lark record).
ClearedDisappear ==
  [][\A w \in Worker :
       req[w].edit # NoEdit /\ At(w, "idle")' =>
         Cardinality(Rows') <= Cardinality({n \in DOMAIN req[w].edit :
             \/ req[w].edit[n].column = "date"
             \/ req[w].edit[n].column # "cleared" /\ n <= Len(req[w].was)})]_vars
=============================================================================
