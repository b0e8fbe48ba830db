------------------------------ MODULE LarkSync ------------------------------
(***************************************************************************)
(* One project and its record in the Lark Bitable.  After a change in the  *)
(* app a goroutine pushes the row to Lark (SyncProjectToLark): it uses the *)
(* record id it knows, or searches by Project ID, or creates a record and  *)
(* saves the id.  A webhook or the opening of the project pulls a record   *)
(* into the row (PullLarkRecordInbound) and mutes the pushes of the        *)
(* project for 45 seconds.                                                 *)
(*                                                                         *)
(* The base columns are written in one call.  The further columns follow   *)
(* with one call each, whose errors are logged and passed over; they stand *)
(* here for two: the detail note, which is read with the row and pulled,   *)
(* and the list of the documents, which every push reads for itself and no *)
(* pull takes back.  The appointments are in AppointmentMirror; the name   *)
(* of the company, another column, belongs to the base here.               *)
(***************************************************************************)
EXTENDS Naturals, FiniteSets

CONSTANTS
  Worker,    \* goroutines: app edits with their pushes, and pulls
  Record,    \* record ids of the Bitable; bound: creation stops when all are used
  Value,     \* contents of a part of the row
  Features   \* which of "pull", "lark" (edits in Lark), "faults" are in play

None == "none"

ASSUME ValueAssumption == None \notin Value
ASSUME RecordAssumption == None \notin Record

VARIABLES
  row,     \* the project's contents, Blank before CreateProject
  link,    \* its lark_record_id
  table,   \* the contents of each record, Blank where there is none
  muted,   \* the project is in inboundPushSkip, not yet 45 seconds ago
  req      \* what each goroutine is doing

vars == <<row, link, table, muted, req>>

Further == {"note", "docs"}
Part == {"base"} \cup Further
Contents == [Part -> Value \cup {None}]
Blank == [p \in Part |-> None]
\* What the app shows of a project, which may have no documents; a column in Lark
\* may be empty or missing.
InApp == {c \in Contents : c["base"] # None /\ c["note"] # None}

\* left is the columns a push has still to write, created whether its record is new,
\* and missed (auxiliary) the columns a failing read or call of it has left out.
Step == {"idle", "reload", "check", "link", "find", "create", "saveNew", "update", "columns",
         "save", "pushed", "fetch", "mute", "apply"}
Request == [step : Step, value : Contents, record : Record \cup {None},
            left : SUBSET Further, created : BOOLEAN, missed : SUBSET Further]
Idle == [step |-> "idle", value |-> Blank, record |-> None,
         left |-> {}, created |-> FALSE, missed |-> {}]

Init ==
  /\ row = Blank
  /\ link = None
  /\ table = [r \in Record |-> Blank]
  /\ muted = FALSE
  /\ req = [w \in Worker |-> Idle]

At(w, step) == req[w].step = step
GoTo(w, step) == req' = [req EXCEPT ![w].step = step]
Finish(w) == req' = [req EXCEPT ![w] = Idle]

Records == {r \in Record : table[r]["base"] # None}

-----------------------------------------------------------------------------
\* CreateProject inserts the row and pushes the row it inserted.
CreateProject(w) ==
  /\ At(w, "idle")
  /\ row = Blank
  /\ \E v \in InApp :
       /\ row' = v
       /\ req' = [req EXCEPT ![w] = [@ EXCEPT !.step = "check", !.value = v]]
  /\ UNCHANGED <<link, table, muted>>

EditAndPushWhatWasRead(w) ==
  /\ At(w, "idle")
  /\ row # Blank
  /\ \E v \in InApp : row' = v
  /\ req' = [req EXCEPT ![w] = [@ EXCEPT !.step = "check", !.value = row, !.record = link]]
  /\ UNCHANGED <<link, table, muted>>
\* The handlers that change a project (status, fields, appointments, documents)
\* write it, and read it again before they push it.
EditProject(w) ==
  /\ At(w, "idle")
  /\ row # Blank
  /\ \E v \in InApp : row' = v
  /\ GoTo(w, "reload")
  /\ UNCHANGED <<link, table, muted>>

Reload(w) ==
  /\ At(w, "reload")
  /\ req' = [req EXCEPT ![w] = [@ EXCEPT !.step = "check", !.value = row, !.record = link]]
  /\ UNCHANGED <<row, link, table, muted>>

\* shouldSkipLarkPush
SkipPush(w) ==
  /\ At(w, "check")
  /\ muted
  /\ Finish(w)
  /\ UNCHANGED <<row, link, table, muted>>

\* buildLarkExtras reads the documents, and takes a failing read for no documents.
BeginPush(w) ==
  /\ At(w, "check")
  /\ ~muted
  /\ \E failed \in (IF "faults" \in Features THEN BOOLEAN ELSE {FALSE}) :
       req' = [req EXCEPT ![w] =
         [@ EXCEPT !.step = IF req[w].record # None THEN "update" ELSE "link",
                   !.value["docs"] = IF failed THEN None ELSE row["docs"],
                   !.missed = IF failed THEN {"docs"} ELSE {}]]
  /\ UNCHANGED <<row, link, table, muted>>

\* loadLarkRecordID, which takes a failing read for no record, then findLarkRecord,
\* then a new record.
LoadLarkRecordID(w) ==
  /\ At(w, "link")
  /\ \E r \in {link} \cup (IF "faults" \in Features THEN {None} ELSE {}) :
       req' = [req EXCEPT ![w] = [@ EXCEPT !.step = IF r # None THEN "update" ELSE "find",
                                           !.record = r]]
  /\ UNCHANGED <<row, link, table, muted>>

FindNothing(w) ==
  /\ At(w, "find")
  /\ GoTo(w, "create")
  /\ UNCHANGED <<row, link, table, muted>>
FindLarkRecord(w) ==
  /\ At(w, "find")
  /\ IF Records = {} THEN GoTo(w, "create")
     ELSE \E r \in Records :
            req' = [req EXCEPT ![w] = [@ EXCEPT !.step = "update", !.record = r]]
  /\ UNCHANGED <<row, link, table, muted>>

\* A new record gets all columns, or, if Lark will not have one of them, the base.
Created(w, r) ==
  \/ table' = [table EXCEPT ![r] = req[w].value]
  \/ "faults" \in Features /\ table' = [table EXCEPT ![r]["base"] = req[w].value["base"]]
IgnoreFailedCreate(w) ==
  /\ At(w, "create")
  /\ \E r \in Record \ Records :
       req' = [req EXCEPT ![w] = [@ EXCEPT !.step = "saveNew", !.record = r, !.created = TRUE]]
  /\ UNCHANGED <<row, link, table, muted>>
CreateLarkRecord(w) ==
  /\ At(w, "create")
  /\ \E r \in Record \ Records :
       /\ Created(w, r)
       /\ req' = [req EXCEPT ![w] = [@ EXCEPT !.step = "saveNew", !.record = r, !.created = TRUE]]
  /\ UNCHANGED <<row, link, muted>>

UpdateLarkRecord(w) ==
  /\ At(w, "update")
  /\ table' = [table EXCEPT ![req[w].record]["base"] = req[w].value["base"]]
  /\ req' = [req EXCEPT ![w] = [@ EXCEPT !.step = "columns", !.left = Further]]
  /\ UNCHANGED <<row, link, muted>>

\* syncLarkFieldsGradual: one call per column, in the order a Go map gives.
ColumnTried(w, p, missed) ==
  req' = [req EXCEPT ![w] =
    [@ EXCEPT !.step = IF req[w].left # {p} THEN "columns"
                       ELSE IF req[w].created THEN "pushed" ELSE "save",
              !.left = req[w].left \ {p}, !.missed = req[w].missed \cup missed]]
SyncLarkColumn(w, p) ==
  /\ At(w, "columns") /\ p \in req[w].left
  /\ table' = [table EXCEPT ![req[w].record][p] = req[w].value[p]]
  /\ ColumnTried(w, p, {})
  /\ UNCHANGED <<row, link, muted>>
SyncColumnFails(w, p) ==
  /\ "faults" \in Features
  /\ At(w, "columns") /\ p \in req[w].left
  /\ ColumnTried(w, p, {p})
  /\ UNCHANGED <<row, link, table, muted>>

\* saveLarkRecordID comes before the further columns of a new record and after those
\* of an old one; its failure is logged and nothing else.
SaveThenColumns(w) ==
  \/ At(w, "saveNew") /\ req' = [req EXCEPT ![w] = [@ EXCEPT !.step = "columns", !.left = Further]]
  \/ At(w, "save") /\ GoTo(w, "pushed")
SaveInWrongColumn(w) ==
  /\ SaveThenColumns(w)
  /\ row' = [row EXCEPT !["base"] = req[w].record]
  /\ UNCHANGED <<link, table, muted>>
SaveLarkRecordID(w) ==
  /\ SaveThenColumns(w)
  /\ \/ link' = req[w].record
     \/ "faults" \in Features /\ UNCHANGED link
  /\ UNCHANGED <<row, table, muted>>

\* The push logs that it is done.
EndPush(w) ==
  /\ At(w, "pushed")
  /\ Finish(w)
  /\ UNCHANGED <<row, link, table, muted>>

-----------------------------------------------------------------------------
\* A webhook names a record, GetProject pulls the linked one; both may come at
\* any time, late and more than once.
PullLarkRecordInbound(w) ==
  /\ "pull" \in Features
  /\ At(w, "idle")
  /\ \E r \in Records :
       req' = [req EXCEPT ![w] = [@ EXCEPT !.step = "fetch", !.record = r]]
  /\ UNCHANGED <<row, link, table, muted>>

FetchRecord(w) ==
  /\ At(w, "fetch")
  /\ req' = [req EXCEPT ![w] = [@ EXCEPT !.step = "mute", !.value = table[req[w].record]]]
  /\ UNCHANGED <<row, link, table, muted>>

MarkInboundSync(w) ==
  /\ At(w, "mute")
  /\ muted' = TRUE
  /\ GoTo(w, "apply")
  /\ UNCHANGED <<row, link, table>>

\* A column that is empty in Lark leaves the row's contents as they are.
Patched(w) ==
  [row EXCEPT !["base"] = req[w].value["base"],
              !["note"] = IF req[w].value["note"] # None THEN req[w].value["note"] ELSE @]
ApplyWithoutRecord(w) ==
  /\ At(w, "apply")
  /\ row' = Patched(w)
  /\ link' = None
  /\ Finish(w)
  /\ UNCHANGED <<table, muted>>
ApplyLarkInboundPatch(w) ==
  /\ At(w, "apply")
  /\ row' = Patched(w)
  /\ link' = req[w].record
  /\ Finish(w)
  /\ UNCHANGED <<table, muted>>

\* Support edits a column in Lark, or clears a further one.
EditInLark ==
  /\ "lark" \in Features
  /\ \E r \in Records, p \in Part, v \in Value \cup {None} :
       /\ p = "base" => v # None
       /\ table' = [table EXCEPT ![r][p] = v]
  /\ UNCHANGED <<row, link, muted, req>>

FortyFiveSecondsPass ==
  /\ muted
  /\ muted' = FALSE
  /\ UNCHANGED <<row, link, table, req>>

\* A call to Lark or to the database fails whose error ends the goroutine, or the
\* process is restarted and forgets inboundPushSkip with its goroutines.
Fault(w) ==
  /\ "faults" \in Features
  /\ ~At(w, "idle")
  /\ Finish(w)
  /\ UNCHANGED <<row, link, table, muted>>

Restart ==
  /\ "faults" \in Features
  /\ muted' = FALSE
  /\ req' = [w \in Worker |-> Idle]
  /\ UNCHANGED <<row, link, table>>

\* Lark has done what it was asked for but the answer is lost (30 s timeout).
AnswerLost(w) ==
  /\ "faults" \in Features
  /\ \/ At(w, "create") /\ \E r \in Record \ Records : Created(w, r)
     \/ /\ At(w, "update")
        /\ table' = [table EXCEPT ![req[w].record]["base"] = req[w].value["base"]]
  /\ Finish(w)
  /\ UNCHANGED <<row, link, muted>>

Continue(w) ==
  \/ Reload(w) \/ SkipPush(w) \/ BeginPush(w) \/ LoadLarkRecordID(w)
  \/ FindLarkRecord(w) \/ CreateLarkRecord(w) \/ UpdateLarkRecord(w)
  \/ \E p \in Further : SyncLarkColumn(w, p) \/ SyncColumnFails(w, p)
  \/ SaveLarkRecordID(w) \/ EndPush(w) \/ FetchRecord(w) \/ MarkInboundSync(w)
  \/ ApplyLarkInboundPatch(w)

Next ==
  \/ EditInLark \/ FortyFiveSecondsPass \/ Restart
  \/ \E w \in Worker :
       \/ CreateProject(w) \/ EditProject(w) \/ PullLarkRecordInbound(w)
       \/ Continue(w) \/ Fault(w) \/ AnswerLost(w)

Spec == Init /\ [][Next]_vars

-----------------------------------------------------------------------------
TypeOK ==
  /\ row \in InApp \cup {Blank}
  /\ link \in Record \cup {None}
  /\ table \in [Record -> Contents]
  /\ muted \in BOOLEAN
  /\ req \in [Worker -> Request]

\* A project has at most one record in Lark ("upserts a single project record",
\* lark.go:255).
OneRecord == Cardinality(Records) <= 1

\* A record id the program stores or is about to write to is a record's, and an
\* inbound patch carries contents.
KnownRecordExists ==
  /\ link # None => link \in Records
  /\ \A w \in Worker :
       /\ req[w].record # None => req[w].record \in Records
       /\ req[w].step \in {"update", "saveNew", "columns", "save", "fetch"} => req[w].record # None
       /\ At(w, "apply") => req[w].value["base"] # None

\* Once a project is linked to a record it stays linked to one.
StaysLinked == [][link # None => link' # None]_vars

\* A push that reaches its end has brought the row's contents to the project's
\* record, whatever failed before it, but for the columns whose own read or call
\* failed: with one request at a time a lost push is made good by the next one.
PushDelivers ==
  \A w \in Worker :
    At(w, "pushed") =>
      \A p \in Part \ req[w].missed : table[req[w].record][p] = row[p]
=============================================================================
