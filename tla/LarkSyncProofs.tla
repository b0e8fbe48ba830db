----------------------------- MODULE LarkSyncProofs -----------------------------
(***************************************************************************)
(* Proofs about LarkSync.  Records are never deleted, so a record id that  *)
(* was a record's stays one; what has to be carried along is that every    *)
(* request writes contents, never the absence of any.  With one goroutine  *)
(* nothing comes between a search that found nothing and the creation.     *)
(***************************************************************************)
EXTENDS LarkSync, FiniteSetTheorems, TLAPS

Pushing == {"check", "link", "find", "create", "update"}
Pulling == {"mute", "apply"}
Placed == {"saveNew", "columns", "save", "update", "fetch"} \cup Pulling

\* What a request needs for its next statement.
Carried(w) ==
  /\ req[w].step \in Pushing \cup Pulling => req[w].value["base"] # None
  /\ req[w].step \in Placed => req[w].record \in Record
  /\ req[w].record # None => req[w].record \in Records
  /\ req[w].step # "idle" => row # Blank

LinkInv ==
  /\ TypeOK
  /\ link # None => link \in Records
  /\ Records # {} => row # Blank
  /\ \A w \in Worker : Carried(w)

LEMMA PartsOfContents ==
  /\ Blank \in Contents /\ Blank["base"] = None /\ Blank \notin InApp
  /\ \A c \in InApp : c \in Contents /\ c["base"] # None /\ c["note"] # None
  /\ "base" \in Part /\ "note" \in Part /\ "docs" \in Part
  /\ \A c \in Contents, p \in Part : c[p] \in Value \cup {None}
BY DEF Blank, Contents, InApp, Part, Further

LEMMA IdleIsRequest == Idle \in Request
BY PartsOfContents DEF Idle, Request, Step

LEMMA InitLinkInv == Init => LinkInv
<1> SUFFICES ASSUME Init PROVE LinkInv
  OBVIOUS
<1>1. TypeOK
  BY IdleIsRequest, PartsOfContents DEF Init, TypeOK
<1>2. Records = {}
  BY PartsOfContents DEF Init, Records
<1>3. \A w \in Worker : Carried(w)
  BY DEF Init, Carried, Idle, Pushing, Pulling, Placed
<1> QED
  BY <1>1, <1>2, <1>3 DEF LinkInv, Init

LEMMA KnownFromLinkInv == LinkInv => KnownRecordExists
BY ValueAssumption, RecordAssumption
DEF LinkInv, KnownRecordExists, TypeOK, Carried, At, Request, Step, Pushing, Pulling, Placed

-----------------------------------------------------------------------------
\* A goroutine's step leaves the others their requests, and they stay as good as
\* they were if no record goes and the row keeps contents.
Others(w) == \A v \in Worker \ {w} : req'[v] = req[v]

LEMMA OthersCarry ==
  ASSUME LinkInv, TypeOK', Records \subseteq Records',
         row # Blank => row' # Blank,
         Records' # {} => row' # Blank,
         link' # None => link' \in Records',
         NEW w \in Worker, Others(w), Carried(w)'
  PROVE  LinkInv'
<1>1. ASSUME NEW v \in Worker \ {w} PROVE Carried(v)'
  <2>1. Carried(v) /\ req'[v] = req[v]
    BY <1>1 DEF LinkInv, Others
  <2> QED
    BY <2>1 DEF Carried
<1> QED
  BY <1>1 DEF LinkInv

\* A request that ends leaves nothing to carry.
LEMMA FinishKeepsLinkInv ==
  ASSUME LinkInv, NEW w \in Worker, Finish(w), UNCHANGED table, muted' \in BOOLEAN,
         row' = row \/ row' \in InApp,
         link' = None \/ link' = link \/ link' \in Records
  PROVE  LinkInv'
<1>1. Records' = Records /\ Records \subseteq Record /\ (row # Blank => row' # Blank)
  BY PartsOfContents DEF Records
<1>2. TypeOK' /\ Others(w)
  BY <1>1, IdleIsRequest DEF LinkInv, TypeOK, Finish, Others
<1>3. Carried(w)'
  <2>1. req'[w] = Idle
    BY DEF LinkInv, TypeOK, Finish
  <2> QED
    BY <2>1 DEF Idle, Carried, Pushing, Pulling, Placed
<1> QED
  BY <1>1, <1>2, <1>3, OthersCarry DEF LinkInv

\* A step that changes nothing but its own request.
LEMMA ReadKeepsLinkInv ==
  ASSUME LinkInv, NEW w \in Worker, UNCHANGED <<row, link, table>>, muted' \in BOOLEAN,
         NEW q \in Request, req' = [req EXCEPT ![w] = q],
         q.step \in Pushing \cup Pulling => q.value["base"] # None,
         q.step \in Placed => q.record \in Record,
         q.record # None => q.record \in Records,
         q.step # "idle" => row # Blank
  PROVE  LinkInv'
<1>1. TypeOK' /\ Records' = Records
  BY DEF LinkInv, TypeOK, Records
<1>2. Carried(w)' /\ Others(w)
  BY <1>1 DEF LinkInv, TypeOK, Carried, Others
<1> QED
  BY <1>1, <1>2, OthersCarry DEF LinkInv

\* So does a step that changes a record, too, if its base keeps contents.
LEMMA WriteKeepsLinkInv ==
  ASSUME LinkInv, NEW w \in Worker, UNCHANGED <<row, link>>, muted' \in BOOLEAN,
         NEW r \in Record, NEW c \in Contents, c["base"] # None, table' = [table EXCEPT ![r] = c],
         NEW q \in Request, req' = [req EXCEPT ![w] = q],
         q.step \in Pushing \cup Pulling => q.value["base"] # None,
         q.step \in Placed => q.record \in Record,
         q.record # None => q.record \in Records \cup {r},
         row # Blank
  PROVE  LinkInv' /\ Records' = Records \cup {r}
<1>1. TypeOK' /\ Records' = Records \cup {r}
  BY DEF LinkInv, TypeOK, Records
<1>2. Carried(w)' /\ Others(w)
  BY <1>1 DEF LinkInv, TypeOK, Carried, Others
<1> QED
  BY <1>1, <1>2, OthersCarry DEF LinkInv

\* A column of a record that is written.
LEMMA ColumnWritten ==
  ASSUME LinkInv, NEW r \in Record, NEW p \in Part, NEW v \in Value \cup {None},
         p # "base" => table[r]["base"] # None, p = "base" => v # None
  PROVE  /\ [table[r] EXCEPT ![p] = v] \in Contents
         /\ [table[r] EXCEPT ![p] = v]["base"] # None
         /\ [table EXCEPT ![r][p] = v] = [table EXCEPT ![r] = [table[r] EXCEPT ![p] = v]]
<1>1. table \in [Record -> Contents] /\ table[r] \in Contents
  BY DEF LinkInv, TypeOK
<1> QED
  BY <1>1, PartsOfContents DEF Contents

\* A new record has the base at least.
LEMMA CreatedRecord ==
  ASSUME LinkInv, NEW w \in Worker, NEW r \in Record, Created(w, r), req[w].value["base"] # None
  PROVE  \E c \in Contents : c["base"] # None /\ table' = [table EXCEPT ![r] = c]
<1>1. req[w].value \in Contents /\ req[w].value["base"] \in Value \cup {None}
  BY PartsOfContents DEF LinkInv, TypeOK, Request
<1>2. CASE table' = [table EXCEPT ![r] = req[w].value]
  BY <1>1, <1>2
<1>3. CASE table' = [table EXCEPT ![r]["base"] = req[w].value["base"]]
  <2>1. PICK v \in Value \cup {None} : v = req[w].value["base"]
    BY <1>1
  <2>2. PICK c : c = [table[r] EXCEPT !["base"] = v]
    OBVIOUS
  <2>3. c \in Contents /\ c["base"] # None /\ table' = [table EXCEPT ![r] = c]
    BY <1>3, <2>1, <2>2, ColumnWritten, PartsOfContents
  <2> QED
    BY <2>3
<1> QED
  BY <1>2, <1>3 DEF Created

-----------------------------------------------------------------------------
\* One action after the other.
LEMMA AppStep ==
  ASSUME LinkInv, NEW w \in Worker, CreateProject(w) \/ EditProject(w) \/ Reload(w)
  PROVE  LinkInv'
<1>0. /\ req \in [Worker -> Request] /\ req[w] \in Request /\ Carried(w)
      /\ muted \in BOOLEAN /\ row \in InApp \cup {Blank} /\ link \in Record \cup {None}
  BY DEF LinkInv, TypeOK
\* A request of the app that has changed the row.
<1>1. ASSUME NEW v \in InApp, row' = v, UNCHANGED <<link, table, muted>>,
             NEW q \in Request, req' = [req EXCEPT ![w] = q],
             q.step \in {"check", "reload"}, q.value["base"] # None \/ q.step = "reload",
             q.record # None => q.record \in Records
      PROVE  LinkInv'
  <2>1. Records' = Records /\ row' # Blank
    BY <1>1, PartsOfContents DEF Records
  <2>2. TypeOK' /\ Others(w) /\ req'[w] = q
    BY <1>0, <1>1 DEF LinkInv, TypeOK, Others
  <2>3. Carried(w)'
    BY <1>1, <2>1, <2>2 DEF Carried, Pushing, Pulling, Placed
  <2> QED
    BY <1>1, <2>1, <2>2, <2>3, OthersCarry DEF LinkInv
<1>2. CASE CreateProject(w)
  <2>1. PICK v \in InApp :
          /\ row' = v
          /\ req' = [req EXCEPT ![w] = [req[w] EXCEPT !.step = "check", !.value = v]]
    BY <1>2 DEF CreateProject
  <2>2. PICK q : q = [req[w] EXCEPT !.step = "check", !.value = v]
    OBVIOUS
  <2>3. q \in Request /\ q.step = "check" /\ q.value["base"] # None /\ q.record = req[w].record
    BY <1>0, <2>2, PartsOfContents DEF Request, Step
  <2> QED
    BY <1>0, <1>1, <1>2, <2>1, <2>2, <2>3 DEF CreateProject, Carried
<1>3. CASE EditProject(w)
  <2>1. PICK q : q = [req[w] EXCEPT !.step = "reload"]
    OBVIOUS
  <2>2. q \in Request /\ q.step = "reload" /\ q.record = req[w].record
    BY <1>0, <2>1 DEF Request, Step
  <2>3. req' = [req EXCEPT ![w] = q] /\ row' \in InApp /\ UNCHANGED <<link, table, muted>>
    BY <1>0, <1>3, <2>1 DEF EditProject, GoTo
  <2> QED
    BY <1>0, <1>1, <2>2, <2>3 DEF Carried
<1>4. CASE Reload(w)
  <2>1. row \in InApp /\ row # Blank
    BY <1>0, <1>4 DEF Reload, Carried, At
  <2>2. PICK q : q = [req[w] EXCEPT !.step = "check", !.value = row, !.record = link]
    OBVIOUS
  <2>3. /\ q \in Request /\ q.step = "check" /\ q.value = row /\ q.record = link
    BY <1>0, <2>1, <2>2, PartsOfContents DEF Request, Step
  <2>4. req' = [req EXCEPT ![w] = q]
    BY <1>4, <2>2 DEF Reload
  <2> QED
    BY <1>0, <1>4, <2>1, <2>3, <2>4, PartsOfContents, ReadKeepsLinkInv
    DEF Reload, LinkInv, Placed, Pulling
<1> QED
  BY <1>2, <1>3, <1>4

LEMMA SearchStep ==
  ASSUME LinkInv, NEW w \in Worker,
         SkipPush(w) \/ BeginPush(w) \/ LoadLarkRecordID(w) \/ FindLarkRecord(w)
  PROVE  LinkInv'
<1>0. /\ req \in [Worker -> Request] /\ req[w] \in Request /\ Carried(w)
      /\ muted \in BOOLEAN /\ row \in InApp \cup {Blank} /\ link \in Record \cup {None}
      /\ link # None => link \in Records
  BY DEF LinkInv, TypeOK
<1>1. CASE SkipPush(w)
  BY <1>0, <1>1, FinishKeepsLinkInv DEF SkipPush
<1>2. CASE BeginPush(w)
  <2>1. PICK f \in BOOLEAN :
          req' = [req EXCEPT ![w] =
            [req[w] EXCEPT !.step = IF req[w].record # None THEN "update" ELSE "link",
                           !.value["docs"] = IF f THEN None ELSE row["docs"],
                           !.missed = IF f THEN {"docs"} ELSE {}]]
    BY <1>2 DEF BeginPush
  <2>2. PICK d : d = (IF f THEN None ELSE row["docs"])
    OBVIOUS
  <2>3. PICK c : c = [req[w].value EXCEPT !["docs"] = d]
    OBVIOUS
  <2>4. PICK q : q = [req[w] EXCEPT !.step = IF req[w].record # None THEN "update" ELSE "link",
                                    !.value = c, !.missed = IF f THEN {"docs"} ELSE {}]
    OBVIOUS
  <2>5. req' = [req EXCEPT ![w] = q]
    BY <1>0, <2>1, <2>2, <2>3, <2>4 DEF Request
  <2>6. req[w].value["base"] # None /\ row # Blank /\ req[w].value \in Contents
    BY <1>0, <1>2 DEF BeginPush, At, Carried, Pushing, Request
  <2>7. d \in Value \cup {None}
    BY <1>0, <2>2, PartsOfContents
  <2>8. c \in Contents /\ c["base"] # None
    BY <2>3, <2>6, <2>7, PartsOfContents DEF Contents
  <2>9. /\ q \in Request /\ q.value = c /\ q.record = req[w].record
        /\ q.step = IF req[w].record # None THEN "update" ELSE "link"
    BY <1>0, <2>4, <2>8 DEF Request, Step, Further
  <2>10. q.step \in Placed => q.record \in Record
    BY <1>0, <2>9 DEF Request, Placed, Pulling
  <2> QED
    BY <1>0, <1>2, <2>5, <2>6, <2>8, <2>9, <2>10, ReadKeepsLinkInv DEF BeginPush, Carried
<1>3. CASE LoadLarkRecordID(w)
  <2>1. PICK r \in {link, None} :
          req' = [req EXCEPT ![w] =
            [req[w] EXCEPT !.step = IF r # None THEN "update" ELSE "find", !.record = r]]
    BY <1>3 DEF LoadLarkRecordID
  <2>2. PICK q : q = [req[w] EXCEPT !.step = IF r # None THEN "update" ELSE "find", !.record = r]
    OBVIOUS
  <2>3. req[w].value["base"] # None /\ row # Blank
    BY <1>0, <1>3 DEF LoadLarkRecordID, At, Carried, Pushing
  <2>4. /\ q \in Request /\ q.value = req[w].value /\ q.record = r
        /\ q.step = IF r # None THEN "update" ELSE "find"
    BY <1>0, <2>1, <2>2 DEF Request, Step
  <2>5. q.step \in Placed => q.record \in Record
    BY <1>0, <2>1, <2>4 DEF Placed, Pulling
  <2>6. req' = [req EXCEPT ![w] = q] /\ (q.record # None => q.record \in Records)
    BY <1>0, <2>1, <2>2, <2>4
  <2> QED
    BY <1>0, <1>3, <2>3, <2>4, <2>5, <2>6, ReadKeepsLinkInv DEF LoadLarkRecordID
<1>4. CASE FindLarkRecord(w)
  <2>1. PICK r : /\ r = None \/ r \in Records
                 /\ req' = [req EXCEPT ![w] = [req[w] EXCEPT
                       !.step = IF r = None THEN "create" ELSE "update",
                       !.record = IF r = None THEN req[w].record ELSE r]]
    <3>1. CASE Records = {}
      <4>1. req' = [req EXCEPT ![w] = [req[w] EXCEPT !.step = "create"]]
        BY <1>4, <3>1 DEF FindLarkRecord, GoTo
      <4>2. [req[w] EXCEPT !.step = "create"] = [req[w] EXCEPT !.step = "create", !.record = req[w].record]
        BY <1>0 DEF Request
      <4> QED
        BY <4>1, <4>2
    <3>2. CASE Records # {}
      <4>1. None \notin Records
        BY RecordAssumption DEF Records
      <4> QED
        BY <1>4, <3>2, <4>1 DEF FindLarkRecord
    <3> QED
      BY <3>1, <3>2
  <2>2. PICK q : q = [req[w] EXCEPT !.step = IF r = None THEN "create" ELSE "update",
                                    !.record = IF r = None THEN req[w].record ELSE r]
    OBVIOUS
  <2>3. req[w].value["base"] # None /\ row # Blank
    BY <1>0, <1>4 DEF FindLarkRecord, At, Carried, Pushing
  <2>4. /\ q \in Request /\ q.value = req[w].value
        /\ q.record = IF r = None THEN req[w].record ELSE r
        /\ q.step = IF r = None THEN "create" ELSE "update"
    BY <1>0, <2>1, <2>2 DEF Request, Step, Records
  <2>5. q.step \in Placed => q.record \in Record
    BY <2>1, <2>4 DEF Placed, Pulling, Records
  <2>6. req' = [req EXCEPT ![w] = q] /\ (q.record # None => q.record \in Records)
    BY <1>0, <2>1, <2>2, <2>4 DEF Carried
  <2> QED
    BY <1>0, <1>4, <2>3, <2>4, <2>5, <2>6, ReadKeepsLinkInv DEF FindLarkRecord
<1> QED
  BY <1>1, <1>2, <1>3, <1>4

\* What a write of the base leaves in the record.
LEMMA BaseWritten ==
  ASSUME LinkInv, NEW w \in Worker, At(w, "update"),
         table' = [table EXCEPT ![req[w].record]["base"] = req[w].value["base"]]
  PROVE  /\ req[w].record \in Record /\ req[w].record \in Records
         /\ \E c \in Contents : c["base"] # None /\ table' = [table EXCEPT ![req[w].record] = c]
<1>1. /\ req[w].record \in Record /\ req[w].value \in Contents /\ req[w].value["base"] # None
      /\ req[w].record \in Records
  BY RecordAssumption DEF LinkInv, TypeOK, Request, Carried, At, Pushing, Placed
<1>2. PICK v \in Value \cup {None} : v = req[w].value["base"]
  BY <1>1, PartsOfContents
<1>3. PICK r \in Record : r = req[w].record
  BY <1>1
<1>4. PICK c : c = [table[r] EXCEPT !["base"] = v]
  OBVIOUS
<1>5. c \in Contents /\ c["base"] # None /\ table' = [table EXCEPT ![r] = c]
  BY <1>1, <1>2, <1>3, <1>4, ColumnWritten, PartsOfContents
<1> QED
  BY <1>1, <1>3, <1>5

LEMMA WriteStep ==
  ASSUME LinkInv, NEW w \in Worker,
         CreateLarkRecord(w) \/ UpdateLarkRecord(w) \/ AnswerLost(w)
  PROVE  /\ LinkInv'
         /\ \/ Records' = Records
            \/ /\ req[w].step = "create" /\ req'[w].step # "create"
               /\ \E r \in Record : Records' = Records \cup {r}
<1>0. /\ req \in [Worker -> Request] /\ req[w] \in Request /\ Carried(w)
      /\ muted \in BOOLEAN
  BY DEF LinkInv, TypeOK
<1>1. row # Blank /\ req[w].value["base"] # None
  BY <1>0 DEF Carried, CreateLarkRecord, UpdateLarkRecord, AnswerLost, At, Pushing
<1>2. CASE CreateLarkRecord(w)
  <2>1. PICK r \in Record :
          /\ Created(w, r)
          /\ req' = [req EXCEPT ![w] =
                [req[w] EXCEPT !.step = "saveNew", !.record = r, !.created = TRUE]]
    BY <1>2 DEF CreateLarkRecord
  <2>2. PICK c \in Contents : c["base"] # None /\ table' = [table EXCEPT ![r] = c]
    BY <1>1, <2>1, CreatedRecord
  <2>3. PICK q : q = [req[w] EXCEPT !.step = "saveNew", !.record = r, !.created = TRUE]
    OBVIOUS
  <2>4. q \in Request /\ q.step = "saveNew" /\ q.record = r
    BY <1>0, <2>3 DEF Request, Step
  <2>5. /\ UNCHANGED <<row, link>> /\ muted' \in BOOLEAN /\ req' = [req EXCEPT ![w] = q]
        /\ q.step \notin Pushing \cup Pulling
    BY <1>0, <1>2, <2>1, <2>3, <2>4 DEF CreateLarkRecord, Pushing, Pulling
  <2>6. LinkInv' /\ Records' = Records \cup {r}
    BY <1>1, <2>2, <2>4, <2>5, WriteKeepsLinkInv
  <2>7. req'[w].step = "saveNew" /\ req[w].step = "create"
    BY <1>0, <1>2, <2>1, <2>3, <2>4 DEF CreateLarkRecord, At
  <2> QED
    BY <2>6, <2>7
<1>3. CASE UpdateLarkRecord(w)
  <2>1. PICK r \in Record : r = req[w].record /\ r \in Records
    BY <1>3, BaseWritten DEF UpdateLarkRecord
  <2>2. PICK c \in Contents : c["base"] # None /\ table' = [table EXCEPT ![r] = c]
    BY <1>3, <2>1, BaseWritten DEF UpdateLarkRecord
  <2>3. PICK q : q = [req[w] EXCEPT !.step = "columns", !.left = Further]
    OBVIOUS
  <2>4. q \in Request /\ q.step = "columns" /\ q.record = r
    BY <1>0, <2>1, <2>3 DEF Request, Step
  <2>5. /\ UNCHANGED <<row, link>> /\ muted' \in BOOLEAN /\ req' = [req EXCEPT ![w] = q]
        /\ q.step \notin Pushing \cup Pulling
    BY <1>0, <1>3, <2>1, <2>3, <2>4 DEF UpdateLarkRecord, Pushing, Pulling
  <2>6. LinkInv' /\ Records' = Records \cup {r}
    BY <1>1, <2>1, <2>2, <2>4, <2>5, WriteKeepsLinkInv
  <2> QED
    BY <2>1, <2>6
<1>4. CASE AnswerLost(w)
  <2>1. PICK q : q = Idle /\ q \in Request /\ q.record = None /\ q.step = "idle"
    BY IdleIsRequest DEF Idle
  <2>2. req' = [req EXCEPT ![w] = q] /\ UNCHANGED <<row, link, muted>>
    BY <1>4, <2>1 DEF AnswerLost, Finish
  <2>3. PICK r \in Record : /\ \E c \in Contents : c["base"] # None /\ table' = [table EXCEPT ![r] = c]
                            /\ r \in Records \/ req[w].step = "create"
    <3>1. CASE At(w, "create") /\ \E r \in Record \ Records : Created(w, r)
      BY <1>1, <3>1, CreatedRecord DEF At
    <3>2. CASE /\ At(w, "update")
               /\ table' = [table EXCEPT ![req[w].record]["base"] = req[w].value["base"]]
      BY <3>2, BaseWritten
    <3> QED
      BY <1>4, <3>1, <3>2 DEF AnswerLost
  <2>4. PICK c \in Contents : c["base"] # None /\ table' = [table EXCEPT ![r] = c]
    BY <2>3
  <2>5. LinkInv' /\ Records' = Records \cup {r}
    BY <1>0, <1>1, <2>1, <2>2, <2>4, WriteKeepsLinkInv DEF Pushing, Pulling, Placed
  <2>6. req'[w].step = "idle"
    BY <1>0, <2>1, <2>2
  <2> QED
    BY <2>3, <2>5, <2>6
<1> QED
  BY <1>2, <1>3, <1>4

\* The further columns.
LEMMA ColumnStep ==
  ASSUME LinkInv, NEW w \in Worker, NEW p \in Further, SyncLarkColumn(w, p) \/ SyncColumnFails(w, p)
  PROVE  LinkInv' /\ Records' = Records /\ req'[w].step # "create"
<1>0. /\ req \in [Worker -> Request] /\ req[w] \in Request /\ Carried(w)
      /\ muted \in BOOLEAN /\ table \in [Record -> Contents]
  BY DEF LinkInv, TypeOK
<1>1. /\ req[w].step = "columns" /\ row # Blank
      /\ req[w].record \in Record /\ req[w].record \in Records
  BY <1>0, RecordAssumption DEF SyncLarkColumn, SyncColumnFails, At, Carried, Placed
<1>2. PICK m \in SUBSET Further : ColumnTried(w, p, m)
  BY DEF SyncLarkColumn, SyncColumnFails
<1>3. PICK s \in {"columns", "pushed", "save"} :
        req' = [req EXCEPT ![w] = [req[w] EXCEPT
                  !.step = s, !.left = req[w].left \ {p}, !.missed = req[w].missed \cup m]]
  <2>1. req' = [req EXCEPT ![w] = [req[w] EXCEPT
                  !.step = IF req[w].left # {p} THEN "columns"
                           ELSE IF req[w].created THEN "pushed" ELSE "save",
                  !.left = req[w].left \ {p}, !.missed = req[w].missed \cup m]]
    BY <1>2 DEF ColumnTried
  <2>2. \A x, y \in BOOLEAN : (IF x THEN "columns" ELSE IF y THEN "pushed" ELSE "save")
                             \in {"columns", "pushed", "save"}
    OBVIOUS
  <2> QED
    BY <2>1, <2>2
<1>4. PICK q : q = [req[w] EXCEPT
                  !.step = s, !.left = req[w].left \ {p}, !.missed = req[w].missed \cup m]
  OBVIOUS
<1>5. q \in Request /\ q.step = s /\ q.record = req[w].record
  BY <1>0, <1>4 DEF Request, Step
<1>6. CASE SyncColumnFails(w, p)
  <2>1. LinkInv'
    BY <1>0, <1>1, <1>3, <1>4, <1>5, <1>6, ReadKeepsLinkInv
    DEF SyncColumnFails, Pushing, Pulling
  <2> QED
    BY <1>0, <1>3, <1>4, <1>5, <1>6, <2>1 DEF SyncColumnFails, Records
<1>7. CASE SyncLarkColumn(w, p)
  <2>1. PICK r \in Record : r = req[w].record /\ r \in Records
    BY <1>1
  <2>2. PICK v \in Value \cup {None} : v = req[w].value[p]
    BY <1>0, PartsOfContents DEF Request, Part
  <2>3. PICK c : c = [table[r] EXCEPT ![p] = v]
    OBVIOUS
  <2>4. p \in Part /\ p # "base" /\ table[r]["base"] # None
    BY <2>1 DEF Part, Further, Records
  <2>5. c \in Contents /\ c["base"] # None /\ table' = [table EXCEPT ![r] = c]
    BY <1>7, <2>1, <2>2, <2>3, <2>4, ColumnWritten DEF SyncLarkColumn
  <2>6. /\ UNCHANGED <<row, link>> /\ muted' \in BOOLEAN /\ req' = [req EXCEPT ![w] = q]
        /\ q.step \notin Pushing \cup Pulling
    BY <1>0, <1>3, <1>4, <1>5, <1>7 DEF SyncLarkColumn, Pushing, Pulling
  <2>7. LinkInv' /\ Records' = Records \cup {r}
    BY <1>1, <1>5, <2>1, <2>5, <2>6, WriteKeepsLinkInv
  <2> QED
    BY <1>0, <1>3, <1>4, <1>5, <2>1, <2>7
<1> QED
  BY <1>6, <1>7

LEMMA EndStep ==
  ASSUME LinkInv, NEW w \in Worker, SaveLarkRecordID(w) \/ EndPush(w) \/ Fault(w)
  PROVE  LinkInv'
<1>0. /\ req \in [Worker -> Request] /\ req[w] \in Request /\ Carried(w)
      /\ muted \in BOOLEAN /\ link \in Record \cup {None}
  BY DEF LinkInv, TypeOK
<1>1. CASE EndPush(w) \/ Fault(w)
  BY <1>0, <1>1, FinishKeepsLinkInv DEF EndPush, Fault
<1>2. CASE SaveLarkRecordID(w)
  <2>1. /\ req[w].record \in Record /\ req[w].record \in Records /\ row # Blank
        /\ link' \in {link, req[w].record} /\ UNCHANGED <<row, table, muted>>
    BY <1>0, <1>2, RecordAssumption
    DEF SaveLarkRecordID, SaveThenColumns, At, Carried, Placed
  <2>2. PICK q : /\ q = [req[w] EXCEPT !.step = "columns", !.left = Further]
                      \/ q = [req[w] EXCEPT !.step = "pushed"]
                 /\ req' = [req EXCEPT ![w] = q]
    BY <1>2 DEF SaveLarkRecordID, SaveThenColumns, GoTo
  <2>3. q \in Request /\ q.step \in {"columns", "pushed"} /\ q.record = req[w].record
    BY <1>0, <2>2 DEF Request, Step
  <2>4. Records' = Records
    BY <2>1 DEF Records
  <2>5. TypeOK' /\ Others(w) /\ req'[w] = q
    BY <1>0, <2>1, <2>2, <2>3 DEF LinkInv, TypeOK, Others
  <2>6. Carried(w)'
    BY <2>1, <2>3, <2>4, <2>5 DEF Carried, Pushing, Pulling, Placed
  <2> QED
    BY <2>1, <2>4, <2>5, <2>6, OthersCarry DEF LinkInv
<1> QED
  BY <1>1, <1>2

LEMMA PullStep ==
  ASSUME LinkInv, NEW w \in Worker,
         \/ PullLarkRecordInbound(w) \/ FetchRecord(w)
         \/ MarkInboundSync(w) \/ ApplyLarkInboundPatch(w)
  PROVE  LinkInv'
<1>0. /\ req \in [Worker -> Request] /\ req[w] \in Request /\ Carried(w)
      /\ muted \in BOOLEAN /\ row \in InApp \cup {Blank} /\ table \in [Record -> Contents]
  BY DEF LinkInv, TypeOK
<1>1. CASE PullLarkRecordInbound(w)
  <2>1. PICK r \in Records :
          req' = [req EXCEPT ![w] = [req[w] EXCEPT !.step = "fetch", !.record = r]]
    BY <1>1 DEF PullLarkRecordInbound
  <2>2. PICK q : q = [req[w] EXCEPT !.step = "fetch", !.record = r]
    OBVIOUS
  <2>3. q \in Request /\ q.step = "fetch" /\ q.record = r /\ r \in Record
    BY <1>0, <2>2 DEF Request, Step, Records
  <2>4. row # Blank
    BY DEF LinkInv
  <2> QED
    BY <1>0, <1>1, <2>1, <2>2, <2>3, <2>4, ReadKeepsLinkInv
    DEF PullLarkRecordInbound, Pushing, Pulling
<1>2. CASE FetchRecord(w)
  <2>1. req[w].record \in Record /\ req[w].record \in Records /\ row # Blank
    BY <1>0, <1>2, RecordAssumption DEF FetchRecord, At, Carried, Placed
  <2>2. PICK c : c = table[req[w].record]
    OBVIOUS
  <2>3. c \in Contents /\ c["base"] # None
    BY <1>0, <2>1, <2>2 DEF Records
  <2>4. PICK q : q = [req[w] EXCEPT !.step = "mute", !.value = c]
    OBVIOUS
  <2>5. q \in Request /\ q.step = "mute" /\ q.value = c /\ q.record = req[w].record
    BY <1>0, <2>3, <2>4 DEF Request, Step
  <2>6. req' = [req EXCEPT ![w] = q]
    BY <1>2, <2>2, <2>4 DEF FetchRecord
  <2> QED
    BY <1>0, <1>2, <2>1, <2>3, <2>5, <2>6, ReadKeepsLinkInv DEF FetchRecord
<1>3. CASE MarkInboundSync(w)
  <2>1. /\ req[w].record \in Record /\ req[w].record \in Records /\ row # Blank
        /\ req[w].value["base"] # None
    BY <1>0, <1>3, RecordAssumption DEF MarkInboundSync, At, Carried, Placed, Pulling
  <2>2. PICK q : q = [req[w] EXCEPT !.step = "apply"]
    OBVIOUS
  <2>3. q \in Request /\ q.value = req[w].value /\ q.record = req[w].record
    BY <1>0, <2>2 DEF Request, Step
  <2>4. req' = [req EXCEPT ![w] = q]
    BY <1>3, <2>2 DEF MarkInboundSync, GoTo
  <2> QED
    BY <1>0, <1>3, <2>1, <2>3, <2>4, ReadKeepsLinkInv DEF MarkInboundSync
<1>4. CASE ApplyLarkInboundPatch(w)
  <2>1. /\ req[w].record \in Records /\ row \in InApp
        /\ req[w].value["base"] # None /\ req[w].value \in Contents
    BY <1>0, <1>4, RecordAssumption DEF ApplyLarkInboundPatch, At, Carried, Placed, Pulling, Request
  <2>2. Patched(w) \in InApp
    BY <2>1, PartsOfContents DEF Patched, InApp, Contents, Part, Further
  <2>3. row' \in InApp /\ link' \in Records /\ Finish(w) /\ UNCHANGED <<table, muted>>
    BY <1>4, <2>1, <2>2 DEF ApplyLarkInboundPatch
  <2> QED
    BY <1>0, <2>3, FinishKeepsLinkInv
<1> QED
  BY <1>1, <1>2, <1>3, <1>4

\* Support's edits neither make nor remove a record.
LEMMA EditStep ==
  ASSUME LinkInv, EditInLark
  PROVE  LinkInv' /\ Records' = Records
<1>1. PICK r \in Records, p \in Part, v \in Value \cup {None} :
        /\ p = "base" => v # None
        /\ table' = [table EXCEPT ![r][p] = v]
  BY DEF EditInLark
<1>2. PICK c : c = [table[r] EXCEPT ![p] = v]
  OBVIOUS
<1>3. r \in Record /\ table[r]["base"] # None
  BY DEF Records
<1>4. c \in Contents /\ c["base"] # None /\ table' = [table EXCEPT ![r] = c]
  BY <1>1, <1>2, <1>3, ColumnWritten
<1>5. table' \in [Record -> Contents] /\ Records' = Records
  BY <1>3, <1>4 DEF LinkInv, TypeOK, Records
<1>6. \A w \in Worker : Carried(w)'
  BY <1>5 DEF EditInLark, LinkInv, Carried
<1> QED
  BY <1>5, <1>6 DEF EditInLark, LinkInv, TypeOK

LEMMA StepLinkInv == LinkInv /\ [Next]_vars => LinkInv'
<1> SUFFICES ASSUME LinkInv, [Next]_vars PROVE LinkInv'
  OBVIOUS
<1>2. CASE FortyFiveSecondsPass \/ UNCHANGED vars
  <2>1. Records' = Records
    BY <1>2 DEF FortyFiveSecondsPass, vars, Records
  <2> QED
    BY <1>2, <2>1 DEF FortyFiveSecondsPass, vars, LinkInv, TypeOK, Carried
<1>3. CASE Restart
  <2>1. TypeOK' /\ Records' = Records
    BY <1>3, IdleIsRequest DEF Restart, LinkInv, TypeOK, Records
  <2>2. \A w \in Worker : Carried(w)'
    BY <1>3 DEF Restart, Idle, Carried, Pushing, Pulling, Placed
  <2> QED
    BY <1>3, <2>1, <2>2 DEF Restart, LinkInv
<1>4. ASSUME NEW w \in Worker,
             \/ CreateProject(w) \/ EditProject(w) \/ PullLarkRecordInbound(w)
             \/ Continue(w) \/ Fault(w) \/ AnswerLost(w)
      PROVE  LinkInv'
  BY <1>4, AppStep, SearchStep, WriteStep, ColumnStep, EndStep, PullStep DEF Continue
<1> QED
  BY <1>2, <1>3, <1>4, EditStep DEF Next

\* The row, the link, the records and the requests keep their types.
THEOREM TypeCorrect == Spec => []TypeOK
<1>1. LinkInv => TypeOK
  BY DEF LinkInv
<1> QED
  BY <1>1, InitLinkInv, StepLinkInv, PTL DEF Spec

\* However many pushes and pulls overlap, fail or lose their answers, a record id
\* the program knows is a record's.
THEOREM KnownRecordAlwaysExists == Spec => []KnownRecordExists
BY InitLinkInv, StepLinkInv, KnownFromLinkInv, PTL DEF Spec

\* A linked project stays linked, because a push saves and a pull applies only the
\* id of a record.
THEOREM LinkStays == Spec => StaysLinked
<1>1. LinkInv /\ [Next]_vars => [link # None => link' # None]_vars
  <2> SUFFICES ASSUME LinkInv, [Next]_vars, link # None PROVE link' # None
    OBVIOUS
  <2>1. ASSUME NEW w \in Worker, SaveLarkRecordID(w) \/ ApplyLarkInboundPatch(w)
        PROVE  link' # None
    BY <2>1, RecordAssumption
    DEF LinkInv, Carried, SaveLarkRecordID, SaveThenColumns, ApplyLarkInboundPatch, At, Pulling, Placed
  <2> QED
    BY <2>1 DEF Next, Continue, vars, EditInLark, FortyFiveSecondsPass, Restart, CreateProject,
       EditProject, PullLarkRecordInbound, Reload, SkipPush, BeginPush, LoadLarkRecordID,
       FindLarkRecord, CreateLarkRecord, UpdateLarkRecord, SyncLarkColumn, SyncColumnFails, EndPush,
       FetchRecord, MarkInboundSync, Fault, AnswerLost
<1> QED
  BY <1>1, InitLinkInv, StepLinkInv, PTL DEF Spec, StaysLinked

-----------------------------------------------------------------------------
\* One goroutine.  A search that found nothing is still right at the creation.
OneWorker == \A v, w \in Worker : v = w

SearchStillRight ==
  /\ \A r, s \in Records : r = s
  /\ \A w \in Worker : req[w].step = "create" => Records = {}

\* What a step of the only goroutine does to the records.
LEMMA RecordsOfStep ==
  ASSUME LinkInv, [Next]_vars
  PROVE  \/ Records' = Records
         \/ \E w \in Worker, r \in Record :
              /\ req[w].step = "create" /\ Records' = Records \cup {r}
              /\ req'[w].step # "create"
<1>1. CASE UNCHANGED table
  BY <1>1 DEF Records
<1> QED
  BY <1>1, WriteStep, ColumnStep, EditStep
  DEF Next, Continue, vars, FortyFiveSecondsPass, Restart, CreateProject,
      EditProject, PullLarkRecordInbound, Reload, SkipPush, BeginPush, LoadLarkRecordID,
      FindLarkRecord, SaveLarkRecordID, EndPush, FetchRecord, MarkInboundSync,
      ApplyLarkInboundPatch, Fault

\* After a further column comes another one or the end.
LEMMA TriedNoCreate ==
  ASSUME TypeOK, NEW v \in Worker, NEW w \in Worker, NEW p, NEW m, ColumnTried(v, p, m)
  PROVE  req'[w] = req[w] \/ req'[w].step # "create"
<1>1. req \in [Worker -> Request]
  BY DEF TypeOK
<1>2. CASE w # v
  BY <1>1, <1>2 DEF ColumnTried
<1>3. CASE w = v
  <2>1. req'[v].step = IF req[v].left # {p} THEN "columns"
                       ELSE IF req[v].created THEN "pushed" ELSE "save"
    BY <1>1 DEF ColumnTried, Request
  <2> QED
    BY <1>3, <2>1
<1> QED
  BY <1>2, <1>3

\* Only a search that found nothing leads to a creation.
LEMMA CreateAfterSearch ==
  ASSUME TypeOK, [Next]_vars, NEW w \in Worker, req'[w].step = "create"
  PROVE  req[w].step = "create" \/ Records = {}
<1>1. CASE req'[w] = req[w]
  BY <1>1
<1>2. CASE Restart
  BY <1>2 DEF Restart, Idle
<1>3. ASSUME NEW v \in Worker,
             \/ CreateProject(v) \/ EditProject(v) \/ PullLarkRecordInbound(v)
             \/ Continue(v) \/ Fault(v) \/ AnswerLost(v)
      PROVE  req'[w] = req[w] \/ req'[w].step # "create" \/ Records = {}
  <2> USE DEF TypeOK, Request
  <2>1. CASE CreateProject(v) \/ EditProject(v) \/ Reload(v) \/ PullLarkRecordInbound(v)
    BY <2>1 DEF CreateProject, EditProject, Reload, PullLarkRecordInbound, GoTo
  <2>2. CASE SkipPush(v) \/ EndPush(v) \/ ApplyLarkInboundPatch(v) \/ Fault(v)
             \/ AnswerLost(v)
    BY <2>2 DEF SkipPush, EndPush, ApplyLarkInboundPatch, Fault, AnswerLost, Finish, Idle
  <2>3. CASE FindLarkRecord(v)
    BY <2>3 DEF FindLarkRecord, GoTo
  <2>4. CASE BeginPush(v)
    BY <2>4 DEF BeginPush
  <2>5. CASE LoadLarkRecordID(v)
    BY <2>5 DEF LoadLarkRecordID
  <2>6. CASE CreateLarkRecord(v)
    BY <2>6 DEF CreateLarkRecord
  <2>7. CASE UpdateLarkRecord(v)
    BY <2>7 DEF UpdateLarkRecord
  <2>8. CASE FetchRecord(v) \/ MarkInboundSync(v)
    BY <2>8 DEF FetchRecord, MarkInboundSync, GoTo
  <2>9. CASE SaveLarkRecordID(v)
    BY <2>9 DEF SaveLarkRecordID, SaveThenColumns, GoTo
  <2>10. CASE \E p \in Further : SyncLarkColumn(v, p) \/ SyncColumnFails(v, p)
    BY <2>10, TriedNoCreate DEF SyncLarkColumn, SyncColumnFails
  <2> QED
    BY <1>3, <2>1, <2>2, <2>3, <2>6, <2>10, <2>4, <2>5, <2>8, <2>9, <2>7 DEF Continue
<1> QED
  BY <1>1, <1>2, <1>3 DEF Next, vars, EditInLark, FortyFiveSecondsPass

\* One goroutine at a time never makes a second record of a project, whatever fails,
\* gets lost or is restarted.
THEOREM OneRecordSerially ==
  ASSUME OneWorker
  PROVE  Spec => []OneRecord
<1>1. Init => SearchStillRight
  <2> SUFFICES ASSUME Init PROVE SearchStillRight
    OBVIOUS
  <2>1. Records = {}
    BY PartsOfContents DEF Init, Records
  <2> QED
    BY <2>1 DEF Init, SearchStillRight, Idle
<1>2. LinkInv /\ SearchStillRight /\ [Next]_vars => SearchStillRight'
  <2> SUFFICES ASSUME LinkInv, SearchStillRight, [Next]_vars PROVE SearchStillRight'
    OBVIOUS
  <2>1. CASE Records' = Records
    BY <2>1, CreateAfterSearch DEF LinkInv, SearchStillRight
  <2>2. ASSUME NEW w \in Worker, NEW r \in Record, req[w].step = "create",
               Records' = Records \cup {r}, req'[w].step # "create"
        PROVE  SearchStillRight'
    BY <2>2 DEF SearchStillRight, OneWorker
  <2> QED
    BY <2>1, <2>2, RecordsOfStep
<1>3. SearchStillRight => OneRecord
  <2> SUFFICES ASSUME SearchStillRight PROVE Cardinality(Records) <= 1
    BY DEF OneRecord
  <2>1. CASE Records = {}
    BY <2>1, FS_EmptySet
  <2>2. CASE Records # {}
    <3>1. PICK r \in Records : Records = {r}
      BY <2>2 DEF SearchStillRight
    <3> QED
      BY <3>1, FS_Singleton
  <2> QED
    BY <2>1, <2>2
<1> QED
  BY <1>1, <1>2, <1>3, InitLinkInv, StepLinkInv, PTL DEF Spec
=============================================================================
