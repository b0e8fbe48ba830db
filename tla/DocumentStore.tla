---------------------------- MODULE DocumentStore ----------------------------
(***************************************************************************)
(* The documents of one project in their two homes: the files written by   *)
(* internal/storage/local.go and the rows of the documents table.          *)
(* CreateDocument writes the file first and the row later, in a            *)
(* transaction that locks the project's row; DeleteDocument removes the    *)
(* file first and the row later, in no transaction.  The pipeline status   *)
(* these requests move is the subject of Pipeline.                         *)
(***************************************************************************)
EXTENDS StatusRules

CONSTANTS
  Worker,     \* goroutines serving document requests
  Key,        \* storage keys; a key is random, so a free one is never in use
  DocTypes,   \* document types uploaded in this instance
  Features    \* which of "faults", "companies" are in play

None == "none"

ASSUME DocTypesAssumption == DocTypes \subseteq DocType
ASSUME KeyAssumption == IsFiniteSet(Key) /\ None \notin Key
ASSUME WorkerAssumption == None \notin Worker

VARIABLES
  projectExists,  \* the project's row is in projects
  files,          \* keys of the files on disk
  row,            \* the type of the committed documents row with this file_url
  lock,           \* the transaction holding FOR UPDATE on the project's row
  req             \* what each worker is doing

vars == <<projectExists, files, row, lock, req>>

Request == [step : {"idle", "upload", "lock", "insert", "commit", "unlink", "deleteRow"},
            key : Key \cup {None},
            type : DocType \cup {None}]

Idle == [step |-> "idle", key |-> None, type |-> None]

TypeOK ==
  /\ projectExists \in BOOLEAN
  /\ files \subseteq Key
  /\ row \in [Key -> DocType \cup {None}]
  /\ lock \in Worker \cup {None}
  /\ req \in [Worker -> Request]

Init ==
  /\ projectExists = TRUE
  /\ files = {}
  /\ row = [k \in Key |-> None]
  /\ lock = None
  /\ req = [w \in Worker |-> Idle]

At(w, step) == req[w].step = step
Become(w, step) == req' = [req EXCEPT ![w].step = step]
Finish(w) == req' = [req EXCEPT ![w] = Idle]

RowsOf(t) == {k \in Key : row[k] = t}
Count(t) == Cardinality(RowsOf(t))

\* storageObjectKey draws 16 random bytes: the key belongs to nothing yet.
Unused(k) == k \notin files /\ row[k] = None /\ \A w \in Worker : req[w].key # k

\* Bound: an upload starts only while the instance still has a key for it.
KeysLeft ==
  Cardinality({w \in Worker : At(w, "upload")}) < Cardinality({k \in Key : Unused(k)})

-----------------------------------------------------------------------------
\* The unlocked pre-check, then the access and role checks.  An admin or
\* support user passes the access check for any project id.
PreCheckNothing(w) ==
  /\ At(w, "idle")
  /\ KeysLeft
  /\ \E t \in DocTypes :
       req' = [req EXCEPT ![w] = [@ EXCEPT !.step = "upload", !.type = t]]
  /\ UNCHANGED <<projectExists, files, row, lock>>
PreCheck(w) ==
  /\ At(w, "idle")
  /\ KeysLeft
  /\ \E t \in DocTypes, role \in Role :
       /\ Count(t) < DocLimit(t)
       /\ role \in Staff \/ projectExists
       /\ roleMayUploadDocType(role, t)
       /\ req' = [req EXCEPT ![w] = [@ EXCEPT !.step = "upload", !.type = t]]
  /\ UNCHANGED <<projectExists, files, row, lock>>

StoreFileLater(w) ==
  /\ At(w, "upload")
  /\ \E k \in Key :
       /\ Unused(k)
       /\ req' = [req EXCEPT ![w] = [@ EXCEPT !.step = "lock", !.key = k]]
  /\ UNCHANGED <<projectExists, files, row, lock>>
StoreFile(w) ==
  /\ At(w, "upload")
  /\ \E k \in Key :
       /\ Unused(k)
       /\ files' = files \cup {k}
       /\ req' = [req EXCEPT ![w] = [@ EXCEPT !.step = "lock", !.key = k]]
  /\ UNCHANGED <<projectExists, row, lock>>

\* BEGIN and SELECT ... FOR UPDATE: waits for the transaction that holds the
\* row; a project that is gone locks nothing and is no error.
LockNothing(w) ==
  /\ At(w, "lock")
  /\ Become(w, "insert")
  /\ UNCHANGED <<projectExists, files, row, lock>>
LockProject(w) ==
  /\ At(w, "lock")
  /\ projectExists => lock = None
  /\ lock' = IF projectExists THEN w ELSE lock
  /\ Become(w, "insert")
  /\ UNCHANGED <<projectExists, files, row>>

\* The count under the lock, and the INSERT its foreign key lets through.
RecheckOffByOne(t) == Count(t) <= DocLimit(t)
Recheck(t) == Count(t) < DocLimit(t)

InsertDocument(w) ==
  /\ At(w, "insert")
  /\ projectExists
  /\ Recheck(req[w].type)
  /\ Become(w, "commit")
  /\ UNCHANGED <<projectExists, files, row, lock>>

\* Every early return runs the deferred Rollback, which frees the row; the
\* file stays where it is.
Unlock(w) == lock' = IF lock = w THEN None ELSE lock

RefuseLocked(w) == UNCHANGED lock
Refuse(w) == Unlock(w)

RefuseDocument(w) ==
  /\ At(w, "insert")
  /\ ~(projectExists /\ Recheck(req[w].type))
  /\ Refuse(w)
  /\ Finish(w)
  /\ UNCHANGED <<projectExists, files, row>>

CommitDocument(w) ==
  /\ At(w, "commit")
  /\ row' = [row EXCEPT ![req[w].key] = req[w].type]
  /\ Unlock(w)
  /\ Finish(w)
  /\ UNCHANGED <<projectExists, files>>

-----------------------------------------------------------------------------
\* DELETE /documents/:id finds the row ...
FindDocument(w) ==
  /\ At(w, "idle")
  /\ \E k \in Key :
       /\ row[k] # None
       /\ req' = [req EXCEPT ![w] = [@ EXCEPT !.step = "unlink", !.key = k]]
  /\ UNCHANGED <<projectExists, files, row, lock>>

\* ... removes the file, a missing one included ...
DeleteStoredFile(w) ==
  /\ At(w, "unlink")
  /\ files' = files \ {req[w].key}
  /\ Become(w, "deleteRow")
  /\ UNCHANGED <<projectExists, row, lock>>

\* ... and then the row, if it is still there.
DeleteRowSoftly(w) ==
  /\ At(w, "deleteRow")
  /\ row' = [row EXCEPT ![req[w].key] = "deleted"]
  /\ Finish(w)
  /\ UNCHANGED <<projectExists, files, lock>>
DeleteRow(w) ==
  /\ At(w, "deleteRow")
  /\ row' = [row EXCEPT ![req[w].key] = None]
  /\ Finish(w)
  /\ UNCHANGED <<projectExists, files, lock>>

\* DeleteAdminCompany: rows and project in one transaction, which waits for the
\* locks of running uploads.  It does not know about files.
DeleteAdminCompany ==
  /\ "companies" \in Features
  /\ projectExists
  /\ lock = None
  /\ projectExists' = FALSE
  /\ row' = [k \in Key |-> None]
  /\ UNCHANGED <<files, lock, req>>

-----------------------------------------------------------------------------
\* A statement fails or the process dies; the database rolls back the open
\* transaction, nobody cleans up the disk.
Fault(w) ==
  /\ "faults" \in Features
  /\ ~At(w, "idle")
  /\ Unlock(w)
  /\ Finish(w)
  /\ UNCHANGED <<projectExists, files, row>>

\* Upload returns an error after it created the file (disk full).
StoreFileFails(w) ==
  /\ "faults" \in Features
  /\ At(w, "upload")
  /\ \E k \in Key : Unused(k) /\ files' = files \cup {k}
  /\ Finish(w)
  /\ UNCHANGED <<projectExists, row, lock>>

Continue(w) ==
  \/ StoreFile(w) \/ LockProject(w) \/ InsertDocument(w) \/ RefuseDocument(w)
  \/ CommitDocument(w) \/ DeleteStoredFile(w) \/ DeleteRow(w)

Next ==
  \/ DeleteAdminCompany
  \/ \E w \in Worker : \/ PreCheck(w) \/ FindDocument(w) \/ Continue(w)
                       \/ Fault(w) \/ StoreFileFails(w)

Spec == Init /\ [][Next]_vars

\* A request in progress is served to its end; PostgreSQL queues the waiters
\* of a row lock, so none is passed over for ever: strong fairness on the lock.
FairSpec ==
  /\ Spec
  /\ \A w \in Worker : WF_vars(Continue(w)) /\ SF_vars(LockProject(w))

-----------------------------------------------------------------------------
\* However many uploads overlap, no document type exceeds its limit.
LimitsHold == \A t \in DocType : Count(t) <= DocLimit(t)

\* A document enters the table only with its file on disk, whichever uploads and
\* deletions of other documents failed or overlapped on the way.
RowBringsFile == [][\A k \in Key : row[k] = None /\ row'[k] # None => k \in files']_vars

\* From the count under the lock to the commit nothing takes the room it found:
\* not another upload, and not the deletion of the project with its company.
RoomUntilCommit ==
  \A w \in Worker : At(w, "commit") =>
    /\ projectExists
    /\ lock = w
    /\ Count(req[w].type) < DocLimit(req[w].type)

\* Every file on disk is the file of a document once all requests are done
\* (documents_orphan_test.go:115).
NoOrphans ==
  (\A w \in Worker : At(w, "idle")) => \A k \in files : row[k] # None

\* Every accepted upload is answered: nobody waits for the row lock for ever.
EveryRequestEnds == \A w \in Worker : []<>At(w, "idle")

Shelf == INSTANCE DocumentShelf WITH shelf <- [t \in DocType |-> Count(t)]
ImplementsShelf == Shelf!Spec
=============================================================================
