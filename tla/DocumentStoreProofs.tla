------------------------- MODULE DocumentStoreProofs -------------------------
(***************************************************************************)
(* Proofs about DocumentStore for any number of workers, keys and types.   *)
(* The limits hold because the count and the INSERT are made under the     *)
(* project's row lock: LockOrder says who holds it, RoomUntilCommit what   *)
(* it protects.  KeyReserved, a key belongs to one upload until it commits,*)
(* then shows that the store implements DocumentShelf.                     *)
(***************************************************************************)
EXTENDS DocumentStore, FiniteSetTheorems, TLAPS

\* What a request holds by the time it reaches each step.
Sound(r) ==
  /\ r.step \in {"upload", "lock", "insert", "commit"} => r.type \in DocType
  /\ r.step \in {"lock", "insert", "commit", "unlink", "deleteRow"} => r.key \in Key

ReqOK == \A w \in Worker : Sound(req[w])

\* A transaction past its SELECT ... FOR UPDATE owns the row, if there is one.
LockOrder == \A w \in Worker : At(w, "insert") /\ projectExists => lock = w

Typed == TypeOK /\ ReqOK
IInv == Typed /\ LockOrder /\ RoomUntilCommit /\ LimitsHold

-----------------------------------------------------------------------------
\* Counting rows.
LEMMA RowsFinite ==
  ASSUME TypeOK, NEW t
  PROVE  IsFiniteSet(RowsOf(t)) /\ Count(t) \in Nat
<1>1. RowsOf(t) \subseteq Key
  BY DEF RowsOf
<1>2. IsFiniteSet(Key)
  BY KeyAssumption
<1>3. IsFiniteSet(RowsOf(t))
  BY <1>1, <1>2, FS_Subset
<1> QED
  BY <1>3, FS_CardinalityType DEF Count

\* A step that only removes rows raises no count.
LEMMA CountShrinks ==
  ASSUME TypeOK, NEW t \in DocType,
         \A k \in Key : row'[k] = row[k] \/ row'[k] = None
  PROVE  Count(t)' \in Nat /\ Count(t)' <= Count(t)
<1>1. t # None
  BY DEF DocType, singleUploadDocs, multiUploadDocs, None
<1>2. RowsOf(t)' \subseteq RowsOf(t)
  BY <1>1 DEF RowsOf
<1>3. IsFiniteSet(RowsOf(t))
  BY RowsFinite
<1>4. IsFiniteSet(RowsOf(t)') /\ Cardinality(RowsOf(t)') <= Cardinality(RowsOf(t))
  BY <1>2, <1>3, FS_Subset
<1>5. Cardinality(RowsOf(t)') \in Nat
  BY <1>4, FS_CardinalityType
<1> QED
  BY <1>4, <1>5 DEF Count

\* A key without a row gets one: the count of its type grows by exactly one.
LEMMA CountGrows ==
  ASSUME TypeOK, NEW k \in Key, NEW t \in DocType, row[k] = None,
         row' = [row EXCEPT ![k] = t]
  PROVE  /\ Count(t)' = Count(t) + 1
         /\ \A u \in DocType \ {t} : Count(u)' = Count(u)
<1>1. t # None
  BY DEF DocType, singleUploadDocs, multiUploadDocs, None
<1>2. RowsOf(t)' = RowsOf(t) \cup {k} /\ k \notin RowsOf(t)
  BY <1>1 DEF RowsOf, TypeOK
<1>3. IsFiniteSet(RowsOf(t))
  BY RowsFinite
<1>4. Cardinality(RowsOf(t)') = Cardinality(RowsOf(t)) + 1
  BY <1>2, <1>3, FS_AddElement
<1>5. ASSUME NEW u \in DocType \ {t} PROVE Count(u)' = Count(u)
  <2>1. u # None
    BY DEF DocType, singleUploadDocs, multiUploadDocs, None
  <2>2. RowsOf(u)' = RowsOf(u)
    BY <2>1 DEF RowsOf, TypeOK
  <2> QED
    BY <2>2 DEF Count
<1> QED
  BY <1>4, <1>5 DEF Count

\* Whatever the key had before, one row more at most.
LEMMA CountPut ==
  ASSUME TypeOK, NEW k \in Key, NEW t \in DocType, row' = [row EXCEPT ![k] = t]
  PROVE  /\ \A u \in DocType : Count(u)' \in Nat
         /\ Count(t)' <= Count(t) + 1
         /\ \A u \in DocType \ {t} : Count(u)' <= Count(u)
<1>1. RowsOf(t) \cup {k} = RowsOf(t)' /\ IsFiniteSet(RowsOf(t))
  BY RowsFinite DEF RowsOf, TypeOK
<1>2. Cardinality(RowsOf(t)') = IF k \in RowsOf(t) THEN Cardinality(RowsOf(t))
                                ELSE Cardinality(RowsOf(t)) + 1
  BY <1>1, FS_AddElement
<1>3. ASSUME NEW u \in DocType \ {t}
      PROVE  Count(u)' \in Nat /\ Count(u)' <= Count(u)
  <2>1. RowsOf(u)' \subseteq RowsOf(u) /\ IsFiniteSet(RowsOf(u))
    BY RowsFinite DEF RowsOf, TypeOK
  <2>2. IsFiniteSet(RowsOf(u)') /\ Cardinality(RowsOf(u)') <= Cardinality(RowsOf(u))
    BY <2>1, FS_Subset
  <2> QED
    BY <2>2, FS_CardinalityType DEF Count
<1>4. Cardinality(RowsOf(t)) \in Nat
  BY RowsFinite DEF Count
<1> QED
  BY <1>2, <1>3, <1>4 DEF Count

\* A row is deleted: the count of its type shrinks by exactly one.
LEMMA CountDrops ==
  ASSUME TypeOK, NEW k \in Key, NEW t \in DocType, row[k] = t,
         row' = [row EXCEPT ![k] = None]
  PROVE  /\ Count(t) > 0
         /\ Count(t)' = Count(t) - 1
         /\ \A u \in DocType \ {t} : Count(u)' = Count(u)
<1>1. t # None
  BY DEF DocType, singleUploadDocs, multiUploadDocs, None
<1>2. RowsOf(t)' = RowsOf(t) \ {k} /\ k \in RowsOf(t)
  BY <1>1 DEF RowsOf, TypeOK
<1>3. IsFiniteSet(RowsOf(t))
  BY RowsFinite
<1>4. Cardinality(RowsOf(t)') = Cardinality(RowsOf(t)) - 1
  BY <1>2, <1>3, FS_RemoveElement
<1>5. Cardinality(RowsOf(t)) \in Nat /\ Cardinality(RowsOf(t)) # 0
  BY <1>2, <1>3, FS_CardinalityType, FS_EmptySet
<1>6. ASSUME NEW u \in DocType \ {t} PROVE Count(u)' = Count(u)
  <2>1. u # None
    BY DEF DocType, singleUploadDocs, multiUploadDocs, None
  <2>2. RowsOf(u)' = RowsOf(u)
    BY <2>1, <1>1 DEF RowsOf, TypeOK
  <2> QED
    BY <2>2 DEF Count
<1> QED
  BY <1>4, <1>5, <1>6 DEF Count

-----------------------------------------------------------------------------
\* One request changes, the others keep what they hold.
LEMMA OneRequest ==
  ASSUME Typed, NEW w \in Worker, NEW r \in Request, Sound(r),
         req' = [req EXCEPT ![w] = r]
  PROVE  /\ req' \in [Worker -> Request] /\ ReqOK'
         /\ req'[w] = r
         /\ \A v \in Worker \ {w} : req'[v] = req[v]
BY DEF Typed, TypeOK, ReqOK

LEMMA FinishTyped ==
  ASSUME Typed, NEW w \in Worker, Finish(w)
  PROVE  /\ req' \in [Worker -> Request] /\ ReqOK'
         /\ req'[w] = Idle
         /\ \A v \in Worker \ {w} : req'[v] = req[v]
<1>1. Idle \in Request /\ Sound(Idle)
  BY DEF Idle, Request, Sound
<1> QED
  BY <1>1, OneRequest DEF Finish

LEMMA BecomeTyped ==
  ASSUME Typed, NEW w \in Worker,
         NEW s \in {"lock", "insert", "commit", "deleteRow"}, Become(w, s),
         Sound([req[w] EXCEPT !.step = s])
  PROVE  /\ req' \in [Worker -> Request] /\ ReqOK'
         /\ req'[w] = [req[w] EXCEPT !.step = s]
         /\ \A v \in Worker \ {w} : req'[v] = req[v]
<1> DEFINE r == [req[w] EXCEPT !.step = s]
<1>1. r \in Request
  BY DEF Typed, TypeOK, Request
<1>2. req' = [req EXCEPT ![w] = r]
  BY DEF Become
<1> QED
  BY <1>1, <1>2, OneRequest

\* What every step of worker w has in common: w's own record is sound after it
\* and nobody else's has changed.
OnlyRequestOf(w) ==
  /\ req' \in [Worker -> Request] /\ ReqOK'
  /\ \A v \in Worker \ {w} : req'[v] = req[v]

LEMMA PreCheckStep ==
  ASSUME Typed, NEW w \in Worker, PreCheck(w)
  PROVE  OnlyRequestOf(w) /\ req'[w].step = "upload" /\ req'[w].key = req[w].key
<1>1. PICK t \in DocTypes : req' = [req EXCEPT ![w] = [@ EXCEPT !.step = "upload", !.type = t]]
  BY DEF PreCheck
<1> DEFINE r == [req[w] EXCEPT !.step = "upload", !.type = t]
<1>2. t \in DocType
  BY <1>1, DocTypesAssumption
<1>3. req[w] \in Request
  BY DEF Typed, TypeOK
<1>4. r \in Request /\ Sound(r)
  BY <1>2, <1>3 DEF Request, Sound
<1>5. req' = [req EXCEPT ![w] = r]
  BY <1>1
<1>6. r.step = "upload" /\ r.key = req[w].key
  BY <1>3 DEF Request
<1> QED
  BY <1>4, <1>5, <1>6, OneRequest DEF OnlyRequestOf

LEMMA StoreFileStep ==
  ASSUME Typed, NEW w \in Worker, StoreFile(w)
  PROVE  \E k \in Key :
           /\ Unused(k)
           /\ files' = files \cup {k}
           /\ OnlyRequestOf(w)
           /\ req'[w] = [req[w] EXCEPT !.step = "lock", !.key = k]
<1>1. PICK k \in Key :
         /\ Unused(k)
         /\ files' = files \cup {k}
         /\ req' = [req EXCEPT ![w] = [@ EXCEPT !.step = "lock", !.key = k]]
  BY DEF StoreFile
<1> DEFINE r == [req[w] EXCEPT !.step = "lock", !.key = k]
<1>2. req[w] \in Request /\ req[w].type \in DocType
  BY DEF StoreFile, At, Typed, TypeOK, ReqOK, Sound
<1>3. r \in Request /\ Sound(r)
  BY <1>2 DEF Request, Sound
<1>4. req' = [req EXCEPT ![w] = r]
  BY <1>1
<1> QED
  BY <1>1, <1>3, <1>4, OneRequest DEF OnlyRequestOf

LEMMA FindDocumentStep ==
  ASSUME Typed, NEW w \in Worker, FindDocument(w)
  PROVE  \E k \in Key :
           /\ row[k] # None
           /\ OnlyRequestOf(w)
           /\ req'[w] = [req[w] EXCEPT !.step = "unlink", !.key = k]
<1>1. PICK k \in Key :
         /\ row[k] # None
         /\ req' = [req EXCEPT ![w] = [@ EXCEPT !.step = "unlink", !.key = k]]
  BY DEF FindDocument
<1> DEFINE r == [req[w] EXCEPT !.step = "unlink", !.key = k]
<1>2. req[w] \in Request
  BY DEF Typed, TypeOK
<1>3. r \in Request /\ Sound(r)
  BY <1>2 DEF Request, Sound
<1>4. req' = [req EXCEPT ![w] = r]
  BY <1>1
<1> QED
  BY <1>1, <1>3, <1>4, OneRequest DEF OnlyRequestOf

\* The steps that only move on, and the ones that answer the request.
LEMMA BecomeStep ==
  ASSUME Typed, NEW w \in Worker,
         LockProject(w) \/ InsertDocument(w) \/ DeleteStoredFile(w)
  PROVE  /\ OnlyRequestOf(w)
         /\ req'[w].type = req[w].type /\ req'[w].key = req[w].key
         /\ req'[w].step = CASE At(w, "lock")   -> "insert"
                             [] At(w, "insert") -> "commit"
                             [] At(w, "unlink") -> "deleteRow"
<1>1. PICK s \in {"insert", "commit", "deleteRow"} :
         /\ Become(w, s)
         /\ \/ At(w, "lock") /\ s = "insert"
            \/ At(w, "insert") /\ s = "commit"
            \/ At(w, "unlink") /\ s = "deleteRow"
  BY DEF LockProject, InsertDocument, DeleteStoredFile
<1>2. req[w] \in Request /\ Sound(req[w])
  BY DEF Typed, TypeOK, ReqOK
<1>3. Sound([req[w] EXCEPT !.step = s])
  BY <1>1, <1>2 DEF Sound, At, Request
<1>4. /\ req' \in [Worker -> Request] /\ ReqOK'
      /\ req'[w] = [req[w] EXCEPT !.step = s]
      /\ \A v \in Worker \ {w} : req'[v] = req[v]
  BY <1>1, <1>3, BecomeTyped
<1> QED
  BY <1>1, <1>2, <1>4 DEF OnlyRequestOf, At, Request

LEMMA FinishStep ==
  ASSUME Typed, NEW w \in Worker, Finish(w)
  PROVE  OnlyRequestOf(w) /\ req'[w].step = "idle" /\ req'[w].key = None
BY FinishTyped DEF OnlyRequestOf, Idle

-----------------------------------------------------------------------------
LEMMA StepTyped == Typed /\ [Next]_vars => Typed'
<1> SUFFICES ASSUME Typed, [Next]_vars PROVE Typed'
  OBVIOUS
<1>0. TypeOK /\ ReqOK
  BY DEF Typed
<1>1. CASE DeleteAdminCompany
  <2>1. TypeOK' /\ UNCHANGED req
    BY <1>0, <1>1 DEF DeleteAdminCompany, TypeOK
  <2> QED
    BY <1>0, <2>1 DEF Typed, ReqOK
<1>2. ASSUME NEW w \in Worker, PreCheck(w) PROVE Typed'
  <2>1. UNCHANGED <<projectExists, files, row, lock>>
    BY <1>2 DEF PreCheck
  <2> QED
    BY <1>0, <1>2, <2>1, PreCheckStep DEF Typed, TypeOK, OnlyRequestOf
<1>3. ASSUME NEW w \in Worker, FindDocument(w) PROVE Typed'
  <2>1. UNCHANGED <<projectExists, files, row, lock>>
    BY <1>3 DEF FindDocument
  <2> QED
    BY <1>0, <1>3, <2>1, FindDocumentStep DEF Typed, TypeOK, OnlyRequestOf
<1>4. ASSUME NEW w \in Worker, StoreFile(w) PROVE Typed'
  <2>1. UNCHANGED <<projectExists, row, lock>>
    BY <1>4 DEF StoreFile
  <2> QED
    BY <1>0, <1>4, <2>1, StoreFileStep DEF Typed, TypeOK, OnlyRequestOf
<1>5. ASSUME NEW w \in Worker, LockProject(w) \/ InsertDocument(w) \/ DeleteStoredFile(w)
      PROVE  Typed'
  <2>1. OnlyRequestOf(w)
    BY <1>5, BecomeStep
  <2>2. projectExists' \in BOOLEAN /\ files' \subseteq Key /\ row' = row
    BY <1>0, <1>5 DEF LockProject, InsertDocument, DeleteStoredFile, TypeOK
  <2>3. lock' \in Worker \cup {None}
    BY <1>0, <1>5 DEF LockProject, InsertDocument, DeleteStoredFile, TypeOK
  <2> QED
    BY <1>0, <2>1, <2>2, <2>3 DEF Typed, TypeOK, OnlyRequestOf
<1>6. ASSUME NEW w \in Worker, Finish(w), UNCHANGED projectExists,
             files' \subseteq Key, row' \in [Key -> DocType \cup {None}],
             lock' \in Worker \cup {None}
      PROVE  Typed'
  BY <1>0, <1>6, FinishStep DEF Typed, TypeOK, OnlyRequestOf
<1>7. ASSUME NEW w \in Worker,
             RefuseDocument(w) \/ CommitDocument(w) \/ DeleteRow(w) \/ Fault(w) \/ StoreFileFails(w)
      PROVE  Typed'
  <2>1. Sound(req[w]) /\ req[w] \in Request
    BY <1>0 DEF TypeOK, ReqOK
  <2>2. files' \subseteq Key
    BY <1>0, <1>7 DEF TypeOK, RefuseDocument, CommitDocument, DeleteRow, Fault, StoreFileFails
  <2>3. row' \in [Key -> DocType \cup {None}]
    BY <1>0, <1>7, <2>1 DEF TypeOK, RefuseDocument, CommitDocument, DeleteRow, Fault,
                            StoreFileFails, Sound, At
  <2>4. lock' \in Worker \cup {None} /\ UNCHANGED projectExists /\ Finish(w)
    BY <1>0, <1>7 DEF TypeOK, RefuseDocument, CommitDocument, DeleteRow, Fault,
                      StoreFileFails, Refuse, Unlock
  <2> QED
    BY <1>6, <2>2, <2>3, <2>4
<1>8. CASE UNCHANGED vars
  BY <1>0, <1>8 DEF vars, Typed, TypeOK, ReqOK
<1> QED
  BY <1>1, <1>2, <1>3, <1>4, <1>5, <1>7, <1>8 DEF Next, Continue

LEMMA InitTyped == Init => Typed
BY DEF Init, Typed, TypeOK, ReqOK, Sound, Idle, Request

\* The five variables keep to their types and every request holds a type and a
\* key when the code dereferences them.
THEOREM TypeCorrect == Spec => []TypeOK
<1>1. Spec => []Typed
  BY InitTyped, StepTyped, PTL DEF Spec
<1> QED
  BY <1>1, PTL DEF Typed

-----------------------------------------------------------------------------
\* The limits.
LEMMA InitLimits == Init => LockOrder /\ RoomUntilCommit /\ LimitsHold
<1> SUFFICES ASSUME Init PROVE LockOrder /\ RoomUntilCommit /\ LimitsHold
  OBVIOUS
<1>1. LockOrder /\ RoomUntilCommit
  BY DEF Init, LockOrder, RoomUntilCommit, At, Idle
<1>2. ASSUME NEW t \in DocType PROVE Count(t) <= DocLimit(t)
  <2>1. t # None
    BY DEF DocType, singleUploadDocs, multiUploadDocs, None
  <2>2. RowsOf(t) = {}
    BY <2>1 DEF RowsOf, Init
  <2>3. Cardinality({}) = 0
    BY FS_EmptySet
  <2> QED
    BY <2>2, <2>3 DEF Count, DocLimit, siteSurveyLimit, attachmentLimit
<1> QED
  BY <1>1, <1>2 DEF LimitsHold

\* A step that leaves the rows alone keeps the limits; it keeps the other two
\* if it leaves the lock and the project alone too and starts no transaction.
LEMMA BesidesTheRows ==
  ASSUME IInv, UNCHANGED row PROVE LimitsHold'
BY DEF IInv, LimitsHold, Count, RowsOf

LEMMA OutsideTheLock ==
  ASSUME IInv, NEW w \in Worker, OnlyRequestOf(w),
         req'[w].step \notin {"insert", "commit"},
         UNCHANGED projectExists,
         \/ UNCHANGED lock
         \/ lock = w,
         \A t \in DocType : Count(t)' \in Nat /\ Count(t) \in Nat,
         \A t \in DocType : Count(t)' <= Count(t) \/ lock = w
  PROVE  LockOrder' /\ RoomUntilCommit'
<1>1. LockOrder'
  <2> SUFFICES ASSUME NEW v \in Worker, At(v, "insert")', projectExists' PROVE lock' = v
    BY DEF LockOrder
  <2>1. v # w /\ At(v, "insert") /\ projectExists
    BY DEF At, OnlyRequestOf
  <2> QED
    BY <2>1 DEF IInv, LockOrder
<1>2. RoomUntilCommit'
  <2> SUFFICES ASSUME NEW v \in Worker, At(v, "commit")'
               PROVE  projectExists' /\ lock' = v /\ (Count(req[v].type) < DocLimit(req[v].type))'
    BY DEF RoomUntilCommit
  <2>1. v # w /\ At(v, "commit") /\ req'[v] = req[v]
    BY DEF At, OnlyRequestOf
  <2>2. projectExists /\ lock = v /\ Count(req[v].type) < DocLimit(req[v].type)
    BY <2>1 DEF IInv, RoomUntilCommit
  <2>3. req[v].type \in DocType
    BY <2>1 DEF IInv, Typed, ReqOK, Sound, At
  <2> DEFINE t == req[v].type
  <2>4. PICK u \in DocType : u = t
    BY <2>3
  <2>5. Count(u)' <= Count(u) /\ Count(u)' \in Nat /\ Count(u) \in Nat
    BY <2>1, <2>2
  <2>6. Count(u)' < DocLimit(u)
    BY <2>2, <2>4, <2>5 DEF DocLimit, siteSurveyLimit, attachmentLimit
  <2> QED
    BY <2>1, <2>2, <2>4, <2>6 DEF Count, RowsOf
<1> QED
  BY <1>1, <1>2

LEMMA StepLimits ==
  IInv /\ [Next]_vars => LockOrder' /\ RoomUntilCommit' /\ LimitsHold'
<1> SUFFICES ASSUME IInv, [Next]_vars
             PROVE  LockOrder' /\ RoomUntilCommit' /\ LimitsHold'
  OBVIOUS
<1>0. /\ Typed /\ TypeOK /\ ReqOK /\ LockOrder /\ RoomUntilCommit /\ LimitsHold
      /\ \A t \in DocType : Count(t) \in Nat
  BY RowsFinite DEF IInv, Typed
<1>1. CASE DeleteAdminCompany
  <2>1. \A w \in Worker : ~At(w, "commit")
    BY <1>0, <1>1, WorkerAssumption DEF DeleteAdminCompany, RoomUntilCommit
  <2>2. LockOrder' /\ RoomUntilCommit'
    BY <1>1, <2>1 DEF DeleteAdminCompany, LockOrder, RoomUntilCommit, At
  <2>3. ASSUME NEW t \in DocType PROVE Count(t)' <= DocLimit(t)
    <3>1. Count(t)' \in Nat /\ Count(t)' <= Count(t)
      BY <1>0, <1>1, CountShrinks DEF DeleteAdminCompany
    <3> QED
      BY <1>0, <3>1 DEF LimitsHold, DocLimit, siteSurveyLimit, attachmentLimit
  <2> QED
    BY <2>2, <2>3 DEF LimitsHold, DocLimit
\* Steps that neither touch the rows nor end between the recheck and the commit.
<1>2. ASSUME NEW w \in Worker, UNCHANGED <<row, projectExists>>,
             OnlyRequestOf(w), req'[w].step \notin {"insert", "commit"},
             lock' = lock \/ lock = w
      PROVE  LockOrder' /\ RoomUntilCommit' /\ LimitsHold'
  <2>1. \A t \in DocType : Count(t)' = Count(t)
    BY <1>2 DEF Count, RowsOf
  <2>2. LockOrder' /\ RoomUntilCommit'
    BY <1>0, <1>2, <2>1, OutsideTheLock
  <2> QED
    BY <1>2, <2>2, BesidesTheRows
<1>3. ASSUME NEW w \in Worker,
             \/ PreCheck(w) \/ FindDocument(w) \/ StoreFile(w) \/ DeleteStoredFile(w)
             \/ RefuseDocument(w) \/ Fault(w) \/ StoreFileFails(w)
      PROVE  LockOrder' /\ RoomUntilCommit' /\ LimitsHold'
  <2>1. UNCHANGED <<row, projectExists>> /\ (lock' = lock \/ lock = w)
    BY <1>3 DEF PreCheck, FindDocument, StoreFile, DeleteStoredFile, RefuseDocument,
                Fault, StoreFileFails, Refuse, Unlock
  <2>2. OnlyRequestOf(w) /\ req'[w].step \notin {"insert", "commit"}
    <3>1. CASE PreCheck(w)
      BY <1>0, <3>1, PreCheckStep
    <3>2. CASE FindDocument(w)
      BY <1>0, <3>2, FindDocumentStep DEF TypeOK, Request
    <3>3. CASE StoreFile(w)
      BY <1>0, <3>3, StoreFileStep DEF TypeOK, Request
    <3>4. CASE DeleteStoredFile(w)
      BY <1>0, <3>4, BecomeStep DEF DeleteStoredFile, At
    <3>5. CASE RefuseDocument(w) \/ Fault(w) \/ StoreFileFails(w)
      BY <1>0, <3>5, FinishStep DEF RefuseDocument, Fault, StoreFileFails
    <3> QED
      BY <1>3, <3>1, <3>2, <3>3, <3>4, <3>5
  <2> QED
    BY <1>2, <2>1, <2>2
<1>4. ASSUME NEW w \in Worker, LockProject(w)
      PROVE  LockOrder' /\ RoomUntilCommit' /\ LimitsHold'
  <2>1. /\ OnlyRequestOf(w) /\ req'[w].step = "insert"
        /\ UNCHANGED <<row, projectExists>>
        /\ projectExists => lock = None /\ lock' = w
    BY <1>0, <1>4, BecomeStep DEF LockProject, At
  <2>2. \A v \in Worker \ {w} : projectExists => ~At(v, "insert")
    BY <1>0, <2>1, WorkerAssumption DEF LockOrder
  <2>3. \A v \in Worker : ~At(v, "commit")
    BY <1>0, <2>1, WorkerAssumption DEF RoomUntilCommit
  <2>4. LockOrder'
    BY <2>1, <2>2 DEF LockOrder, OnlyRequestOf, At
  <2>5. RoomUntilCommit'
    BY <2>1, <2>3 DEF RoomUntilCommit, OnlyRequestOf, At
  <2> QED
    BY <2>1, <2>4, <2>5, BesidesTheRows
<1>5. ASSUME NEW w \in Worker, InsertDocument(w)
      PROVE  LockOrder' /\ RoomUntilCommit' /\ LimitsHold'
  <2>1. /\ OnlyRequestOf(w) /\ req'[w].step = "commit" /\ req'[w].type = req[w].type
        /\ UNCHANGED <<row, projectExists, lock>>
        /\ projectExists /\ Count(req[w].type) < DocLimit(req[w].type)
    BY <1>0, <1>5, BecomeStep DEF InsertDocument, At, Recheck
  <2>2. lock = w
    BY <1>0, <1>5 DEF InsertDocument, LockOrder
  <2>3. LockOrder'
    BY <1>0, <2>1 DEF LockOrder, OnlyRequestOf, At
  <2>4. RoomUntilCommit'
    <3> SUFFICES ASSUME NEW v \in Worker, At(v, "commit")'
                 PROVE  projectExists' /\ lock' = v /\ (Count(req[v].type) < DocLimit(req[v].type))'
      BY DEF RoomUntilCommit
    <3>1. CASE v = w
      BY <2>1, <2>2, <3>1 DEF Count, RowsOf
    <3>2. CASE v # w
      BY <1>0, <2>1, <3>2 DEF RoomUntilCommit, OnlyRequestOf, At, Count, RowsOf
    <3> QED
      BY <3>1, <3>2
  <2> QED
    BY <2>1, <2>3, <2>4, BesidesTheRows
<1>6. ASSUME NEW w \in Worker, CommitDocument(w)
      PROVE  LockOrder' /\ RoomUntilCommit' /\ LimitsHold'
  <2>1. PICK t \in DocType, k \in Key : t = req[w].type /\ k = req[w].key
    BY <1>0, <1>6 DEF CommitDocument, ReqOK, Sound, At
  <2>2. row' = [row EXCEPT ![k] = t] /\ Finish(w) /\ UNCHANGED projectExists
    BY <1>6, <2>1 DEF CommitDocument
  <2>3. lock = w /\ Count(t) < DocLimit(t)
    BY <1>0, <1>6, <2>1 DEF CommitDocument, RoomUntilCommit
  <2>4. /\ \A u \in DocType : Count(u)' \in Nat
        /\ Count(t)' <= Count(t) + 1
        /\ \A u \in DocType \ {t} : Count(u)' <= Count(u)
    BY <1>0, <2>2, CountPut
  <2>5. LimitsHold'
    BY <1>0, <2>3, <2>4 DEF LimitsHold, DocLimit, siteSurveyLimit, attachmentLimit
  <2>6. LockOrder' /\ RoomUntilCommit'
    BY <1>0, <2>2, <2>3, <2>4, FinishStep, OutsideTheLock
  <2> QED
    BY <2>5, <2>6
<1>7. ASSUME NEW w \in Worker, DeleteRow(w)
      PROVE  LockOrder' /\ RoomUntilCommit' /\ LimitsHold'
  <2>1. Finish(w) /\ UNCHANGED <<lock, projectExists>>
    BY <1>7 DEF DeleteRow
  <2>2. \A k \in Key : row'[k] = row[k] \/ row'[k] = None
    BY <1>0, <1>7 DEF DeleteRow, TypeOK
  <2>3. \A t \in DocType : Count(t)' \in Nat /\ Count(t)' <= Count(t)
    BY <1>0, <2>2, CountShrinks
  <2>4. LimitsHold'
    BY <1>0, <2>3 DEF LimitsHold, DocLimit, siteSurveyLimit, attachmentLimit
  <2>5. LockOrder' /\ RoomUntilCommit'
    BY <1>0, <2>1, <2>3, FinishStep, OutsideTheLock
  <2> QED
    BY <2>4, <2>5
<1>8. CASE UNCHANGED vars
  BY <1>0, <1>8 DEF vars, LockOrder, RoomUntilCommit, LimitsHold, At, Count, RowsOf
<1> QED
  BY <1>1, <1>3, <1>4, <1>5, <1>6, <1>7, <1>8 DEF Next, Continue

LEMMA Inductive == Spec => []IInv
<1>1. Init => IInv
  BY InitTyped, InitLimits DEF IInv
<1>2. IInv /\ [Next]_vars => IInv'
  BY StepTyped, StepLimits DEF IInv
<1> QED
  BY <1>1, <1>2, PTL DEF Spec

\* No interleaving of uploads and deletions, no fault and no deletion of the
\* company takes a document type above the limit CreateDocument enforces.
THEOREM LimitsAlwaysHold == Spec => [](LimitsHold /\ RoomUntilCommit)
BY Inductive, PTL DEF IInv

-----------------------------------------------------------------------------
\* From the file to the commit a key is its upload's alone: no row, no other
\* request has it.
Writing(w) == req[w].step \in {"lock", "insert", "commit"}

KeyReserved ==
  \A w \in Worker : Writing(w) =>
    /\ row[req[w].key] = None
    /\ \A v \in Worker \ {w} : req[v].key # req[w].key

LEMMA StepReserved == IInv /\ KeyReserved /\ [Next]_vars => KeyReserved'
<1> SUFFICES ASSUME IInv, KeyReserved, [Next]_vars PROVE KeyReserved'
  OBVIOUS
<1>0. /\ Typed /\ TypeOK /\ ReqOK
      /\ \A w \in Worker : Writing(w) => req[w].key \in Key /\ req[w].key # None
  BY KeyAssumption DEF IInv, Typed, ReqOK, Sound, Writing
\* It is enough that w's new key is nobody's, if w is writing, and not one of
\* the reserved keys otherwise, and that no reserved key gets a row.
<1>1. ASSUME NEW w \in Worker, OnlyRequestOf(w),
             Writing(w)' => /\ row'[req'[w].key] = None
                            /\ \A v \in Worker \ {w} : req[v].key # req'[w].key,
             \A v \in Worker \ {w} : Writing(v) =>
               req'[w].key # req[v].key /\ row'[req[v].key] = None
      PROVE  KeyReserved'
  BY <1>1 DEF KeyReserved, Writing, OnlyRequestOf
<1>2. CASE DeleteAdminCompany
  BY <1>0, <1>2 DEF DeleteAdminCompany, KeyReserved, Writing
<1>3. ASSUME NEW w \in Worker, PreCheck(w) PROVE KeyReserved'
  <2>1. OnlyRequestOf(w) /\ req'[w].step = "upload" /\ req'[w].key = req[w].key /\ row' = row
    BY <1>0, <1>3, PreCheckStep DEF PreCheck
  <2> QED
    BY <1>1, <2>1 DEF KeyReserved, Writing
<1>4. ASSUME NEW w \in Worker, FindDocument(w) PROVE KeyReserved'
  <2>1. PICK k \in Key :
           /\ row[k] # None /\ OnlyRequestOf(w)
           /\ req'[w] = [req[w] EXCEPT !.step = "unlink", !.key = k]
    BY <1>0, <1>4, FindDocumentStep
  <2>2. req'[w].step = "unlink" /\ req'[w].key = k /\ row' = row
    BY <1>0, <1>4, <2>1 DEF TypeOK, Request, FindDocument
  <2> QED
    BY <1>1, <2>1, <2>2 DEF KeyReserved, Writing
<1>5. ASSUME NEW w \in Worker, StoreFile(w) PROVE KeyReserved'
  <2>1. PICK k \in Key :
           /\ Unused(k) /\ OnlyRequestOf(w)
           /\ req'[w] = [req[w] EXCEPT !.step = "lock", !.key = k]
    BY <1>0, <1>5, StoreFileStep
  <2>2. req[w] \in Request /\ row' = row
    BY <1>0, <1>5 DEF TypeOK, StoreFile
  <2>2a. req'[w].step = "lock" /\ req'[w].key = k
    BY <2>1, <2>2 DEF Request
  <2>3. row[k] = None /\ \A v \in Worker : req[v].key # k
    BY <2>1 DEF Unused
  <2> QED
    BY <1>1, <2>1, <2>2, <2>2a, <2>3 DEF KeyReserved
<1>6. ASSUME NEW w \in Worker, LockProject(w) \/ InsertDocument(w) \/ DeleteStoredFile(w)
      PROVE  KeyReserved'
  <2>1. OnlyRequestOf(w) /\ req'[w].key = req[w].key /\ row' = row
    BY <1>0, <1>6, BecomeStep DEF LockProject, InsertDocument, DeleteStoredFile
  <2>2. req'[w].step \in {"insert", "commit"} => Writing(w)
    BY <1>0, <1>6, BecomeStep DEF LockProject, InsertDocument, DeleteStoredFile, Writing, At
  <2>3. req'[w].step \in {"insert", "commit", "deleteRow"}
    BY <1>0, <1>6, BecomeStep DEF LockProject, InsertDocument, DeleteStoredFile, At
  <2> QED
    BY <1>1, <2>1, <2>2, <2>3 DEF KeyReserved, Writing
<1>7. ASSUME NEW w \in Worker, Finish(w),
             \A v \in Worker \ {w} : Writing(v) => row'[req[v].key] = None
      PROVE  KeyReserved'
  BY <1>0, <1>1, <1>7, FinishStep DEF Writing
<1>8. ASSUME NEW w \in Worker, RefuseDocument(w) \/ Fault(w) \/ StoreFileFails(w)
      PROVE  KeyReserved'
  BY <1>7, <1>8 DEF RefuseDocument, Fault, StoreFileFails, KeyReserved
<1>9. ASSUME NEW w \in Worker, CommitDocument(w) PROVE KeyReserved'
  <2>1. Writing(w) /\ row' = [row EXCEPT ![req[w].key] = req[w].type] /\ Finish(w)
    BY <1>9 DEF CommitDocument, At, Writing
  <2>2. \A v \in Worker \ {w} : Writing(v) => row'[req[v].key] = None
    BY <1>0, <2>1 DEF KeyReserved, TypeOK
  <2> QED
    BY <1>7, <2>1, <2>2
<1>10. ASSUME NEW w \in Worker, DeleteRow(w) PROVE KeyReserved'
  BY <1>0, <1>7, <1>10 DEF DeleteRow, KeyReserved, TypeOK
<1>11. CASE UNCHANGED vars
  BY <1>11 DEF vars, KeyReserved, Writing
<1> QED
  BY <1>2, <1>3, <1>4, <1>5, <1>6, <1>8, <1>9, <1>10, <1>11 DEF Next, Continue

LEMMA Reserved == Spec => []KeyReserved
<1>1. Init => KeyReserved
  BY DEF Init, KeyReserved, Writing, Idle
<1> QED
  BY <1>1, StepReserved, Inductive, PTL DEF Spec

\* The shelf a state of the store stands for.
ShelfOf == [t \in DocType |-> Count(t)]

\* The two modules share their rules.
LEMMA SameRules ==
  /\ Shelf!DocType = DocType
  /\ \A t : Shelf!DocLimit(t) = DocLimit(t)
BY DEF Shelf!DocType, DocType, Shelf!singleUploadDocs, singleUploadDocs,
       Shelf!multiUploadDocs, multiUploadDocs, Shelf!DocLimit, DocLimit,
       Shelf!siteSurveyLimit, siteSurveyLimit, Shelf!attachmentLimit, attachmentLimit

LEMMA ShelfInit == Init => Shelf!Init
<1> SUFFICES ASSUME Init, NEW t \in DocType PROVE Count(t) = 0
  BY SameRules DEF Shelf!Init
<1>1. t # None
  BY DEF DocType, singleUploadDocs, multiUploadDocs, None
<1>2. RowsOf(t) = {}
  BY <1>1 DEF RowsOf, Init
<1> QED
  BY <1>2, FS_EmptySet DEF Count

LEMMA ShelfStep == IInv /\ KeyReserved /\ [Next]_vars => [Shelf!Next]_ShelfOf
<1> SUFFICES ASSUME IInv, KeyReserved, [Next]_vars PROVE Shelf!Next \/ UNCHANGED ShelfOf
  OBVIOUS
<1>0. Typed /\ TypeOK /\ ReqOK
  BY DEF IInv, Typed
<1>1. ASSUME UNCHANGED row PROVE UNCHANGED ShelfOf
  BY <1>1 DEF ShelfOf, Count, RowsOf
<1>2. CASE DeleteAdminCompany
  <2>1. ASSUME NEW t \in DocType PROVE Count(t)' = 0
    <3>1. t # None
      BY DEF DocType, singleUploadDocs, multiUploadDocs, None
    <3>2. RowsOf(t)' = {}
      BY <1>2, <3>1 DEF RowsOf, DeleteAdminCompany
    <3> QED
      BY <3>2, FS_EmptySet DEF Count
  <2> QED
    BY <2>1, SameRules DEF Shelf!Next, Shelf!RemoveAll
<1>3. ASSUME NEW w \in Worker, CommitDocument(w) PROVE Shelf!Next
  <2>1. PICK t \in DocType, k \in Key : t = req[w].type /\ k = req[w].key
    BY <1>0, <1>3 DEF CommitDocument, ReqOK, Sound, At
  <2>2. row' = [row EXCEPT ![k] = t] /\ row[k] = None
    BY <1>3, <2>1 DEF CommitDocument, KeyReserved, Writing, At
  <2>3. Count(t)' = Count(t) + 1 /\ \A u \in DocType \ {t} : Count(u)' = Count(u)
    BY <1>0, <2>2, CountGrows
  <2>4. Count(t) < DocLimit(t)
    BY <1>3, <2>1 DEF IInv, RoomUntilCommit, CommitDocument
  <2>5. [u \in DocType |-> Count(u)'] = [[u \in DocType |-> Count(u)] EXCEPT ![t] = Count(t) + 1]
    BY <2>3
  <2>6. Shelf!Add(t)
    BY <2>4, <2>5, SameRules DEF Shelf!Add
  <2> QED
    BY <2>6, SameRules DEF Shelf!Next
<1>4. ASSUME NEW w \in Worker, DeleteRow(w) PROVE Shelf!Next \/ UNCHANGED ShelfOf
  <2>1. PICK k \in Key : k = req[w].key
    BY <1>0, <1>4 DEF DeleteRow, ReqOK, Sound, At
  <2>2. row' = [row EXCEPT ![k] = None]
    BY <1>4, <2>1 DEF DeleteRow
  <2>3. CASE row[k] = None
    BY <1>0, <1>1, <2>2, <2>3 DEF TypeOK
  <2>4. CASE row[k] # None
    <3>1. PICK t \in DocType : t = row[k]
      BY <1>0, <2>4 DEF TypeOK
    <3>2. /\ Count(t) > 0 /\ Count(t)' = Count(t) - 1
          /\ \A u \in DocType \ {t} : Count(u)' = Count(u)
      BY <1>0, <2>2, <3>1, CountDrops
    <3>3. [u \in DocType |-> Count(u)'] = [[u \in DocType |-> Count(u)] EXCEPT ![t] = Count(t) - 1]
      BY <3>2
    <3>4. Shelf!Remove(t)
      BY <3>2, <3>3, SameRules DEF Shelf!Remove
    <3> QED
      BY <3>4, SameRules DEF Shelf!Next
  <2> QED
    BY <2>3, <2>4
<1>5. ASSUME NEW w \in Worker,
             \/ PreCheck(w) \/ FindDocument(w) \/ StoreFile(w) \/ LockProject(w)
             \/ InsertDocument(w) \/ RefuseDocument(w) \/ DeleteStoredFile(w)
             \/ Fault(w) \/ StoreFileFails(w)
      PROVE  UNCHANGED row
  BY <1>5 DEF PreCheck, FindDocument, StoreFile, LockProject, InsertDocument, RefuseDocument,
              DeleteStoredFile, Fault, StoreFileFails
<1>6. CASE UNCHANGED vars
  BY <1>1, <1>6 DEF vars
<1> QED
  BY <1>1, <1>2, <1>3, <1>4, <1>5, <1>6 DEF Next, Continue

\* The two-phase store of files and rows, with its lock and its faults, is to
\* its users the shelf: every commit adds one document below the limit, every
\* deleted row removes one, nothing else changes the counts.
THEOREM StoreRefinement == Spec => ImplementsShelf
<1>1. [Shelf!Next]_ShelfOf = [Shelf!Next]_([t \in DocType |-> Count(t)])
  BY DEF ShelfOf
<1> QED
  BY ShelfInit, ShelfStep, Inductive, Reserved, PTL DEF Spec, ImplementsShelf, Shelf!Spec, ShelfOf

-----------------------------------------------------------------------------
\* The file an upload wrote is there until its row is: the deletions that could
\* remove it are of documents that have a row, hence of other keys.
OnDisk == \A w \in Worker : Writing(w) => req[w].key \in files

LEMMA StepOnDisk == IInv /\ KeyReserved /\ OnDisk /\ [Next]_vars => OnDisk'
<1> SUFFICES ASSUME IInv, KeyReserved, OnDisk, [Next]_vars PROVE OnDisk'
  OBVIOUS
<1>0. Typed /\ TypeOK /\ ReqOK
  BY DEF IInv, Typed
\* It is enough that w's own file is there, if w is writing, and nobody else's goes.
<1>1. ASSUME NEW w \in Worker, OnlyRequestOf(w),
             Writing(w)' => req'[w].key \in files',
             \A v \in Worker \ {w} : Writing(v) => req[v].key \in files'
      PROVE  OnDisk'
  BY <1>1 DEF OnDisk, Writing, OnlyRequestOf
<1>2. CASE DeleteAdminCompany
  BY <1>2 DEF DeleteAdminCompany, OnDisk, Writing
<1>3. ASSUME NEW w \in Worker, PreCheck(w) PROVE OnDisk'
  <2>1. OnlyRequestOf(w) /\ req'[w].step = "upload" /\ files' = files
    BY <1>0, <1>3, PreCheckStep DEF PreCheck
  <2> QED
    BY <1>1, <2>1 DEF OnDisk, Writing
<1>4. ASSUME NEW w \in Worker, FindDocument(w) PROVE OnDisk'
  <2>1. PICK k \in Key :
           /\ OnlyRequestOf(w)
           /\ req'[w] = [req[w] EXCEPT !.step = "unlink", !.key = k]
    BY <1>0, <1>4, FindDocumentStep
  <2>2. req'[w].step = "unlink" /\ files' = files
    BY <1>0, <1>4, <2>1 DEF TypeOK, Request, FindDocument
  <2> QED
    BY <1>1, <2>1, <2>2 DEF OnDisk, Writing
<1>5. ASSUME NEW w \in Worker, StoreFile(w) PROVE OnDisk'
  <2>1. PICK k \in Key :
           /\ files' = files \cup {k}
           /\ req' = [req EXCEPT ![w] = [@ EXCEPT !.step = "lock", !.key = k]]
    BY <1>5 DEF StoreFile
  <2>2. OnlyRequestOf(w)
    BY <1>0, <1>5, StoreFileStep
  <2>3. req[w] \in Request /\ w \in DOMAIN req
    BY <1>0 DEF TypeOK
  <2>4. req'[w].key = k
    BY <2>1, <2>3 DEF Request
  <2> QED
    BY <1>1, <2>1, <2>2, <2>4 DEF OnDisk
<1>6. ASSUME NEW w \in Worker, LockProject(w) \/ InsertDocument(w) PROVE OnDisk'
  <2>1. OnlyRequestOf(w) /\ req'[w].key = req[w].key /\ files' = files /\ Writing(w)
    BY <1>0, <1>6, BecomeStep DEF LockProject, InsertDocument, Writing, At
  <2> QED
    BY <1>1, <2>1 DEF OnDisk
<1>7. ASSUME NEW w \in Worker, DeleteStoredFile(w) PROVE OnDisk'
  <2>1. OnlyRequestOf(w) /\ req'[w].step = "deleteRow" /\ files' = files \ {req[w].key}
    BY <1>0, <1>7, BecomeStep DEF DeleteStoredFile
  <2>2. \A v \in Worker \ {w} : Writing(v) => req[v].key # req[w].key
    BY DEF KeyReserved
  <2> QED
    BY <1>1, <2>1, <2>2 DEF OnDisk, Writing
<1>8. ASSUME NEW w \in Worker, Finish(w), files \subseteq files' PROVE OnDisk'
  BY <1>0, <1>1, <1>8, FinishStep DEF Writing, OnDisk
<1>9. ASSUME NEW w \in Worker,
             RefuseDocument(w) \/ Fault(w) \/ StoreFileFails(w) \/ CommitDocument(w)
               \/ DeleteRow(w)
      PROVE  OnDisk'
  BY <1>8, <1>9 DEF RefuseDocument, Fault, StoreFileFails, CommitDocument, DeleteRow
<1>10. CASE UNCHANGED vars
  BY <1>10 DEF vars, OnDisk, Writing
<1> QED
  BY <1>2, <1>3, <1>4, <1>5, <1>6, <1>7, <1>9, <1>10 DEF Next, Continue

\* A row enters the table only at a commit, whose key is on disk.
LEMMA OnlyCommitsAdd ==
  ASSUME IInv, OnDisk, Next, NEW k \in Key, row[k] = None, row'[k] # None
  PROVE  k \in files'
<1>0. TypeOK /\ ReqOK
  BY DEF IInv, Typed
<1>1. CASE DeleteAdminCompany
  BY <1>1 DEF DeleteAdminCompany
<1>2. ASSUME NEW w \in Worker,
             PreCheck(w) \/ FindDocument(w) \/ StoreFile(w) \/ LockProject(w) \/ InsertDocument(w)
               \/ RefuseDocument(w) \/ DeleteStoredFile(w) \/ Fault(w) \/ StoreFileFails(w)
      PROVE  FALSE
  <2>1. row' = row
    BY <1>2 DEF PreCheck, FindDocument, StoreFile, LockProject, InsertDocument, RefuseDocument,
                DeleteStoredFile, Fault, StoreFileFails
  <2> QED
    BY <2>1
<1>3. ASSUME NEW w \in Worker, CommitDocument(w) PROVE k \in files'
  <2>1. Writing(w) /\ req[w].key \in Key /\ files' = files
    BY <1>0, <1>3 DEF CommitDocument, At, Writing, ReqOK, Sound
  <2>2. k = req[w].key
    BY <1>0, <1>3, <2>1 DEF CommitDocument, TypeOK
  <2> QED
    BY <2>1, <2>2 DEF OnDisk
<1>4. ASSUME NEW w \in Worker, DeleteRow(w) PROVE k \in files'
  BY <1>0, <1>4 DEF DeleteRow, TypeOK
<1> QED
  BY <1>1, <1>2, <1>3, <1>4 DEF Next, Continue

\* Every document enters the table with its file on disk, however many uploads
\* and deletions overlap and whichever of them fail (documents.go:149, 170).
THEOREM RowsBringFiles == Spec => RowBringsFile
<1>1. Init => OnDisk
  BY DEF Init, OnDisk, Writing, Idle
<1>2. Spec => []OnDisk
  BY <1>1, StepOnDisk, Inductive, Reserved, PTL DEF Spec
<1>3. IInv /\ OnDisk /\ [Next]_vars
        => [\A k \in Key : row[k] = None /\ row'[k] # None => k \in files']_vars
  BY OnlyCommitsAdd
<1> QED
  BY <1>2, <1>3, Inductive, PTL DEF Spec, RowBringsFile
=============================================================================
