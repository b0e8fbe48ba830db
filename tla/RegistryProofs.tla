---------------------------- MODULE RegistryProofs ----------------------------
(***************************************************************************)
(* Proofs about Registry, for any sets of users, companies, projects,      *)
(* names and goroutines.                                                   *)
(***************************************************************************)
EXTENDS Registry, TLAPS

LEMMA IdleIsRequest == Idle \in Request /\ ArgsOK(Idle)
  BY DEF Idle, Request, ArgsOK, Step

\* Ending a request keeps the requests well formed.
LEMMA FinishKeepsRequests ==
  ASSUME TypeOK, NEW w \in Worker, Finish(w)
  PROVE  req' \in [Worker -> Request] /\ \A v \in Worker : ArgsOK(req'[v])
  BY IdleIsRequest DEF TypeOK, Finish

\* So does replacing one request by another well-formed one.
LEMMA StepKeepsRequests ==
  ASSUME TypeOK, NEW w \in Worker, NEW r \in Request, ArgsOK(r), req' = [req EXCEPT ![w] = r]
  PROVE  req' \in [Worker -> Request] /\ \A v \in Worker : ArgsOK(req'[v])
  BY DEF TypeOK

LEMMA RowsOK ==
  /\ NoUser \in UserRow /\ Gone(NoUser) \in UserRow
  /\ NoProject \in ProjectRow /\ Gone(NoProject) \in ProjectRow
  /\ \A row \in UserRow : [row EXCEPT !.company = None] \in UserRow
  /\ \A row \in ProjectRow : \A s \in {"active", "reject"}, n \in Name :
       [row EXCEPT !.state = s, !.name = n] \in ProjectRow
  /\ \A row \in ProjectRow, n \in Name : [row EXCEPT !.name = n] \in ProjectRow
  /\ \A row \in ProjectRow : [row EXCEPT !.owner = None] \in ProjectRow
  BY DEF NoUser, NoProject, Gone, UserRow, ProjectRow

\* The foreign keys clear what refers to company c and to users gone with it.
Cleared(row, c, us) ==
  [row EXCEPT !.company = IF @ = c THEN None ELSE @, !.owner = IF @ \in us THEN None ELSE @]

LEMMA ClearedOK ==
  ASSUME NEW row \in ProjectRow, NEW c, NEW us
  PROVE  /\ Cleared(row, c, us) \in ProjectRow
         /\ Cleared(row, c, us).state = row.state
         /\ Cleared(row, c, us).name = row.name
         /\ Cleared(row, c, us).maker = row.maker
         /\ Cleared(row, c, us).company = IF row.company = c THEN None ELSE row.company
         /\ Cleared(row, c, us).owner = IF row.owner \in us THEN None ELSE row.owner
  BY DEF Cleared, ProjectRow

LEMMA DisownOK ==
  ASSUME TypeOK, NEW us
  PROVE  /\ Disown(us) \in [Project -> ProjectRow]
         /\ \A p \in Project :
              /\ Disown(us)[p].state = project[p].state
              /\ Disown(us)[p].name = project[p].name
              /\ Disown(us)[p].maker = project[p].maker
              /\ Disown(us)[p].company = project[p].company
              /\ Disown(us)[p].owner = IF project[p].owner \in us THEN None ELSE project[p].owner
  <1>1. SUFFICES ASSUME NEW p \in Project
                 PROVE  /\ Disown(us)[p] \in ProjectRow
                        /\ Disown(us)[p].state = project[p].state
                        /\ Disown(us)[p].name = project[p].name
                        /\ Disown(us)[p].maker = project[p].maker
                        /\ Disown(us)[p].company = project[p].company
                        /\ Disown(us)[p].owner = IF project[p].owner \in us THEN None
                                                 ELSE project[p].owner
    BY DEF Disown
  <1>2. project[p] \in ProjectRow
    BY DEF TypeOK
  <1>3. CASE project[p].owner \in us
    <2>1. Disown(us)[p] = [project[p] EXCEPT !.owner = None]
      BY <1>3 DEF Disown
    <2>2. QED
      BY <1>2, <1>3, <2>1 DEF ProjectRow
  <1>4. CASE project[p].owner \notin us
    BY <1>2, <1>4 DEF Disown
  <1>5. QED
    BY <1>3, <1>4

-----------------------------------------------------------------------------
\* Every step keeps TypeOK, one lemma for the members, one for the administrators.
LEMMA MemberStepsTyped ==
  ASSUME TypeOK, NEW w \in Worker,
         \/ Register(w) \/ CreateProject(w) \/ UpdateProject(w)
         \/ InsertUser(w) \/ InsertProject(w) \/ RenameProject(w)
  PROVE  TypeOK'
  <1> USE DEF TypeOK
  <1>0. req[w] \in Request /\ ArgsOK(req[w])
    OBVIOUS
  <1>1. CASE Register(w)
    <2>1. PICK u \in User, c \in Companies :
            req' = [req EXCEPT ![w] = [@ EXCEPT !.step = "insertUser", !.user = u, !.company = c]]
      BY <1>1 DEF Register
    <2> DEFINE r == [req[w] EXCEPT !.step = "insertUser", !.user = u, !.company = c]
    <2>2. r \in Request /\ ArgsOK(r)
      BY <1>0, <2>1 DEF Request, Step, ArgsOK, Companies
    <2>3. req' = [req EXCEPT ![w] = r]
      BY <2>1
    <2> HIDE DEF r
    <2>4. QED
      BY <1>1, <2>2, <2>3, StepKeepsRequests DEF Register
  <1>2. CASE CreateProject(w)
    <2>1. PICK u \in Users, n \in Name : \E c \in Companies \cup {user[u].company} :
            req' = [req EXCEPT ![w] = [@ EXCEPT !.step = "insertProject", !.user = u,
                                                !.company = c, !.name = n]]
      BY <1>2 DEF CreateProject
    <2>2. PICK c \in Companies \cup {user[u].company} :
            req' = [req EXCEPT ![w] = [@ EXCEPT !.step = "insertProject", !.user = u,
                                                !.company = c, !.name = n]]
      BY <2>1
    <2> DEFINE r == [req[w] EXCEPT !.step = "insertProject", !.user = u, !.company = c, !.name = n]
    <2>3. u \in User /\ user[u] \in UserRow
      BY <2>1 DEF Users
    <2>4. c \in Company \cup {None}
      BY <2>2, <2>3 DEF Companies, UserRow
    <2>5. r \in Request /\ ArgsOK(r)
      BY <1>0, <2>1, <2>3, <2>4 DEF Request, Step, ArgsOK
    <2>6. req' = [req EXCEPT ![w] = r]
      BY <2>2
    <2> HIDE DEF r
    <2>7. QED
      BY <1>2, <2>5, <2>6, StepKeepsRequests DEF CreateProject
  <1>3. CASE UpdateProject(w)
    <2>1. PICK p \in Projects, n \in Name :
            req' = [req EXCEPT ![w] = [@ EXCEPT !.step = "rename", !.project = p, !.name = n]]
      BY <1>3 DEF UpdateProject
    <2> DEFINE r == [req[w] EXCEPT !.step = "rename", !.project = p, !.name = n]
    <2>2. r \in Request /\ ArgsOK(r)
      BY <1>0, <2>1 DEF Request, Step, ArgsOK, Projects
    <2>3. req' = [req EXCEPT ![w] = r]
      BY <2>1
    <2> HIDE DEF r
    <2>4. QED
      BY <1>3, <2>2, <2>3, StepKeepsRequests DEF UpdateProject
  <1>4. CASE InsertUser(w)
    <2>1. req[w].user \in User /\ req[w].company \in Company
      BY <1>0, <1>4 DEF InsertUser, At, ArgsOK
    <2>2. [state |-> "exists", role |-> "dealer", company |-> req[w].company] \in UserRow
      BY <2>1 DEF UserRow
    <2>3. user' \in [User -> UserRow]
      BY <1>4, <2>1, <2>2 DEF InsertUser
    <2>4. QED
      BY <1>4, <2>3, FinishKeepsRequests DEF InsertUser
  <1>5. CASE InsertProject(w)
    <2>1. req[w].user \in User /\ req[w].name \in Name /\ req[w].company \in Company \cup {None}
      BY <1>0, <1>5 DEF InsertProject, At, ArgsOK, Request
    <2>2. NewProject(req[w]) \in ProjectRow
      BY <2>1 DEF NewProject, ProjectRow
    <2>3. project' \in [Project -> ProjectRow]
      BY <1>5, <2>2 DEF InsertProject
    <2>4. QED
      BY <1>5, <2>3, FinishKeepsRequests DEF InsertProject
  <1>6. CASE RenameProject(w)
    <2>1. req[w].project \in Project /\ req[w].name \in Name
      BY <1>0, <1>6 DEF RenameProject, At, ArgsOK
    <2>2. project[req[w].project] \in ProjectRow
      BY <2>1
    <2>3. [project[req[w].project] EXCEPT !.name = req[w].name] \in ProjectRow
      BY <2>1, <2>2, RowsOK
    <2>4. project' = project
            \/ project' = [project EXCEPT ![req[w].project] =
                            [project[req[w].project] EXCEPT !.name = req[w].name]]
      BY <1>6 DEF RenameProject
    <2>5. project' \in [Project -> ProjectRow]
      BY <2>3, <2>4
    <2>6. QED
      BY <1>6, <2>5, FinishKeepsRequests DEF RenameProject
  <1>7. QED
    BY <1>1, <1>2, <1>3, <1>4, <1>5, <1>6

LEMMA SetStatusTyped ==
  ASSUME TypeOK, NEW p \in Project, NEW s \in {"active", "reject"}, NEW n \in Name \cup {None},
         SetStatus(p, s, n)
  PROVE  TypeOK'
  <1>1. [project[p] EXCEPT !.state = s, !.name = n] \in ProjectRow
    BY DEF TypeOK, ProjectRow
  <1>2. project' = [project EXCEPT ![p] = [project[p] EXCEPT !.state = s, !.name = n]]
    BY DEF SetStatus
  <1>3. project' \in [Project -> ProjectRow]
    BY <1>1, <1>2 DEF TypeOK
  <1>4. QED
    BY <1>3 DEF SetStatus, TypeOK

LEMMA AdminStartsTyped ==
  ASSUME TypeOK, NEW w \in Worker,
         \/ UpdateMemberRole(w) \/ DeleteCompanyMember(w) \/ DeleteAdminCompanyMember(w)
         \/ CreateAdminCompany(w) \/ DeleteAdminCompany(w)
  PROVE  TypeOK'
  <1> USE DEF TypeOK
  <1>0. req[w] \in Request /\ ArgsOK(req[w])
    OBVIOUS
  <1>1. CASE UpdateMemberRole(w)
    <2>0. PICK u \in Admins, r0 \in Role : \E t \in User \ {u} :
            req' = [req EXCEPT ![w] = [@ EXCEPT !.step = "setRole", !.user = u, !.target = t,
                   !.company = user[u].company, !.role = r0]]
      BY <1>1 DEF UpdateMemberRole
    <2>1. PICK t \in User \ {u} :
            req' = [req EXCEPT ![w] = [@ EXCEPT !.step = "setRole", !.user = u, !.target = t,
                   !.company = user[u].company, !.role = r0]]
      BY <2>0
    <2> DEFINE r == [req[w] EXCEPT !.step = "setRole", !.user = u, !.target = t,
                   !.company = user[u].company, !.role = r0]
    <2>2. u \in User /\ user[u].company \in Company \cup {None}
      BY <2>0 DEF Admins, Users, UserRow
    <2>3. r \in Request
      BY <1>0, <2>1, <2>2, <2>0 DEF Request, Step, Companies, UsersOf, ProjectsOf, Users, Projects
    <2>4. ArgsOK(r)
      BY <1>0, <2>1, <2>2, <2>0 DEF Request, ArgsOK, Companies
    <2>5. req' = [req EXCEPT ![w] = r]
      BY <2>1
    <2> HIDE DEF r
    <2>6. QED
      BY <1>1, <2>3, <2>4, <2>5, StepKeepsRequests DEF UpdateMemberRole
  <1>2. CASE DeleteCompanyMember(w)
    <2>0. PICK u \in Admins : \E t \in User \ {u} :
            req' = [req EXCEPT ![w] = [@ EXCEPT !.step = "findMember", !.user = u, !.target = t,
                   !.company = user[u].company]]
      BY <1>2 DEF DeleteCompanyMember
    <2>1. PICK t \in User \ {u} :
            req' = [req EXCEPT ![w] = [@ EXCEPT !.step = "findMember", !.user = u, !.target = t,
                   !.company = user[u].company]]
      BY <2>0
    <2> DEFINE r == [req[w] EXCEPT !.step = "findMember", !.user = u, !.target = t,
                   !.company = user[u].company]
    <2>2. u \in User /\ user[u].company \in Company \cup {None}
      BY <2>0 DEF Admins, Users, UserRow
    <2>3. r \in Request
      BY <1>0, <2>1, <2>2, <2>0 DEF Request, Step, Companies, UsersOf, ProjectsOf, Users, Projects
    <2>4. ArgsOK(r)
      BY <1>0, <2>1, <2>2, <2>0 DEF Request, ArgsOK, Companies
    <2>5. req' = [req EXCEPT ![w] = r]
      BY <2>1
    <2> HIDE DEF r
    <2>6. QED
      BY <1>2, <2>3, <2>4, <2>5, StepKeepsRequests DEF DeleteCompanyMember
  <1>3. CASE DeleteAdminCompanyMember(w)
    <2>0. PICK u \in Admins, c \in Company : \E t \in User \ {u} :
            req' = [req EXCEPT ![w] = [@ EXCEPT !.step = "findMember", !.user = u, !.target = t,
                   !.company = c]]
      BY <1>3 DEF DeleteAdminCompanyMember
    <2>1. PICK t \in User \ {u} :
            req' = [req EXCEPT ![w] = [@ EXCEPT !.step = "findMember", !.user = u, !.target = t,
                   !.company = c]]
      BY <2>0
    <2> DEFINE r == [req[w] EXCEPT !.step = "findMember", !.user = u, !.target = t,
                   !.company = c]
    <2>2. u \in User /\ user[u].company \in Company \cup {None}
      BY <2>0 DEF Admins, Users, UserRow
    <2>3. r \in Request
      BY <1>0, <2>1, <2>2, <2>0 DEF Request, Step, Companies, UsersOf, ProjectsOf, Users, Projects
    <2>4. ArgsOK(r)
      BY <1>0, <2>1, <2>2, <2>0 DEF Request, ArgsOK, Companies
    <2>5. req' = [req EXCEPT ![w] = r]
      BY <2>1
    <2> HIDE DEF r
    <2>6. QED
      BY <1>3, <2>3, <2>4, <2>5, StepKeepsRequests DEF DeleteAdminCompanyMember
  <1>4. CASE DeleteAdminCompany(w)
    <2>0. PICK u \in Admins : \E c \in Companies \ {user[u].company} :
            req' = [req EXCEPT ![w] = [@ EXCEPT !.step = "deleteProjects", !.user = u, !.company = c,
                   !.present = UsersOf(c) \cup ProjectsOf(c)]]
      BY <1>4 DEF DeleteAdminCompany
    <2>1. PICK c \in Companies \ {user[u].company} :
            req' = [req EXCEPT ![w] = [@ EXCEPT !.step = "deleteProjects", !.user = u, !.company = c,
                   !.present = UsersOf(c) \cup ProjectsOf(c)]]
      BY <2>0
    <2> DEFINE r == [req[w] EXCEPT !.step = "deleteProjects", !.user = u, !.company = c,
                   !.present = UsersOf(c) \cup ProjectsOf(c)]
    <2>2. u \in User /\ user[u].company \in Company \cup {None}
      BY <2>0 DEF Admins, Users, UserRow
    <2>3. r \in Request
      BY <1>0, <2>1, <2>2, <2>0 DEF Request, Step, Companies, UsersOf, ProjectsOf, Users, Projects
    <2>4. ArgsOK(r)
      BY <1>0, <2>1, <2>2, <2>0 DEF Request, ArgsOK, Companies
    <2>5. req' = [req EXCEPT ![w] = r]
      BY <2>1
    <2> HIDE DEF r
    <2>6. QED
      BY <1>4, <2>3, <2>4, <2>5, StepKeepsRequests DEF DeleteAdminCompany
  <1>5. CASE CreateAdminCompany(w)
    BY <1>5 DEF CreateAdminCompany
  <1>6. QED
    BY <1>1, <1>2, <1>3, <1>4, <1>5

LEMMA RemovalStepsTyped ==
  ASSUME TypeOK, NEW w \in Worker,
         SetRole(w) \/ FindMember(w) \/ DisownProjects(w) \/ DeleteUser(w)
  PROVE  TypeOK'
  <1> USE DEF TypeOK
  <1>0. req[w] \in Request /\ ArgsOK(req[w])
    OBVIOUS
  <1>1. CASE SetRole(w)
    <2>1. req[w].target \in User /\ req[w].role \in Role
      BY <1>0, <1>1 DEF SetRole, At, ArgsOK
    <2>2. [user[req[w].target] EXCEPT !.role = req[w].role] \in UserRow
      BY <2>1, RoleAssumption DEF UserRow
    <2>3. user' = user \/ user' = [user EXCEPT ![req[w].target] =
                                    [user[req[w].target] EXCEPT !.role = req[w].role]]
      BY <1>1 DEF SetRole
    <2>4. user' \in [User -> UserRow]
      BY <2>2, <2>3
    <2>5. QED
      BY <1>1, <2>4, FinishKeepsRequests DEF SetRole
  <1>2. CASE FindMember(w)
    <2> DEFINE r == [req[w] EXCEPT !.step = "disown"]
    <2>1. r \in Request /\ ArgsOK(r)
      BY <1>0, <1>2 DEF FindMember, At, Request, Step, ArgsOK
    <2>2. req' = [req EXCEPT ![w] = r] \/ Finish(w)
      BY <1>2 DEF FindMember
    <2> HIDE DEF r
    <2>3. QED
      BY <1>2, <2>1, <2>2, StepKeepsRequests, FinishKeepsRequests DEF FindMember
  <1>3. CASE DisownProjects(w)
    <2> DEFINE r == [req[w] EXCEPT !.step = "deleteUser"]
    <2>1. r \in Request /\ ArgsOK(r)
      BY <1>0, <1>3 DEF DisownProjects, At, Request, Step, ArgsOK
    <2>2. req' = [req EXCEPT ![w] = r]
      BY <1>3 DEF DisownProjects
    <2> HIDE DEF r
    <2>3. project' \in [Project -> ProjectRow]
      BY <1>3, DisownOK DEF DisownProjects
    <2>4. QED
      BY <1>3, <2>1, <2>2, <2>3, StepKeepsRequests DEF DisownProjects
  <1>4. CASE DeleteUser(w)
    <2>1. project' \in [Project -> ProjectRow]
      BY <1>4, DisownOK DEF DeleteUser
    <2>2. user' \in [User -> UserRow]
      BY <1>4, RowsOK DEF DeleteUser
    <2>3. QED
      BY <1>4, <2>1, <2>2, FinishKeepsRequests DEF DeleteUser
  <1>5. QED
    BY <1>1, <1>2, <1>3, <1>4

\* What the last statement and the commit leave of the rows.
LEMMA DeleteCompanyRows ==
  ASSUME TypeOK, NEW w \in Worker, DeleteCompany(w), req[w].company \in Companies
  PROVE  /\ user' \in [User -> UserRow]
         /\ \A u \in User :
              user'[u] = IF u \in req[w].users THEN Gone(NoUser)
                         ELSE IF user[u].company = req[w].company
                                THEN [user[u] EXCEPT !.company = None] ELSE user[u]
         /\ project' \in [Project -> ProjectRow]
         /\ \A p \in Project :
              project'[p] = IF p \in req[w].projects THEN Gone(NoProject)
                            ELSE Cleared(project[p], req[w].company, req[w].users)
  <1>1. \A u \in User :
           /\ user'[u] = IF u \in req[w].users THEN Gone(NoUser)
                         ELSE IF user[u].company = req[w].company
                                THEN [user[u] EXCEPT !.company = None] ELSE user[u]
           /\ user[u] \in UserRow
    BY DEF DeleteCompany, TypeOK
  <1>2. \A u \in User : user'[u] \in UserRow
    BY <1>1, RowsOK
  <1>3. user' \in [User -> UserRow]
    BY <1>2 DEF DeleteCompany
  <1>4. \A p \in Project :
           /\ project'[p] = IF p \in req[w].projects THEN Gone(NoProject)
                            ELSE Cleared(project[p], req[w].company, req[w].users)
           /\ project[p] \in ProjectRow
    BY DEF DeleteCompany, Cleared, TypeOK
  <1>5. ASSUME NEW p \in Project PROVE project'[p] \in ProjectRow
    <2>1. Cleared(project[p], req[w].company, req[w].users) \in ProjectRow
      BY <1>4, ClearedOK
    <2>2. QED
      BY <1>4, <2>1, RowsOK
  <1>6. project' \in [Project -> ProjectRow]
    BY <1>5 DEF DeleteCompany
  <1>7. QED
    BY <1>1, <1>3, <1>4, <1>6

LEMMA DeletionStepsTyped ==
  ASSUME TypeOK, NEW w \in Worker,
         DeleteProjects(w) \/ DeleteUsers(w) \/ DeleteCompany(w) \/ Fault(w)
  PROVE  TypeOK'
  <1> USE DEF TypeOK
  <1>0. req[w] \in Request /\ ArgsOK(req[w])
    OBVIOUS
  <1>1. CASE DeleteProjects(w)
    <2> DEFINE r == [req[w] EXCEPT !.step = "deleteUsers", !.projects = ProjectsOf(req[w].company)]
    <2>1. r \in Request /\ ArgsOK(r)
      BY <1>0, <1>1 DEF DeleteProjects, At, Request, Step, ArgsOK, ProjectsOf, Projects
    <2>2. req' = [req EXCEPT ![w] = r]
      BY <1>1 DEF DeleteProjects
    <2> HIDE DEF r
    <2>3. QED
      BY <1>1, <2>1, <2>2, StepKeepsRequests DEF DeleteProjects
  <1>2. CASE DeleteUsers(w)
    <2> DEFINE r == [req[w] EXCEPT !.step = "deleteCompany", !.users = UsersOf(req[w].company)]
    <2>1. r \in Request /\ ArgsOK(r)
      BY <1>0, <1>2 DEF DeleteUsers, At, Request, Step, ArgsOK, UsersOf, Users
    <2>2. req' = [req EXCEPT ![w] = r]
      BY <1>2 DEF DeleteUsers
    <2> HIDE DEF r
    <2>3. QED
      BY <1>2, <2>1, <2>2, StepKeepsRequests DEF DeleteUsers
  <1>3. CASE DeleteCompany(w)
    <2>1. Finish(w)
      BY <1>3 DEF DeleteCompany
    <2>2. CASE req[w].company \in Companies
      <3>1. company' \in [Company -> {"none", "exists", "gone"}]
        BY <1>3, <2>2 DEF DeleteCompany
      <3>2. QED
        BY <1>3, <2>1, <2>2, <3>1, DeleteCompanyRows, FinishKeepsRequests
    <2>3. CASE req[w].company \notin Companies
      BY <1>3, <2>1, <2>3, FinishKeepsRequests DEF DeleteCompany
    <2>4. QED
      BY <2>2, <2>3
  <1>4. CASE Fault(w)
    BY <1>4, FinishKeepsRequests DEF Fault
  <1>5. QED
    BY <1>1, <1>2, <1>3, <1>4

\* The one-statement writers of a project's status.
StatusWriters == RejectProject \/ ReviveProject \/ ApplyLarkInboundPatch

LEMMA StatusWritersSet ==
  ASSUME TypeOK, StatusWriters
  PROVE  \E p \in Project, s \in {"active", "reject"}, n \in Name \cup {None} : SetStatus(p, s, n)
  <1>1. \A p \in Project : project[p].name \in Name \cup {None}
    BY DEF TypeOK, ProjectRow
  <1>2. CASE RejectProject
    BY <1>1, <1>2 DEF RejectProject, Active
  <1>3. CASE ReviveProject
    BY <1>1, <1>3 DEF ReviveProject, Projects
  <1>4. CASE ApplyLarkInboundPatch
    BY <1>4 DEF ApplyLarkInboundPatch
  <1>5. QED
    BY <1>2, <1>3, <1>4 DEF StatusWriters

\* A step of Next, by who takes it.
MemberStep(w) == Register(w) \/ CreateProject(w) \/ UpdateProject(w)
                   \/ InsertUser(w) \/ InsertProject(w) \/ RenameProject(w)
AdminStart(w) == UpdateMemberRole(w) \/ DeleteCompanyMember(w) \/ DeleteAdminCompanyMember(w)
                   \/ CreateAdminCompany(w) \/ DeleteAdminCompany(w)
RemovalStep(w) == SetRole(w) \/ FindMember(w) \/ DisownProjects(w) \/ DeleteUser(w)
DeletionStep(w) == DeleteProjects(w) \/ DeleteUsers(w) \/ DeleteCompany(w) \/ Fault(w)

LEMMA NextCases ==
  ASSUME Next
  PROVE  \/ StatusWriters
         \/ \E w \in Worker : MemberStep(w) \/ RemovalStep(w) \/ DeletionStep(w)
         \/ \E w \in AdminWorker : AdminStart(w)
  BY DEF Next, StatusWriters, MemberStep, RemovalStep, DeletionStep, AdminStart, Worker

LEMMA InitTyped == Init => TypeOK
  <1>1. SUFFICES ASSUME Init PROVE TypeOK
    OBVIOUS
  <1>2. [state |-> "exists", role |-> "admin", company |-> Home] \in UserRow
    BY SeedAssumption DEF UserRow
  <1>3. user \in [User -> UserRow]
    BY <1>1, <1>2, RowsOK DEF Init
  <1>4. project \in [Project -> ProjectRow]
    BY <1>1, RowsOK DEF Init
  <1>5. req \in [Worker -> Request] /\ \A w \in Worker : ArgsOK(req[w])
    BY <1>1, IdleIsRequest DEF Init
  <1>6. company \in [Company -> {"none", "exists", "gone"}]
    BY <1>1 DEF Init
  <1>7. QED
    BY <1>3, <1>4, <1>5, <1>6 DEF TypeOK

LEMMA StepTyped == TypeOK /\ [Next]_vars => TypeOK'
  <1>1. SUFFICES ASSUME TypeOK, [Next]_vars PROVE TypeOK'
    OBVIOUS
  <1>2. CASE StatusWriters
    BY <1>1, <1>2, StatusWritersSet, SetStatusTyped
  <1>3. ASSUME NEW w \in Worker, MemberStep(w) \/ RemovalStep(w) \/ DeletionStep(w) PROVE TypeOK'
    BY <1>1, <1>3, MemberStepsTyped, RemovalStepsTyped, DeletionStepsTyped
       DEF MemberStep, RemovalStep, DeletionStep
  <1>4. ASSUME NEW w \in AdminWorker, AdminStart(w) PROVE TypeOK'
    BY <1>1, <1>4, AdminStartsTyped DEF AdminStart, Worker
  <1>5. CASE UNCHANGED vars
    <2>1. UNCHANGED <<company, user, project, req>>
      BY <1>5 DEF vars
    <2>2. QED
      BY <1>1, <2>1 DEF TypeOK
  <1>6. QED
    BY <1>1, <1>2, <1>3, <1>4, <1>5, NextCases

\* Every variable keeps its type, and each statement has the arguments it writes.
THEOREM TypeCorrect == Spec => []TypeOK
  BY InitTyped, StepTyped, PTL DEF Spec

-----------------------------------------------------------------------------
\* The names of the active projects.
LEMMA NoNewActive ==
  ASSUME OneActivePerName,
         \A p \in Project : project'[p].state = "active" =>
           project[p].state = "active" /\ project'[p].name = project[p].name
  PROVE  OneActivePerName'
  BY DEF OneActivePerName, Active

LEMMA OneActiveWith ==
  ASSUME TypeOK, OneActivePerName, NEW p \in Project, NEW row,
         project' = [project EXCEPT ![p] = row],
         row.state = "active" => NameFree(row.name, p)
  PROVE  OneActivePerName'
  BY DEF OneActivePerName, Active, NameFree, TypeOK

LEMMA NamesStep == TypeOK /\ OneActivePerName /\ [Next]_vars => OneActivePerName'
  <1>1. SUFFICES ASSUME TypeOK, OneActivePerName, [Next]_vars PROVE OneActivePerName'
    OBVIOUS
  <1>2. \A p \in Project : project[p] \in ProjectRow
    BY <1>1 DEF TypeOK
  <1>3. CASE UNCHANGED project
    BY <1>1, <1>3 DEF OneActivePerName, Active
  <1>4. ASSUME NEW p \in Project, NEW s \in {"active", "reject"}, NEW n \in Name \cup {None},
               SetStatus(p, s, n)
        PROVE  OneActivePerName'
    <2> DEFINE row == [project[p] EXCEPT !.state = s, !.name = n]
    <2>1. project' = [project EXCEPT ![p] = row]
      BY <1>4 DEF SetStatus
    <2>2. row.state = s /\ row.name = n
      BY <1>2 DEF ProjectRow
    <2>3. row.state = "active" => NameFree(row.name, p)
      BY <1>4, <2>2 DEF SetStatus
    <2> HIDE DEF row
    <2>4. QED
      BY <1>1, <2>1, <2>3, OneActiveWith
  <1>5. ASSUME NEW w \in Worker, InsertProject(w) PROVE OneActivePerName'
    <2>1. CASE UNCHANGED project
      BY <1>3, <2>1
    <2>2. CASE ~UNCHANGED project
      <3>1. CanInsert(req[w])
        BY <1>5, <2>2 DEF InsertProject
      <3>2. PICK p \in Project : /\ project[p].state = "none"
                                 /\ project' = [project EXCEPT ![p] = NewProject(req[w])]
        BY <1>5, <2>2 DEF InsertProject
      <3>3. NameFree(NewProject(req[w]).name, p)
        BY <3>1, <3>2, NoneAssumption DEF CanInsert, NameFree, Active, NewProject
      <3>4. QED
        BY <1>1, <3>2, <3>3, OneActiveWith
    <2>3. QED
      BY <2>1, <2>2
  <1>6. ASSUME NEW w \in Worker, RenameProject(w) PROVE OneActivePerName'
    <2> DEFINE p == req[w].project
    <2> DEFINE row == [project[p] EXCEPT !.name = req[w].name]
    <2>1. CASE UNCHANGED project
      BY <1>3, <2>1
    <2>2. CASE ~UNCHANGED project
      <3>1. p \in Projects /\ (p \in Active => NameFree(req[w].name, p))
        BY <1>6, <2>2 DEF RenameProject
      <3>2. project' = [project EXCEPT ![p] = row]
        BY <1>6, <2>2 DEF RenameProject
      <3>3. p \in Project
        BY <3>1 DEF Projects
      <3>4. row.name = req[w].name /\ row.state = project[p].state
        BY <1>2, <3>3 DEF ProjectRow
      <3>5. row.state = "active" => NameFree(row.name, p)
        BY <3>1, <3>3, <3>4 DEF Active
      <3> HIDE DEF row, p
      <3>6. QED
        BY <1>1, <3>2, <3>3, <3>5, OneActiveWith
    <2>3. QED
      BY <2>1, <2>2
  <1>7. ASSUME NEW w \in Worker, DisownProjects(w) \/ DeleteUser(w) PROVE OneActivePerName'
    <2>1. project' = project \/ project' = Disown({req[w].target})
      BY <1>7 DEF DisownProjects, DeleteUser
    <2>2. QED
      BY <1>1, <1>3, <2>1, DisownOK, NoNewActive
  <1>8. ASSUME NEW w \in Worker, DeleteCompany(w) PROVE OneActivePerName'
    <2>1. CASE req[w].company \in Companies
      <3>1. ASSUME NEW p \in Project, project'[p].state = "active"
            PROVE  project[p].state = "active" /\ project'[p].name = project[p].name
        <4>1. p \notin req[w].projects
          BY <1>1, <1>8, <2>1, <3>1, DeleteCompanyRows DEF Gone, NoProject
        <4>2. project'[p] = Cleared(project[p], req[w].company, req[w].users)
          BY <1>1, <1>8, <2>1, <4>1, DeleteCompanyRows
        <4>3. QED
          BY <1>2, <3>1, <4>2, ClearedOK
      <3>2. QED
        BY <1>1, <3>1, NoNewActive
    <2>2. CASE req[w].company \notin Companies
      BY <1>3, <1>8, <2>2 DEF DeleteCompany
    <2>3. QED
      BY <2>1, <2>2
  <1>9. CASE StatusWriters
    BY <1>1, <1>4, <1>9, StatusWritersSet
  <1>10. ASSUME NEW w \in Worker, MemberStep(w) PROVE OneActivePerName'
    BY <1>3, <1>5, <1>6, <1>10 DEF MemberStep, Register, CreateProject, UpdateProject, InsertUser
  <1>11. ASSUME NEW w \in Worker, RemovalStep(w) \/ DeletionStep(w) PROVE OneActivePerName'
    BY <1>3, <1>7, <1>8, <1>11
       DEF RemovalStep, DeletionStep, SetRole, FindMember, DeleteProjects, DeleteUsers, Fault
  <1>12. ASSUME NEW w \in AdminWorker, AdminStart(w) PROVE OneActivePerName'
    BY <1>3, <1>12 DEF AdminStart, UpdateMemberRole, DeleteCompanyMember,
       DeleteAdminCompanyMember, CreateAdminCompany, DeleteAdminCompany
  <1>13. CASE UNCHANGED vars
    BY <1>3, <1>13 DEF vars
  <1>14. QED
    BY <1>1, <1>9, <1>10, <1>11, <1>12, <1>13, NextCases

\* Two active projects never share a name, however many requests overlap.
THEOREM NamesStayUnique == Spec => []OneActivePerName
  <1>1. Init => OneActivePerName
    BY DEF Init, OneActivePerName, Active, NoProject
  <1>2. QED
    BY <1>1, TypeCorrect, NamesStep, PTL DEF Spec

-----------------------------------------------------------------------------
\* References: what matters of a step is that users and companies that go are
\* cleared from every row.
LEMMA ReferencesKept ==
  ASSUME ReferencesExist,
         Users \subseteq Users', Companies \subseteq Companies',
         \A u \in Users' : \/ u \in Users /\ user'[u].company = user[u].company
                           \/ user'[u].company \in Companies \cup {None},
         \A p \in Projects' :
           \/ /\ p \in Projects
              /\ project'[p].company = project[p].company
              /\ project'[p].owner \in {project[p].owner, None}
           \/ /\ project'[p].company \in Companies \cup {None}
              /\ project'[p].owner \in Users \cup {None}
  PROVE  ReferencesExist'
  BY DEF ReferencesExist

LEMMA ReferencesStep == TypeOK /\ ReferencesExist /\ [Next]_vars => ReferencesExist'
  <1>1. SUFFICES ASSUME TypeOK, ReferencesExist, [Next]_vars PROVE ReferencesExist'
    OBVIOUS
  <1>2. /\ \A p \in Project : project[p] \in ProjectRow
        /\ \A u \in User : user[u] \in UserRow
        /\ \A w \in Worker : req[w] \in Request /\ ArgsOK(req[w])
    BY <1>1 DEF TypeOK
  <1>3. CASE UNCHANGED <<company, user, project>>
    BY <1>1, <1>3 DEF ReferencesExist, Users, Companies, Projects
  <1>4. ASSUME NEW p \in Project, NEW s \in {"active", "reject"}, NEW n \in Name \cup {None},
               SetStatus(p, s, n)
        PROVE  ReferencesExist'
    <2>1. /\ project' = [project EXCEPT ![p] = [project[p] EXCEPT !.state = s, !.name = n]]
          /\ p \in Projects /\ UNCHANGED <<company, user>>
      BY <1>4 DEF SetStatus
    <2>2. \A q \in Projects' : /\ q \in Projects
                               /\ project'[q].company = project[q].company
                               /\ project'[q].owner = project[q].owner
      BY <1>1, <1>2, <2>1 DEF Projects, ProjectRow, TypeOK
    <2>3. QED
      BY <1>1, <2>1, <2>2 DEF ReferencesExist, Users, Companies
  <1>5. ASSUME NEW w \in Worker, InsertUser(w) PROVE ReferencesExist'
    <2>1. CASE UNCHANGED user
      BY <1>3, <1>5, <2>1 DEF InsertUser
    <2>2. CASE ~UNCHANGED user
      <3>1. /\ user' = [user EXCEPT ![req[w].user] =
                 [state |-> "exists", role |-> "dealer", company |-> req[w].company]]
            /\ user[req[w].user].state = "none" /\ req[w].company \in Companies
            /\ UNCHANGED <<company, project>>
        BY <1>5, <2>2 DEF InsertUser
      <3>2. Users \subseteq Users'
        BY <1>1, <3>1 DEF Users, TypeOK
      <3>3. \A u \in Users' : \/ u \in Users /\ user'[u].company = user[u].company
                              \/ user'[u].company \in Companies
        BY <1>1, <3>1 DEF Users, TypeOK
      <3>4. QED
        BY <1>1, <3>1, <3>2, <3>3, ReferencesKept DEF Companies, Projects
    <2>3. QED
      BY <2>1, <2>2
  <1>6. ASSUME NEW w \in Worker, InsertProject(w) PROVE ReferencesExist'
    <2>1. CASE UNCHANGED project
      BY <1>3, <1>6, <2>1 DEF InsertProject
    <2>2. CASE ~UNCHANGED project
      <3>1. CanInsert(req[w]) /\ UNCHANGED <<company, user>>
        BY <1>6, <2>2 DEF InsertProject
      <3>2. PICK p \in Project : project' = [project EXCEPT ![p] = NewProject(req[w])]
        BY <1>6, <2>2 DEF InsertProject
      <3>3. /\ NewProject(req[w]).company \in Companies \cup {None}
            /\ NewProject(req[w]).owner \in Users
        BY <3>1 DEF CanInsert, NewProject
      <3>4. \A q \in Projects' :
              \/ q \in Projects /\ project'[q] = project[q]
              \/ project'[q] = NewProject(req[w])
        BY <1>1, <3>2 DEF Projects, TypeOK
      <3>5. QED
        BY <1>1, <3>1, <3>3, <3>4 DEF ReferencesExist, Users, Companies
    <2>3. QED
      BY <2>1, <2>2
  <1>7. ASSUME NEW w \in Worker, RenameProject(w) PROVE ReferencesExist'
    <2>1. CASE UNCHANGED project
      BY <1>3, <1>7, <2>1 DEF RenameProject
    <2>2. CASE ~UNCHANGED project
      <3>1. /\ project' = [project EXCEPT ![req[w].project] =
                 [project[req[w].project] EXCEPT !.name = req[w].name]]
            /\ UNCHANGED <<company, user>>
        BY <1>7, <2>2 DEF RenameProject
      <3>2. req[w].project \in Project
        BY <1>2, <1>7 DEF RenameProject, At, ArgsOK
      <3>3. \A q \in Projects' : /\ q \in Projects
                                 /\ project'[q].company = project[q].company
                                 /\ project'[q].owner = project[q].owner
        BY <1>1, <1>2, <3>1, <3>2 DEF Projects, ProjectRow, TypeOK
      <3>4. QED
        BY <1>1, <3>1, <3>3 DEF ReferencesExist, Users, Companies
    <2>3. QED
      BY <2>1, <2>2
  <1>8. ASSUME NEW w \in Worker, SetRole(w) PROVE ReferencesExist'
    <2>1. CASE UNCHANGED user
      BY <1>3, <1>8, <2>1 DEF SetRole
    <2>2. CASE ~UNCHANGED user
      <3>1. /\ user' = [user EXCEPT ![req[w].target] =
                          [user[req[w].target] EXCEPT !.role = req[w].role]]
            /\ UNCHANGED <<company, project>>
        BY <1>8, <2>2 DEF SetRole
      <3>2. /\ Users' = Users
            /\ \A u \in Users : user'[u].company = user[u].company
        BY <1>1, <1>2, <3>1 DEF Users, UserRow, TypeOK
      <3>3. QED
        BY <1>1, <3>1, <3>2 DEF ReferencesExist, Projects, Companies
    <2>3. QED
      BY <2>1, <2>2
  <1>9. ASSUME NEW w \in Worker, DisownProjects(w) PROVE ReferencesExist'
    <2>1. project' = project \/ project' = Disown({req[w].target})
      BY <1>9 DEF DisownProjects
    <2>2. UNCHANGED <<company, user>>
      BY <1>9 DEF DisownProjects
    <2>3. CASE project' = Disown({req[w].target})
      <3>1. \A p \in Projects' : /\ p \in Projects
                                 /\ project'[p].company = project[p].company
                                 /\ project'[p].owner \in {project[p].owner, None}
        BY <1>1, <2>3, DisownOK DEF Projects
      <3>2. QED
        BY <1>1, <2>2, <3>1 DEF ReferencesExist, Users, Companies
    <2>4. QED
      BY <1>3, <2>1, <2>2, <2>3
  <1>10. ASSUME NEW w \in Worker, DeleteUser(w) PROVE ReferencesExist'
    <2>1. /\ project' = Disown({req[w].target})
          /\ UNCHANGED company
      BY <1>10 DEF DeleteUser
    <2>2. /\ Users' \subseteq Users /\ Users \ {req[w].target} \subseteq Users'
          /\ \A u \in Users' : user'[u].company = user[u].company
      BY <1>1, <1>10 DEF DeleteUser, Users, TypeOK, Gone, NoUser
    <2>3. \A p \in Projects' :
            /\ p \in Projects
            /\ project'[p].company = project[p].company
            /\ project'[p].owner = IF project[p].owner = req[w].target THEN None
                                   ELSE project[p].owner
      BY <1>1, <2>1, DisownOK DEF Projects
    <2>4. QED
      BY <1>1, <2>1, <2>2, <2>3 DEF ReferencesExist, Companies
  <1>11. ASSUME NEW w \in Worker, DeleteCompany(w) PROVE ReferencesExist'
    <2>1. CASE req[w].company \in Companies
      <3>1. /\ \A u \in User : user'[u] = IF u \in req[w].users THEN Gone(NoUser)
                 ELSE IF user[u].company = req[w].company
                        THEN [user[u] EXCEPT !.company = None] ELSE user[u]
            /\ \A p \in Project : project'[p] = IF p \in req[w].projects THEN Gone(NoProject)
                 ELSE Cleared(project[p], req[w].company, req[w].users)
        BY <1>1, <1>11, <2>1, DeleteCompanyRows
      <3>2. Companies' = Companies \ {req[w].company}
        BY <1>1, <1>11, <2>1 DEF DeleteCompany, Companies, TypeOK
      <3>3. /\ Users' = Users \ req[w].users
            /\ \A u \in Users' : user'[u].company = IF user[u].company = req[w].company THEN None
                                                    ELSE user[u].company
        <4>1. ASSUME NEW u \in User
              PROVE  /\ user'[u].state = IF u \in req[w].users THEN "gone" ELSE user[u].state
                     /\ u \notin req[w].users =>
                          user'[u].company = IF user[u].company = req[w].company THEN None
                                             ELSE user[u].company
          BY <1>2, <3>1 DEF Gone, NoUser, UserRow
        <4>2. QED
          BY <4>1 DEF Users
      <3>4. \A p \in Projects' :
              /\ p \in Projects
              /\ project'[p].company = IF project[p].company = req[w].company THEN None
                                       ELSE project[p].company
              /\ project'[p].owner = IF project[p].owner \in req[w].users THEN None
                                     ELSE project[p].owner
        <4>1. SUFFICES ASSUME NEW p \in Projects'
                       PROVE  /\ p \in Projects
                              /\ project'[p].company = IF project[p].company = req[w].company
                                                         THEN None ELSE project[p].company
                              /\ project'[p].owner = IF project[p].owner \in req[w].users
                                                       THEN None ELSE project[p].owner
          OBVIOUS
        <4>2. p \in Project /\ project'[p].state \in {"active", "reject"}
          BY DEF Projects
        <4>3. p \notin req[w].projects
          BY <3>1, <4>2 DEF Gone, NoProject
        <4>4. project'[p] = Cleared(project[p], req[w].company, req[w].users)
          BY <3>1, <4>2, <4>3
        <4>5. QED
          BY <1>2, <4>2, <4>4, ClearedOK DEF Projects
      <3>5. QED
        BY <1>1, <3>2, <3>3, <3>4 DEF ReferencesExist
    <2>2. CASE req[w].company \notin Companies
      BY <1>3, <1>11, <2>2 DEF DeleteCompany
    <2>3. QED
      BY <2>1, <2>2
  <1>12. ASSUME NEW w \in AdminWorker, CreateAdminCompany(w) PROVE ReferencesExist'
    <2>1. Companies \subseteq Companies' /\ UNCHANGED <<user, project>>
      BY <1>1, <1>12 DEF CreateAdminCompany, Companies, TypeOK
    <2>2. QED
      BY <1>1, <2>1, ReferencesKept DEF Users, Projects
  <1>13. CASE StatusWriters
    BY <1>1, <1>4, <1>13, StatusWritersSet
  <1>14. ASSUME NEW w \in Worker, MemberStep(w) PROVE ReferencesExist'
    BY <1>3, <1>5, <1>6, <1>7, <1>14 DEF MemberStep, Register, CreateProject, UpdateProject
  <1>15. ASSUME NEW w \in Worker, RemovalStep(w) \/ DeletionStep(w) PROVE ReferencesExist'
    BY <1>3, <1>8, <1>9, <1>10, <1>11, <1>15
       DEF RemovalStep, DeletionStep, FindMember, DeleteProjects, DeleteUsers, Fault
  <1>16. ASSUME NEW w \in AdminWorker, AdminStart(w) PROVE ReferencesExist'
    BY <1>3, <1>12, <1>16 DEF AdminStart, UpdateMemberRole, DeleteCompanyMember,
       DeleteAdminCompanyMember, DeleteAdminCompany
  <1>17. CASE UNCHANGED vars
    BY <1>3, <1>17 DEF vars
  <1>18. QED
    BY <1>1, <1>13, <1>14, <1>15, <1>16, <1>17, NextCases

\* No row refers to a company or an owner that is gone, whatever removals and
\* deletions overlap with the requests of members.
THEOREM ReferencesAlwaysExist == Spec => []ReferencesExist
  <1>1. Init => ReferencesExist
    BY SeedAssumption DEF Init, ReferencesExist, Users, Companies, Projects, NoUser, NoProject
  <1>2. QED
    BY <1>1, TypeCorrect, ReferencesStep, PTL DEF Spec

-----------------------------------------------------------------------------
\* A step is the step of one goroutine.
Others(w) == \A v \in Worker \ {w} : req'[v] = req[v]

LEMMA StepOfOne ==
  ASSUME TypeOK, NEW w \in Worker,
         MemberStep(w) \/ AdminStart(w) \/ RemovalStep(w) \/ DeletionStep(w)
  PROVE  Others(w)
  <1> USE DEF TypeOK, Others
  <1>1. CASE MemberStep(w)
    BY <1>1 DEF MemberStep, Register, CreateProject, UpdateProject, InsertUser, InsertProject,
       RenameProject, Finish
  <1>2. CASE AdminStart(w)
    BY <1>2 DEF AdminStart, UpdateMemberRole, DeleteCompanyMember, DeleteAdminCompanyMember,
       CreateAdminCompany, DeleteAdminCompany
  <1>3. CASE RemovalStep(w)
    BY <1>3 DEF RemovalStep, SetRole, FindMember, DisownProjects, DeleteUser, Finish
  <1>4. CASE DeletionStep(w)
    BY <1>4 DEF DeletionStep, DeleteProjects, DeleteUsers, DeleteCompany, Fault, Finish
  <1>5. QED
    BY <1>1, <1>2, <1>3, <1>4

\* A removal that has cleared created_by deletes the user, unless it is gone already.
UsersMonotone ==
  \A u \in User : /\ user[u].state = "gone" => user'[u].state = "gone"
                  /\ user[u].state # "none" => user'[u].state # "none"
RemovalsKept ==
  \A w \in Worker : At(w, "deleteUser") =>
    \/ At(w, "deleteUser")' /\ req'[w].target = req[w].target
    \/ user'[req[w].target].state # "exists"

OwnerInv ==
  \A p \in Projects :
    /\ project[p].maker \in User
    /\ user[project[p].maker].state # "none"
    /\ project[p].owner \in {project[p].maker, None}
    /\ project[p].owner = None =>
         \/ user[project[p].maker].state = "gone"
         \/ \E w \in Worker : At(w, "deleteUser") /\ req[w].target = project[p].maker

LEMMA OwnersKept ==
  ASSUME TypeOK, TypeOK', OwnerInv, UsersMonotone, RemovalsKept,
         \A p \in Projects' : /\ p \in Projects
                              /\ project'[p].maker = project[p].maker
                              /\ project'[p].owner = project[p].owner
  PROVE  OwnerInv'
  <1>1. SUFFICES ASSUME NEW p \in Projects'
                 PROVE  /\ project'[p].maker \in User
                        /\ user'[project'[p].maker].state # "none"
                        /\ project'[p].owner \in {project'[p].maker, None}
                        /\ project'[p].owner = None =>
                             \/ user'[project'[p].maker].state = "gone"
                             \/ \E w \in Worker : At(w, "deleteUser")'
                                                  /\ req'[w].target = project'[p].maker
    BY DEF OwnerInv
  <1> DEFINE m == project[p].maker
  <1>2. /\ m \in User /\ user[m].state # "none" /\ user'[m].state # "none"
        /\ p \in Projects /\ project'[p].maker = m /\ project'[p].owner = project[p].owner
    BY DEF OwnerInv, UsersMonotone
  <1>3. user'[m].state \in {"exists", "gone"}
    BY <1>2 DEF TypeOK, UserRow
  <1>4. ASSUME project'[p].owner = None
        PROVE  \/ user'[m].state = "gone"
               \/ \E w \in Worker : At(w, "deleteUser")' /\ req'[w].target = m
    <2>1. CASE user[m].state = "gone"
      BY <1>2, <2>1 DEF UsersMonotone
    <2>2. CASE \E w \in Worker : At(w, "deleteUser") /\ req[w].target = m
      BY <1>3, <2>2 DEF RemovalsKept
    <2>3. QED
      BY <1>2, <1>4, <2>1, <2>2 DEF OwnerInv
  <1>5. QED
    BY <1>2, <1>4 DEF OwnerInv

LEMMA NotRemoving ==
  ASSUME TypeOK, NEW w \in Worker, Others(w), ~At(w, "deleteUser")
  PROVE  RemovalsKept
  BY DEF Others, RemovalsKept, At

LEMMA OwnerStep ==
  ASSUME "removals" \notin Features
  PROVE  TypeOK /\ ReferencesExist /\ OwnerInv /\ [Next]_vars => OwnerInv'
  <1>1. SUFFICES ASSUME TypeOK, ReferencesExist, OwnerInv, [Next]_vars PROVE OwnerInv'
    OBVIOUS
  <1>2. /\ \A p \in Project : project[p] \in ProjectRow
        /\ \A u \in User : user[u] \in UserRow
        /\ \A w \in Worker : req[w] \in Request /\ ArgsOK(req[w])
    BY <1>1 DEF TypeOK
  <1>3. TypeOK'
    BY <1>1, StepTyped
  <1>4. ASSUME UNCHANGED project, UsersMonotone, RemovalsKept PROVE OwnerInv'
    BY <1>1, <1>3, <1>4, OwnersKept DEF Projects
  <1>5. UNCHANGED user => UsersMonotone
    BY DEF UsersMonotone
  <1>6. ASSUME NEW p \in Project, NEW s \in {"active", "reject"}, NEW n \in Name \cup {None},
               SetStatus(p, s, n)
        PROVE  OwnerInv'
    <2>1. /\ project' = [project EXCEPT ![p] = [project[p] EXCEPT !.state = s, !.name = n]]
          /\ p \in Projects /\ UNCHANGED <<user, req>>
      BY <1>6 DEF SetStatus
    <2>2. \A q \in Projects' : /\ q \in Projects
                               /\ project'[q].maker = project[q].maker
                               /\ project'[q].owner = project[q].owner
      BY <1>1, <1>2, <2>1 DEF Projects, ProjectRow, TypeOK
    <2>3. RemovalsKept
      BY <2>1 DEF RemovalsKept, At
    <2>4. QED
      BY <1>1, <1>3, <1>5, <2>1, <2>2, <2>3, OwnersKept
  <1>7. ASSUME NEW w \in Worker, MemberStep(w) PROVE OwnerInv'
    <2>1. RemovalsKept
      <3>1. ~At(w, "deleteUser")
        BY <1>7 DEF MemberStep, Register, CreateProject, UpdateProject, InsertUser,
           InsertProject, RenameProject, At
      <3>2. QED
        BY <1>1, <1>7, <3>1, StepOfOne, NotRemoving
    <2>2. UsersMonotone
      <3>1. CASE InsertUser(w)
        BY <1>1, <3>1 DEF InsertUser, UsersMonotone, TypeOK
      <3>2. CASE ~InsertUser(w)
        BY <1>5, <1>7, <3>2 DEF MemberStep, Register, CreateProject, UpdateProject,
           InsertProject, RenameProject
      <3>3. QED
        BY <3>1, <3>2
    <2>3. CASE UNCHANGED project
      BY <1>4, <2>1, <2>2, <2>3
    <2>4. CASE ~UNCHANGED project /\ InsertProject(w)
      <3>1. PICK p \in Project : project' = [project EXCEPT ![p] = NewProject(req[w])]
        BY <2>4 DEF InsertProject
      <3>2. /\ req[w].user \in Users /\ UNCHANGED user
            /\ NewProject(req[w]).owner = req[w].user /\ NewProject(req[w]).maker = req[w].user
        BY <2>4 DEF InsertProject, CanInsert, NewProject
      <3>3. req[w].user \in User /\ user'[req[w].user].state # "none" /\ req[w].user # None
        BY <3>2, NoneAssumption DEF Users
      <3>4. \A q \in Projects' : \/ q \in Projects /\ project'[q] = project[q]
                                 \/ project'[q] = NewProject(req[w])
        BY <1>1, <3>1 DEF Projects, TypeOK
      <3>5. \A q \in Projects : project[q].maker \in User
        BY <1>1 DEF OwnerInv
      <3>6. ASSUME NEW q \in Projects', q \in Projects, project'[q] = project[q],
                   project[q].owner = None
            PROVE  \/ user'[project[q].maker].state = "gone"
                   \/ \E v \in Worker : At(v, "deleteUser")' /\ req'[v].target = project[q].maker
        <4>1. user[project[q].maker] \in UserRow /\ user[project[q].maker].state # "none"
          BY <1>1, <1>2, <3>5, <3>6 DEF OwnerInv
        <4>2. QED
          BY <1>1, <2>1, <3>2, <3>6, <4>1 DEF OwnerInv, RemovalsKept, UserRow
      <3>7. QED
        BY <1>1, <3>2, <3>3, <3>4, <3>6 DEF OwnerInv
    <2>5. CASE ~UNCHANGED project /\ RenameProject(w)
      <3>1. project' = [project EXCEPT ![req[w].project] =
                 [project[req[w].project] EXCEPT !.name = req[w].name]]
        BY <2>5 DEF RenameProject
      <3>2. req[w].project \in Project
        BY <1>2, <2>5 DEF RenameProject, At, ArgsOK
      <3>3. \A q \in Projects' : /\ q \in Projects
                                 /\ project'[q].maker = project[q].maker
                                 /\ project'[q].owner = project[q].owner
        BY <1>1, <1>2, <3>1, <3>2 DEF Projects, ProjectRow, TypeOK
      <3>4. QED
        BY <1>1, <1>3, <2>1, <2>2, <3>3, OwnersKept
    <2>6. QED
      BY <1>7, <2>3, <2>4, <2>5 DEF MemberStep, Register, CreateProject, UpdateProject, InsertUser
  <1>8. ASSUME NEW w \in AdminWorker, AdminStart(w) PROVE OwnerInv'
    <2>1. w \in Worker /\ UNCHANGED <<user, project>> /\ ~At(w, "deleteUser")
      BY <1>8 DEF AdminStart, Worker, UpdateMemberRole, DeleteCompanyMember,
         DeleteAdminCompanyMember, CreateAdminCompany, DeleteAdminCompany, At
    <2>2. RemovalsKept
      BY <1>1, <1>8, <2>1, StepOfOne, NotRemoving
    <2>3. QED
      BY <1>4, <1>5, <2>1, <2>2
  <1>9. ASSUME NEW w \in Worker, SetRole(w) \/ FindMember(w) PROVE OwnerInv'
    <2>1. UNCHANGED project /\ ~At(w, "deleteUser")
      BY <1>9 DEF SetRole, FindMember, At
    <2>2. RemovalsKept
      BY <1>1, <1>9, <2>1, StepOfOne, NotRemoving DEF RemovalStep
    <2>3. UsersMonotone
      <3>1. CASE UNCHANGED user
        BY <1>5, <3>1
      <3>2. CASE ~UNCHANGED user
        <4>1. user' = [user EXCEPT ![req[w].target] =
                         [user[req[w].target] EXCEPT !.role = req[w].role]]
          BY <1>9, <3>2 DEF SetRole, FindMember
        <4>2. QED
          BY <1>1, <1>2, <4>1 DEF UsersMonotone, UserRow, TypeOK
      <3>3. QED
        BY <3>1, <3>2
    <2>4. QED
      BY <1>4, <2>1, <2>2, <2>3
  <1>10. ASSUME NEW w \in Worker, DisownProjects(w) PROVE OwnerInv'
    <2>1. project' = Disown({req[w].target}) /\ UNCHANGED user
      BY <1>10 DEF DisownProjects
    <2>2. At(w, "deleteUser")' /\ req'[w].target = req[w].target
      BY <1>1, <1>2, <1>10 DEF DisownProjects, At, TypeOK, Request
    <2>3. RemovalsKept
      <3>1. ~At(w, "deleteUser")
        BY <1>10 DEF DisownProjects, At
      <3>2. QED
        BY <1>1, <1>10, <3>1, StepOfOne, NotRemoving DEF RemovalStep
    <2>4. ASSUME NEW p \in Projects'
          PROVE  /\ p \in Projects /\ project'[p].maker = project[p].maker
                 /\ project'[p].owner = IF project[p].owner = req[w].target THEN None
                                        ELSE project[p].owner
      BY <1>1, <2>1, <2>4, DisownOK DEF Projects
    <2>5. ASSUME NEW p \in Projects', project'[p].owner = None
          PROVE  \/ user'[project[p].maker].state = "gone"
                 \/ \E v \in Worker : At(v, "deleteUser")' /\ req'[v].target = project[p].maker
      <3>1. p \in Projects
        BY <2>4
      <3>2. CASE project[p].owner = None
        <4>1. user[project[p].maker] \in UserRow /\ user[project[p].maker].state # "none"
          BY <1>1, <1>2, <3>1 DEF OwnerInv
        <4>2. QED
          BY <1>1, <2>1, <2>3, <3>1, <3>2, <4>1 DEF OwnerInv, RemovalsKept, UserRow
      <3>3. CASE project[p].owner # None
        BY <1>1, <2>2, <2>4, <2>5, <3>1, <3>3 DEF OwnerInv
      <3>4. QED
        BY <3>2, <3>3
    <2>6. QED
      BY <1>1, <2>1, <2>4, <2>5 DEF OwnerInv
  <1>11. ASSUME NEW w \in Worker, DeleteUser(w) PROVE OwnerInv'
    <2>1. /\ project' = Disown({req[w].target})
          /\ req[w].target \in User /\ At(w, "deleteUser")
          /\ user' = IF req[w].target \in Users
                       THEN [user EXCEPT ![req[w].target] = Gone(NoUser)] ELSE user
      BY <1>2, <1>11 DEF DeleteUser, At, ArgsOK
    <2>2. user'[req[w].target].state # "exists" /\ UsersMonotone
      BY <1>1, <2>1 DEF Users, Gone, NoUser, UsersMonotone, TypeOK
    <2>3. RemovalsKept
      <3>1. Others(w)
        BY <1>1, <1>11, StepOfOne DEF RemovalStep
      <3>2. QED
        BY <2>2, <3>1 DEF RemovalsKept, Others, At
    <2>4. ASSUME NEW p \in Projects'
          PROVE  /\ p \in Projects /\ project'[p].maker = project[p].maker
                 /\ project'[p].owner = IF project[p].owner = req[w].target THEN None
                                        ELSE project[p].owner
      BY <1>1, <2>1, <2>4, DisownOK DEF Projects
    <2>5. \A p \in Projects : /\ project[p].maker \in User
                              /\ user'[project[p].maker].state \in {"exists", "gone"}
      BY <1>1, <1>3, <2>2 DEF OwnerInv, UsersMonotone, TypeOK, UserRow
    <2>6. ASSUME NEW p \in Projects', project'[p].owner = None
          PROVE  \/ user'[project[p].maker].state = "gone"
                 \/ \E v \in Worker : At(v, "deleteUser")' /\ req'[v].target = project[p].maker
      <3>1. p \in Projects
        BY <2>4
      <3>2. CASE project[p].owner = None
        BY <1>1, <2>2, <2>3, <2>5, <3>1, <3>2 DEF OwnerInv, RemovalsKept, UsersMonotone
      <3>3. CASE project[p].owner # None
        BY <1>1, <2>2, <2>4, <2>5, <2>6, <3>1, <3>3 DEF OwnerInv
      <3>4. QED
        BY <3>2, <3>3
    <2>7. QED
      BY <1>1, <2>4, <2>5, <2>6 DEF OwnerInv
  <1>12. ASSUME NEW w \in Worker, DeleteCompany(w) PROVE OwnerInv'
    <2>1. ~At(w, "deleteUser")
      BY <1>12 DEF DeleteCompany, At
    <2>2. RemovalsKept
      BY <1>1, <1>12, <2>1, StepOfOne, NotRemoving DEF DeletionStep
    <2>3. CASE req[w].company \in Companies
      <3>1. /\ \A u \in User : user'[u] = IF u \in req[w].users THEN Gone(NoUser)
                 ELSE IF user[u].company = req[w].company
                        THEN [user[u] EXCEPT !.company = None] ELSE user[u]
            /\ \A p \in Project : project'[p] = IF p \in req[w].projects THEN Gone(NoProject)
                 ELSE Cleared(project[p], req[w].company, req[w].users)
        BY <1>1, <1>12, <2>3, DeleteCompanyRows
      <3>2. \A u \in User : user'[u].state = IF u \in req[w].users THEN "gone" ELSE user[u].state
        BY <1>2, <3>1 DEF Gone, NoUser, UserRow
      <3>3. UsersMonotone
        BY <3>2 DEF UsersMonotone
      <3>4. ASSUME NEW p \in Projects'
            PROVE  /\ p \in Projects /\ project'[p].maker = project[p].maker
                   /\ project'[p].owner = IF project[p].owner \in req[w].users THEN None
                                          ELSE project[p].owner
        <4>1. p \in Project /\ project'[p].state \in {"active", "reject"}
          BY DEF Projects
        <4>2. p \notin req[w].projects
          BY <3>1, <4>1 DEF Gone, NoProject
        <4>3. project'[p] = Cleared(project[p], req[w].company, req[w].users)
          BY <3>1, <4>1, <4>2
        <4>4. QED
          BY <1>2, <4>1, <4>3, ClearedOK DEF Projects
      <3>5. \A p \in Projects : /\ project[p].maker \in User
                                /\ user'[project[p].maker].state \in {"exists", "gone"}
        BY <1>1, <1>3, <3>3 DEF OwnerInv, UsersMonotone, TypeOK, UserRow
      <3>6. ASSUME NEW p \in Projects', project'[p].owner = None
            PROVE  \/ user'[project[p].maker].state = "gone"
                   \/ \E v \in Worker : At(v, "deleteUser")' /\ req'[v].target = project[p].maker
        <4>1. p \in Projects
          BY <3>4
        <4>2. CASE project[p].owner = None
          BY <1>1, <2>2, <3>3, <3>5, <4>1, <4>2 DEF OwnerInv, RemovalsKept, UsersMonotone
        <4>3. CASE project[p].owner # None
          BY <1>1, <3>2, <3>4, <3>5, <3>6, <4>1, <4>3 DEF OwnerInv
        <4>4. QED
          BY <4>2, <4>3
      <3>7. QED
        BY <1>1, <3>4, <3>5, <3>6 DEF OwnerInv
    <2>4. CASE req[w].company \notin Companies
      BY <1>4, <1>5, <1>12, <2>2, <2>4 DEF DeleteCompany
    <2>5. QED
      BY <2>3, <2>4
  <1>13. ASSUME NEW w \in Worker, DeleteProjects(w) \/ DeleteUsers(w) \/ Fault(w) PROVE OwnerInv'
    <2>1. UNCHANGED <<user, project>> /\ ~At(w, "deleteUser")
      BY <1>13 DEF DeleteProjects, DeleteUsers, Fault, At
    <2>2. RemovalsKept
      BY <1>1, <1>13, <2>1, StepOfOne, NotRemoving DEF DeletionStep
    <2>3. QED
      BY <1>4, <1>5, <2>1, <2>2
  <1>14. CASE StatusWriters
    BY <1>1, <1>6, <1>14, StatusWritersSet
  <1>15. ASSUME NEW w \in Worker, RemovalStep(w) \/ DeletionStep(w) PROVE OwnerInv'
    BY <1>9, <1>10, <1>11, <1>12, <1>13, <1>15 DEF RemovalStep, DeletionStep
  <1>16. CASE UNCHANGED vars
    <2>1. UNCHANGED <<user, project, req>>
      BY <1>16 DEF vars
    <2>2. RemovalsKept
      BY <2>1 DEF RemovalsKept, At
    <2>3. QED
      BY <1>4, <1>5, <2>1, <2>2
  <1>17. QED
    BY <1>1, <1>7, <1>8, <1>14, <1>15, <1>16, NextCases

\* As long as no removal fails half way, a project is without owner only because its
\* maker is gone or about to be, whatever overlaps.
THEOREM OwnersStay ==
  ASSUME "removals" \notin Features
  PROVE  Spec => []OwnerLostOnlyWithUser
  <1>1. Init => OwnerInv
    BY DEF Init, OwnerInv, Projects, NoProject
  <1>2. OwnerInv => OwnerLostOnlyWithUser
    BY DEF OwnerInv, OwnerLostOnlyWithUser
  <1>3. TypeOK /\ ReferencesExist /\ OwnerInv /\ [Next]_vars => OwnerInv'
    BY OwnerStep
  <1>4. QED
    BY <1>1, <1>2, <1>3, TypeCorrect, ReferencesAlwaysExist, PTL DEF Spec

-----------------------------------------------------------------------------
\* Rows come once and go once, and belong to another company, or to none, only when
\* theirs has gone.
RowsAge ==
  /\ \A c \in Company : company[c] # "none" =>
       company'[c] # "none" /\ (c \in Companies' => c \in Companies)
  /\ \A u \in User : user[u].state # "none" =>
       /\ user'[u].state # "none"
       /\ u \in Users' => /\ u \in Users
                          /\ \/ user'[u].company = user[u].company
                             \/ user[u].company \notin Companies'
  /\ \A p \in Project : project[p].state # "none" =>
       /\ project'[p].state # "none"
       /\ p \in Projects' => /\ p \in Projects
                             /\ \/ project'[p].company = project[p].company
                                \/ project[p].company \notin Companies'

LEMMA UsersAge ==
  ASSUME TypeOK, UNCHANGED <<company, project>>,
         \A u \in User : user[u].state # "none" =>
           /\ user'[u].state # "none"
           /\ u \in Users' => u \in Users /\ user'[u].company = user[u].company
  PROVE  RowsAge
  BY DEF RowsAge, Companies, Projects

LEMMA ProjectsAge ==
  ASSUME TypeOK, UNCHANGED <<company, user>>,
         \A p \in Project : project[p].state # "none" =>
           /\ project'[p].state # "none"
           /\ p \in Projects' => p \in Projects /\ project'[p].company = project[p].company
  PROVE  RowsAge
  BY DEF RowsAge, Companies, Users

LEMMA Ages == TypeOK /\ [Next]_vars => RowsAge
  <1>1. SUFFICES ASSUME TypeOK, [Next]_vars PROVE RowsAge
    OBVIOUS
  <1>2. /\ \A p \in Project : project[p] \in ProjectRow
        /\ \A u \in User : user[u] \in UserRow
        /\ \A w \in Worker : req[w] \in Request /\ ArgsOK(req[w])
    BY <1>1 DEF TypeOK
  <1>3. CASE UNCHANGED <<company, user, project>>
    BY <1>3 DEF RowsAge, Companies, Users, Projects
  <1>4. ASSUME NEW p \in Project, NEW s \in {"active", "reject"}, NEW n \in Name \cup {None},
               SetStatus(p, s, n)
        PROVE  RowsAge
    <2>1. /\ project' = [project EXCEPT ![p] = [project[p] EXCEPT !.state = s, !.name = n]]
          /\ p \in Projects /\ UNCHANGED <<company, user>>
      BY <1>4 DEF SetStatus
    <2>2. QED
      BY <1>1, <1>2, <2>1, ProjectsAge DEF Projects, ProjectRow, TypeOK
  <1>5. ASSUME NEW w \in Worker, InsertUser(w) PROVE RowsAge
    <2>1. CASE UNCHANGED user
      BY <1>3, <1>5, <2>1 DEF InsertUser
    <2>2. CASE ~UNCHANGED user
      <3>1. /\ user' = [user EXCEPT ![req[w].user] =
                 [state |-> "exists", role |-> "dealer", company |-> req[w].company]]
            /\ user[req[w].user].state = "none" /\ UNCHANGED <<company, project>>
        BY <1>5, <2>2 DEF InsertUser
      <3>2. QED
        BY <1>1, <3>1, UsersAge DEF Users, TypeOK
    <2>3. QED
      BY <2>1, <2>2
  <1>6. ASSUME NEW w \in Worker, InsertProject(w) PROVE RowsAge
    <2>1. CASE UNCHANGED project
      BY <1>3, <1>6, <2>1 DEF InsertProject
    <2>2. CASE ~UNCHANGED project
      <3>1. PICK p \in Project : /\ project[p].state = "none"
                                 /\ project' = [project EXCEPT ![p] = NewProject(req[w])]
        BY <1>6, <2>2 DEF InsertProject
      <3>2. UNCHANGED <<company, user>>
        BY <1>6 DEF InsertProject
      <3>3. QED
        BY <1>1, <3>1, <3>2, ProjectsAge DEF Projects, TypeOK
    <2>3. QED
      BY <2>1, <2>2
  <1>7. ASSUME NEW w \in Worker, RenameProject(w) PROVE RowsAge
    <2>1. CASE UNCHANGED project
      BY <1>3, <1>7, <2>1 DEF RenameProject
    <2>2. CASE ~UNCHANGED project
      <3>1. /\ project' = [project EXCEPT ![req[w].project] =
                 [project[req[w].project] EXCEPT !.name = req[w].name]]
            /\ UNCHANGED <<company, user>>
        BY <1>7, <2>2 DEF RenameProject
      <3>2. QED
        BY <1>1, <1>2, <3>1, ProjectsAge DEF Projects, ProjectRow, TypeOK
    <2>3. QED
      BY <2>1, <2>2
  <1>8. ASSUME NEW w \in Worker, SetRole(w) PROVE RowsAge
    <2>1. CASE UNCHANGED user
      BY <1>3, <1>8, <2>1 DEF SetRole
    <2>2. CASE ~UNCHANGED user
      <3>1. /\ user' = [user EXCEPT ![req[w].target] =
                          [user[req[w].target] EXCEPT !.role = req[w].role]]
            /\ UNCHANGED <<company, project>>
        BY <1>8, <2>2 DEF SetRole
      <3>2. QED
        BY <1>1, <1>2, <3>1, UsersAge DEF Users, UserRow, TypeOK
    <2>3. QED
      BY <2>1, <2>2
  <1>9. ASSUME NEW w \in Worker, DisownProjects(w) PROVE RowsAge
    <2>1. project' = project \/ project' = Disown({req[w].target})
      BY <1>9 DEF DisownProjects
    <2>2. UNCHANGED <<company, user>>
      BY <1>9 DEF DisownProjects
    <2>3. CASE project' = Disown({req[w].target})
      BY <1>1, <2>2, <2>3, DisownOK, ProjectsAge DEF Projects
    <2>4. QED
      BY <1>3, <2>1, <2>2, <2>3
  <1>10. ASSUME NEW w \in Worker, DeleteUser(w) PROVE RowsAge
    <2>1. project' = Disown({req[w].target}) /\ UNCHANGED company
      BY <1>10 DEF DeleteUser
    <2>2. user' = user \/ user' = [user EXCEPT ![req[w].target] = Gone(NoUser)]
      BY <1>10 DEF DeleteUser
    <2>3. \A u \in User : user[u].state # "none" =>
            /\ user'[u].state # "none"
            /\ u \in Users' => u \in Users /\ user'[u].company = user[u].company
      BY <1>1, <2>2 DEF TypeOK, Users, Gone, NoUser
    <2>4. \A p \in Project : /\ project'[p].state = project[p].state
                             /\ project'[p].company = project[p].company
      BY <1>1, <2>1, DisownOK
    <2>5. QED
      BY <2>1, <2>3, <2>4 DEF RowsAge, Companies, Projects
  <1>11. ASSUME NEW w \in Worker, DeleteCompany(w) PROVE RowsAge
    <2>1. CASE req[w].company \in Companies
      <3>1. /\ \A u \in User : user'[u] = IF u \in req[w].users THEN Gone(NoUser)
                 ELSE IF user[u].company = req[w].company
                        THEN [user[u] EXCEPT !.company = None] ELSE user[u]
            /\ \A p \in Project : project'[p] = IF p \in req[w].projects THEN Gone(NoProject)
                 ELSE Cleared(project[p], req[w].company, req[w].users)
        BY <1>1, <1>11, <2>1, DeleteCompanyRows
      <3>2. /\ company' = [company EXCEPT ![req[w].company] = "gone"]
            /\ req[w].company \in Company
        BY <1>11, <2>1 DEF DeleteCompany, Companies
      <3>3. /\ req[w].company \notin Companies'
            /\ \A c \in Company : company[c] # "none" =>
                 company'[c] # "none" /\ (c \in Companies' => c \in Companies)
        BY <1>1, <3>2 DEF Companies, TypeOK
      <3>4. ASSUME NEW u \in User, user[u].state # "none"
            PROVE  /\ user'[u].state # "none"
                   /\ u \in Users' => /\ u \in Users
                                      /\ \/ user'[u].company = user[u].company
                                         \/ user[u].company \notin Companies'
        BY <1>2, <3>1, <3>3, <3>4 DEF Gone, NoUser, UserRow, Users
      <3>5. ASSUME NEW p \in Project, project[p].state # "none"
            PROVE  /\ project'[p].state # "none"
                   /\ p \in Projects' => /\ p \in Projects
                                         /\ \/ project'[p].company = project[p].company
                                            \/ project[p].company \notin Companies'
        <4>1. CASE p \in req[w].projects
          BY <3>1, <4>1 DEF Gone, NoProject, Projects
        <4>2. CASE p \notin req[w].projects
          BY <1>2, <3>1, <3>3, <3>5, <4>2, ClearedOK DEF Projects
        <4>3. QED
          BY <4>1, <4>2
      <3>6. QED
        BY <3>3, <3>4, <3>5 DEF RowsAge
    <2>2. CASE req[w].company \notin Companies
      BY <1>3, <1>11, <2>2 DEF DeleteCompany
    <2>3. QED
      BY <2>1, <2>2
  <1>12. ASSUME NEW w \in AdminWorker, CreateAdminCompany(w) PROVE RowsAge
    <2>1. PICK c \in Company : company[c] = "none" /\ company' = [company EXCEPT ![c] = "exists"]
      BY <1>12 DEF CreateAdminCompany
    <2>2. \A d \in Company : company[d] # "none" => company'[d] = company[d]
      BY <1>1, <2>1 DEF TypeOK
    <2>3. UNCHANGED <<user, project>>
      BY <1>12 DEF CreateAdminCompany
    <2>4. QED
      BY <2>2, <2>3 DEF RowsAge, Companies, Users, Projects
  <1>13. CASE StatusWriters
    BY <1>1, <1>4, <1>13, StatusWritersSet
  <1>14. ASSUME NEW w \in Worker, MemberStep(w) PROVE RowsAge
    BY <1>3, <1>5, <1>6, <1>7, <1>14 DEF MemberStep, Register, CreateProject, UpdateProject
  <1>15. ASSUME NEW w \in Worker, RemovalStep(w) \/ DeletionStep(w) PROVE RowsAge
    BY <1>3, <1>8, <1>9, <1>10, <1>11, <1>15
       DEF RemovalStep, DeletionStep, FindMember, DeleteProjects, DeleteUsers, Fault
  <1>16. ASSUME NEW w \in AdminWorker, AdminStart(w) PROVE RowsAge
    BY <1>3, <1>12, <1>16 DEF AdminStart, UpdateMemberRole, DeleteCompanyMember,
       DeleteAdminCompanyMember, DeleteAdminCompany
  <1>17. CASE UNCHANGED vars
    BY <1>3, <1>17 DEF vars
  <1>18. QED
    BY <1>1, <1>13, <1>14, <1>15, <1>16, <1>17, NextCases

Deleting == {"deleteProjects", "deleteUsers", "deleteCompany"}

\* What a deletion found when it began is gone, or still of the company and, past the
\* DELETE of its kind, locked; if the company has gone meanwhile it does nothing.
GoesInv(w) ==
  req[w].step \in Deleting =>
    /\ company[req[w].company] # "none"
    /\ \A u \in User \cap req[w].present :
         /\ user[u].state # "none"
         /\ u \in Users /\ req[w].company \in Companies =>
              /\ user[u].company = req[w].company
              /\ req[w].step = "deleteCompany" => u \in req[w].users
    /\ \A p \in Project \cap req[w].present :
         /\ project[p].state # "none"
         /\ p \in Projects /\ req[w].company \in Companies =>
              /\ project[p].company = req[w].company
              /\ req[w].step # "deleteProjects" => p \in req[w].projects
    /\ req[w].step # "deleteProjects" =>
         \A p \in req[w].projects :
           /\ project[p].state # "none"
           /\ p \in Projects /\ req[w].company \in Companies =>
                project[p].company = req[w].company

\* Nobody else's step disturbs it ...
LEMMA GoesKept ==
  ASSUME TypeOK, RowsAge, NEW w \in Worker, GoesInv(w), req'[w] = req[w]
  PROVE  GoesInv(w)'
  <1>1. SUFFICES ASSUME req[w].step \in Deleting PROVE GoesInv(w)'
    BY DEF GoesInv
  <1>2. req[w].company \in Company /\ req[w].projects \subseteq Project
    BY <1>1 DEF TypeOK, ArgsOK, Deleting, Request
  <1>3. /\ company'[req[w].company] # "none"
        /\ req[w].company \in Companies' => req[w].company \in Companies
    BY <1>1, <1>2 DEF GoesInv, RowsAge
  <1>4. ASSUME NEW u \in User \cap req[w].present
        PROVE  /\ user'[u].state # "none"
               /\ u \in Users' /\ req[w].company \in Companies' =>
                    /\ user'[u].company = req[w].company
                    /\ req[w].step = "deleteCompany" => u \in req[w].users
    BY <1>1, <1>3 DEF GoesInv, RowsAge
  <1>5. ASSUME NEW p \in Project \cap req[w].present
        PROVE  /\ project'[p].state # "none"
               /\ p \in Projects' /\ req[w].company \in Companies' =>
                    /\ project'[p].company = req[w].company
                    /\ req[w].step # "deleteProjects" => p \in req[w].projects
    BY <1>1, <1>3 DEF GoesInv, RowsAge
  <1>6. ASSUME NEW p \in req[w].projects, req[w].step # "deleteProjects"
        PROVE  /\ project'[p].state # "none"
               /\ p \in Projects' /\ req[w].company \in Companies' =>
                    project'[p].company = req[w].company
    BY <1>1, <1>2, <1>3, <1>6 DEF GoesInv, RowsAge
  <1>7. QED
    BY <1>3, <1>4, <1>5, <1>6 DEF GoesInv

\* ... and a goroutine comes to a statement of the transaction in three ways.
LEMMA DeletionSteps ==
  ASSUME TypeOK, [Next]_vars, NEW v \in Worker, req'[v] # req[v], req'[v].step \in Deleting
  PROVE  DeleteAdminCompany(v) \/ DeleteProjects(v) \/ DeleteUsers(v)
  <1> USE DEF TypeOK, Deleting, Request
  <1>1. ASSUME NEW w \in Worker, MemberStep(w) \/ RemovalStep(w) \/ DeletionStep(w)
        PROVE  DeleteProjects(v) \/ DeleteUsers(v)
    <2>1. w = v
      BY <1>1, StepOfOne DEF Others
    <2>2. CASE MemberStep(w)
      <3>1. ~Finish(v)
        BY DEF Finish, Idle
      <3>2. ASSUME Register(v) PROVE FALSE
        <4>1. PICK u \in User, c \in Companies :
                req' = [req EXCEPT ![v] = [@ EXCEPT !.step = "insertUser", !.user = u,
                                                    !.company = c]]
          BY <3>2 DEF Register
        <4>2. req'[v].step = "insertUser"
          BY <4>1
        <4>3. QED
          BY <4>2
      <3>3. ASSUME CreateProject(v) PROVE FALSE
        <4>1. PICK u \in Users, n \in Name :
                \E c \in Companies \cup {user[u].company} :
                  req' = [req EXCEPT ![v] = [@ EXCEPT !.step = "insertProject", !.user = u,
                                                      !.company = c, !.name = n]]
          BY <3>3 DEF CreateProject
        <4>2. PICK c \in Companies \cup {user[u].company} :
                req' = [req EXCEPT ![v] = [@ EXCEPT !.step = "insertProject", !.user = u,
                                                    !.company = c, !.name = n]]
          BY <4>1
        <4>3. req'[v].step = "insertProject"
          BY <4>2
        <4>4. QED
          BY <4>3
      <3>4. ASSUME UpdateProject(v) PROVE FALSE
        <4>1. \E p, n :
                req' = [req EXCEPT ![v] = [@ EXCEPT !.step = "rename", !.project = p, !.name = n]]
          BY <3>4 DEF UpdateProject
        <4>2. req'[v].step = "rename"
          BY <4>1
        <4>3. QED
          BY <4>2
      <3>5. QED
        BY <2>1, <2>2, <3>1, <3>2, <3>3, <3>4 DEF MemberStep, InsertUser, InsertProject,
           RenameProject
    <2>3. CASE RemovalStep(w)
      <3>1. ~Finish(v)
        BY DEF Finish, Idle
      <3>2. ~DisownProjects(v)
        BY DEF DisownProjects
      <3>3. ~FindMember(v)
        BY <3>1 DEF FindMember
      <3>4. QED
        BY <2>1, <2>3, <3>1, <3>2, <3>3 DEF RemovalStep, SetRole, DeleteUser
    <2>4. CASE DeletionStep(w)
      <3>1. ~Finish(v)
        BY DEF Finish, Idle
      <3>2. QED
        BY <2>1, <2>4, <3>1 DEF DeletionStep, DeleteCompany, Fault
    <2>5. QED
      BY <1>1, <2>2, <2>3, <2>4
  <1>2. ASSUME NEW w \in AdminWorker, AdminStart(w)
        PROVE  DeleteAdminCompany(v)
    <2>1. w = v
      BY <1>2, StepOfOne DEF Others, Worker
    <2>2. ASSUME UpdateMemberRole(v) PROVE FALSE
      <3>1. PICK u \in Admins, r \in Role, t \in User :
              req' = [req EXCEPT ![v] = [@ EXCEPT !.step = "setRole", !.user = u, !.target = t,
                                                  !.company = user[u].company, !.role = r]]
        BY <2>2 DEF UpdateMemberRole
      <3>2. req'[v].step = "setRole"
        BY <3>1
      <3>3. QED
        BY <3>2
    <2>3. DeleteCompanyMember(v) \/ DeleteAdminCompanyMember(v) => FALSE
      <3>1. SUFFICES ASSUME DeleteCompanyMember(v) \/ DeleteAdminCompanyMember(v) PROVE FALSE
        OBVIOUS
      <3>2. \E u, t, c :
              req' = [req EXCEPT ![v] = [@ EXCEPT !.step = "findMember", !.user = u, !.target = t,
                                                  !.company = c]]
        BY <3>1 DEF DeleteCompanyMember, DeleteAdminCompanyMember
      <3>3. req'[v].step = "findMember"
        BY <3>2
      <3>4. QED
        BY <3>3
    <2>4. ~CreateAdminCompany(v)
      BY DEF CreateAdminCompany
    <2>5. QED
      BY <1>2, <2>1, <2>2, <2>3, <2>4 DEF AdminStart
  <1>3. CASE StatusWriters
    BY <1>3, StatusWritersSet DEF SetStatus
  <1>4. QED
    BY <1>1, <1>2, <1>3, NextCases DEF vars

LEMMA GoesStep ==
  TypeOK /\ (\A w \in Worker : GoesInv(w)) /\ [Next]_vars => \A w \in Worker : GoesInv(w)'
  <1>1. SUFFICES ASSUME TypeOK, \A w \in Worker : GoesInv(w), [Next]_vars, NEW w \in Worker
                 PROVE  GoesInv(w)'
    OBVIOUS
  <1>2. RowsAge
    BY <1>1, Ages
  <1>3. CASE req'[w] = req[w]
    BY <1>1, <1>2, <1>3, GoesKept
  <1>4. CASE req'[w].step \notin Deleting
    BY <1>4 DEF GoesInv
  <1>5. CASE DeleteAdminCompany(w)
    <2>1. PICK u \in Admins, c \in Companies :
            req' = [req EXCEPT ![w] = [@ EXCEPT !.step = "deleteProjects", !.user = u, !.company = c,
                                                !.present = UsersOf(c) \cup ProjectsOf(c)]]
      BY <1>5 DEF DeleteAdminCompany
    <2>2. /\ req'[w].step = "deleteProjects" /\ req'[w].company = c
          /\ req'[w].present = UsersOf(c) \cup ProjectsOf(c)
      BY <1>1, <2>1 DEF TypeOK, Request
    <2>3. UNCHANGED <<company, user, project>>
      BY <1>5 DEF DeleteAdminCompany
    <2>4. /\ c \in Companies
          /\ \A x \in User \cap req'[w].present : x \in UsersOf(c)
          /\ \A x \in Project \cap req'[w].present : x \in ProjectsOf(c)
      BY <2>2, KeysAssumption DEF UsersOf, ProjectsOf, Users, Projects
    <2>5. QED
      BY <2>2, <2>3, <2>4 DEF GoesInv, UsersOf, ProjectsOf, Users, Projects, Companies
  <1>6. CASE DeleteProjects(w)
    <2>1. /\ req[w].step = "deleteProjects" /\ req'[w].step = "deleteUsers"
          /\ req'[w].company = req[w].company /\ req'[w].present = req[w].present
          /\ req'[w].projects = ProjectsOf(req[w].company)
      BY <1>1, <1>6 DEF DeleteProjects, At, TypeOK, Request
    <2>2. UNCHANGED <<company, user, project>>
      BY <1>6 DEF DeleteProjects
    <2>3. QED
      BY <1>1, <2>1, <2>2 DEF GoesInv, Deleting, ProjectsOf, Users, Projects, Companies
  <1>7. CASE DeleteUsers(w)
    <2>1. /\ req[w].step = "deleteUsers" /\ req'[w].step = "deleteCompany"
          /\ req'[w].company = req[w].company /\ req'[w].present = req[w].present
          /\ req'[w].projects = req[w].projects /\ req'[w].users = UsersOf(req[w].company)
      BY <1>1, <1>7 DEF DeleteUsers, At, TypeOK, Request
    <2>2. UNCHANGED <<company, user, project>>
      BY <1>7 DEF DeleteUsers
    <2>3. QED
      BY <1>1, <2>1, <2>2 DEF GoesInv, Deleting, UsersOf, Users, Projects, Companies
  <1>8. QED
    BY <1>1, <1>3, <1>4, <1>5, <1>6, <1>7, DeletionSteps

\* Rows that go with their company, whoever else deletes or inserts meanwhile.
LEMMA WholeStep ==
  TypeOK /\ (\A w \in Worker : GoesInv(w)) /\ [Next]_vars =>
    [/\ \A w \in Worker :
          At(w, "deleteCompany") /\ At(w, "idle")' /\ Companies' # Companies =>
            req[w].present \cap (Users' \cup Projects') = {}
     /\ \A p \in Projects \ Projects' : project[p].company \in Companies \ Companies']_vars
  <1>1. SUFFICES ASSUME TypeOK, \A w \in Worker : GoesInv(w), Next
                 PROVE  /\ \A w \in Worker :
                             At(w, "deleteCompany") /\ At(w, "idle")' /\ Companies' # Companies =>
                               req[w].present \cap (Users' \cup Projects') = {}
                        /\ \A p \in Projects \ Projects' :
                             project[p].company \in Companies \ Companies'
    OBVIOUS
  <1>2. RowsAge /\ [Next]_vars
    BY <1>1, Ages
  <1>3. ASSUME NEW w \in Worker, DeleteCompany(w), req[w].company \in Companies
        PROVE  /\ req[w].company \in Companies \ Companies' /\ req[w].step = "deleteCompany"
               /\ Users' \cap req[w].users = {}
               /\ Projects' \cap req[w].projects = {}
               /\ \A p \in Projects \ Projects' : p \in req[w].projects
    <2>1. /\ \A u \in User : user'[u] = IF u \in req[w].users THEN Gone(NoUser)
               ELSE IF user[u].company = req[w].company
                      THEN [user[u] EXCEPT !.company = None] ELSE user[u]
          /\ \A p \in Project : project'[p] = IF p \in req[w].projects THEN Gone(NoProject)
               ELSE Cleared(project[p], req[w].company, req[w].users)
      BY <1>1, <1>3, DeleteCompanyRows
    <2>2. req[w].company \in Companies \ Companies' /\ req[w].step = "deleteCompany"
      BY <1>1, <1>3 DEF DeleteCompany, Companies, TypeOK, At
    <2>3. Users' \cap req[w].users = {}
      BY <2>1 DEF Users, Gone, NoUser
    <2>4. Projects' \cap req[w].projects = {}
      BY <2>1 DEF Projects, Gone, NoProject
    <2>5. ASSUME NEW p \in Projects \ Projects' PROVE p \in req[w].projects
      <3>1. p \in Project /\ project[p] \in ProjectRow
        BY <1>1 DEF Projects, TypeOK
      <3>2. ASSUME p \notin req[w].projects PROVE FALSE
        <4>1. project'[p].state = project[p].state
          BY <2>1, <3>1, <3>2, ClearedOK
        <4>2. QED
          BY <3>1, <4>1 DEF Projects
      <3>3. QED
        BY <3>2
    <2>6. QED
      BY <2>2, <2>3, <2>4, <2>5
  <1>4. ASSUME NEW w \in Worker, At(w, "deleteCompany"), At(w, "idle")', Companies' # Companies
        PROVE  req[w].present \cap (Users' \cup Projects') = {}
    <2>1. DeleteCompany(w) /\ req[w].company \in Companies
      <3>1. req'[w] # req[w]
        BY <1>4 DEF At
      <3>2. ~StatusWriters
        BY <1>1, <3>1, StatusWritersSet DEF SetStatus
      <3>3. \A v \in Worker : MemberStep(v) \/ AdminStart(v) \/ RemovalStep(v) \/ DeletionStep(v)
              => v = w
        BY <1>1, <3>1, StepOfOne DEF Others
      <3>4. \/ MemberStep(w) \/ AdminStart(w) \/ RemovalStep(w) \/ DeletionStep(w)
        BY <1>1, <3>2, <3>3, NextCases DEF Worker
      <3>5. ~MemberStep(w) /\ ~AdminStart(w) /\ ~RemovalStep(w)
        <4>1. req[w].step = "deleteCompany" /\ ~Fault(w)
          BY <1>4 DEF At, Fault, Companies
        <4>2. ~MemberStep(w)
          BY <4>1 DEF MemberStep, Register, CreateProject, UpdateProject, InsertUser,
             InsertProject, RenameProject, At
        <4>3. ~AdminStart(w)
          BY <3>1, <4>1 DEF AdminStart, UpdateMemberRole, DeleteCompanyMember,
             DeleteAdminCompanyMember, CreateAdminCompany, DeleteAdminCompany, At
        <4>4. ~RemovalStep(w)
          BY <4>1 DEF RemovalStep, SetRole, FindMember, DisownProjects, DeleteUser, At
        <4>5. QED
          BY <4>2, <4>3, <4>4
      <3>6. DeleteCompany(w)
        BY <1>4, <3>4, <3>5 DEF DeletionStep, DeleteProjects, DeleteUsers, Fault, At, Companies
      <3>7. QED
        BY <1>4, <3>6 DEF DeleteCompany, Companies
    <2>2. ASSUME NEW u \in req[w].present, u \in Users' PROVE FALSE
      <3>1. u \in User /\ u \in Users
        BY <1>1, <1>2, <2>1, <2>2 DEF GoesInv, RowsAge, Deleting, DeleteCompany, At, Users
      <3>2. u \in req[w].users
        BY <1>1, <2>1, <2>2, <3>1 DEF GoesInv, Deleting, DeleteCompany, At
      <3>3. QED
        BY <1>3, <2>1, <2>2, <3>2
    <2>3. ASSUME NEW p \in req[w].present, p \in Projects' PROVE FALSE
      <3>1. p \in Project /\ p \in Projects
        BY <1>1, <1>2, <2>1, <2>3 DEF GoesInv, RowsAge, Deleting, DeleteCompany, At, Projects
      <3>2. p \in req[w].projects
        BY <1>1, <2>1, <2>3, <3>1 DEF GoesInv, Deleting, DeleteCompany, At
      <3>3. QED
        BY <1>3, <2>1, <2>3, <3>2
    <2>4. QED
      BY <2>2, <2>3
  <1>5. ASSUME NEW p \in Projects \ Projects'
        PROVE  project[p].company \in Companies \ Companies'
    <2>1. CASE \E w \in Worker : DeleteCompany(w) /\ req[w].company \in Companies
      <3>1. PICK w \in Worker : DeleteCompany(w) /\ req[w].company \in Companies
        BY <2>1
      <3>2. p \in req[w].projects /\ req[w].company \in Companies \ Companies'
            /\ req[w].step = "deleteCompany"
        BY <1>3, <3>1
      <3>3. project[p].company = req[w].company
        BY <1>1, <3>1, <3>2 DEF GoesInv, Deleting
      <3>4. QED
        BY <3>2, <3>3
    <2>2. CASE ~\E w \in Worker : DeleteCompany(w) /\ req[w].company \in Companies
      <3>1. p \in Projects'
        <4>1. CASE UNCHANGED project
          BY <4>1 DEF Projects
        <4>2. ASSUME NEW q \in Project, NEW s \in {"active", "reject"},
                     NEW n \in Name \cup {None}, SetStatus(q, s, n)
              PROVE  p \in Projects'
          BY <1>1, <4>2 DEF SetStatus, Projects, TypeOK, ProjectRow
        <4>3. ASSUME NEW w \in Worker, InsertProject(w) PROVE p \in Projects'
          <5>1. CASE UNCHANGED project
            BY <4>1, <5>1
          <5>2. CASE ~UNCHANGED project
            <6>1. PICK q \in Project : /\ project[q].state = "none"
                                       /\ project' = [project EXCEPT ![q] = NewProject(req[w])]
              BY <4>3, <5>2 DEF InsertProject
            <6>2. QED
              BY <1>1, <6>1 DEF Projects, TypeOK
          <5>3. QED
            BY <5>1, <5>2
        <4>4. ASSUME NEW w \in Worker, RenameProject(w) PROVE p \in Projects'
          <5>1. project' = project
                \/ project' = [project EXCEPT ![req[w].project] =
                                 [project[req[w].project] EXCEPT !.name = req[w].name]]
            BY <4>4 DEF RenameProject
          <5>2. QED
            BY <1>1, <5>1 DEF Projects, TypeOK, ProjectRow
        <4>5. ASSUME NEW w \in Worker, RemovalStep(w) PROVE p \in Projects'
          <5>1. project' = project \/ project' = Disown({req[w].target})
            BY <4>5 DEF RemovalStep, SetRole, FindMember, DisownProjects, DeleteUser
          <5>2. QED
            BY <1>1, <5>1, DisownOK DEF Projects
        <4>6. ASSUME NEW w \in Worker, DeletionStep(w) PROVE UNCHANGED project
          BY <2>2, <4>6 DEF DeletionStep, DeleteProjects, DeleteUsers, DeleteCompany, Fault
        <4>7. ASSUME NEW w \in AdminWorker, AdminStart(w) PROVE UNCHANGED project
          BY <4>7 DEF AdminStart, UpdateMemberRole, DeleteCompanyMember,
             DeleteAdminCompanyMember, CreateAdminCompany, DeleteAdminCompany
        <4>8. ASSUME NEW w \in Worker, MemberStep(w) PROVE p \in Projects'
          BY <4>1, <4>3, <4>4, <4>8 DEF MemberStep, Register, CreateProject, UpdateProject,
             InsertUser
        <4>9. QED
          BY <1>1, <4>1, <4>2, <4>5, <4>6, <4>7, <4>8, NextCases, StatusWritersSet
      <3>2. QED
        BY <3>1
    <2>3. QED
      BY <2>1, <2>2
  <1>6. QED
    BY <1>4, <1>5

\* A company takes along all it had when its deletion began, and a project goes only
\* with its company, for any number of deletions and other requests at once.
THEOREM CompaniesGoWhole == Spec => CompanyGoesWhole
  <1>1. Init => \A w \in Worker : GoesInv(w)
    BY DEF Init, GoesInv, Idle, Deleting
  <1> DEFINE Inv == \A w \in Worker : GoesInv(w)
  <1>2. Init => Inv
    BY <1>1
  <1>3. TypeOK /\ Inv /\ [Next]_vars => Inv'
    BY GoesStep
  <1>4. TypeOK /\ Inv /\ [Next]_vars =>
    [/\ \A w \in Worker :
          At(w, "deleteCompany") /\ At(w, "idle")' /\ Companies' # Companies =>
            req[w].present \cap (Users' \cup Projects') = {}
     /\ \A p \in Projects \ Projects' : project[p].company \in Companies \ Companies']_vars
    BY WholeStep
  <1> HIDE DEF Inv
  <1>5. QED
    BY <1>2, <1>3, <1>4, TypeCorrect, PTL DEF Spec, CompanyGoesWhole
===============================================================================
