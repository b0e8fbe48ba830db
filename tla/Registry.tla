-------------------------------- MODULE Registry --------------------------------
(***************************************************************************)
(* Who and what exists: companies, their users with a role, and projects   *)
(* with a maker, a company and an agency name.  Administrators change      *)
(* roles, remove members and delete companies (companies.go); members      *)
(* register (auth.go), create, rename, reject and revive projects          *)
(* (projects.go).  PostgreSQL contributes the foreign keys, all ON DELETE  *)
(* SET NULL here, the unique index on the names of active projects, and    *)
(* the locks on rows a transaction has deleted but not committed.          *)
(* An active project is one of any status but reject, closed among them.   *)
(* Names of companies, invite codes, profiles, and a company made by       *)
(* POST /companies, which has no invite code, are left out.                *)
(***************************************************************************)
EXTENDS Naturals, FiniteSets

CONSTANTS
  AdminWorker,   \* goroutines that serve administrators ...
  MemberWorker,  \* ... and those that serve members: the same ones in the runs
  User, Company, Project,   \* keys; bound: a key is never used twice
  Name,          \* agency names, equal after LOWER(TRIM())
  Role,          \* roles an administrator hands out
  Founder, Home, \* the seeded administrator and its company
  Features       \* which of "rollback", "removals" (failing removals) are in play

None == "none"

ASSUME NoneAssumption == None \notin User \cup Company \cup Project \cup Name
ASSUME KeysAssumption == User \cap Project = {}
ASSUME SeedAssumption == Founder \in User /\ Home \in Company
ASSUME RoleAssumption == Role \subseteq {"dealer", "support", "admin"}

VARIABLES
  company,  \* companies by state: "none" (not yet), "exists", "gone"
  user,     \* users: state, role, company_id
  project,  \* projects: state, agency_name, created_by, company_id, and who made it
  req       \* what each goroutine is doing

vars == <<company, user, project, req>>

Worker == AdminWorker \cup MemberWorker

NoUser == [state |-> "none", role |-> None, company |-> None]
NoProject == [state |-> "none", name |-> None, owner |-> None, company |-> None, maker |-> None]
Gone(row) == [row EXCEPT !.state = "gone"]
Idle == [step |-> "idle", user |-> None, target |-> None, company |-> None, project |-> None,
         name |-> None, role |-> None, users |-> {}, projects |-> {}, present |-> {}]

Init ==
  /\ company = [c \in Company |-> IF c = Home THEN "exists" ELSE "none"]
  /\ user = [u \in User |->
       IF u = Founder THEN [state |-> "exists", role |-> "admin", company |-> Home] ELSE NoUser]
  /\ project = [p \in Project |-> NoProject]
  /\ req = [w \in Worker |-> Idle]

At(w, step) == req[w].step = step
Finish(w) == req' = [req EXCEPT ![w] = Idle]

Users == {u \in User : user[u].state = "exists"}
Admins == {u \in Users : user[u].role = "admin"}
Companies == {c \in Company : company[c] = "exists"}
Active == {p \in Project : project[p].state = "active"}
Projects == {p \in Project : project[p].state \in {"active", "reject"}}

\* idx_projects_agency_name_active: the name may be given to active project p.
NameFree(n, p) == \A q \in Active \ {p} : project[q].name # n

NoProjectLeft == \A p \in Project : project[p].state # "none"  \* only the bound

\* Rows no open transaction has deleted; who wants to write another one waits,
\* and so does who wants to insert into the unique index next to it.
UserFree(u) == \A w \in Worker : u \notin req[w].users
ProjectFree(p) == \A w \in Worker : p \notin req[w].projects
NameSettled(n) ==
  \A w \in Worker : \A q \in req[w].projects \cap Active : project[q].name # n

-----------------------------------------------------------------------------
\* POST /auth/register: an unknown LINE account and the company of an invite code.
Register(w) ==
  /\ At(w, "idle")
  /\ \E u \in User, c \in Companies :
       /\ user[u].state = "none"
       /\ req' = [req EXCEPT ![w] = [@ EXCEPT !.step = "insertUser", !.user = u, !.company = c]]
  /\ UNCHANGED <<company, user, project>>

\* line_id is unique and the company must still be there.
InsertUser(w) ==
  /\ At(w, "insertUser")
  /\ IF user[req[w].user].state = "none" /\ req[w].company \in Companies
       THEN user' = [user EXCEPT ![req[w].user] =
              [state |-> "exists", role |-> "dealer", company |-> req[w].company]]
       ELSE UNCHANGED user
  /\ Finish(w)
  /\ UNCHANGED <<company, project>>

\* POST /projects: the company of the body or the creator's, and the duplicate check.
CreateProject(w) ==
  /\ At(w, "idle")
  /\ \E u \in Users, n \in Name : \E c \in Companies \cup {user[u].company} :
       /\ NameFree(n, None)
       /\ req' = [req EXCEPT ![w] = [@ EXCEPT !.step = "insertProject", !.user = u,
                                              !.company = c, !.name = n]]
  /\ UNCHANGED <<company, user, project>>

\* The INSERT meets the unique index and the two foreign keys.
NewProjectSwapped(r) == [state |-> "active", name |-> r.company, owner |-> r.user,
                         company |-> r.name, maker |-> r.user]
NewProject(r) == [state |-> "active", name |-> r.name, owner |-> r.user, company |-> r.company,
                  maker |-> r.user]
CanInsert(r) ==
  /\ r.user \in Users
  /\ r.company \in Companies \cup {None}
  /\ NameFree(r.name, None)
InsertProject(w) ==
  /\ At(w, "insertProject")
  /\ UserFree(req[w].user) /\ NameSettled(req[w].name)
  /\ \/ /\ CanInsert(req[w])
        /\ \E p \in Project : project[p].state = "none"
                              /\ project' = [project EXCEPT ![p] = NewProject(req[w])]
     \/ ~CanInsert(req[w]) /\ UNCHANGED project
     \/ NoProjectLeft /\ UNCHANGED project
  /\ Finish(w)
  /\ UNCHANGED <<company, user>>

\* PUT /projects/:id with a new name: a dealer must belong to the project's company
\* or to none, and nobody else may have the name; a user who is gone has a token still.
UpdateProject(w) ==
  /\ At(w, "idle")
  /\ \E u \in User, p \in Projects, n \in Name :
       /\ user[u].state # "none"
       /\ u \in Users /\ user[u].role = "dealer" /\ user[u].company # None =>
            project[p].company = user[u].company
       /\ NameFree(n, p)
       /\ req' = [req EXCEPT ![w] = [@ EXCEPT !.step = "rename", !.project = p, !.name = n]]
  /\ UNCHANGED <<company, user, project>>

RenameProject(w) ==
  LET p == req[w].project IN
  /\ At(w, "rename")
  /\ ProjectFree(p) /\ NameSettled(req[w].name)
  /\ project' = IF p \in Projects /\ (p \in Active => NameFree(req[w].name, p))
                  THEN [project EXCEPT ![p].name = req[w].name] ELSE project
  /\ Finish(w)
  /\ UNCHANGED <<company, user>>

\* One UPDATE sets the status, from the app or from the cron; the inbound patch sets
\* the name with it.  A rejected project comes back only if its name is free.
SetStatusRegardless(p, state, name) ==
  /\ p \in Projects
  /\ ProjectFree(p)
  /\ state = "active" => NameSettled(name)
  /\ project' = [project EXCEPT ![p] = [@ EXCEPT !.state = state, !.name = name]]
  /\ UNCHANGED <<company, user, req>>
SetStatus(p, state, name) ==
  /\ p \in Projects
  /\ ProjectFree(p)
  /\ state = "active" => NameSettled(name) /\ NameFree(name, p)
  /\ project' = [project EXCEPT ![p] = [@ EXCEPT !.state = state, !.name = name]]
  /\ UNCHANGED <<company, user, req>>

RejectProject == \E p \in Active : SetStatus(p, "reject", project[p].name)
ReviveProject == \E p \in Projects \ Active : SetStatus(p, "active", project[p].name)
ApplyLarkInboundPatch ==
  "lark" \in Features /\ \E p \in Project, s \in {"active", "reject"}, n \in Name : SetStatus(p, s, n)

-----------------------------------------------------------------------------
\* PUT /company/members/:id/role: not oneself, and only in one's own company.
UpdateMemberRole(w) ==
  /\ At(w, "idle")
  /\ \E u \in Admins, r \in Role : \E t \in User \ {u} :
       req' = [req EXCEPT ![w] = [@ EXCEPT !.step = "setRole", !.user = u, !.target = t,
                                           !.company = user[u].company, !.role = r]]
  /\ UNCHANGED <<company, user, project>>

SetRole(w) ==
  LET t == req[w].target IN
  /\ At(w, "setRole")
  /\ UserFree(t)
  /\ user' = IF t \in Users /\ user[t].company = req[w].company /\ req[w].company # None
               THEN [user EXCEPT ![t].role = req[w].role] ELSE user
  /\ Finish(w)
  /\ UNCHANGED <<company, project>>

\* DELETE of a member of one's own company ...
DeleteCompanyMember(w) ==
  /\ At(w, "idle")
  /\ \E u \in Admins : \E t \in User \ {u} :
       /\ user[u].company # None
       /\ req' = [req EXCEPT ![w] = [@ EXCEPT !.step = "findMember", !.user = u, !.target = t,
                                              !.company = user[u].company]]
  /\ UNCHANGED <<company, user, project>>

\* ... or of the company named in the path.
DeleteAdminCompanyMember(w) ==
  /\ At(w, "idle")
  /\ \E u \in Admins, c \in Company : \E t \in User \ {u} :
       req' = [req EXCEPT ![w] = [@ EXCEPT !.step = "findMember", !.user = u, !.target = t,
                                           !.company = c]]
  /\ UNCHANGED <<company, user, project>>

Disown(owners) ==
  [p \in Project |-> IF project[p].owner \in owners THEN [project[p] EXCEPT !.owner = None]
                     ELSE project[p]]

DisownThenFind(w) ==
  /\ At(w, "findMember")
  /\ IF req[w].target \in Users /\ user[req[w].target].company = req[w].company
       THEN req' = [req EXCEPT ![w].step = "disown"] ELSE Finish(w)
  /\ project' = Disown({req[w].target})
  /\ UNCHANGED <<company, user>>
FindMember(w) ==
  /\ At(w, "findMember")
  /\ IF req[w].target \in Users /\ user[req[w].target].company = req[w].company
       THEN req' = [req EXCEPT ![w].step = "disown"] ELSE Finish(w)
  /\ UNCHANGED <<company, user, project>>

\* created_by = NULL in a statement of its own, whose error is ignored; the same
\* for appointments, documents and log lines.
DisownProjects(w) ==
  /\ At(w, "disown")
  /\ \A p \in Projects : project[p].owner = req[w].target => ProjectFree(p)
  /\ \/ project' = Disown({req[w].target})
     \/ "removals" \in Features /\ UNCHANGED project
  /\ req' = [req EXCEPT ![w].step = "deleteUser"]
  /\ UNCHANGED <<company, user>>

DeleteUserOnly(w) ==
  /\ At(w, "deleteUser")
  /\ UserFree(req[w].target)
  /\ user' = IF req[w].target \in Users THEN [user EXCEPT ![req[w].target] = Gone(NoUser)]
             ELSE user
  /\ Finish(w)
  /\ UNCHANGED <<company, project>>
DeleteUser(w) ==
  /\ At(w, "deleteUser")
  /\ UserFree(req[w].target)
  /\ \A p \in Projects : project[p].owner = req[w].target => ProjectFree(p)
  /\ user' = IF req[w].target \in Users THEN [user EXCEPT ![req[w].target] = Gone(NoUser)]
             ELSE user
  /\ project' = Disown({req[w].target})
  /\ Finish(w)
  /\ UNCHANGED company

-----------------------------------------------------------------------------
CreateAdminCompany(w) ==
  /\ At(w, "idle")
  /\ Admins # {}
  /\ \E c \in Company : company[c] = "none" /\ company' = [company EXCEPT ![c] = "exists"]
  /\ UNCHANGED <<user, project, req>>

\* DELETE /admin/companies/:id: not one's own, and then a transaction.
UsersOf(c) == {u \in Users : user[u].company = c}
ProjectsOf(c) == {p \in Projects : project[p].company = c}
DeleteAdminCompany(w) ==
  /\ At(w, "idle")
  /\ \E u \in Admins : \E c \in Companies \ {user[u].company} :
       req' = [req EXCEPT ![w] = [@ EXCEPT !.step = "deleteProjects", !.user = u, !.company = c,
                                           !.present = UsersOf(c) \cup ProjectsOf(c)]]
  /\ UNCHANGED <<company, user, project>>

\* Rows are locked as they are deleted; others see them until the commit.
DeleteProjects(w) ==
  /\ At(w, "deleteProjects")
  /\ \A p \in ProjectsOf(req[w].company) : ProjectFree(p)
  /\ req' = [req EXCEPT ![w] = [@ EXCEPT !.step = "deleteUsers",
                                         !.projects = ProjectsOf(req[w].company)]]
  /\ UNCHANGED <<company, user, project>>

SkipUsers(w) ==
  /\ At(w, "deleteUsers")
  /\ req' = [req EXCEPT ![w].step = "deleteCompany"]
  /\ UNCHANGED <<company, user, project>>
DeleteUsers(w) ==
  /\ At(w, "deleteUsers")
  /\ \A u \in UsersOf(req[w].company) :
       /\ UserFree(u)
       /\ \A p \in Projects \ req[w].projects : project[p].owner = u => ProjectFree(p)
  /\ req' = [req EXCEPT ![w] = [@ EXCEPT !.step = "deleteCompany",
                                         !.users = UsersOf(req[w].company)]]
  /\ UNCHANGED <<company, user, project>>

\* The last DELETE and the commit: what the statements found is gone, and the
\* foreign keys clear company_id and created_by of what they did not find.
DeleteCompany(w) ==
  LET r == req[w] IN
  /\ At(w, "deleteCompany")
  /\ \A u \in UsersOf(r.company) \ r.users : UserFree(u)
  /\ \A p \in ProjectsOf(r.company) \ r.projects : ProjectFree(p)
  /\ IF r.company \in Companies
       THEN /\ company' = [company EXCEPT ![r.company] = "gone"]
            /\ user' = [u \in User |->
                 IF u \in r.users THEN Gone(NoUser)
                 ELSE IF user[u].company = r.company THEN [user[u] EXCEPT !.company = None]
                 ELSE user[u]]
            /\ project' = [p \in Project |->
                 IF p \in r.projects THEN Gone(NoProject)
                 ELSE [project[p] EXCEPT
                        !.company = IF @ = r.company THEN None ELSE @,
                        !.owner = IF @ \in r.users THEN None ELSE @]]
       ELSE UNCHANGED <<company, user, project>>
  /\ Finish(w)

\* A statement fails or the process ends: a transaction is rolled back, a removal
\* stays where it is.
Fault(w) ==
  /\ ~At(w, "idle")
  /\ \/ "rollback" \in Features /\ ~At(w, "deleteUser")
     \/ "removals" \in Features
  /\ Finish(w)
  /\ UNCHANGED <<company, user, project>>

Next ==
  \/ RejectProject \/ ReviveProject \/ ApplyLarkInboundPatch
  \/ \E w \in MemberWorker : Register(w) \/ CreateProject(w) \/ UpdateProject(w)
  \/ \E w \in AdminWorker :
       \/ UpdateMemberRole(w) \/ DeleteCompanyMember(w) \/ DeleteAdminCompanyMember(w)
       \/ CreateAdminCompany(w) \/ DeleteAdminCompany(w)
  \/ \E w \in Worker :
       \/ InsertUser(w) \/ InsertProject(w) \/ RenameProject(w) \/ SetRole(w)
       \/ FindMember(w) \/ DisownProjects(w) \/ DeleteUser(w)
       \/ DeleteProjects(w) \/ DeleteUsers(w) \/ DeleteCompany(w) \/ Fault(w)

Spec == Init /\ [][Next]_vars

-----------------------------------------------------------------------------
UserRow == [state : {"none", "exists", "gone"},
            role : {None, "dealer", "support", "admin"},
            company : Company \cup {None}]
ProjectRow == [state : {"none", "active", "reject", "gone"},
               name : Name \cup {None}, owner : User \cup {None},
               company : Company \cup {None}, maker : User \cup {None}]
Step == {"idle", "insertUser", "insertProject", "rename", "setRole", "findMember", "disown",
         "deleteUser", "deleteProjects", "deleteUsers", "deleteCompany"}
Request == [step : Step, user : User \cup {None}, target : User \cup {None},
            company : Company \cup {None}, project : Project \cup {None},
            name : Name \cup {None}, role : Role \cup {None},
            users : SUBSET User, projects : SUBSET Project, present : SUBSET (User \cup Project)]

\* Each statement has the arguments it writes.
ArgsOK(r) ==
  /\ r.step = "insertUser" => r.user \in User /\ r.company \in Company
  /\ r.step = "insertProject" => r.user \in User /\ r.name \in Name
  /\ r.step = "rename" => r.project \in Project /\ r.name \in Name
  /\ r.step = "setRole" => r.target \in User /\ r.role \in Role
  /\ r.step \in {"findMember", "disown", "deleteUser"} => r.target \in User
  /\ r.step \in {"deleteProjects", "deleteUsers", "deleteCompany"} => r.company \in Company

TypeOK ==
  /\ company \in [Company -> {"none", "exists", "gone"}]
  /\ user \in [User -> UserRow]
  /\ project \in [Project -> ProjectRow]
  /\ req \in [Worker -> Request]
  /\ \A w \in Worker : ArgsOK(req[w])

\* The service never runs out of administrators, although each may demote, remove
\* or delete the company of the others ("not self", companies.go:408, 478, 536):
\* not so when two of them do it at once (Registry_two_admins.cfg).
AdminRemains == Admins # {}

\* Two active projects never have the same agency name (projects.go:117), whatever
\* creations, renamings, revivals and inbound patches overlap.
OneActivePerName ==
  \A p, q \in Active : p # q => project[p].name # project[q].name

\* What a row refers to exists: a user's company, a project's company and its owner.
ReferencesExist ==
  /\ \A u \in Users : user[u].company \in Companies \cup {None}
  /\ \A p \in Projects : /\ project[p].company \in Companies \cup {None}
                         /\ project[p].owner \in Users \cup {None}

\* A project is without owner only because its maker is gone, or is about to be.
OwnerLostOnlyWithUser ==
  \A p \in Projects :
    project[p].owner = None =>
      \/ user[project[p].maker].state = "gone"
      \/ \E w \in Worker : At(w, "deleteUser") /\ req[w].target = project[p].maker

\* A company goes with every user and project it had when its deletion began
\* ("a dealer company and all related data", companies.go:536), and a project goes
\* only with its company.
CompanyGoesWhole ==
  [][/\ \A w \in Worker :
          At(w, "deleteCompany") /\ At(w, "idle")' /\ Companies' # Companies =>
            req[w].present \cap (Users' \cup Projects') = {}
     /\ \A p \in Projects \ Projects' : project[p].company \in Companies \ Companies']_vars

\* The same of what it has when it goes.
NothingOutlivesCompany ==
  [][\A c \in Companies \ Companies' :
       (UsersOf(c) \cup ProjectsOf(c)) \cap (Users' \cup Projects') = {}]_vars
=============================================================================
