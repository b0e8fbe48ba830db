-------------------------- MODULE EmailVerification --------------------------
(***************************************************************************)
(* The one-time codes of one user.  SendEmailOTP stores the new address    *)
(* and a code in a transaction that it keeps open while the SMTP server    *)
(* takes the mail; VerifyEmailOTP reads the newest unused code of an       *)
(* address and, in other statements, counts a wrong answer or confirms the *)
(* address.  Code k is the one of the k-th transaction to begin, which is  *)
(* the order of created_at.                                                *)
(***************************************************************************)
EXTENDS Integers, FiniteSets

CONSTANTS
  Worker,       \* goroutines serving this user's requests
  Email,        \* addresses the user enters
  MaxSends,     \* bound: codes made in this instance
  MaxAttempts,  \* wrong answers a code takes (5 in the code)
  Features      \* which of "line" (LINE logins), "faults" are in play

None == "none"

ASSUME MaxSendsAssumption == MaxSends \in Nat
ASSUME MaxAttemptsAssumption == MaxAttempts \in Nat \ {0}
ASSUME NoneAssumption == None \notin Worker \cup Email
ASSUME WorkerAssumption == IsFiniteSet(Worker)

VARIABLES
  user,    \* users.email, and whether email_verified_at is set
  begun,   \* send transactions begun so far
  row,     \* email_verifications: the committed codes
  age,     \* how far the time since a code was made has run
  lock,    \* the send transaction that has updated the user's row
  inbox,   \* the code mailed last to each address, 0 for none
  req      \* what each worker is doing

vars == <<user, begun, row, age, lock, inbox, req>>

Code == 1..MaxSends
Request == [step : {"idle", "begin", "update", "mail", "commit", "count", "confirm"},
            email : Email \cup {None}, code : Code \cup {0}]
Idle == [step |-> "idle", email |-> None, code |-> 0]
NoRow == [email |-> None, attempts |-> 0, verified |-> FALSE]

\* Register stores an unverified address, or none.
Init ==
  /\ user \in [email : Email \cup {None}, verified : {FALSE}]
  /\ begun = 0
  /\ row = [k \in Code |-> NoRow]
  /\ age = [k \in Code |-> "fresh"]
  /\ lock = None
  /\ inbox = [e \in Email |-> 0]
  /\ req = [w \in Worker |-> Idle]

At(w, step) == req[w].step = step
Become(w, step) == req' = [req EXCEPT ![w].step = step]
Finish(w) == req' = [req EXCEPT ![w] = Idle]

Unused(e) == {k \in Code : row[k].email = e /\ ~row[k].verified}

\* ORDER BY created_at DESC LIMIT 1
IsOldest(k, e) == k \in Unused(e) /\ \A j \in Unused(e) : j >= k
IsNewest(k, e) == k \in Unused(e) /\ \A j \in Unused(e) : j <= k

-----------------------------------------------------------------------------
\* SendEmailOTP: the resend window is read outside the transaction.
SendCheck(w) ==
  /\ At(w, "idle")
  /\ \E e \in Email :
       /\ \A k \in Code : IsNewest(k, e) => age[k] # "fresh"
       /\ req' = [req EXCEPT ![w] = [@ EXCEPT !.step = "begin", !.email = e]]
  /\ UNCHANGED <<user, begun, row, age, lock, inbox>>

BeginSend(w) ==
  /\ At(w, "begin")
  /\ begun < MaxSends
  /\ begun' = begun + 1
  /\ req' = [req EXCEPT ![w] = [@ EXCEPT !.step = "update", !.code = begun + 1]]
  /\ UNCHANGED <<user, row, age, lock, inbox>>

\* UPDATE users waits for another transaction's update; INSERT follows at once.
UpdateUser(w) ==
  /\ At(w, "update")
  /\ lock = None
  /\ lock' = w
  /\ Become(w, "mail")
  /\ UNCHANGED <<user, begun, row, age, inbox>>

MailCode(w) ==
  /\ At(w, "mail")
  /\ inbox' = [inbox EXCEPT ![req[w].email] = req[w].code]
  /\ Become(w, "commit")
  /\ UNCHANGED <<user, begun, row, age, lock>>

\* 502 and the deferred Rollback.
ReturnWithoutRollback(w) ==
  /\ At(w, "mail")
  /\ Finish(w)
  /\ UNCHANGED <<user, begun, row, age, lock, inbox>>
MailFails(w) ==
  /\ At(w, "mail")
  /\ lock' = None
  /\ Finish(w)
  /\ UNCHANGED <<user, begun, row, age, inbox>>

CommitKeepingVerified(w) ==
  /\ At(w, "commit")
  /\ user' = [user EXCEPT !.email = req[w].email]
  /\ row' = [row EXCEPT ![req[w].code] = [NoRow EXCEPT !.email = req[w].email]]
  /\ lock' = None
  /\ Finish(w)
  /\ UNCHANGED <<begun, age, inbox>>
CommitSend(w) ==
  /\ At(w, "commit")
  /\ user' = [email |-> req[w].email, verified |-> FALSE]
  /\ row' = [row EXCEPT ![req[w].code] = [NoRow EXCEPT !.email = req[w].email]]
  /\ lock' = None
  /\ Finish(w)
  /\ UNCHANGED <<begun, age, inbox>>

-----------------------------------------------------------------------------
\* VerifyEmailOTP with the code of the row it reads, or with any other.
VerifyWithoutLimit(w) ==
  /\ At(w, "idle")
  /\ \E e \in Email, k \in Code, step \in {"count", "confirm"} :
       /\ IsNewest(k, e)
       /\ age[k] # "expired"
       /\ req' = [req EXCEPT ![w] = [step |-> step, email |-> e, code |-> k]]
  /\ UNCHANGED <<user, begun, row, age, lock, inbox>>
VerifyRead(w) ==
  /\ At(w, "idle")
  /\ \E e \in Email, k \in Code, step \in {"count", "confirm"} :
       /\ IsNewest(k, e)
       /\ row[k].attempts < MaxAttempts
       /\ age[k] # "expired"
       /\ req' = [req EXCEPT ![w] = [step |-> step, email |-> e, code |-> k]]
  /\ UNCHANGED <<user, begun, row, age, lock, inbox>>

CountDown(w) ==
  /\ At(w, "count")
  /\ row' = [row EXCEPT ![req[w].code].attempts = @ - 1]
  /\ Finish(w)
  /\ UNCHANGED <<user, begun, age, lock, inbox>>
CountAttempt(w) ==
  /\ At(w, "count")
  /\ row' = [row EXCEPT ![req[w].code].attempts = @ + 1]
  /\ Finish(w)
  /\ UNCHANGED <<user, begun, age, lock, inbox>>

\* One transaction; its update of users waits for a send in progress.
Confirm(w) ==
  /\ At(w, "confirm")
  /\ lock = None
  /\ row' = [row EXCEPT ![req[w].code].verified = TRUE]
  /\ user' = [email |-> req[w].email, verified |-> TRUE]
  /\ Finish(w)
  /\ UNCHANGED <<begun, age, lock, inbox>>

-----------------------------------------------------------------------------
\* LineLogin stores the address the LINE client reports, if it reports one.
LineLogin ==
  /\ "line" \in Features
  /\ lock = None
  /\ \E e \in Email : user' = [user EXCEPT !.email = e]
  /\ UNCHANGED <<begun, row, age, lock, inbox, req>>

\* 60 seconds, then 10 minutes, from the making of the code.
TimePasses ==
  /\ \E k \in 1..begun :
       \/ age[k] = "fresh" /\ age' = [age EXCEPT ![k] = "resendable"]
       \/ age[k] = "resendable" /\ age' = [age EXCEPT ![k] = "expired"]
  /\ UNCHANGED <<user, begun, row, lock, inbox, req>>

\* A statement fails or the process dies; the database rolls back.
Fault(w) ==
  /\ "faults" \in Features
  /\ ~At(w, "idle")
  /\ lock' = IF lock = w THEN None ELSE lock
  /\ Finish(w)
  /\ UNCHANGED <<user, begun, row, age, inbox>>

\* The bound on codes only: a request that can begin no transaction is dropped.
NoCodeLeft(w) ==
  /\ At(w, "begin")
  /\ begun = MaxSends
  /\ Finish(w)
  /\ UNCHANGED <<user, begun, row, age, lock, inbox>>

Continue(w) ==
  \/ BeginSend(w) \/ NoCodeLeft(w) \/ UpdateUser(w) \/ MailCode(w) \/ MailFails(w)
  \/ CommitSend(w) \/ CountAttempt(w) \/ Confirm(w)

Next ==
  \/ LineLogin \/ TimePasses
  \/ \E w \in Worker : SendCheck(w) \/ VerifyRead(w) \/ Continue(w) \/ Fault(w)

Spec == Init /\ [][Next]_vars

\* Requests are served to their end, the mail server answers, and PostgreSQL
\* queues the waiters of a row lock.
FairSpec ==
  /\ Spec
  /\ \A w \in Worker : WF_vars(Continue(w)) /\ SF_vars(UpdateUser(w)) /\ SF_vars(Confirm(w))

-----------------------------------------------------------------------------
TypeOK ==
  /\ user \in [email : Email \cup {None}, verified : BOOLEAN]
  /\ begun \in 0..MaxSends
  /\ row \in [Code -> [email : Email \cup {None}, attempts : Nat, verified : BOOLEAN]]
  /\ age \in [Code -> {"fresh", "resendable", "expired"}]
  /\ lock \in Worker \cup {None}
  /\ inbox \in [Email -> Code \cup {0}]
  /\ req \in [Worker -> Request]

\* The guard of the API lets a user in by email_verified_at alone, so a set
\* email_verified_at must mean that the present address was confirmed
\* ("Email changes must go through OTP flow", users.go:85).
VerifiedMeansConfirmed ==
  user.verified => \E k \in Code : row[k].email = user.email /\ row[k].verified

\* A code counts at most one wrong answer per request that read it below the
\* limit: concurrent answers overshoot the limit by their number less one.
AttemptsBounded ==
  \A k \in Code : row[k].attempts <= MaxAttempts + Cardinality(Worker) - 1

\* Once a send is answered, the code in the user's newest mail is the one that
\* a verification of its address is compared with, until it has been used.
LatestMailVerifies ==
  (\A w \in Worker : At(w, "idle")) =>
    \A e \in Email : inbox[e] # 0 /\ ~row[inbox[e]].verified => IsNewest(inbox[e], e)

\* Every request is answered: a send that cannot mail gives the user's row back.
EveryRequestEnds == \A w \in Worker : []<>At(w, "idle")
=============================================================================
