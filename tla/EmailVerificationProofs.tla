---------------------- MODULE EmailVerificationProofs ----------------------
(***************************************************************************)
(* Proofs about EmailVerification for any number of requests, addresses    *)
(* and codes: the type invariant, that a verified address was confirmed    *)
(* (without LINE logins), and the bound on wrong answers.                  *)
(***************************************************************************)
EXTENDS EmailVerification, FiniteSetTheorems, TLAPS

Sending(w) == req[w].step \in {"update", "mail", "commit"}
Answering(w) == req[w].step \in {"count", "confirm"}

\* What a request in progress carries.
ReqOK ==
  \A w \in Worker :
    /\ At(w, "begin") \/ Sending(w) \/ Answering(w) => req[w].email \in Email
    /\ Sending(w) \/ Answering(w) => req[w].code \in Code

TypeInv == TypeOK /\ ReqOK

-----------------------------------------------------------------------------
LEMMA InitTypeInv == Init => TypeInv
<1> SUFFICES ASSUME Init PROVE TypeInv
  OBVIOUS
<1>1. NoRow \in [email : Email \cup {None}, attempts : Nat, verified : BOOLEAN]
  BY DEF NoRow
<1>2. Idle \in Request
  BY DEF Idle, Request
<1>3. row \in [Code -> [email : Email \cup {None}, attempts : Nat, verified : BOOLEAN]]
  BY <1>1 DEF Init
<1>4. req \in [Worker -> Request]
  BY <1>2 DEF Init
<1>5. user \in [email : Email \cup {None}, verified : BOOLEAN]
  BY DEF Init
<1>6. /\ begun \in 0..MaxSends
      /\ age \in [Code -> {"fresh", "resendable", "expired"}]
      /\ lock \in Worker \cup {None}
      /\ inbox \in [Email -> Code \cup {0}]
  BY MaxSendsAssumption DEF Init
<1>7. ReqOK
  BY DEF Init, ReqOK, Idle, At, Sending, Answering
<1>8. QED
  BY <1>3, <1>4, <1>5, <1>6, <1>7 DEF TypeInv, TypeOK

Row == [email : Email \cup {None}, attempts : Nat, verified : BOOLEAN]

\* The two updates of a code's row keep its type.
LEMMA RowUpdates ==
  ASSUME NEW r \in Row
  PROVE /\ [r EXCEPT !.attempts = @ + 1] \in Row
        /\ [r EXCEPT !.verified = TRUE] \in Row
<1>1. /\ r.email \in Email \cup {None} /\ r.attempts \in Nat /\ r.verified \in BOOLEAN
      /\ r = [email |-> r.email, attempts |-> r.attempts, verified |-> r.verified]
  BY DEF Row
<1>2. r.attempts + 1 \in Nat
  BY <1>1
<1>3. [r EXCEPT !.attempts = @ + 1]
        = [email |-> r.email, attempts |-> r.attempts + 1, verified |-> r.verified]
  BY <1>1
<1>4. [r EXCEPT !.verified = TRUE] \in Row
  BY DEF Row
<1>5. QED
  BY <1>1, <1>2, <1>3, <1>4 DEF Row

LEMMA StepTypeInv == TypeInv /\ [Next]_vars => TypeInv'
<1> SUFFICES ASSUME TypeInv, [Next]_vars PROVE TypeInv'
  OBVIOUS
<1> USE MaxSendsAssumption DEF TypeInv, TypeOK, ReqOK, Request, Idle, NoRow, Code,
        At, Become, Finish, Sending, Answering
<1>1. CASE LineLogin
  BY <1>1 DEF LineLogin
<1>2. CASE TimePasses
  BY <1>2 DEF TimePasses
<1>3. ASSUME NEW w \in Worker, SendCheck(w) PROVE TypeInv'
  <2>1. PICK e \in Email : req' = [req EXCEPT ![w] = [@ EXCEPT !.step = "begin", !.email = e]]
    BY <1>3 DEF SendCheck
  <2>2. req[w] \in Request
    OBVIOUS
  <2>3. [req[w] EXCEPT !.step = "begin", !.email = e] \in Request
    BY <2>2
  <2>4. req' \in [Worker -> Request]
    BY <2>1, <2>3
  <2>5. ReqOK'
    BY <2>1
  <2>6. QED
    BY <1>3, <2>4, <2>5 DEF SendCheck
<1>4. ASSUME NEW w \in Worker, VerifyRead(w) PROVE TypeInv'
  BY <1>4 DEF VerifyRead
<1>5. ASSUME NEW w \in Worker, BeginSend(w) PROVE TypeInv'
  <2>1. begun + 1 \in 1..MaxSends
    BY <1>5 DEF BeginSend
  <2>2. req[w] \in Request
    OBVIOUS
  <2>3. [req[w] EXCEPT !.step = "update", !.code = begun + 1] \in Request
    BY <2>1, <2>2
  <2>4. req' \in [Worker -> Request]
    BY <1>5, <2>3 DEF BeginSend
  <2>5. ReqOK'
    BY <1>5, <2>1 DEF BeginSend
  <2>6. QED
    BY <1>5, <2>1, <2>4, <2>5 DEF BeginSend
<1>6. ASSUME NEW w \in Worker, NoCodeLeft(w) PROVE TypeInv'
  BY <1>6 DEF NoCodeLeft
<1>7. ASSUME NEW w \in Worker, UpdateUser(w) PROVE TypeInv'
  BY <1>7 DEF UpdateUser
<1>8. ASSUME NEW w \in Worker, MailCode(w) PROVE TypeInv'
  BY <1>8 DEF MailCode
<1>9. ASSUME NEW w \in Worker, MailFails(w) PROVE TypeInv'
  BY <1>9 DEF MailFails
<1>10. ASSUME NEW w \in Worker, CommitSend(w) PROVE TypeInv'
  BY <1>10 DEF CommitSend
<1>11. ASSUME NEW w \in Worker, CountAttempt(w) PROVE TypeInv'
  <2>1. req[w].code \in Code
    BY <1>11 DEF CountAttempt
  <2>2. row[req[w].code] \in Row
    BY <2>1 DEF Row
  <2>3. [row[req[w].code] EXCEPT !.attempts = @ + 1] \in Row
    BY ONLY <2>2, RowUpdates
  <2>4. row' = [row EXCEPT ![req[w].code] = [row[req[w].code] EXCEPT !.attempts = @ + 1]]
    BY <1>11, <2>1 DEF CountAttempt
  <2>5. row' \in [Code -> [email : Email \cup {None}, attempts : Nat, verified : BOOLEAN]]
    BY <2>3, <2>4 DEF Row
  <2>6. req' \in [Worker -> Request] /\ ReqOK'
    BY <1>11 DEF CountAttempt
  <2>7. QED
    BY <1>11, <2>5, <2>6 DEF CountAttempt
<1>12. ASSUME NEW w \in Worker, Confirm(w) PROVE TypeInv'
  <2>1. req[w].code \in Code /\ req[w].email \in Email
    BY <1>12 DEF Confirm
  <2>2. row[req[w].code] \in Row
    BY <2>1 DEF Row
  <2>3. [row[req[w].code] EXCEPT !.verified = TRUE] \in Row
    BY ONLY <2>2, RowUpdates
  <2>4. row' = [row EXCEPT ![req[w].code] = [row[req[w].code] EXCEPT !.verified = TRUE]]
    BY <1>12, <2>1 DEF Confirm
  <2>5. row' \in [Code -> [email : Email \cup {None}, attempts : Nat, verified : BOOLEAN]]
    BY <2>3, <2>4 DEF Row
  <2>6. req' \in [Worker -> Request] /\ ReqOK'
    BY <1>12 DEF Confirm
  <2>7. user' \in [email : Email \cup {None}, verified : BOOLEAN]
    BY <1>12, <2>1 DEF Confirm
  <2>8. QED
    BY <1>12, <2>5, <2>6, <2>7 DEF Confirm
<1>13. ASSUME NEW w \in Worker, Fault(w) PROVE TypeInv'
  BY <1>13 DEF Fault
<1>14. CASE UNCHANGED vars
  BY <1>14 DEF vars
<1>15. QED
  BY <1>1, <1>2, <1>3, <1>4, <1>5, <1>6, <1>7, <1>8, <1>9, <1>10, <1>11, <1>12, <1>13, <1>14
  DEF Next, Continue

\* Every variable keeps its type: attempts are never negative, the lock is a
\* worker's, a request carries the address and the code its next statement needs
\* (the queries of auth_email.go).
THEOREM TypeCorrect == Spec => [](TypeOK /\ ReqOK)
  BY InitTypeInv, StepTypeInv, PTL DEF Spec, TypeInv

-----------------------------------------------------------------------------
\* A send owns a code with no committed row, its own; the row an answer has
\* read is still there, of the address the answer names.
CodesOwned ==
  /\ \A k \in Code : k > begun => row[k].email = None
  /\ \A w \in Worker : Sending(w) => req[w].code <= begun /\ row[req[w].code].email = None
  /\ \A v, w \in Worker :
       v # w /\ Sending(v) /\ Sending(w) => req[v].code # req[w].code
  /\ \A w \in Worker : Answering(w) => row[req[w].code].email = req[w].email

ConfirmInv == CodesOwned /\ VerifiedMeansConfirmed

LEMMA InitConfirmInv == Init => ConfirmInv
<1> SUFFICES ASSUME Init PROVE ConfirmInv
  OBVIOUS
<1>1. \A w \in Worker : ~Sending(w) /\ ~Answering(w)
  BY DEF Init, Idle, Sending, Answering
<1>2. \A k \in Code : row[k].email = None
  BY DEF Init, NoRow
<1>3. user.verified = FALSE
  BY DEF Init
<1>4. QED
  BY <1>1, <1>2, <1>3 DEF ConfirmInv, CodesOwned, VerifiedMeansConfirmed

\* A step that starts no request's new phase, and writes no code, user or count.
LEMMA RequestsShrink ==
  ASSUME TypeInv, ConfirmInv, UNCHANGED <<user, row>>, begun' = begun,
         \A w \in Worker : /\ Sending(w)' => Sending(w)
                           /\ Answering(w)' => Answering(w)
                           /\ (Sending(w) \/ Answering(w))' =>
                                req'[w].code = req[w].code /\ req'[w].email = req[w].email
  PROVE ConfirmInv'
  BY DEF ConfirmInv, CodesOwned, VerifiedMeansConfirmed, Sending, Answering, TypeInv, TypeOK, Request

\* So is a step of one worker that ends its request and keeps the codes' addresses
\* and confirmations.
LEMMA RowsKept ==
  ASSUME TypeInv, ConfirmInv, NEW w \in Worker, Finish(w), begun' = begun,
         \A k \in Code : row'[k].email = row[k].email /\ (row[k].verified => row'[k].verified)
  PROVE /\ CodesOwned'
        /\ user' = user => VerifiedMeansConfirmed'
<1>1. \A v \in Worker : v # w => req'[v] = req[v]
  BY DEF Finish, TypeInv, TypeOK
<1>2. ~Sending(w)' /\ ~Answering(w)'
  BY DEF Finish, TypeInv, TypeOK, Sending, Answering, Idle
<1>3. \A v \in Worker : Sending(v) \/ Answering(v) => req[v].code \in Code
  BY DEF TypeInv, ReqOK
<1>4. CodesOwned'
  <2>1. \A k \in Code : k > begun' => row'[k].email = None
    BY DEF ConfirmInv, CodesOwned
  <2>2. \A v \in Worker : Sending(v)' => v # w /\ Sending(v) /\ req'[v] = req[v]
    BY <1>1, <1>2 DEF Sending
  <2>3. \A v \in Worker : Answering(v)' => v # w /\ Answering(v) /\ req'[v] = req[v]
    BY <1>1, <1>2 DEF Answering
  <2>4. \A v \in Worker : Sending(v)' => req'[v].code <= begun' /\ row'[req'[v].code].email = None
    BY <2>2, <1>3 DEF ConfirmInv, CodesOwned
  <2>5. \A u, v \in Worker :
          u # v /\ Sending(u)' /\ Sending(v)' => req'[u].code # req'[v].code
    BY <2>2 DEF ConfirmInv, CodesOwned
  <2>6. \A v \in Worker : Answering(v)' => row'[req'[v].code].email = req'[v].email
    BY <2>3, <1>3 DEF ConfirmInv, CodesOwned
  <2>7. QED
    BY <2>1, <2>4, <2>5, <2>6 DEF CodesOwned
<1>5. user' = user => VerifiedMeansConfirmed'
  BY DEF ConfirmInv, VerifiedMeansConfirmed
<1>6. QED
  BY <1>4, <1>5

LEMMA StepConfirmInv ==
  ASSUME "line" \notin Features, TypeInv, ConfirmInv, [Next]_vars
  PROVE ConfirmInv'
<1>1. ~LineLogin
  BY DEF LineLogin
<1>2. CASE TimePasses
  BY <1>2, RequestsShrink DEF TimePasses, Sending, Answering
<1>3. ASSUME NEW w \in Worker, SendCheck(w) PROVE ConfirmInv'
  <2>1. PICK e \in Email : req' = [req EXCEPT ![w] = [@ EXCEPT !.step = "begin", !.email = e]]
    BY <1>3 DEF SendCheck
  <2>2. req \in [Worker -> Request] /\ req[w] \in Request
    BY DEF TypeInv, TypeOK
  <2>3. req'[w].step = "begin"
    BY <2>1, <2>2 DEF Request
  <2>4. ~Sending(w)' /\ ~Answering(w)'
    BY <2>3 DEF Sending, Answering
  <2>5. \A v \in Worker : v # w => req'[v] = req[v]
    BY <2>1, <2>2
  <2>6. UNCHANGED <<user, row>> /\ begun' = begun
    BY <1>3 DEF SendCheck
  <2>7. QED
    BY <2>4, <2>5, <2>6, RequestsShrink DEF Sending, Answering
<1>4. ASSUME NEW w \in Worker, VerifyRead(w) PROVE ConfirmInv'
  <2>1. PICK e \in Email, k \in Code, step \in {"count", "confirm"} :
          /\ IsNewest(k, e)
          /\ req' = [req EXCEPT ![w] = [step |-> step, email |-> e, code |-> k]]
    BY <1>4 DEF VerifyRead
  <2>2. row[k].email = e
    BY <2>1 DEF IsNewest, Unused
  <2>3. UNCHANGED <<user, row>> /\ begun' = begun
    BY <1>4 DEF VerifyRead
  <2>4. req'[w] = [step |-> step, email |-> e, code |-> k]
    BY <2>1 DEF TypeInv, TypeOK
  <2>5. \A v \in Worker : v # w => req'[v] = req[v]
    BY <2>1 DEF TypeInv, TypeOK
  <2>6. ~Sending(w)' /\ row'[req'[w].code].email = req'[w].email
    BY <2>2, <2>3, <2>4 DEF Sending
  <2>7. CodesOwned'
    BY <2>3, <2>5, <2>6 DEF ConfirmInv, CodesOwned, Sending, Answering
  <2>8. QED
    BY <2>3, <2>7 DEF ConfirmInv, VerifiedMeansConfirmed
<1>5. ASSUME NEW w \in Worker, BeginSend(w) PROVE ConfirmInv'
  <2>1. begun + 1 \in Code /\ begun' = begun + 1 /\ begun \in Nat
    BY <1>5, MaxSendsAssumption DEF BeginSend, Code, TypeInv, TypeOK
  <2>2. req \in [Worker -> Request] /\ req[w] \in Request
    BY DEF TypeInv, TypeOK
  <2>3. req'[w].step = "update" /\ req'[w].code = begun + 1
    BY <1>5, <2>2 DEF BeginSend, Request
  <2>4. \A v \in Worker : v # w => req'[v] = req[v]
    BY <1>5, <2>2 DEF BeginSend
  <2>5. UNCHANGED <<user, row>>
    BY <1>5 DEF BeginSend
  <2>6. ~Answering(w)' /\ row'[req'[w].code].email = None
    BY <2>1, <2>3, <2>5 DEF Answering, ConfirmInv, CodesOwned
  <2>7. \A v \in Worker : v # w /\ Sending(v)' =>
          /\ Sending(v) /\ req'[v].code = req[v].code
          /\ req[v].code \in Code /\ req[v].code <= begun
    BY <2>4 DEF Sending, ConfirmInv, CodesOwned, TypeInv, ReqOK
  <2>8. \A v \in Worker : Answering(v)' => v # w /\ Answering(v) /\ req'[v] = req[v]
    BY <2>4, <2>6 DEF Answering
  <2>9. \A k \in Code : k > begun' => row'[k].email = None
    BY <2>1, <2>5 DEF ConfirmInv, CodesOwned, Code
  <2>10. \A v \in Worker : Sending(v)' =>
           req'[v].code <= begun' /\ row'[req'[v].code].email = None
    BY <2>1, <2>3, <2>5, <2>6, <2>7 DEF ConfirmInv, CodesOwned, Code
  <2>11. \A v \in Worker : v # w /\ Sending(v)' => req'[v].code # req'[w].code
    BY <2>1, <2>3, <2>7 DEF Code
  <2>12. \A u, v \in Worker :
           u # v /\ Sending(u)' /\ Sending(v)' => req'[u].code # req'[v].code
    BY <2>7, <2>11 DEF ConfirmInv, CodesOwned
  <2>13. \A v \in Worker : Answering(v)' => row'[req'[v].code].email = req'[v].email
    BY <2>5, <2>8 DEF ConfirmInv, CodesOwned
  <2>14. CodesOwned'
    BY <2>9, <2>10, <2>12, <2>13 DEF CodesOwned
  <2>15. QED
    BY <2>5, <2>14 DEF ConfirmInv, VerifiedMeansConfirmed
<1>6. ASSUME NEW w \in Worker, NoCodeLeft(w) \/ MailFails(w) \/ Fault(w) PROVE ConfirmInv'
  <2>1. Finish(w) /\ UNCHANGED <<user, row>> /\ begun' = begun
    BY <1>6 DEF NoCodeLeft, MailFails, Fault
  <2>2. CodesOwned' /\ VerifiedMeansConfirmed'
    BY <2>1, RowsKept
  <2>3. QED
    BY <2>2 DEF ConfirmInv
<1>7. ASSUME NEW w \in Worker, UpdateUser(w) \/ MailCode(w) PROVE ConfirmInv'
  <2>1. req \in [Worker -> Request] /\ req[w] \in Request
    BY DEF TypeInv, TypeOK
  <2>2. UNCHANGED <<user, row>> /\ begun' = begun /\ Sending(w)
    BY <1>7 DEF UpdateUser, MailCode, At, Sending
  <2>3. /\ req'[w].step \in {"mail", "commit"}
        /\ req'[w].code = req[w].code /\ req'[w].email = req[w].email
    BY <1>7, <2>1 DEF UpdateUser, MailCode, Become, Request
  <2>4. ~Answering(w)'
    BY <2>3 DEF Answering
  <2>5. \A v \in Worker : v # w => req'[v] = req[v]
    BY <1>7, <2>1 DEF UpdateUser, MailCode, Become
  <2>6. QED
    BY <2>2, <2>3, <2>4, <2>5, RequestsShrink DEF Sending, Answering
<1>8. ASSUME NEW w \in Worker, CommitSend(w) PROVE ConfirmInv'
  <2> DEFINE c == req[w].code
  <2>1. c \in Code /\ c <= begun /\ row[c].email = None /\ Sending(w)
    BY <1>8 DEF CommitSend, At, Sending, TypeInv, ReqOK, ConfirmInv, CodesOwned
  <2>2. \A k \in Code : k # c => row'[k] = row[k]
    BY <1>8, <2>1 DEF CommitSend, TypeInv, TypeOK
  <2>3. begun' = begun /\ Finish(w) /\ user'.verified = FALSE
    BY <1>8 DEF CommitSend
  <2>4. req'[w] = Idle /\ \A v \in Worker : v # w => req'[v] = req[v]
    BY <2>3 DEF Finish, TypeInv, TypeOK
  <2>5. ~Sending(w)' /\ ~Answering(w)'
    BY <2>4 DEF Sending, Answering, Idle
  <2>6. \A v \in Worker : Sending(v)' => /\ v # w /\ Sending(v) /\ req'[v] = req[v]
                                        /\ req[v].code \in Code /\ req[v].code # c
    BY <2>1, <2>4, <2>5 DEF Sending, ConfirmInv, CodesOwned, TypeInv, ReqOK
  <2>7. \A v \in Worker : Answering(v)' => /\ v # w /\ Answering(v) /\ req'[v] = req[v]
                                          /\ req[v].code \in Code /\ req[v].email # None
    BY <2>4, <2>5, NoneAssumption DEF Answering, TypeInv, ReqOK
  <2>8. \A v \in Worker : Answering(v)' => req[v].code # c
    BY <2>1, <2>7 DEF ConfirmInv, CodesOwned
  <2>9. \A k \in Code : k > begun' => row'[k].email = None
    <3>1. begun \in Nat /\ \A k \in Code : k \in Nat
      BY MaxSendsAssumption DEF TypeInv, TypeOK, Code
    <3>2. \A k \in Code : k > begun' => k # c /\ row[k].email = None
      BY <2>1, <2>3, <3>1 DEF ConfirmInv, CodesOwned
    <3>3. QED
      BY <2>2, <3>2
  <2>10. \A v \in Worker : Sending(v)' =>
           req'[v].code <= begun' /\ row'[req'[v].code].email = None
    BY <2>2, <2>3, <2>6 DEF ConfirmInv, CodesOwned
  <2>11. \A u, v \in Worker :
           u # v /\ Sending(u)' /\ Sending(v)' => req'[u].code # req'[v].code
    BY <2>6 DEF ConfirmInv, CodesOwned
  <2>12. \A v \in Worker : Answering(v)' => row'[req'[v].code].email = req'[v].email
    BY <2>2, <2>7, <2>8 DEF ConfirmInv, CodesOwned
  <2>13. CodesOwned'
    BY <2>9, <2>10, <2>11, <2>12 DEF CodesOwned
  <2>14. VerifiedMeansConfirmed'
    BY <2>3 DEF VerifiedMeansConfirmed
  <2>15. QED
    BY <2>13, <2>14 DEF ConfirmInv
<1>9. ASSUME NEW w \in Worker, CountAttempt(w) PROVE ConfirmInv'
  <2>1. row \in [Code -> Row]
    BY DEF TypeInv, TypeOK, Row
  <2>2. \A k \in Code : row'[k].email = row[k].email /\ row'[k].verified = row[k].verified
    BY <1>9, <2>1 DEF CountAttempt, Row
  <2>3. user' = user /\ begun' = begun /\ Finish(w)
    BY <1>9 DEF CountAttempt
  <2>4. CodesOwned' /\ VerifiedMeansConfirmed'
    BY <2>2, <2>3, RowsKept
  <2>5. QED
    BY <2>4 DEF ConfirmInv
<1>10. ASSUME NEW w \in Worker, Confirm(w) PROVE ConfirmInv'
  <2>1. row \in [Code -> Row]
    BY DEF TypeInv, TypeOK, Row
  <2>2. /\ req[w].code \in Code /\ Answering(w)
        /\ row[req[w].code].email = req[w].email
    BY <1>10 DEF Confirm, At, Answering, TypeInv, ReqOK, ConfirmInv, CodesOwned
  <2>3. row' = [row EXCEPT ![req[w].code].verified = TRUE]
    BY <1>10 DEF Confirm
  <2>4. \A k \in Code : row'[k].email = row[k].email /\ (row[k].verified => row'[k].verified)
    BY <2>1, <2>2, <2>3 DEF Row
  <2>5. row'[req[w].code].verified
    BY <2>1, <2>2, <2>3 DEF Row
  <2>6. begun' = begun /\ Finish(w) /\ user'.email = req[w].email
    BY <1>10 DEF Confirm
  <2>7. CodesOwned'
    BY <2>4, <2>6, RowsKept
  <2>8. row'[req[w].code].email = user'.email
    BY <2>2, <2>4, <2>6
  <2>9. VerifiedMeansConfirmed'
    BY <2>2, <2>5, <2>8 DEF VerifiedMeansConfirmed
  <2>10. QED
    BY <2>7, <2>9 DEF ConfirmInv
<1>11. CASE UNCHANGED vars
  BY <1>11, RequestsShrink DEF vars, Sending, Answering
<1>12. QED
  BY <1>1, <1>2, <1>3, <1>4, <1>5, <1>6, <1>7, <1>8, <1>9, <1>10, <1>11 DEF Next, Continue

\* email_verified_at set means that the present address was confirmed, however
\* sends, answers, expiries and failures interleave, as long as no LINE login
\* stores an address (SendEmailOTP clears it with the address it stores,
\* VerifyEmailOTP sets it with the address of the row it read, auth_email.go).
THEOREM VerifiedIsConfirmed ==
  ASSUME "line" \notin Features
  PROVE Spec => []VerifiedMeansConfirmed
<1>1. Init => TypeInv /\ ConfirmInv
  BY InitTypeInv, InitConfirmInv
<1>2. TypeInv /\ ConfirmInv /\ [Next]_vars => TypeInv' /\ ConfirmInv'
  BY StepTypeInv, StepConfirmInv
<1>3. ConfirmInv => VerifiedMeansConfirmed
  BY DEF ConfirmInv
<1>4. QED
  BY <1>1, <1>2, <1>3, PTL DEF Spec

-----------------------------------------------------------------------------
\* The requests that have read code k and are about to count a wrong answer.
Pending(k) == {w \in Worker : At(w, "count") /\ req[w].code = k}

\* What a code has counted, with what is about to be counted on it.
CountInv ==
  \A k \in Code :
    row[k].attempts + Cardinality(Pending(k)) <= MaxAttempts - 1 + Cardinality(Worker)

LEMMA PendingFinite ==
  ASSUME NEW k \in Code
  PROVE /\ IsFiniteSet(Pending(k)) /\ Cardinality(Pending(k)) \in Nat
        /\ Cardinality(Worker) \in Nat /\ Cardinality(Pending(k)) <= Cardinality(Worker)
<1>1. Pending(k) \in SUBSET Worker
  BY DEF Pending
<1>2. IsFiniteSet(Pending(k)) /\ Cardinality(Pending(k)) <= Cardinality(Worker)
  BY <1>1, WorkerAssumption, FS_Subset
<1>3. QED
  BY <1>2, WorkerAssumption, FS_CardinalityType

\* Where a code's count stays and no request starts to count on it, the bound stays.
LEMMA CountKept ==
  ASSUME TypeInv, CountInv, TypeInv', NEW k \in Code, row'[k].attempts <= row[k].attempts,
         Pending(k)' \subseteq Pending(k)
  PROVE row'[k].attempts + Cardinality(Pending(k)') <= MaxAttempts - 1 + Cardinality(Worker)
<1>1. /\ Cardinality(Pending(k)') <= Cardinality(Pending(k))
      /\ IsFiniteSet(Pending(k)')
  BY PendingFinite, FS_Subset
<1>2. Cardinality(Pending(k)') \in Nat
  BY <1>1, FS_CardinalityType
<1>3. row[k].attempts \in Nat /\ row'[k].attempts \in Nat
  BY DEF TypeInv, TypeOK
<1>4. Cardinality(Pending(k)) \in Nat /\ Cardinality(Worker) \in Nat
  BY PendingFinite
<1>5. row[k].attempts + Cardinality(Pending(k)) <= MaxAttempts - 1 + Cardinality(Worker)
  BY DEF CountInv
<1>6. QED
  BY <1>1, <1>2, <1>3, <1>4, <1>5, MaxAttemptsAssumption

\* A step of one worker that does not start to count adds to no code's pending counts.
LEMMA PendingShrinks ==
  ASSUME NEW w \in Worker, \A v \in Worker : v # w => req'[v] = req[v],
         At(w, "count")' => At(w, "count") /\ req'[w].code = req[w].code
  PROVE \A k \in Code : Pending(k)' \subseteq Pending(k)
  BY DEF Pending, At

LEMMA InitCountInv == Init => CountInv
<1> SUFFICES ASSUME Init, NEW k \in Code
             PROVE row[k].attempts + Cardinality(Pending(k)) <= MaxAttempts - 1 + Cardinality(Worker)
  BY DEF CountInv
<1>1. row[k].attempts = 0
  BY DEF Init, NoRow
<1>2. QED
  BY <1>1, PendingFinite, MaxAttemptsAssumption

LEMMA StepCountInv ==
  ASSUME TypeInv, TypeInv', CountInv, [Next]_vars PROVE CountInv'
<1> SUFFICES ASSUME NEW k \in Code
             PROVE row'[k].attempts + Cardinality(Pending(k)')
                     <= MaxAttempts - 1 + Cardinality(Worker)
  BY DEF CountInv
<1>1. row \in [Code -> Row] /\ req \in [Worker -> Request]
  BY DEF TypeInv, TypeOK, Row
<1>2. CASE LineLogin \/ TimePasses \/ UNCHANGED vars
  <2>1. UNCHANGED <<row, req>>
    BY <1>2 DEF LineLogin, TimePasses, vars
  <2>2. row'[k].attempts <= row[k].attempts /\ Pending(k)' \subseteq Pending(k)
    BY <2>1 DEF Pending, At, TypeInv, TypeOK
  <2>3. QED
    BY <2>2, CountKept
<1>3. ASSUME NEW w \in Worker, VerifyRead(w)
      PROVE row'[k].attempts + Cardinality(Pending(k)') <= MaxAttempts - 1 + Cardinality(Worker)
  <2>1. PICK e \in Email, c \in Code, step \in {"count", "confirm"} :
          /\ row[c].attempts < MaxAttempts
          /\ req' = [req EXCEPT ![w] = [step |-> step, email |-> e, code |-> c]]
    BY <1>3 DEF VerifyRead
  <2>2. row'[k] = row[k] /\ row[k].attempts \in Nat
    BY <1>1, <1>3 DEF VerifyRead, Row
  <2>3. CASE c = k
    <3>1. Pending(k)' \subseteq Worker
      BY DEF Pending
    <3>2. Cardinality(Pending(k)') <= Cardinality(Worker) /\ IsFiniteSet(Pending(k)')
      BY <3>1, WorkerAssumption, FS_Subset
    <3>3. Cardinality(Pending(k)') \in Nat /\ Cardinality(Worker) \in Nat
      BY <3>2, WorkerAssumption, FS_CardinalityType
    <3>4. row[k].attempts < MaxAttempts
      BY <2>1, <2>3
    <3>5. QED
      BY <2>2, <3>2, <3>3, <3>4, MaxAttemptsAssumption
  <2>4. CASE c # k
    <3>1. req'[w].code = c /\ \A v \in Worker : v # w => req'[v] = req[v]
      BY <1>1, <2>1
    <3>2. Pending(k)' \subseteq Pending(k)
      BY <2>4, <3>1 DEF Pending, At
    <3>3. row'[k].attempts <= row[k].attempts
      BY <2>2
    <3>4. QED
      BY <3>2, <3>3, CountKept
  <2>5. QED
    BY <2>3, <2>4
<1>4. ASSUME NEW w \in Worker,
             SendCheck(w) \/ BeginSend(w) \/ NoCodeLeft(w) \/ UpdateUser(w) \/ MailCode(w)
               \/ MailFails(w) \/ Confirm(w) \/ Fault(w) \/ CommitSend(w)
      PROVE row'[k].attempts + Cardinality(Pending(k)') <= MaxAttempts - 1 + Cardinality(Worker)
  <2>1. \A v \in Worker : v # w => req'[v] = req[v]
    BY <1>1, <1>4 DEF SendCheck, BeginSend, NoCodeLeft, UpdateUser, MailCode, MailFails,
                      Confirm, Fault, CommitSend, Become, Finish
  <2>2. ~At(w, "count")'
    <3>1. CASE NoCodeLeft(w) \/ MailFails(w) \/ Confirm(w) \/ Fault(w) \/ CommitSend(w)
      <4>1. req'[w] = Idle
        BY <1>1, <3>1 DEF NoCodeLeft, MailFails, Confirm, Fault, CommitSend, Finish
      <4>2. QED
        BY <4>1 DEF Idle, At
    <3>2. CASE UpdateUser(w) \/ MailCode(w)
      BY <1>1, <3>2 DEF UpdateUser, MailCode, Become, At, Request
    <3>3. CASE BeginSend(w)
      BY <1>1, <3>3 DEF BeginSend, At, Request
    <3>4. CASE SendCheck(w)
      BY <1>1, <3>4 DEF SendCheck, At, Request
    <3>5. QED
      BY <1>4, <3>1, <3>2, <3>3, <3>4
  <2>3. Pending(k)' \subseteq Pending(k)
    BY <2>1, <2>2, PendingShrinks
  <2>4. row'[k].attempts <= row[k].attempts
    <3>1. CASE CommitSend(w)
      <4>1. req[w].code \in Code
        BY <3>1 DEF CommitSend, At, TypeInv, ReqOK, Sending
      <4>2. row'[k] = row[k] \/ row'[k].attempts = 0
        BY <1>1, <3>1, <4>1 DEF CommitSend, NoRow
      <4>3. QED
        BY <1>1, <4>2 DEF Row
    <3>2. CASE Confirm(w)
      <4>1. row'[k].attempts = row[k].attempts
        BY <1>1, <3>2 DEF Confirm, Row
      <4>2. QED
        BY <1>1, <4>1 DEF Row
    <3>3. CASE UNCHANGED row
      BY <1>1, <3>3 DEF Row
    <3>4. QED
      BY <1>4, <3>1, <3>2, <3>3
      DEF SendCheck, BeginSend, NoCodeLeft, UpdateUser, MailCode, MailFails, Fault
  <2>5. QED
    BY <2>3, <2>4, CountKept
<1>5. ASSUME NEW w \in Worker, CountAttempt(w)
      PROVE row'[k].attempts + Cardinality(Pending(k)') <= MaxAttempts - 1 + Cardinality(Worker)
  <2> DEFINE c == req[w].code
  <2>1. c \in Code /\ At(w, "count")
    BY <1>5 DEF CountAttempt, At, TypeInv, ReqOK, Answering
  <2>2. req'[w] = Idle /\ \A v \in Worker : v # w => req'[v] = req[v]
    BY <1>1, <1>5 DEF CountAttempt, Finish
  <2>3. CASE c = k
    <3>1. row'[k].attempts = row[k].attempts + 1 /\ row[k].attempts \in Nat
      BY <1>1, <1>5, <2>1, <2>3 DEF CountAttempt, Row
    <3>2. w \in Pending(k)
      BY <2>1, <2>3 DEF Pending
    <3>3. Pending(k)' = Pending(k) \ {w}
      BY <2>2 DEF Pending, At, Idle
    <3>4. Cardinality(Pending(k)') = Cardinality(Pending(k)) - 1
      BY <3>2, <3>3, PendingFinite, FS_RemoveElement
    <3>5. row[k].attempts + Cardinality(Pending(k)) <= MaxAttempts - 1 + Cardinality(Worker)
      BY DEF CountInv
    <3>6. QED
      BY <3>1, <3>4, <3>5, PendingFinite, MaxAttemptsAssumption
  <2>4. CASE c # k
    <3>1. row'[k] = row[k]
      BY <1>1, <1>5, <2>4 DEF CountAttempt
    <3>2. Pending(k)' \subseteq Pending(k)
      BY <2>2 DEF Pending, At, Idle
    <3>3. row'[k].attempts <= row[k].attempts
      BY <1>1, <3>1 DEF Row
    <3>4. QED
      BY <3>2, <3>3, CountKept
  <2>5. QED
    BY <2>3, <2>4
<1>6. QED
  BY <1>2, <1>3, <1>4, <1>5 DEF Next, Continue

\* Wrong answers that were read below the limit and not yet counted are what a
\* code can overshoot by: one per request in progress, less the last one
\* (VerifyEmailOTP's SELECT and its UPDATE of attempts, auth_email.go).
THEOREM AttemptsAlwaysBounded == Spec => []AttemptsBounded
<1>1. Init => TypeInv /\ CountInv
  BY InitTypeInv, InitCountInv
<1>2. TypeInv /\ CountInv /\ [Next]_vars => TypeInv' /\ CountInv'
  BY StepTypeInv, StepCountInv
<1>3. TypeInv /\ CountInv => AttemptsBounded
  <2> SUFFICES ASSUME TypeInv, CountInv, NEW k \in Code
               PROVE row[k].attempts <= MaxAttempts + Cardinality(Worker) - 1
    BY DEF AttemptsBounded
  <2>1. row[k].attempts \in Nat
    BY DEF TypeInv, TypeOK
  <2>2. row[k].attempts + Cardinality(Pending(k)) <= MaxAttempts - 1 + Cardinality(Worker)
    BY DEF CountInv
  <2>3. QED
    BY <2>1, <2>2, PendingFinite, MaxAttemptsAssumption
<1>4. QED
  BY <1>1, <1>2, <1>3, PTL DEF Spec

=============================================================================
