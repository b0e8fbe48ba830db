------------------------------ MODULE Lifecycle ------------------------------
(***************************************************************************)
(* What a project's pipeline promises its users, one project seen from     *)
(* outside: a status and the 90-day deadline of handlers/cron.go.  The     *)
(* deadline exists exactly while the project is not in a terminal status,  *)
(* a closed project never moves again, and only a project whose deadline   *)
(* has passed is rejected without anybody asking for it.                   *)
(***************************************************************************)
EXTENDS StatusRules

VARIABLES status, timer, reason

lifeVars == <<status, timer, reason>>

Init == status = "register" /\ timer = "armed" /\ reason = "null"

\* Somebody asked for a status: the deadline follows it, and a rejection is
\* given a reason by the person who asks for it.
Move(s) ==
  /\ status # "closed"
  /\ status' = s
  /\ timer' = TimerFor(s)
  /\ reason' \in IF s = "reject" THEN {"user"} ELSE {"null", "user", reason}

\* Activity on a project that has a deadline starts the 90 days again.
Activity ==
  /\ status \notin Terminal
  /\ timer' = "armed"
  /\ UNCHANGED <<status, reason>>

NinetyDaysPass ==
  /\ timer = "armed"
  /\ timer' = "expired"
  /\ UNCHANGED <<status, reason>>

AutoReject ==
  /\ timer = "expired"
  /\ status' = "reject"
  /\ timer' = "null"
  /\ reason' = "timeout"

Next ==
  \/ \E s \in Status : Move(s)
  \/ Activity
  \/ NinetyDaysPass
  \/ AutoReject

Spec == Init /\ [][Next]_lifeVars
=============================================================================
