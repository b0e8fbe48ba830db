-------------------------- MODULE AccessTokenProofs --------------------------
(***************************************************************************)
(* For any number of goroutines: the types and the mutex, that LINE is     *)
(* asked only when the cached token has run out, and that a token given    *)
(* out lasts until its first use, within what UsedTokenIsValid says.       *)
(***************************************************************************)
EXTENDS AccessTokens, TLAPS

Inside == {"check", "ask", "answer", "store", "storePointer", "storeUntil", "return"}

\* Who is inside the function that the mutex guards holds it, and who waits for
\* it wants LINE's token.
MutexInv ==
  \A w \in Worker : /\ req[w].cache = "line" /\ req[w].step \in Inside => held = w
                    /\ req[w].step = "lock" => req[w].cache = "line"

TypeInv == TypeOK /\ MutexInv /\ \A w \in Worker : req[w].since <= now

LEMMA RequestUpdate ==
  ASSUME TypeOK, NEW w \in Worker, NEW r \in Request, req' = [req EXCEPT ![w] = r]
  PROVE  req' \in [Worker -> Request]
BY DEF TypeOK

LEMMA LifeIsNat == ASSUME NEW c \in Cache, NEW life \in Life(c)
                   PROVE  life \in Nat /\ life > 2
BY LifeAssumption DEF Life, Cache

LEMMA InitTypeInv == Init => TypeInv
BY WorkerAssumption
DEF Init, TypeInv, TypeOK, MutexInv, Idle, Request, Token, NoToken, Step, Cache, Inside

LEMMA StepTypeInv == TypeInv /\ [Next]_vars => TypeInv'
<1> SUFFICES ASSUME TypeInv, [Next]_vars
             PROVE  TypeInv'
  OBVIOUS
<1>a. NoToken \in Token
  BY DEF NoToken, Token
<1> USE <1>a DEF TypeInv, At, Become, Finish, Unlock, Request, Step, Cache, Inside, Idle
<1>1. CASE TimePasses
  BY <1>1 DEF TimePasses, TypeOK, MutexInv
<1>2. ASSUME NEW w \in Worker, GetLarkAccessToken(w) PROVE TypeInv'
  <2> DEFINE r == [req[w] EXCEPT !.step = "check", !.cache = "lark"]
  <2>1. /\ r \in Request /\ r.step = "check" /\ r.cache = "lark" /\ r.since = req[w].since
        /\ req[w].step = "idle" /\ req' = [req EXCEPT ![w] = r]
        /\ UNCHANGED <<now, length, token, until, held>>
    BY <1>2 DEF GetLarkAccessToken, TypeOK
  <2> HIDE DEF r
  <2>2. held # w /\ r.since <= now
    BY <2>1, WorkerAssumption DEF TypeOK
  <2>3. req' \in [Worker -> Request] /\ req'[w] = r /\ \A v \in Worker \ {w} : req'[v] = req[v]
    BY <2>1, <2>2, RequestUpdate DEF TypeOK
  <2> HIDE DEF Request, Step
  <2>4. TypeOK'
    BY <2>1, <2>2, <2>3, WorkerAssumption DEF TypeOK
  <2>5. MutexInv'
    BY <2>1, <2>2, <2>3, WorkerAssumption DEF TypeOK, MutexInv
  <2> QED
    BY <2>1, <2>2, <2>3, <2>4, <2>5
<1>3. ASSUME NEW w \in Worker, GetLineChannelAccessToken(w) PROVE TypeInv'
  <2> DEFINE r == [req[w] EXCEPT !.step = "lock", !.cache = "line"]
  <2>1. /\ r \in Request /\ r.step = "lock" /\ r.cache = "line" /\ r.since = req[w].since
        /\ req[w].step = "idle" /\ req' = [req EXCEPT ![w] = r]
        /\ UNCHANGED <<now, length, token, until, held>>
    BY <1>3 DEF GetLineChannelAccessToken, TypeOK
  <2> HIDE DEF r
  <2>2. held # w /\ r.since <= now
    BY <2>1, WorkerAssumption DEF TypeOK
  <2>3. req' \in [Worker -> Request] /\ req'[w] = r /\ \A v \in Worker \ {w} : req'[v] = req[v]
    BY <2>1, <2>2, RequestUpdate DEF TypeOK
  <2> HIDE DEF Request, Step
  <2>4. TypeOK'
    BY <2>1, <2>2, <2>3, WorkerAssumption DEF TypeOK
  <2>5. MutexInv'
    BY <2>1, <2>2, <2>3, WorkerAssumption DEF TypeOK, MutexInv
  <2> QED
    BY <2>1, <2>2, <2>3, <2>4, <2>5
<1>4. ASSUME NEW w \in Worker, Lock(w) PROVE TypeInv'
  <2> DEFINE r == [req[w] EXCEPT !.step = "check"]
  <2>1. /\ r \in Request /\ r.step = "check" /\ r.cache = "line" /\ r.since = req[w].since
        /\ req' = [req EXCEPT ![w] = r] /\ held = None /\ held' = w
        /\ UNCHANGED <<now, length, token, until>>
    BY <1>4 DEF Lock, TypeOK, MutexInv
  <2> HIDE DEF r
  <2>2. r.since <= now
    BY <2>1 DEF TypeOK
  <2>3. req' \in [Worker -> Request] /\ req'[w] = r /\ \A v \in Worker \ {w} : req'[v] = req[v]
    BY <2>1, <2>2, RequestUpdate DEF TypeOK
  <2> HIDE DEF Request, Step
  <2>4. TypeOK'
    BY <2>1, <2>2, <2>3, WorkerAssumption DEF TypeOK
  <2>5. MutexInv'
    BY <2>1, <2>2, <2>3, WorkerAssumption DEF TypeOK, MutexInv
  <2> QED
    BY <2>1, <2>2, <2>3, <2>4, <2>5
<1>5. ASSUME NEW w \in Worker, Check(w) PROVE TypeInv'
  BY <1>5, WorkerAssumption DEF Check, TypeOK, MutexInv
<1>6. ASSUME NEW w \in Worker, Ask(w) PROVE TypeInv'
  <2>1. PICK life \in Life(req[w].cache), size \in Size :
          req' = [req EXCEPT ![w] =
            [@ EXCEPT !.step = "answer", !.life = life, !.since = now,
                      !.token = [ends |-> now + life, size |-> size, took |-> 0]]]
    BY <1>6 DEF Ask
  <2>2. /\ life \in Nat /\ req[w].cache \in Cache /\ now + life \in Nat /\ size \in Nat
        /\ now \in Nat
    BY <2>1, LifeIsNat, SizeAssumption DEF TypeOK
  <2> DEFINE t == [ends |-> now + life, size |-> size, took |-> 0]
             r == [req[w] EXCEPT !.step = "answer", !.life = life, !.since = now, !.token = t]
  <2>3. t \in Token
    BY <2>2 DEF Token
  <2> HIDE DEF t
  <2>4. req[w] \in Request /\ req[w].step = "ask"
    BY <1>6 DEF TypeOK, Ask
  <2>5. /\ r \in Request /\ r.step = "answer" /\ r.cache = req[w].cache
        /\ req[w].step = "ask" /\ r.since = now
    BY <2>2, <2>3, <2>4
  <2>6. req' = [req EXCEPT ![w] = r]
    BY <2>1 DEF t
  <2> HIDE DEF r
  <2>7. UNCHANGED <<now, length, token, until, held>>
    BY <1>6 DEF Ask
  <2>8. req[w].cache = "line" <=> held = w
    BY <2>5, WorkerAssumption DEF TypeOK, MutexInv
  <2>9. now <= now
    BY <2>2
  <2>10. req' \in [Worker -> Request] /\ req'[w] = r /\ \A v \in Worker \ {w} : req'[v] = req[v]
    BY <2>5, <2>6, <2>7, <2>8, <2>9, RequestUpdate DEF TypeOK
  <2> HIDE DEF Request, Step
  <2>11. TypeOK'
    BY <2>5, <2>6, <2>7, <2>8, <2>9, <2>10, WorkerAssumption DEF TypeOK
  <2>12. MutexInv'
    BY <2>5, <2>6, <2>7, <2>8, <2>9, <2>10, WorkerAssumption DEF TypeOK, MutexInv
  <2> QED
    BY <2>5, <2>6, <2>7, <2>8, <2>9, <2>10, <2>11, <2>12
<1>7. ASSUME NEW w \in Worker, Answer(w) PROVE TypeInv'
  <2> DEFINE n == now - req[w].since
             t == [req[w].token EXCEPT !.took = n]
             r == [req[w] EXCEPT !.step = "store", !.token = t]
  <2>1. n \in Nat
    BY DEF TypeOK
  <2>2. t \in Token
    BY <2>1 DEF TypeOK, Token
  <2>3. /\ r \in Request /\ r.step = "store" /\ r.cache = req[w].cache /\ r.since = req[w].since
        /\ req[w].step = "answer"
    BY <1>7, <2>2 DEF TypeOK, Answer
  <2>4. req' = [req EXCEPT ![w] = r]
    BY <1>7 DEF Answer, TypeOK
  <2> HIDE DEF r
  <2>5. UNCHANGED <<now, length, token, until, held>>
    BY <1>7 DEF Answer
  <2>6. (req[w].cache = "line" <=> held = w) /\ r.since <= now
    BY <2>3, WorkerAssumption DEF TypeOK, MutexInv
  <2>7. req' \in [Worker -> Request] /\ req'[w] = r /\ \A v \in Worker \ {w} : req'[v] = req[v]
    BY <2>3, <2>4, <2>5, <2>6, RequestUpdate DEF TypeOK
  <2> HIDE DEF Request, Step
  <2>8. TypeOK'
    BY <2>3, <2>4, <2>5, <2>6, <2>7, WorkerAssumption DEF TypeOK
  <2>9. MutexInv'
    BY <2>3, <2>4, <2>5, <2>6, <2>7, WorkerAssumption DEF TypeOK, MutexInv
  <2> QED
    BY <2>3, <2>4, <2>5, <2>6, <2>7, <2>8, <2>9
<1>8. ASSUME NEW w \in Worker, AskFails(w) PROVE TypeInv'
  BY <1>8, WorkerAssumption DEF AskFails, TypeOK, MutexInv
<1>9. ASSUME NEW w \in Worker, StoreLength(w) PROVE TypeInv'
  <2>1. req[w].token.size \in Nat
    BY DEF TypeOK, Token
  <2>2. TypeOK'
    BY <1>9, <2>1 DEF StoreLength, TypeOK
  <2>3. MutexInv'
    BY <1>9 DEF StoreLength, TypeOK, MutexInv
  <2> QED
    BY <1>9, <2>2, <2>3 DEF StoreLength, TypeOK
<1>14. ASSUME NEW w \in Worker, StorePointer(w) PROVE TypeInv'
  BY <1>14, WorkerAssumption DEF StorePointer, TypeOK, MutexInv
<1>10. ASSUME NEW w \in Worker, StoreUntil(w) PROVE TypeInv'
  <2>1. Until(req[w].cache, req[w].life) \in Int
    BY DEF Until, TypeOK
  <2>2. TypeOK'
    BY <1>10, <2>1 DEF StoreUntil, TypeOK
  <2>3. MutexInv'
    BY <1>10 DEF StoreUntil, TypeOK, MutexInv
  <2> QED
    BY <1>10, <2>2, <2>3 DEF StoreUntil, TypeOK
<1>11. ASSUME NEW w \in Worker, Return(w) PROVE TypeInv'
  <2> DEFINE r == [req[w] EXCEPT !.step = "use", !.token = token[req[w].cache],
                                 !.length = length[req[w].cache], !.life = 0, !.since = now]
  <2>1. /\ req[w] \in Request /\ token[req[w].cache] \in Token
        /\ length[req[w].cache] \in Nat /\ now \in Nat
    BY DEF TypeOK
  <2>2. r \in Request /\ r.step = "use" /\ r.cache = req[w].cache /\ r.since = now
    BY <2>1
  <2>3. /\ r \in Request /\ r.step = "use" /\ r.cache = req[w].cache /\ r.since = now
        /\ req[w].step = "return" /\ req' = [req EXCEPT ![w] = r]
    BY <1>11, <2>2 DEF Return
  <2>4. held' = IF held = w THEN None ELSE held
    BY <1>11 DEF Return
  <2>5. UNCHANGED <<now, length, token, until>>
    BY <1>11 DEF Return
  <2> HIDE DEF r
  <2>6. TypeOK'
    BY <2>3, <2>4, <2>5, WorkerAssumption DEF TypeOK
  <2>7. MutexInv'
    BY <2>3, <2>4, <2>5, WorkerAssumption DEF TypeOK, MutexInv
  <2> QED
    BY <2>3, <2>5, <2>6, <2>7 DEF TypeOK
<1>12. ASSUME NEW w \in Worker, Use(w) PROVE TypeInv'
  BY <1>12, WorkerAssumption DEF Use, TypeOK, MutexInv
<1>13. CASE UNCHANGED vars
  BY <1>13 DEF vars, TypeOK, MutexInv
<1> QED
  BY <1>1, <1>2, <1>3, <1>4, <1>5, <1>6, <1>7, <1>8, <1>9, <1>10, <1>11, <1>12, <1>13, <1>14
  DEF Next, Continue

\* Types hold, and the mutex of getLineChannelAccessToken is held by a goroutine
\* that is inside it (line_client.go:44).
THEOREM TypeCorrect == Spec => []TypeOK
<1>1. TypeInv => TypeOK
  BY DEF TypeInv
<1> QED
  BY <1>1, InitTypeInv, StepTypeInv, PTL DEF Spec

-----------------------------------------------------------------------------
\* Whoever is about to ask LINE has found the cached token stale, and the mutex
\* keeps it so.
StaleInv == \A w \in Worker : At(w, "ask") /\ req[w].cache = "line" => ~Fresh("line")

LEMMA InitStaleInv == Init => StaleInv
BY DEF Init, StaleInv, At, Idle

LEMMA StepStaleInv == TypeInv /\ StaleInv /\ [Next]_vars => StaleInv'
<1> SUFFICES ASSUME TypeInv, StaleInv, [Next]_vars
             PROVE  StaleInv'
  OBVIOUS
<1> USE DEF TypeInv, At, Become, Finish, Idle, Cache, Inside
<1>1. CASE TimePasses
  BY <1>1 DEF TimePasses, Waits, StaleInv
<1>2. ASSUME NEW w \in Worker, GetLarkAccessToken(w) PROVE StaleInv'
  BY <1>2 DEF GetLarkAccessToken, TypeOK, StaleInv, Fresh
<1>3. ASSUME NEW w \in Worker, GetLineChannelAccessToken(w) PROVE StaleInv'
  BY <1>3 DEF GetLineChannelAccessToken, TypeOK, StaleInv, Fresh
<1>4. ASSUME NEW w \in Worker, Lock(w) PROVE StaleInv'
  BY <1>4 DEF Lock, TypeOK, StaleInv, Fresh
<1>5. ASSUME NEW w \in Worker, Check(w) PROVE StaleInv'
  <2>1. PICK s \in {"return", "ask"} :
          /\ req' = [req EXCEPT ![w].step = s]
          /\ s = "ask" => ~Fresh(req[w].cache)
    BY <1>5 DEF Check
  <2>2. UNCHANGED <<now, length, token, until>>
    BY <1>5 DEF Check
  <2> QED
    BY <2>1, <2>2 DEF TypeOK, Request, StaleInv, Fresh
<1>6. ASSUME NEW w \in Worker, Ask(w) PROVE StaleInv'
  BY <1>6 DEF Ask, TypeOK, StaleInv, Fresh
<1>7. ASSUME NEW w \in Worker, Answer(w) PROVE StaleInv'
  BY <1>7 DEF Answer, TypeOK, StaleInv, Fresh
<1>8. ASSUME NEW w \in Worker, AskFails(w) PROVE StaleInv'
  BY <1>8 DEF AskFails, TypeOK, StaleInv, Fresh
<1>9. ASSUME NEW w \in Worker, StoreLength(w) PROVE StaleInv'
  BY <1>9 DEF StoreLength, TypeOK, MutexInv, StaleInv, Fresh
<1>14. ASSUME NEW w \in Worker, StorePointer(w) PROVE StaleInv'
  BY <1>14 DEF StorePointer, TypeOK, MutexInv, StaleInv, Fresh
<1>10. ASSUME NEW w \in Worker, StoreUntil(w) PROVE StaleInv'
  BY <1>10 DEF StoreUntil, TypeOK, MutexInv, StaleInv, Fresh
<1>11. ASSUME NEW w \in Worker, Return(w) PROVE StaleInv'
  BY <1>11 DEF Return, TypeOK, StaleInv, Fresh
<1>12. ASSUME NEW w \in Worker, Use(w) PROVE StaleInv'
  BY <1>12 DEF Use, TypeOK, StaleInv, Fresh
<1>13. CASE UNCHANGED vars
  BY <1>13 DEF vars, StaleInv, Fresh
<1> QED
  BY <1>1, <1>2, <1>3, <1>4, <1>5, <1>6, <1>7, <1>8, <1>9, <1>10, <1>11, <1>12, <1>13, <1>14
  DEF Next, Continue

\* However many replies want a token at once, LINE is asked for one only when the
\* cached one has run out (line_client.go:44-49).
THEOREM AskedWhenStale == Spec => AskedOnlyWhenStale
<1>1. StaleInv => [\A w \in Worker : Ask(w) /\ req[w].cache = "line" => ~Fresh("line")]_vars
  BY DEF StaleInv, Ask
<1> QED
  BY <1>1, InitTypeInv, StepTypeInv, InitStaleInv, StepStaleInv, PTL
  DEF Spec, AskedOnlyWhenStale

-----------------------------------------------------------------------------
\* What an answer said is what its request carries; Lark's came within the timeout.
AnswerInv(w) ==
  req[w].step \in {"answer", "store", "storePointer", "storeUntil"} =>
    /\ req[w].life \in Life(req[w].cache)
    /\ req[w].token.ends = req[w].since + req[w].life
    /\ req[w].cache = "lark" => now <= req[w].since + 1
    /\ req[w].step # "answer" => req[w].token.took = now - req[w].since

\* The token in Lark's cache is as good as one that was asked for half a minute ago.
Recent == \E a \in LarkLife : token["lark"].ends >= now + a - 1
StoreInv(w) ==
  req[w].step = "storeUntil" =>
    IF req[w].cache = "lark" THEN Recent ELSE token["line"] = req[w].token

\* A token about to be given out, and one that was at moment n, lasts for the call.
LarkLasts(ends, n) == ends > 0 /\ \E a, b \in LarkLife : n + 1 < ends + a - b
LineLasts(t, n) == t.ends + t.took > n + 2
ReturnInv(w) ==
  /\ req[w].step = "return" =>
       IF req[w].cache = "lark" THEN LarkLasts(token["lark"].ends, now)
       ELSE LineLasts(token["line"], now)
  /\ req[w].step = "use" =>
       IF req[w].cache = "lark"
         THEN now <= req[w].since + 1 /\ LarkLasts(req[w].token.ends, req[w].since)
         ELSE LineLasts(req[w].token, req[w].since)

\* Lark's expiry is that of some life written now at the latest, and at most the
\* difference of two lives, less half a minute, beyond the end of the token; LINE's
\* is the end of its token and the wait for it, outside the two writes.
LarkInv ==
  until["lark"] = 0 \/ /\ token["lark"].ends > 0
                       /\ \E b \in LarkLife : until["lark"] <= now + b - 2
                       /\ \E a, b \in LarkLife : until["lark"] <= token["lark"].ends + b - a - 1
LineInv ==
  (\A w \in Worker : ~(At(w, "storeUntil") /\ req[w].cache = "line")) =>
    until["line"] = token["line"].ends + token["line"].took

LifeInv == LarkInv /\ LineInv /\ \A w \in Worker : AnswerInv(w) /\ StoreInv(w) /\ ReturnInv(w)

LEMMA InitLifeInv == Init => LifeInv
<1> SUFFICES ASSUME Init PROVE LifeInv
  OBVIOUS
<1>1. LarkInv /\ LineInv
  BY DEF Init, LarkInv, LineInv, Cache, NoToken
<1> QED
  BY <1>1 DEF Init, LifeInv, AnswerInv, StoreInv, ReturnInv, Idle

LEMMA RecentLasts ==
  ASSUME TypeOK, Recent
  PROVE  LarkLasts(token["lark"].ends, now)
<1>1. PICK a \in LarkLife : token["lark"].ends >= now + a - 1
  BY DEF Recent
<1>2. a \in Nat /\ a > 2
  BY LifeAssumption
<1>3. token["lark"].ends \in Nat /\ now \in Nat
  BY DEF TypeOK, Cache, Token
<1>4. token["lark"].ends > 0 /\ now + 1 < token["lark"].ends + a - a
  BY <1>1, <1>2, <1>3
<1> QED
  BY <1>4 DEF LarkLasts

\* What a step leaves of the goroutines that do not take it.
LEMMA OthersLast ==
  ASSUME TypeInv, LifeInv, NEW w \in Worker, NEW v \in Worker, v # w, now' = now,
         req'[v] = req[v], Recent => Recent',
         LarkLasts(token["lark"].ends, now) => LarkLasts(token["lark"].ends, now)',
         req[v].cache = "line" /\ req[v].step \in Inside => token'["line"] = token["line"]
  PROVE  (AnswerInv(v) /\ StoreInv(v) /\ ReturnInv(v))'
<1>1. AnswerInv(v) /\ StoreInv(v) /\ ReturnInv(v)
  BY DEF LifeInv
<1>2. AnswerInv(v)'
  BY <1>1 DEF AnswerInv
<1>3. StoreInv(v)'
  BY <1>1 DEF StoreInv, Inside, TypeInv, TypeOK, Request, Cache
<1>4. ReturnInv(v)'
  BY <1>1 DEF ReturnInv, Inside, LarkLasts, LineLasts, TypeInv, TypeOK, Request, Cache
<1> QED
  BY <1>2, <1>3, <1>4

\* A step that changes neither token nor expiry, and leaves nobody else's request.
LEMMA QuietKeepsLifeInv ==
  ASSUME TypeInv, LifeInv, NEW w \in Worker, UNCHANGED <<now, token, until>>,
         \A v \in Worker \ {w} : req'[v] = req[v],
         req[w].step # "storeUntil", req'[w].step # "storeUntil",
         (AnswerInv(w) /\ StoreInv(w) /\ ReturnInv(w))'
  PROVE  LifeInv'
<1>1. LarkInv' /\ LineInv'
  BY DEF LifeInv, LarkInv, LineInv, At
<1>2. ASSUME NEW v \in Worker, v # w PROVE (AnswerInv(v) /\ StoreInv(v) /\ ReturnInv(v))'
  BY <1>2, OthersLast DEF Recent, LarkLasts
<1> QED
  BY <1>1, <1>2 DEF LifeInv

LEMMA CheckLasts ==
  ASSUME TypeInv, LifeInv, NEW w \in Worker, Check(w)
  PROVE  LifeInv'
<1>1. /\ req \in [Worker -> Request] /\ req[w] \in Request /\ req[w].step = "check"
      /\ now \in Nat /\ token \in [Cache -> Token] /\ until \in [Cache -> Int]
  BY DEF TypeInv, TypeOK, Check, At
<1>2. PICK s \in {"return", "ask"} :
        /\ req' = [req EXCEPT ![w].step = s]
        /\ s = "return" => Fresh(req[w].cache) \/ HalfWritten(req[w].cache)
  BY DEF Check, Become
<1>3. /\ req'[w].step = s /\ req'[w].cache = req[w].cache
      /\ \A v \in Worker \ {w} : req'[v] = req[v]
  BY <1>1, <1>2 DEF Request
<1>4. s = "return" /\ req[w].cache = "lark" => LarkLasts(token["lark"].ends, now)
  <2> SUFFICES ASSUME s = "return", req[w].cache = "lark" PROVE LarkLasts(token["lark"].ends, now)
    OBVIOUS
  <2>1. CASE HalfWritten("lark")
    <3>1. Recent
      BY <2>1 DEF HalfWritten, At, LifeInv, StoreInv
    <3> QED
      BY <3>1, RecentLasts DEF TypeInv
  <2>2. CASE Fresh("lark")
    <3>1. now < until["lark"]
      BY <2>2 DEF Fresh
    <3>2. PICK a \in LarkLife, b \in LarkLife : until["lark"] <= token["lark"].ends + b - a - 1
      BY <1>1, <3>1 DEF LifeInv, LarkInv
    <3>3. token["lark"].ends > 0 /\ token["lark"].ends \in Nat /\ until["lark"] \in Int
      BY <1>1, <3>1 DEF LifeInv, LarkInv, Token, Cache
    <3>4. a \in Nat /\ b \in Nat
      BY LifeAssumption
    <3>5. now + 1 < token["lark"].ends + b - a
      BY <1>1, <3>1, <3>2, <3>3, <3>4
    <3> QED
      BY <3>3, <3>5 DEF LarkLasts
  <2> QED
    BY <1>2, <2>1, <2>2
<1>5. s = "return" /\ req[w].cache = "line" => LineLasts(token["line"], now)
  <2> SUFFICES ASSUME s = "return", req[w].cache = "line" PROVE LineLasts(token["line"], now)
    OBVIOUS
  <2>1. Fresh("line")
    BY <1>2 DEF HalfWritten
  <2>2. \A v \in Worker : ~(At(v, "storeUntil") /\ req[v].cache = "line")
    BY <1>1 DEF TypeInv, MutexInv, Inside, At
  <2>3. until["line"] = token["line"].ends + token["line"].took
    BY <2>2 DEF LifeInv, LineInv
  <2>4. now < until["line"] - 2
    BY <2>1 DEF Fresh
  <2>5. token["line"].ends \in Nat /\ token["line"].took \in Nat
    BY <1>1 DEF Token, Cache
  <2> QED
    BY <1>1, <2>3, <2>4, <2>5 DEF LineLasts
<1>6. UNCHANGED <<now, token, until>>
  BY DEF Check
<1>7. (AnswerInv(w) /\ StoreInv(w) /\ ReturnInv(w))'
  BY <1>1, <1>2, <1>3, <1>4, <1>5, <1>6 DEF AnswerInv, StoreInv, ReturnInv, LarkLasts, LineLasts,
     Request, Cache
<1> QED
  BY <1>1, <1>2, <1>3, <1>6, <1>7, QuietKeepsLifeInv

LEMMA AskLasts ==
  ASSUME TypeInv, LifeInv, NEW w \in Worker, Ask(w)
  PROVE  LifeInv'
<1>1. req \in [Worker -> Request] /\ req[w] \in Request /\ now \in Nat
  BY DEF TypeInv, TypeOK
<1>2. PICK life \in Life(req[w].cache), size \in Size :
        req' = [req EXCEPT ![w] =
          [@ EXCEPT !.step = "answer", !.life = life, !.since = now,
                    !.token = [ends |-> now + life, size |-> size, took |-> 0]]]
  BY DEF Ask
<1>3. /\ req'[w].step = "answer" /\ req'[w].cache = req[w].cache /\ req'[w].life = life
      /\ req'[w].since = now /\ req'[w].token.ends = now + life
      /\ \A v \in Worker \ {w} : req'[v] = req[v]
  BY <1>1, <1>2 DEF Request
<1>4. UNCHANGED <<now, token, until>> /\ req[w].step = "ask"
  BY DEF Ask, At
<1>5. (AnswerInv(w) /\ StoreInv(w) /\ ReturnInv(w))'
  BY <1>1, <1>2, <1>3, <1>4 DEF AnswerInv, StoreInv, ReturnInv
<1> QED
  BY <1>3, <1>4, <1>5, QuietKeepsLifeInv

LEMMA AnswerLasts ==
  ASSUME TypeInv, LifeInv, NEW w \in Worker, Answer(w) \/ StoreLength(w)
  PROVE  LifeInv'
<1>1. req \in [Worker -> Request] /\ req[w] \in Request /\ now \in Nat /\ AnswerInv(w)
  BY DEF TypeInv, TypeOK, LifeInv
<1>2. CASE Answer(w)
  <2>1. /\ req'[w].step = "store" /\ req'[w].cache = req[w].cache /\ req'[w].life = req[w].life
        /\ req'[w].since = req[w].since /\ req'[w].token.ends = req[w].token.ends
        /\ req'[w].token.took = now - req[w].since
        /\ \A v \in Worker \ {w} : req'[v] = req[v]
    BY <1>1, <1>2 DEF Answer, Request, Token
  <2>2. UNCHANGED <<now, token, until>> /\ req[w].step = "answer"
    BY <1>2 DEF Answer, At
  <2>3. (AnswerInv(w) /\ StoreInv(w) /\ ReturnInv(w))'
    BY <1>1, <2>1, <2>2 DEF AnswerInv, StoreInv, ReturnInv
  <2> QED
    BY <2>1, <2>2, <2>3, QuietKeepsLifeInv
<1>3. CASE StoreLength(w)
  <2>1. /\ req'[w].step = "storePointer" /\ req'[w].cache = req[w].cache
        /\ req'[w].life = req[w].life /\ req'[w].since = req[w].since
        /\ req'[w].token = req[w].token
        /\ \A v \in Worker \ {w} : req'[v] = req[v]
    BY <1>1, <1>3 DEF StoreLength, Become, Request
  <2>2. UNCHANGED <<now, token, until>> /\ req[w].step = "store"
    BY <1>3 DEF StoreLength, At
  <2>3. (AnswerInv(w) /\ StoreInv(w) /\ ReturnInv(w))'
    BY <1>1, <2>1, <2>2 DEF AnswerInv, StoreInv, ReturnInv
  <2> QED
    BY <2>1, <2>2, <2>3, QuietKeepsLifeInv
<1> QED
  BY <1>2, <1>3

LEMMA PointerLasts ==
  ASSUME TypeInv, LifeInv, NEW w \in Worker, StorePointer(w)
  PROVE  LifeInv'
<1>1. /\ req \in [Worker -> Request] /\ req[w] \in Request /\ now \in Nat
      /\ token \in [Cache -> Token] /\ until \in [Cache -> Int] /\ AnswerInv(w)
      /\ req[w].cache \in Cache /\ req[w].since \in Nat /\ req[w].token \in Token
  BY DEF TypeInv, TypeOK, LifeInv, Request
<1>2. /\ req[w].step = "storePointer" /\ UNCHANGED <<now, until>>
      /\ token' = [token EXCEPT ![req[w].cache] = req[w].token]
      /\ req' = [req EXCEPT ![w].step = "storeUntil"]
  BY DEF StorePointer, At, Become
<1>3. /\ req'[w].step = "storeUntil" /\ req'[w].cache = req[w].cache
      /\ req'[w].life = req[w].life /\ req'[w].since = req[w].since
      /\ req'[w].token = req[w].token
      /\ \A v \in Worker \ {w} : req'[v] = req[v]
  BY <1>1, <1>2 DEF Request
<1>4. /\ req[w].life \in Life(req[w].cache) /\ req[w].life \in Nat /\ req[w].life > 2
      /\ req[w].token.ends = req[w].since + req[w].life
      /\ req[w].cache = "lark" => now <= req[w].since + 1
  BY <1>1, <1>2, LifeIsNat DEF AnswerInv
<1>5. CASE req[w].cache = "lark"
  <2>1. token'["lark"] = req[w].token /\ token'["line"] = token["line"] /\ req[w].life \in LarkLife
    BY <1>1, <1>2, <1>4, <1>5 DEF Cache, Life
  <2>2. token'["lark"].ends >= now + req[w].life - 1 /\ token'["lark"].ends > 0
    BY <1>1, <1>4, <1>5, <2>1
  <2>3. Recent'
    BY <1>2, <2>1, <2>2 DEF Recent
  <2>4. LarkLasts(token["lark"].ends, now)'
    BY <1>1, <1>2, <1>4, <2>1, <2>2, LifeAssumption DEF LarkLasts
  <2>5. LarkInv'
    <3>1. CASE until["lark"] = 0
      BY <1>2, <3>1 DEF LarkInv
    <3>2. CASE until["lark"] # 0
      <4>1. PICK b \in LarkLife : until["lark"] <= now + b - 2
        BY <3>2 DEF LifeInv, LarkInv
      <4>2. b \in Nat /\ until["lark"] \in Int /\ token'["lark"].ends \in Nat
        BY <1>1, <2>1, LifeAssumption DEF Cache, Token
      <4>3. until["lark"] <= token'["lark"].ends + b - req[w].life - 1
        BY <1>1, <1>4, <2>2, <4>1, <4>2
      <4> QED
        BY <1>2, <2>1, <2>2, <4>1, <4>3 DEF LarkInv
    <3> QED
      BY <3>1, <3>2
  <2>6. LineInv'
    BY <1>2, <1>3, <1>5, <2>1 DEF LifeInv, LineInv, At
  <2>7. ASSUME NEW v \in Worker, v # w PROVE (AnswerInv(v) /\ StoreInv(v) /\ ReturnInv(v))'
    BY <1>2, <1>3, <2>1, <2>3, <2>4, <2>7, OthersLast
  <2>8. (AnswerInv(w) /\ StoreInv(w) /\ ReturnInv(w))'
    BY <1>1, <1>2, <1>3, <1>5, <2>3 DEF AnswerInv, StoreInv, ReturnInv
  <2> QED
    BY <2>5, <2>6, <2>7, <2>8 DEF LifeInv
<1>6. CASE req[w].cache = "line"
  <2>1. token'["line"] = req[w].token /\ token'["lark"] = token["lark"]
    BY <1>1, <1>2, <1>6 DEF Cache
  <2>2. \A v \in Worker : req[v].cache = "line" /\ req[v].step \in Inside => v = w
    BY <1>2, <1>6 DEF TypeInv, MutexInv, Inside
  <2>3. LarkInv' /\ LineInv'
    BY <1>2, <1>3, <1>6, <2>1 DEF LifeInv, LarkInv, LineInv, At
  <2>4. ASSUME NEW v \in Worker, v # w PROVE (AnswerInv(v) /\ StoreInv(v) /\ ReturnInv(v))'
    BY <1>2, <1>3, <2>1, <2>2, <2>4, OthersLast DEF Recent, LarkLasts
  <2>5. (AnswerInv(w) /\ StoreInv(w) /\ ReturnInv(w))'
    BY <1>1, <1>2, <1>3, <1>6, <2>1 DEF AnswerInv, StoreInv, ReturnInv
  <2> QED
    BY <2>3, <2>4, <2>5 DEF LifeInv
<1> QED
  BY <1>1, <1>5, <1>6 DEF Cache

LEMMA UntilLasts ==
  ASSUME TypeInv, LifeInv, NEW w \in Worker, StoreUntil(w)
  PROVE  LifeInv'
<1>1. /\ req \in [Worker -> Request] /\ req[w] \in Request /\ now \in Nat
      /\ token \in [Cache -> Token] /\ until \in [Cache -> Int] /\ AnswerInv(w) /\ StoreInv(w)
      /\ req[w].cache \in Cache /\ req[w].since \in Nat /\ req[w].token \in Token
  BY DEF TypeInv, TypeOK, LifeInv, Request
<1>2. /\ req[w].step = "storeUntil" /\ UNCHANGED <<now, token>>
      /\ until' = [until EXCEPT ![req[w].cache] = Until(req[w].cache, req[w].life)]
      /\ req' = [req EXCEPT ![w].step = "return"]
  BY DEF StoreUntil, At, Become
<1>3. /\ req'[w].step = "return" /\ req'[w].cache = req[w].cache
      /\ \A v \in Worker \ {w} : req'[v] = req[v]
  BY <1>1, <1>2 DEF Request
<1>4. /\ req[w].life \in Life(req[w].cache) /\ req[w].life \in Nat /\ req[w].life > 2
      /\ req[w].token.ends = req[w].since + req[w].life
      /\ req[w].token.took = now - req[w].since
  BY <1>1, <1>2, LifeIsNat DEF AnswerInv
<1>5. ASSUME NEW v \in Worker, v # w PROVE (AnswerInv(v) /\ StoreInv(v) /\ ReturnInv(v))'
  BY <1>2, <1>3, <1>5, OthersLast DEF Recent, LarkLasts
<1>6. CASE req[w].cache = "lark"
  <2>1. /\ until'["lark"] = now + req[w].life - 2 /\ until'["line"] = until["line"]
        /\ req[w].life \in LarkLife
    BY <1>1, <1>2, <1>4, <1>6 DEF Cache, Life, Until
  <2>2. Recent /\ LarkLasts(token["lark"].ends, now)
    BY <1>1, <1>2, <1>6, RecentLasts DEF StoreInv, TypeInv
  <2>3. LarkInv'
    <3>1. PICK a \in LarkLife : token["lark"].ends >= now + a - 1
      BY <2>2 DEF Recent
    <3>2. a \in Nat /\ token["lark"].ends \in Nat
      BY <1>1, LifeAssumption DEF Cache, Token
    <3>3. until'["lark"] <= token["lark"].ends + req[w].life - a - 1
      BY <1>1, <1>4, <2>1, <3>1, <3>2
    <3>4. until'["lark"] <= now + req[w].life - 2
      BY <1>1, <1>4, <2>1
    <3>5. token["lark"].ends > 0
      BY <2>2 DEF LarkLasts
    <3> QED
      BY <1>2, <2>1, <3>3, <3>4, <3>5 DEF LarkInv
  <2>4. LineInv'
    BY <1>2, <1>3, <1>6, <2>1 DEF LifeInv, LineInv, At
  <2>5. (AnswerInv(w) /\ StoreInv(w) /\ ReturnInv(w))'
    BY <1>2, <1>3, <1>6, <2>2 DEF AnswerInv, StoreInv, ReturnInv, LarkLasts
  <2> QED
    BY <1>5, <2>3, <2>4, <2>5 DEF LifeInv
<1>7. CASE req[w].cache = "line"
  <2>1. until'["line"] = now + req[w].life /\ until'["lark"] = until["lark"]
    BY <1>1, <1>2, <1>7 DEF Cache, Until
  <2>2. token["line"] = req[w].token
    BY <1>1, <1>2, <1>7 DEF StoreInv
  <2>3. until'["line"] = token["line"].ends + token["line"].took
    BY <1>1, <1>4, <2>1, <2>2
  <2>4. LarkInv' /\ LineInv'
    BY <1>2, <2>1, <2>3 DEF LifeInv, LarkInv, LineInv
  <2>5. LineLasts(token["line"], now)
    BY <1>1, <1>4, <2>2 DEF LineLasts
  <2>6. (AnswerInv(w) /\ StoreInv(w) /\ ReturnInv(w))'
    BY <1>2, <1>3, <1>7, <2>5 DEF AnswerInv, StoreInv, ReturnInv, LineLasts
  <2> QED
    BY <1>5, <2>4, <2>6 DEF LifeInv
<1> QED
  BY <1>1, <1>6, <1>7 DEF Cache

LEMMA ReturnLasts ==
  ASSUME TypeInv, LifeInv, NEW w \in Worker, Return(w)
  PROVE  LifeInv'
<1>1. req \in [Worker -> Request] /\ req[w] \in Request /\ now \in Nat /\ ReturnInv(w)
  BY DEF TypeInv, TypeOK, LifeInv
<1>2. req[w].step = "return" /\ UNCHANGED <<now, token, until>>
  BY DEF Return, At
<1>3. /\ req'[w].step = "use" /\ req'[w].cache = req[w].cache /\ req'[w].since = now
      /\ req'[w].token = token[req[w].cache]
      /\ \A v \in Worker \ {w} : req'[v] = req[v]
  BY <1>1 DEF Return, Request
<1>4. (AnswerInv(w) /\ StoreInv(w) /\ ReturnInv(w))'
  BY <1>1, <1>2, <1>3 DEF AnswerInv, StoreInv, ReturnInv, LarkLasts, LineLasts, Request, Cache
<1> QED
  BY <1>2, <1>3, <1>4, QuietKeepsLifeInv

\* Calls, failures and first uses.
LEMMA PlainLasts ==
  ASSUME TypeInv, LifeInv, NEW w \in Worker, NEW r, req' = [req EXCEPT ![w] = r],
         r.step \in {"idle", "lock", "check"}, req[w].step # "storeUntil",
         UNCHANGED <<now, token, until>>
  PROVE  LifeInv'
<1>1. req'[w] = r /\ \A v \in Worker \ {w} : req'[v] = req[v]
  BY DEF TypeInv, TypeOK
<1>2. (AnswerInv(w) /\ StoreInv(w) /\ ReturnInv(w))'
  BY <1>1 DEF AnswerInv, StoreInv, ReturnInv
<1> QED
  BY <1>1, <1>2, QuietKeepsLifeInv

LEMMA TimeLasts ==
  ASSUME "long" \notin Features, TypeInv, LifeInv, TimePasses
  PROVE  LifeInv'
<1>1. /\ now \in Nat /\ now' = now + 1 /\ UNCHANGED <<token, until, req>>
      /\ \A w \in Worker : Waits(w)
  BY DEF TimePasses, TypeInv, TypeOK
<1>2. LarkInv'
  <2>1. CASE until["lark"] = 0
    BY <1>1, <2>1 DEF LarkInv
  <2>2. CASE until["lark"] # 0
    <3>1. PICK b \in LarkLife : until["lark"] <= now + b - 2
      BY <2>2 DEF LifeInv, LarkInv
    <3>2. b \in Nat /\ until["lark"] \in Int
      BY LifeAssumption DEF TypeInv, TypeOK, Cache
    <3>3. until["lark"] <= now' + b - 2
      BY <1>1, <3>1, <3>2
    <3> QED
      BY <1>1, <2>2, <3>3 DEF LifeInv, LarkInv
  <2> QED
    BY <2>1, <2>2
<1>3. LineInv'
  BY <1>1 DEF LifeInv, LineInv, At
<1>4. ASSUME NEW w \in Worker PROVE (AnswerInv(w) /\ StoreInv(w) /\ ReturnInv(w))'
  <2>1. /\ AnswerInv(w) /\ ReturnInv(w) /\ Waits(w)
        /\ req[w].since \in Nat /\ req[w].since <= now
    BY <1>1 DEF LifeInv, TypeInv, TypeOK, Request
  <2>2. AnswerInv(w)'
    BY <1>1, <2>1 DEF AnswerInv, Waits, At
  <2>3. StoreInv(w)'
    BY <1>1, <2>1 DEF StoreInv, Waits, At
  <2>4. ReturnInv(w)'
    BY <1>1, <2>1 DEF ReturnInv, Waits, At, TypeInv, TypeOK, Request, Cache
  <2> QED
    BY <2>2, <2>3, <2>4
<1> QED
  BY <1>2, <1>3, <1>4 DEF LifeInv

LEMMA StepLifeInv ==
  ASSUME "long" \notin Features
  PROVE  TypeInv /\ LifeInv /\ [Next]_vars => LifeInv'
<1> SUFFICES ASSUME TypeInv, LifeInv, [Next]_vars
             PROVE  LifeInv'
  OBVIOUS
<1>1. ASSUME NEW w \in Worker,
             \/ GetLarkAccessToken(w) \/ GetLineChannelAccessToken(w)
             \/ Lock(w) \/ AskFails(w) \/ Use(w)
      PROVE  LifeInv'
  <2>1. PICK r : /\ req' = [req EXCEPT ![w] = r] /\ r.step \in {"idle", "lock", "check"}
                 /\ req[w].step # "storeUntil" /\ UNCHANGED <<now, token, until>>
    <3>1. CASE GetLarkAccessToken(w)
      <4>1. /\ [req[w] EXCEPT !.step = "check", !.cache = "lark"].step = "check"
            /\ req[w].step = "idle" /\ UNCHANGED <<now, token, until>>
        BY <3>1 DEF GetLarkAccessToken, At, TypeInv, TypeOK, Request
      <4> QED
        BY <3>1, <4>1 DEF GetLarkAccessToken
    <3>2. CASE GetLineChannelAccessToken(w)
      <4>1. /\ [req[w] EXCEPT !.step = "lock", !.cache = "line"].step = "lock"
            /\ req[w].step = "idle" /\ UNCHANGED <<now, token, until>>
        BY <3>2 DEF GetLineChannelAccessToken, At, TypeInv, TypeOK, Request
      <4> QED
        BY <3>2, <4>1 DEF GetLineChannelAccessToken
    <3>3. CASE Lock(w)
      <4>1. /\ [req[w] EXCEPT !.step = "check"].step = "check"
            /\ req[w].step = "lock" /\ UNCHANGED <<now, token, until>>
        BY <3>3 DEF Lock, At, TypeInv, TypeOK, Request
      <4>2. req' = [req EXCEPT ![w] = [req[w] EXCEPT !.step = "check"]]
        BY <3>3 DEF Lock, Become, TypeInv, TypeOK
      <4> QED
        BY <4>1, <4>2
    <3>4. CASE AskFails(w) \/ Use(w)
      <4>1. Idle.step = "idle"
        BY DEF Idle
      <4> QED
        BY <3>4, <4>1 DEF AskFails, Use, Finish, At
    <3> QED
      BY <1>1, <3>1, <3>2, <3>3, <3>4
  <2> QED
    BY <2>1, PlainLasts
<1>2. CASE UNCHANGED vars
  BY <1>2 DEF vars, LifeInv, LarkInv, LineInv, AnswerInv, StoreInv, ReturnInv, Recent,
     LarkLasts, LineLasts, At
<1> QED
  BY <1>1, <1>2, TimeLasts, CheckLasts, AskLasts, AnswerLasts, PointerLasts, UntilLasts, ReturnLasts
  DEF Next, Continue

\* A token that getLarkAccessToken or getLineChannelAccessToken gives out is accepted
\* when the caller's first call arrives, whatever refreshes overlap: LINE's, if its
\* answer and the call took no more than a minute, and Lark's but for the difference
\* of two lives, as long as it is not kept for a whole bulk sync.
THEOREM TokensLast ==
  ASSUME "long" \notin Features
  PROVE  Spec => []UsedTokenIsValid
<1>1. TypeInv /\ LifeInv => UsedTokenIsValid
  <2> SUFFICES ASSUME TypeInv, LifeInv, NEW w \in Worker, At(w, "use")
               PROVE  /\ req[w].token # NoToken
                      /\ IF req[w].cache = "lark"
                           THEN \E a, b \in LarkLife : now < req[w].token.ends + a - b
                           ELSE req[w].token.took + (now - req[w].since) <= 2
                                  => now < req[w].token.ends
    BY DEF UsedTokenIsValid
  <2>1. /\ now \in Nat /\ req[w].since \in Nat /\ req[w].since <= now
        /\ req[w].token.ends \in Nat /\ req[w].token.took \in Nat /\ ReturnInv(w)
        /\ req[w].step = "use"
    BY DEF TypeInv, TypeOK, Request, Token, LifeInv, At
  <2>2. CASE req[w].cache = "lark"
    <3>1. /\ req[w].token.ends > 0 /\ now <= req[w].since + 1
          /\ \E a, b \in LarkLife : req[w].since + 1 < req[w].token.ends + a - b
      BY <2>1, <2>2 DEF ReturnInv, LarkLasts
    <3>2. req[w].token # NoToken
      BY <3>1 DEF NoToken
    <3>3. PICK a \in LarkLife, b \in LarkLife : req[w].since + 1 < req[w].token.ends + a - b
      BY <3>1
    <3>4. a \in Nat /\ b \in Nat
      BY LifeAssumption
    <3>5. now < req[w].token.ends + a - b
      BY <2>1, <3>1, <3>3, <3>4
    <3> QED
      BY <2>2, <3>2, <3>5
  <2>3. CASE req[w].cache # "lark"
    <3>1. req[w].token.ends + req[w].token.took > req[w].since + 2
      BY <2>1, <2>3 DEF ReturnInv, LineLasts
    <3>2. req[w].token # NoToken
      BY <2>1, <3>1 DEF NoToken
    <3> QED
      BY <2>1, <2>3, <3>1, <3>2
  <2> QED
    BY <2>2, <2>3
<1>2. TypeInv /\ LifeInv /\ [Next]_vars => LifeInv'
  BY StepLifeInv
<1> QED
  BY <1>1, <1>2, InitTypeInv, StepTypeInv, InitLifeInv, PTL DEF Spec
==============================================================================
