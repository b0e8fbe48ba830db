----------------------------- MODULE AccessTokens -----------------------------
(***************************************************************************)
(* The two cached access tokens: Lark's (lark.go), in package variables    *)
(* without a lock, and LINE's (line_client.go), under a mutex that is held *)
(* while a new one is asked for.  A token is known here by the moment the  *)
(* server stops accepting it.  A unit of time is 30 seconds, the timeout   *)
(* of larkHTTPClient; http.DefaultClient, which asks LINE, has none.       *)
(* Statements take no time.                                                *)
(*                                                                         *)
(* A Go string is written in two words, its length and its pointer, and    *)
(* without a lock those of two tokens mix (lark_token_race_test.go:12-18). *)
(* An expiry has words, too; Before compares one of them, the monotonic    *)
(* clock's, but for the very first writing (HalfWritten).                  *)
(***************************************************************************)
EXTENDS Integers

CONSTANTS
  Worker,    \* goroutines
  LarkLife,  \* what an answer may say of the life of its token: res.Expire ...
  LineLife,  \* ... and parsed.ExpiresIn
  Size,      \* the lengths tokens may have
  Features,  \* "long": a caller keeps its token for a whole bulk sync
  MaxTime    \* bound on the clock

None == "none"
Cache == {"lark", "line"}

ASSUME WorkerAssumption == None \notin Worker
ASSUME LifeAssumption == LarkLife \cup LineLife \subseteq {n \in Nat : n > 2}
ASSUME SizeAssumption == Size \subseteq Nat \ {0}

VARIABLES
  now,
  length, \* larkCachedToken, lineTokenCache: the word of the length ...
  token,  \* ... and that of the pointer, the token it points to
  until,  \* larkTokenExpiry, lineTokenUntil
  held,   \* who holds lineTokenMu
  req     \* what each goroutine is doing

vars == <<now, length, token, until, held, req>>

\* ends is when the server stops accepting the token, and took (auxiliary) how long
\* its answer was awaited.
NoToken == [ends |-> 0, size |-> 0, took |-> 0]
Idle == [step |-> "idle", cache |-> "lark", token |-> NoToken, length |-> 0, life |-> 0, since |-> 0]

Init ==
  /\ now = 1
  /\ length = [c \in Cache |-> 0]
  /\ token = [c \in Cache |-> NoToken]
  /\ until = [c \in Cache |-> 0]
  /\ held = None
  /\ req = [w \in Worker |-> Idle]

At(w, step) == req[w].step = step
Become(w, step) == req' = [req EXCEPT ![w].step = step]
Finish(w) == req' = [req EXCEPT ![w] = Idle]
Unlock(w) == held' = IF held = w THEN None ELSE held

Life(c) == IF c = "lark" THEN LarkLife ELSE LineLife

\* The minute in reserve is taken off when Lark's expiry is written and when
\* LINE's is read.
UntilHalfMargin(c, life) == IF c = "lark" THEN now + life - 1 ELSE now + life
Until(c, life) == IF c = "lark" THEN now + life - 2 ELSE now + life
Fresh(c) == length[c] # 0 /\ now < (IF c = "lark" THEN until[c] ELSE until[c] - 2)

-----------------------------------------------------------------------------
GetLarkAccessToken(w) ==
  /\ At(w, "idle")
  /\ req' = [req EXCEPT ![w] = [@ EXCEPT !.step = "check", !.cache = "lark"]]
  /\ UNCHANGED <<now, length, token, until, held>>

GetLineChannelAccessToken(w) ==
  /\ At(w, "idle")
  /\ req' = [req EXCEPT ![w] = [@ EXCEPT !.step = "lock", !.cache = "line"]]
  /\ UNCHANGED <<now, length, token, until, held>>

LockNothing(w) ==
  /\ At(w, "lock")
  /\ held' = w
  /\ Become(w, "check")
  /\ UNCHANGED <<now, length, token, until>>
Lock(w) ==
  /\ At(w, "lock")
  /\ held = None
  /\ held' = w
  /\ Become(w, "check")
  /\ UNCHANGED <<now, length, token, until>>

\* The new monotonic word beside the old, zero wall word is a time far ahead.
HalfWritten(c) ==
  c = "lark" /\ until[c] = 0 /\ \E v \in Worker : At(v, "storeUntil") /\ req[v].cache = c
Check(w) ==
  /\ At(w, "check")
  /\ \/ Become(w, IF Fresh(req[w].cache) THEN "return" ELSE "ask")
     \/ HalfWritten(req[w].cache) /\ Become(w, "return")
  /\ UNCHANGED <<now, length, token, until, held>>

\* The server makes a token when the request reaches it ...
Ask(w) ==
  /\ At(w, "ask")
  /\ \E life \in Life(req[w].cache), size \in Size :
       req' = [req EXCEPT ![w] =
         [@ EXCEPT !.step = "answer", !.life = life, !.since = now,
                   !.token = [ends |-> now + life, size |-> size, took |-> 0]]]
  /\ UNCHANGED <<now, length, token, until, held>>

\* ... and the answer comes, from Lark within the timeout.
Answer(w) ==
  /\ At(w, "answer")
  /\ req' = [req EXCEPT ![w] = [@ EXCEPT !.step = "store", !.token.took = now - req[w].since]]
  /\ UNCHANGED <<now, length, token, until, held>>

\* No answer in time, or one that is no token; the mutex goes with the return.
ReturnLocked(w) ==
  /\ At(w, "answer")
  /\ Finish(w)
  /\ UNCHANGED <<now, length, token, until, held>>
AskAgain(w) ==
  /\ At(w, "answer")
  /\ Become(w, "ask")
  /\ UNCHANGED <<now, length, token, until, held>>
AskFails(w) ==
  /\ At(w, "answer")
  /\ Unlock(w)
  /\ Finish(w)
  /\ UNCHANGED <<now, length, token, until>>

StoreLength(w) ==
  /\ At(w, "store")
  /\ length' = [length EXCEPT ![req[w].cache] = req[w].token.size]
  /\ Become(w, "storePointer")
  /\ UNCHANGED <<now, token, until, held>>

StorePointer(w) ==
  /\ At(w, "storePointer")
  /\ token' = [token EXCEPT ![req[w].cache] = req[w].token]
  /\ Become(w, "storeUntil")
  /\ UNCHANGED <<now, length, until, held>>

StoreUntil(w) ==
  /\ At(w, "storeUntil")
  /\ until' = [until EXCEPT ![req[w].cache] = Until(req[w].cache, req[w].life)]
  /\ Become(w, "return")
  /\ UNCHANGED <<now, length, token, held>>

\* The variable is read again, not the answer.
Return(w) ==
  /\ At(w, "return")
  /\ Unlock(w)
  /\ req' = [req EXCEPT ![w] = [@ EXCEPT !.step = "use", !.token = token[req[w].cache],
                                         !.length = length[req[w].cache],
                                         !.life = 0, !.since = now]]
  /\ UNCHANGED <<now, length, token, until>>

\* The caller's first call reaches the server, Lark within the timeout.
Use(w) ==
  /\ At(w, "use")
  /\ Finish(w)
  /\ UNCHANGED <<now, length, token, until, held>>

\* Time passes while everyone waits for a server or for the mutex, for Lark no more
\* than one unit.
Waits(w) ==
  \/ req[w].step \in {"idle", "lock"}
  \/ req[w].step \in {"answer", "use"} /\ (req[w].cache = "line" \/ now = req[w].since)
  \/ "long" \in Features /\ At(w, "use")
TimePasses ==
  /\ now < MaxTime
  /\ \A w \in Worker : Waits(w)
  /\ now' = now + 1
  /\ UNCHANGED <<length, token, until, held, req>>

Continue(w) ==
  \/ Lock(w) \/ Check(w) \/ Ask(w) \/ Answer(w) \/ AskFails(w)
  \/ StoreLength(w) \/ StorePointer(w) \/ StoreUntil(w) \/ Return(w) \/ Use(w)

Next ==
  \/ TimePasses
  \/ \E w \in Worker : GetLarkAccessToken(w) \/ GetLineChannelAccessToken(w) \/ Continue(w)

Spec == Init /\ [][Next]_vars

\* Goroutines run, servers answer or the connection fails, and sync.Mutex hands
\* itself to the longest waiter.
FairSpec == Spec /\ \A w \in Worker : WF_vars(Continue(w)) /\ SF_vars(Lock(w))

-----------------------------------------------------------------------------
Step == {"idle", "lock", "check", "ask", "answer", "store", "storePointer", "storeUntil",
         "return", "use"}
Token == [ends : Nat, size : Nat, took : Nat]
Request == [step : Step, cache : Cache, token : Token, length : Nat, life : Nat, since : Nat]

\* Who holds the mutex is inside the function it guards.
TypeOK ==
  /\ now \in Nat
  /\ length \in [Cache -> Nat]
  /\ token \in [Cache -> Token]
  /\ until \in [Cache -> Int]
  /\ held \in Worker \cup {None}
  /\ req \in [Worker -> Request]
  /\ held # None =>
       req[held].cache = "line" /\ req[held].step \notin {"idle", "lock", "use"}

\* A token that is given out is accepted when the first call with it arrives ("every
\* call gets a valid token", lark_token_race_test.go:16): for LINE, if the answer and
\* the call took no more than the minute in reserve, and for Lark, whose answers and
\* calls the timeout bounds, but for the difference of two lives, since the token of
\* one answer may stay beside the expiry of another.
UsedTokenIsValid ==
  \A w \in Worker :
    At(w, "use") =>
      /\ req[w].token # NoToken
      /\ IF req[w].cache = "lark"
           THEN \E a, b \in LarkLife : now < req[w].token.ends + a - b
           ELSE req[w].token.took + (now - req[w].since) <= 2 => now < req[w].token.ends

\* Its two words are those of one token.
UsedTokenIsWhole == \A w \in Worker : At(w, "use") => req[w].length = req[w].token.size

\* LINE is asked for a token only when the cached one has run out, however many
\* replies want one at once.
AskedOnlyWhenStale ==
  [][\A w \in Worker : Ask(w) /\ req[w].cache = "line" => ~Fresh("line")]_vars

\* Every caller gets a token or an error: nobody returns with the mutex.
EveryCallEnds == \A w \in Worker : []<>At(w, "idle")
=============================================================================
