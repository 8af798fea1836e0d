------------------------------ MODULE AuthGate ------------------------------
(***************************************************************************)
(* The authentication of a request (onelo/fastapi.py and its siblings for  *)
(* the other frameworks) and the auth cache behind it: a handler looks the *)
(* hash of a bearer token up, verifies it with retries on a miss, caches   *)
(* the raw result and applies its own gates to it.  The adapters repeat    *)
(* these steps; they differ in what they make of a failure.                *)
(*                                                                         *)
(* A handler is gated when it asks for a plan or a verified e-mail; `paid` *)
(* says the user passes.  The server takes a token's rights away at any    *)
(* moment and gives none back.                                             *)
(***************************************************************************)
EXTENDS Naturals, Sequences, FiniteSets, SequencesExt

CONSTANTS Handlers,   \* concurrent requests
          Gated,      \* the ones with require_plan / require_email_verified
          Tokens,
          NoToken,
          MaxSize,    \* max_size
          TTL,        \* cache_ttl
          Attempts,   \* retry_attempts
          Budget,     \* retry_total_timeout
          Withdrawn,  \* bound: the tokens that may lose a right
          Latency,    \* bound: how long one verification takes
          MaxTime     \* bound: ticks of the clock

ASSUME HandlersAssumption == Gated \subseteq Handlers
ASSUME TokensAssumption == NoToken \notin Tokens /\ Withdrawn \subseteq Tokens
ASSUME SizesAssumption ==
  /\ MaxSize \in Nat \ {0} /\ Attempts \in Nat \ {0} /\ Budget \in Nat \ {0}
  /\ TTL \in Nat /\ Latency \in Nat /\ MaxTime \in Nat

Times == 0..MaxTime
\* _BACKOFF_BASE * 2 ** attempt, in ticks
Backoff(attempt) == 2 ^ (attempt - 1)
ASSUME BackoffAssumption == \A attempt \in 1..Attempts : Backoff(attempt) \in Nat
Never == MaxTime + 1
Rights == {"valid", "paid"}

VARIABLES
  now,      \* time.monotonic()
  store,    \* InProcessAuthCache._store, least recently used first
  pc,       \* where each request stands in _resolve()
  request,  \* its token, attempt, deadline, the answer; at: when sent, or to wake
  lapsed,   \* external: when each right of each token ended
  outcome   \* history: what the last step told the application

vars == <<now, store, pc, request, lapsed, outcome>>

Statuses == {"none", "ok", "unavailable"}
NoRequest == [token |-> NoToken, attempt |-> 1, deadline |-> 0, at |-> 0,
              status |-> "none", paid |-> FALSE]
NoOutcome == [token |-> NoToken, gated |-> FALSE, kind |-> "none", why |-> "none"]
Kinds == {"none", "user", "anonymous", "denied", "unavailable", "error"}
Reasons == {"none", "missing", "invalid", "forbidden", "unavailable", "unexpected"}
Outcomes == [token : Tokens \cup {NoToken}, gated : BOOLEAN, kind : Kinds, why : Reasons]
Holds(t, right) == lapsed[t][right] = Never
Positions(t) == {i \in 1..Len(store) : store[i].token = t}
Fresh(t) == \E i \in Positions(t) : now < store[i].expiry

Entries == [token : Tokens, expiry : Nat, paid : BOOLEAN]
Requests == [token : Tokens \cup {NoToken}, attempt : 1..Attempts, deadline : Nat,
             at : Nat, status : Statuses, paid : BOOLEAN]

TypeOK ==
  /\ now \in Times
  /\ store \in Seq(Entries) /\ Len(store) <= MaxSize
  /\ \A i \in 1..Len(store) : Positions(store[i].token) = {i}
  /\ pc \in [Handlers -> {"idle", "asking", "answered", "storing", "backoff"}]
  /\ request \in [Handlers -> Requests]
  /\ lapsed \in [Tokens -> [Rights -> Times \cup {Never}]]
  /\ outcome \in Outcomes

Init ==
  /\ now = 0
  /\ store = <<>>
  /\ pc = [h \in Handlers |-> "idle"]
  /\ request = [h \in Handlers |-> NoRequest]
  /\ lapsed = [t \in Tokens |-> [right \in Rights |-> Never]]
  /\ outcome = NoOutcome

(***************************************************************************)
(* InProcessAuthCache                                                      *)
(***************************************************************************)
Dropped(t) == IF Positions(t) = {} THEN store
              ELSE RemoveAt(store, CHOOSE i \in Positions(t) : TRUE)

\* Mutant: a hit starts the entry's life again.
SlidingHit(t) ==
  LET i == CHOOSE i \in Positions(t) : TRUE
  IN store' = Append(Dropped(t), [store[i] EXCEPT !.expiry = now + TTL])

\* get(): a live entry becomes the most recently used
CacheHit(t) ==
  LET i == CHOOSE i \in Positions(t) : TRUE
  IN store' = Append(Dropped(t), store[i])

\* Mutant: an entry is added and none evicted.
CacheSetUnbounded(t, paid) ==
  store' = Append(Dropped(t), [token |-> t, expiry |-> now + TTL, paid |-> paid])

\* set(): replace, move to the end, evict the least recently used
CacheSet(t, paid) ==
  IF TTL = 0 THEN UNCHANGED store
  ELSE LET full == Append(Dropped(t), [token |-> t, expiry |-> now + TTL,
                                       paid |-> paid])
       IN store' = IF Len(full) > MaxSize THEN Tail(full) ELSE full

(***************************************************************************)
(* What each adapter makes of a failure: "denied" is a 401 or 403,         *)
(* "anonymous" a request without a user, "unavailable" a 503, or the flag  *)
(* by which a middleware tells the application, "error" an exception that  *)
(* goes up to the framework.  Every adapter runs the steps of _resolve()   *)
(* below; verify_token_sync() has the same retries.                        *)
(*                                                                         *)
(* "unexpected" is an exception that is none of OneloAuthError's, such as  *)
(* one httpx raises outside of HTTPError.  The ASGI and WSGI middlewares   *)
(* alone catch it.                                                         *)
(***************************************************************************)
Outage(reason) == IF reason = "unavailable" THEN "unavailable" ELSE "error"
Outages == {"unavailable", "unexpected"}
Strict(reason) == IF reason \in Outages THEN Outage(reason) ELSE "denied"
Lenient(reason) == IF reason \in Outages THEN Outage(reason) ELSE "anonymous"
Optional(kind) == IF kind = "denied" THEN "anonymous" ELSE kind

RequireUser(reason) == Strict(reason)
OptionalUser(reason) == Optional(RequireUser(reason))
FlaskUser(reason) == Strict(reason)
FlaskOptionalUser(reason) == Optional(FlaskUser(reason))
LitestarUser(reason) == Strict(reason)
LitestarOptionalUser(reason) == Optional(LitestarUser(reason))
\* without a token the next authentication class of DRF has its turn
DrfUser(reason) == IF reason = "missing" THEN "anonymous" ELSE Strict(reason)
\* the middleware records status and reason, the decorator answers with them
DjangoMiddleware(reason) == Lenient(reason)
DjangoRequireUser(reason) == Strict(reason)

\* Mutant: the middleware passes every failure on as a request without a user.
AnyFailureIsAnonymous(reason) == "anonymous"

\* "treating as unauth": only an unreachable backend sets onelo_auth_unavailable
AsgiMiddleware(reason) == IF reason = "unavailable" THEN "unavailable" ELSE "anonymous"
WsgiMiddleware(reason) == AsgiMiddleware(reason)

GatedAdapters(reason) ==
  {RequireUser(reason), OptionalUser(reason), FlaskUser(reason), FlaskOptionalUser(reason),
   LitestarUser(reason), LitestarOptionalUser(reason), DrfUser(reason),
   DjangoMiddleware(reason), DjangoRequireUser(reason)}
UngatedAdapters(reason) == {AsgiMiddleware(reason), WsgiMiddleware(reason)}

Admits(h, t) ==
  outcome' = [token |-> t, gated |-> h \in Gated, kind |-> "user", why |-> "none"]

\* Any adapter may serve h; the ASGI and WSGI middlewares have no gates.
Fails(h, t, reason) ==
  \E kind \in GatedAdapters(reason) \cup IF h \in Gated THEN {} ELSE UngatedAdapters(reason) :
    outcome' = [token |-> t, gated |-> h \in Gated, kind |-> kind, why |-> reason]

(***************************************************************************)
(* _resolve()                                                              *)
(***************************************************************************)
\* Mutant: the gates are only applied to a fresh verification.
GateFreshOnly(h, t, paid) ==
  IF paid \/ h \notin Gated \/ pc[h] = "idle" THEN Admits(h, t)
  ELSE Fails(h, t, "forbidden")

\* _check_gates()
Gate(h, t, paid) ==
  IF paid \/ h \notin Gated THEN Admits(h, t) ELSE Fails(h, t, "forbidden")

Missing(h) ==
  /\ pc[h] = "idle"
  /\ Fails(h, NoToken, "missing")
  /\ UNCHANGED <<now, store, pc, request, lapsed>>

Hit(h, t) ==
  /\ pc[h] = "idle" /\ Fresh(t)
  /\ CacheHit(t)
  /\ \E i \in Positions(t) : Gate(h, t, store[i].paid)
  /\ UNCHANGED <<now, pc, request, lapsed>>

Miss(h, t) ==
  /\ pc[h] = "idle" /\ ~Fresh(t)
  /\ store' = Dropped(t)
  /\ pc' = [pc EXCEPT ![h] = "asking"]
  /\ request' = [request EXCEPT ![h] = [NoRequest EXCEPT
                   !.token = t, !.deadline = now + Budget, !.at = now]]
  /\ outcome' = NoOutcome
  /\ UNCHANGED <<now, lapsed>>

Done(h) ==
  /\ pc' = [pc EXCEPT ![h] = "idle"]
  /\ request' = [request EXCEPT ![h] = NoRequest]

\* 200 with a usable user: the raw result is cached ...
Verified(h) ==
  /\ pc[h] = "answered" /\ request[h].status = "ok"
  /\ pc' = [pc EXCEPT ![h] = "storing"]
  /\ CacheSet(request[h].token, request[h].paid)
  /\ outcome' = NoOutcome
  /\ UNCHANGED <<now, request, lapsed>>

\* ... and the gates applied to what this request verified
Admit(h) ==
  /\ pc[h] = "storing"
  /\ Gate(h, request[h].token, request[h].paid)
  /\ Done(h)
  /\ UNCHANGED <<now, store, lapsed>>

\* 401 and 403 are not retried; the server refuses only what was withdrawn
Refused(h) ==
  /\ pc[h] = "asking" /\ ~Holds(request[h].token, "valid")
  /\ \E reason \in {"invalid", "forbidden"} : Fails(h, request[h].token, reason)
  /\ Done(h)
  /\ UNCHANGED <<now, store, lapsed>>

\* An exception of another kind is neither retried nor cached.
Breaks(h) ==
  /\ pc[h] = "asking"
  /\ Fails(h, request[h].token, "unexpected")
  /\ Done(h)
  /\ UNCHANGED <<now, store, lapsed>>

\* a 429, or a last or late failure, is final
GivesUp(h) ==
  /\ \/ pc[h] = "asking"
     \/ /\ pc[h] = "answered" /\ request[h].status = "unavailable"
        /\ request[h].attempt = Attempts \/ now >= request[h].deadline
  /\ Fails(h, request[h].token, "unavailable")
  /\ Done(h)
  /\ UNCHANGED <<now, store, lapsed>>

\* sleep for the attempt's backoff, not past the deadline
BacksOff(h) ==
  LET r == request[h] IN
  /\ pc[h] = "answered" /\ r.status = "unavailable"
  /\ r.attempt < Attempts /\ now < r.deadline
  /\ pc' = [pc EXCEPT ![h] = "backoff"]
  /\ request' = [request EXCEPT ![h].status = "none", ![h].at =
                   IF now + Backoff(r.attempt) < r.deadline
                   THEN now + Backoff(r.attempt) ELSE r.deadline]
  /\ outcome' = NoOutcome
  /\ UNCHANGED <<now, store, lapsed>>

\* Mutant: the deadline is not looked at again after the sleep.
RetriesAnyway(h) ==
  /\ pc[h] = "backoff" /\ now >= request[h].at
  /\ pc' = [pc EXCEPT ![h] = "asking"]
  /\ request' = [request EXCEPT ![h].attempt = @ + 1, ![h].at = now]
  /\ outcome' = NoOutcome
  /\ UNCHANGED <<now, store, lapsed>>

\* the sleep may overrun; at the deadline the request fails with 503
Wakes(h) ==
  /\ pc[h] = "backoff" /\ now >= request[h].at
  /\ IF now >= request[h].deadline
     THEN Done(h) /\ Fails(h, request[h].token, "unavailable")
     ELSE /\ pc' = [pc EXCEPT ![h] = "asking"]
          /\ request' = [request EXCEPT ![h].attempt = @ + 1, ![h].at = now]
          /\ outcome' = NoOutcome
  /\ UNCHANGED <<now, store, lapsed>>

\* The application forgets a token.
Invalidate(t) ==
  /\ Positions(t) # {}
  /\ store' = Dropped(t)
  /\ outcome' = NoOutcome
  /\ UNCHANGED <<now, pc, request, lapsed>>

(***************************************************************************)
(* The backend and the clock (external)                                    *)
(***************************************************************************)
\* It vouches for a valid token only, and may fail for any.
Answers(h, status) ==
  LET t == request[h].token IN
  /\ pc[h] = "asking"
  /\ status = "ok" => Holds(t, "valid")
  /\ pc' = [pc EXCEPT ![h] = "answered"]
  /\ request' = [request EXCEPT ![h].status = status, ![h].paid = (status = "ok" /\ Holds(t, "paid"))]
  /\ outcome' = NoOutcome
  /\ UNCHANGED <<now, store, lapsed>>

\* A revoked token has nothing left to lose.
Lapse(t, right) ==
  /\ t \in Withdrawn /\ Holds(t, "valid") /\ Holds(t, right)
  /\ lapsed' = [lapsed EXCEPT ![t][right] = now]
  /\ outcome' = NoOutcome
  /\ UNCHANGED <<now, store, pc, request>>

Tick ==
  /\ now < MaxTime
  /\ \A h \in Handlers : pc[h] \in {"asking", "answered", "storing"} =>
       now < request[h].at + Latency
  /\ now' = now + 1
  /\ outcome' = NoOutcome
  /\ UNCHANGED <<store, pc, request, lapsed>>

Resolving == \E h \in Handlers :
  \/ Missing(h) \/ \E t \in Tokens : Hit(h, t) \/ Miss(h, t)
  \/ Verified(h) \/ Admit(h) \/ Refused(h) \/ Breaks(h) \/ GivesUp(h) \/ BacksOff(h) \/ Wakes(h)
Environment ==
  \/ \E h \in Handlers, status \in Statuses \ {"none"} : Answers(h, status)
  \/ \E t \in Tokens : Invalidate(t) \/ \E right \in Rights : Lapse(t, right)
  \/ Tick

Next == Resolving \/ Environment
Spec == Init /\ [][Next]_vars
-----------------------------------------------------------------------------
\* Nobody is admitted on a right he lost more than a cache_ttl and a verification
\* ago: neither a revoked token nor, past a gate, a lost plan; whichever request
\* filled the cache, in whatever order answers came, and with or without gates of
\* its own.
LapsedIsRefused ==
  LET t == outcome.token IN
  outcome.kind = "user" =>
    /\ now <= lapsed[t]["valid"] + TTL + Latency
    /\ outcome.gated => now <= lapsed[t]["paid"] + TTL + Latency

\* An outage is not a sign-out (A1): in whatever order attempts failed, and whatever
\* the cache holds, a request with a token is turned away, or goes on without a user
\* and without the unavailable flag, only if the user has lost a right the handler
\* asks for.  The one exception is an exception the client does not expect, behind
\* the ASGI or WSGI middleware, which treats it as a missing sign-in; no other
\* adapter does, and a gate never turns it into a denial.
TreatedAsUnauth ==
  outcome.why = "unexpected" /\ outcome.kind = "anonymous" /\ ~outcome.gated
OutageIsNotSignOut ==
  LET t == outcome.token IN
  t # NoToken /\ outcome.kind \in {"anonymous", "denied"} =>
    ~Holds(t, "valid") \/ (outcome.gated /\ ~Holds(t, "paid")) \/ TreatedAsUnauth

\* Within one request no attempt starts once the budget is used up.
NoLateAttempt ==
  \A h \in Handlers : pc[h] = "asking" => request[h].at < request[h].deadline
=============================================================================
