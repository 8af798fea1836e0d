--------------------------- MODULE AuthGateProofs ---------------------------
(***************************************************************************)
(* Whom a handler admits, turns away and sends on anonymously, for any     *)
(* number of handlers and tokens, any cache and any retry budget.          *)
(***************************************************************************)
EXTENDS AuthGate, SequenceTheorems, TLAPS

(***************************************************************************)
(* The inductive invariant.  What a token's cached or verified result says *)
(* about its rights is bounded by when it was asked for: an entry expires  *)
(* and an answer is used no later than a verification, and a cache_ttl,    *)
(* after the right was lost; a result without the right `paid` is final.   *)
(***************************************************************************)
Sound(e) ==
  /\ e.expiry <= now + TTL
  /\ e.expiry <= lapsed[e.token]["valid"] + TTL + Latency
  /\ e.paid => e.expiry <= lapsed[e.token]["paid"] + TTL + Latency
  /\ ~e.paid => ~Holds(e.token, "paid")

EntriesSound == \A i \in 1..Len(store) : Sound(store[i])

Asked(h) ==
  /\ pc[h] # "idle" => request[h].token \in Tokens
  /\ pc[h] \in {"asking", "answered", "storing"} =>
       request[h].at <= now /\ now <= request[h].at + Latency
  /\ pc[h] = "asking" => request[h].at < request[h].deadline
  /\ pc[h] = "backoff" => request[h].attempt < Attempts

Vouched(h) ==
  /\ pc[h] = "storing" => request[h].status = "ok"
  /\ pc[h] \in {"answered", "storing"} /\ request[h].status = "ok" =>
       /\ request[h].at <= lapsed[request[h].token]["valid"]
       /\ request[h].paid => request[h].at <= lapsed[request[h].token]["paid"]
       /\ ~request[h].paid => ~Holds(request[h].token, "paid")

RequestsSound == \A h \in Handlers : Asked(h) /\ Vouched(h)

IInv ==
  /\ TypeOK /\ EntriesSound /\ RequestsSound
  /\ LapsedIsRefused /\ OutageIsNotSignOut /\ NoLateAttempt

-----------------------------------------------------------------------------
\* RemoveAt() takes one position out of a sequence and closes the gap.
LEMMA RemoveAtShifts ==
  ASSUME NEW S, NEW s \in Seq(S), NEW i \in 1..Len(s)
  PROVE  /\ RemoveAt(s, i) \in Seq(S)
         /\ Len(RemoveAt(s, i)) = Len(s) - 1
         /\ \A k \in 1..(Len(s) - 1) :
              RemoveAt(s, i)[k] = IF k <= i - 1 THEN s[k] ELSE s[k + 1]
<1> DEFINE before == SubSeq(s, 1, i - 1)
           after == SubSeq(s, i + 1, Len(s))
<1>1. Len(s) \in Nat /\ \A j \in 1..Len(s) : s[j] \in S
  BY ElementOfSeq, LenProperties
<1>2. /\ before \in Seq(S) /\ Len(before) = i - 1
      /\ \A j \in 1..(i - 1) : before[j] = s[j]
  <2>1. 1 \in Int /\ i - 1 \in Int /\ \A j \in 1..(i - 1) : s[j] \in S
    BY <1>1
  <2>2. /\ SubSeq(s, 1, i - 1) \in Seq(S)
        /\ Len(SubSeq(s, 1, i - 1)) = IF 1 <= i - 1 THEN (i - 1) - 1 + 1 ELSE 0
        /\ \A j \in 1..((i - 1) - 1 + 1) : SubSeq(s, 1, i - 1)[j] = s[1 + j - 1]
    BY <2>1, SubSeqProperties
  <2>3. QED
    BY <2>2, <1>1
<1>3. /\ after \in Seq(S) /\ Len(after) = Len(s) - i
      /\ \A j \in 1..(Len(s) - i) : after[j] = s[i + j]
  <2>1. i + 1 \in Int /\ Len(s) \in Int /\ \A j \in (i + 1)..Len(s) : s[j] \in S
    BY <1>1
  <2>2. /\ SubSeq(s, i + 1, Len(s)) \in Seq(S)
        /\ Len(SubSeq(s, i + 1, Len(s))) =
             IF i + 1 <= Len(s) THEN Len(s) - (i + 1) + 1 ELSE 0
        /\ \A j \in 1..(Len(s) - (i + 1) + 1) :
             SubSeq(s, i + 1, Len(s))[j] = s[i + 1 + j - 1]
    BY <2>1, SubSeqProperties
  <2>3. QED
    BY <2>2, <1>1
<1> HIDE DEF before, after
<1>4. /\ before \o after \in Seq(S)
      /\ Len(before \o after) = Len(s) - 1
      /\ \A k \in 1..(Len(s) - 1) :
           (before \o after)[k] = IF k <= i - 1 THEN s[k] ELSE s[k + 1]
  <2>1. /\ before \o after \in Seq(S)
        /\ Len(before \o after) = Len(before) + Len(after)
        /\ \A k \in 1..(Len(before) + Len(after)) : (before \o after)[k] =
             IF k <= Len(before) THEN before[k] ELSE after[k - Len(before)]
    BY <1>2, <1>3, ConcatProperties
  <2>2. Len(before) + Len(after) = Len(s) - 1
    BY <1>1, <1>2, <1>3
  <2>3. ASSUME NEW k \in 1..(Len(s) - 1)
        PROVE  (before \o after)[k] = IF k <= i - 1 THEN s[k] ELSE s[k + 1]
    <3>1. CASE k <= i - 1
      BY <3>1, <2>1, <2>2, <1>1, <1>2
    <3>2. CASE ~(k <= i - 1)
      <4>1. k - (i - 1) \in 1..(Len(s) - i) /\ i + (k - (i - 1)) = k + 1
        BY <3>2, <1>1
      <4>2. after[k - (i - 1)] = s[k + 1]
        BY <4>1, <1>3
      <4>3. QED
        BY <3>2, <4>2, <2>1, <2>2, <1>2
    <3>3. QED
      BY <3>1, <3>2
  <2>4. QED
    BY <2>1, <2>2, <2>3
<1>5. RemoveAt(s, i) = before \o after
  BY DEF RemoveAt, before, after
<1>6. QED
  BY <1>4, <1>5

\* No two entries of a store are about the same token.
Distinct(s) ==
  \A i, j \in 1..Len(s) : s[i].token = s[j].token => i = j

\* A store that set(), get() and invalidate() may leave: bounded, one entry per
\* token, and every entry sound.
StoreOK(s) ==
  /\ s \in Seq(Entries) /\ Len(s) <= MaxSize /\ Distinct(s)
  /\ \A i \in 1..Len(s) : Sound(s[i])

LEMMA PositionsDistinct ==
  ASSUME store \in Seq(Entries)
  PROVE  Distinct(store) <=> \A i \in 1..Len(store) : Positions(store[i].token) = {i}
BY DEF Distinct, Positions

\* pop() leaves every other entry, and none about the token.
LEMMA DroppedKeeps ==
  ASSUME StoreOK(store), NEW t \in Tokens
  PROVE  /\ StoreOK(Dropped(t))
         /\ \A i \in 1..Len(Dropped(t)) : Dropped(t)[i].token # t
         /\ Fresh(t) => Len(Dropped(t)) < MaxSize
<1>0. Len(store) \in Nat /\ \A i \in 1..Len(store) : store[i] \in Entries
  BY ElementOfSeq, LenProperties DEF StoreOK
<1>1. CASE Positions(t) = {}
  <2>1. Dropped(t) = store
    BY <1>1 DEF Dropped
  <2>2. ~Fresh(t)
    BY <1>1 DEF Fresh
  <2>3. \A i \in 1..Len(store) : store[i].token # t
    BY <1>1 DEF Positions
  <2>4. QED
    BY <2>1, <2>2, <2>3
<1>2. CASE Positions(t) # {}
  <2> DEFINE p == CHOOSE i \in Positions(t) : TRUE
             d == RemoveAt(store, p)
  <2>1. Dropped(t) = d
    BY <1>2 DEF Dropped
  <2>2. p \in 1..Len(store) /\ store[p].token = t
    <3>1. p \in Positions(t)
      BY <1>2
    <3>2. QED
      BY <3>1 DEF Positions
  <2> HIDE DEF p
  <2>3. /\ d \in Seq(Entries) /\ Len(d) = Len(store) - 1
        /\ \A k \in 1..(Len(store) - 1) : d[k] = IF k <= p - 1 THEN store[k] ELSE store[k + 1]
    BY <2>2, RemoveAtShifts DEF StoreOK
  <2> HIDE DEF d
  <2>4. Len(d) < MaxSize
    BY <1>0, <2>3, SizesAssumption DEF StoreOK
  <2>5. ASSUME NEW k \in 1..Len(d)
        PROVE  \E j \in 1..Len(store) :
                 /\ d[k] = store[j] /\ j # p
                 /\ j = IF k <= p - 1 THEN k ELSE k + 1
    <3>1. CASE k <= p - 1
      BY <3>1, <1>0, <2>2, <2>3
    <3>2. CASE ~(k <= p - 1)
      <4>1. k + 1 \in 1..Len(store) /\ k + 1 # p /\ d[k] = store[k + 1]
        BY <3>2, <1>0, <2>2, <2>3
      <4>2. QED
        BY <4>1, <3>2
    <3>3. QED
      BY <3>1, <3>2
  <2>6. Distinct(d)
    <3> SUFFICES ASSUME NEW k \in 1..Len(d), NEW l \in 1..Len(d), d[k].token = d[l].token
                 PROVE  k = l
      BY DEF Distinct
    <3>1. PICK j \in 1..Len(store) :
            d[k] = store[j] /\ j # p /\ j = IF k <= p - 1 THEN k ELSE k + 1
      BY <2>5
    <3>2. PICK m \in 1..Len(store) :
            d[l] = store[m] /\ m # p /\ m = IF l <= p - 1 THEN l ELSE l + 1
      BY <2>5
    <3>3. j = m
      BY <3>1, <3>2 DEF StoreOK, Distinct
    <3>4. QED
      BY <3>1, <3>2, <3>3, <2>2, <2>3, <1>0
  <2>7. \A k \in 1..Len(d) : d[k].token # t
    BY <2>5, <2>2 DEF StoreOK, Distinct
  <2>8. \A k \in 1..Len(d) : Sound(d[k])
    BY <2>5 DEF StoreOK
  <2>9. Len(d) <= MaxSize
    BY <1>0, <2>3, <2>4, SizesAssumption
  <2>10. QED
    BY <2>1, <2>3, <2>4, <2>6, <2>7, <2>8, <2>9 DEF StoreOK
<1>3. QED
  BY <1>1, <1>2

\* An entry moved to the end of a store without its token, and the oldest one
\* evicted when that is one too many.
LEMMA AppendedKeeps ==
  ASSUME NEW d, StoreOK(d), NEW e \in Entries, Sound(e),
         \A i \in 1..Len(d) : d[i].token # e.token
  PROVE  LET full == Append(d, e)
         IN /\ Len(full) <= MaxSize => StoreOK(full)
            /\ Len(full) > MaxSize => StoreOK(Tail(full))
<1> DEFINE full == Append(d, e)
<1>0. Len(d) \in Nat /\ \A i \in 1..Len(d) : d[i] \in Entries
  BY ElementOfSeq, LenProperties DEF StoreOK
<1>1. /\ full \in Seq(Entries) /\ Len(full) = Len(d) + 1
      /\ \A i \in 1..Len(full) : full[i] = IF i <= Len(d) THEN d[i] ELSE e
  BY <1>0, AppendProperties DEF StoreOK
<1> HIDE DEF full
<1>2. Distinct(full)
  BY <1>0, <1>1 DEF StoreOK, Distinct
<1>3. \A i \in 1..Len(full) : Sound(full[i])
  BY <1>0, <1>1 DEF StoreOK
<1>4. /\ Tail(full) \in Seq(Entries) /\ Len(Tail(full)) = Len(d)
      /\ \A i \in 1..Len(d) : Tail(full)[i] = full[i + 1]
  BY <1>0, <1>1, HeadTailProperties, EmptySeq
<1>5. \A i \in 1..Len(Tail(full)) : Sound(Tail(full)[i])
  BY <1>0, <1>1, <1>3, <1>4
<1>6. Distinct(Tail(full))
  BY <1>0, <1>1, <1>2, <1>4 DEF Distinct
<1>7. Len(Tail(full)) <= MaxSize
  BY <1>4 DEF StoreOK
<1>8. QED
  BY <1>1, <1>2, <1>3, <1>4, <1>5, <1>6, <1>7 DEF StoreOK, full

\* IInv, with the part about the store in one piece.
InParts ==
  /\ now \in Times /\ StoreOK(store)
  /\ pc \in [Handlers -> {"idle", "asking", "answered", "storing", "backoff"}]
  /\ request \in [Handlers -> Requests]
  /\ lapsed \in [Tokens -> [Rights -> Times \cup {Never}]]
  /\ outcome \in Outcomes
  /\ RequestsSound /\ LapsedIsRefused /\ OutageIsNotSignOut

LEMMA IInvParts == (IInv <=> InParts) /\ (IInv' <=> InParts')
<1>1. IInv => InParts
  BY PositionsDistinct DEF IInv, InParts, TypeOK, StoreOK, EntriesSound
<1>2. InParts => IInv
  <2>1. InParts => NoLateAttempt
    BY DEF InParts, RequestsSound, Asked, NoLateAttempt
  <2>2. QED
    BY <2>1, PositionsDistinct DEF IInv, InParts, TypeOK, StoreOK, EntriesSound
<1>3. IInv <=> InParts
  BY <1>1, <1>2
<1>4. IInv' <=> InParts'
  BY <1>3, PTL
<1>5. QED
  BY <1>3, <1>4

LEMMA InitIInv == Init => IInv
<1> SUFFICES ASSUME Init PROVE InParts
  BY IInvParts
<1> USE SizesAssumption, TokensAssumption DEF Init
<1>1. NoRequest \in Requests /\ NoOutcome.kind = "none"
  BY DEF NoRequest, Requests, Statuses, NoOutcome
<1>2. outcome \in Outcomes
  BY DEF NoOutcome, Outcomes, Kinds, Reasons
<1>3. StoreOK(store)
  BY EmptySeq DEF StoreOK, Distinct
<1>4. RequestsSound
  BY DEF RequestsSound, Asked, Vouched
<1>5. lapsed \in [Tokens -> [Rights -> Times \cup {Never}]]
  OBVIOUS
<1>6. LapsedIsRefused /\ OutageIsNotSignOut
  BY <1>1 DEF LapsedIsRefused, OutageIsNotSignOut
<1>7. QED
  BY <1>1, <1>2, <1>3, <1>4, <1>5, <1>6 DEF InParts, Times

-----------------------------------------------------------------------------
\* What IInv says of the answer given to the application.
OutcomeOK ==
  /\ outcome \in Outcomes
  /\ LapsedIsRefused /\ OutageIsNotSignOut

LEMMA QuietOutcome ==
  ASSUME outcome' = NoOutcome
  PROVE  OutcomeOK'
<1>1. outcome'.kind = "none"
  BY DEF NoOutcome
<1>2. outcome' \in Outcomes
  BY DEF NoOutcome, Outcomes, Kinds, Reasons
<1>3. QED
  BY <1>1, <1>2 DEF OutcomeOK, LapsedIsRefused, OutageIsNotSignOut

\* No adapter admits on a failure, all of them tell an outage apart, and an exception
\* of another kind is taken for a missing sign-in only where there are no gates.
LEMMA FailureKinds ==
  ASSUME NEW h \in Handlers, NEW t \in Tokens \cup {NoToken}, NEW reason \in Reasons,
         Fails(h, t, reason)
  PROVE  /\ outcome' \in Outcomes
         /\ outcome'.token = t /\ outcome'.kind # "user"
         /\ outcome'.gated = (h \in Gated) /\ outcome'.why = reason
         /\ reason = "unavailable" => outcome'.kind = "unavailable"
         /\ reason = "unexpected" =>
              outcome'.kind = "error" \/ (outcome'.kind = "anonymous" /\ h \notin Gated)
<1> USE DEF Strict, Lenient, Optional, Outage, Outages
<1>1. PICK kind \in GatedAdapters(reason) \cup IF h \in Gated THEN {}
                                               ELSE UngatedAdapters(reason) :
        outcome' = [token |-> t, gated |-> h \in Gated, kind |-> kind, why |-> reason]
  BY DEF Fails
<1>2. CASE kind \in GatedAdapters(reason)
  <2>1. /\ kind \in {"unavailable", "denied", "anonymous", "error"}
        /\ reason = "unavailable" => kind = "unavailable"
        /\ reason = "unexpected" => kind = "error"
    BY <1>2 DEF GatedAdapters, RequireUser, OptionalUser, FlaskUser, FlaskOptionalUser,
       LitestarUser, LitestarOptionalUser, DrfUser, DjangoMiddleware, DjangoRequireUser
  <2>2. kind \in Kinds /\ (h \in Gated) \in BOOLEAN
    BY <2>1 DEF Kinds
  <2>3. QED
    BY <1>1, <2>1, <2>2 DEF Outcomes
<1>3. CASE h \notin Gated /\ kind \in UngatedAdapters(reason)
  <2>1. /\ kind \in {"unavailable", "anonymous"}
        /\ reason = "unavailable" => kind = "unavailable"
    BY <1>3 DEF UngatedAdapters, AsgiMiddleware, WsgiMiddleware
  <2>2. kind \in Kinds /\ (h \in Gated) \in BOOLEAN
    BY <2>1 DEF Kinds
  <2>3. reason = "unexpected" => kind = "anonymous"
    BY <1>3 DEF UngatedAdapters, AsgiMiddleware, WsgiMiddleware
  <2>4. QED
    BY <1>1, <1>3, <2>1, <2>2, <2>3 DEF Outcomes
<1>4. QED
  BY <1>1, <1>2, <1>3

\* A failure that is an outage, an exception of another kind, or the refusal of a
\* right that is lost, is told as what it is.
LEMMA FailureOutcome ==
  ASSUME NEW h \in Handlers, NEW t \in Tokens \cup {NoToken}, NEW reason \in Reasons,
         Fails(h, t, reason), UNCHANGED lapsed,
         \/ reason \in Outages \/ t = NoToken
         \/ ~Holds(t, "valid") \/ (h \in Gated /\ ~Holds(t, "paid"))
  PROVE  OutcomeOK'
<1>1. /\ outcome' \in Outcomes
      /\ outcome'.token = t /\ outcome'.kind # "user"
      /\ outcome'.gated = (h \in Gated) /\ outcome'.why = reason
      /\ reason = "unavailable" => outcome'.kind = "unavailable"
      /\ reason = "unexpected" =>
           outcome'.kind = "error" \/ (outcome'.kind = "anonymous" /\ h \notin Gated)
  BY FailureKinds
<1>2. LapsedIsRefused'
  BY <1>1 DEF LapsedIsRefused
<1>3. OutageIsNotSignOut'
  BY <1>1 DEF OutageIsNotSignOut, Holds, TreatedAsUnauth, Outages
<1>4. QED
  BY <1>1, <1>2, <1>3 DEF OutcomeOK

\* The gates let through what a result younger than TTL + Latency vouches for.
LEMMA GateOutcome ==
  ASSUME NEW h \in Handlers, NEW t \in Tokens, NEW paid \in BOOLEAN,
         Gate(h, t, paid), UNCHANGED <<now, lapsed>>, TokensAssumption,
         now <= lapsed[t]["valid"] + TTL + Latency,
         paid => now <= lapsed[t]["paid"] + TTL + Latency,
         ~paid => ~Holds(t, "paid")
  PROVE  OutcomeOK'
<1>1. CASE paid \/ h \notin Gated
  <2>1. outcome' = [token |-> t, gated |-> h \in Gated, kind |-> "user", why |-> "none"]
    BY <1>1 DEF Gate, Admits
  <2>2. /\ outcome' \in Outcomes
        /\ outcome'.token = t /\ outcome'.kind = "user"
        /\ outcome'.gated = (h \in Gated)
    <3>1. "user" \in Kinds /\ "none" \in Reasons /\ (h \in Gated) \in BOOLEAN
      BY DEF Kinds, Reasons
    <3>2. QED
      BY <2>1, <3>1 DEF Outcomes
  <2>3. LapsedIsRefused'
    BY <1>1, <2>2 DEF LapsedIsRefused
  <2>4. OutageIsNotSignOut'
    BY <2>2 DEF OutageIsNotSignOut
  <2>5. QED
    BY <2>2, <2>3, <2>4 DEF OutcomeOK
<1>2. CASE ~(paid \/ h \notin Gated)
  <2>1. Fails(h, t, "forbidden") /\ h \in Gated /\ ~Holds(t, "paid")
    BY <1>2 DEF Gate
  <2>2. QED
    BY <2>1, FailureOutcome DEF Reasons
<1>3. QED
  BY <1>1, <1>2

\* A step of one request, in which neither the clock nor the server moves.
LEMMA RequestStep ==
  ASSUME IInv, NEW h \in Handlers,
         NEW p \in {"idle", "asking", "answered", "storing", "backoff"},
         NEW r \in Requests, UNCHANGED <<now, lapsed>>,
         pc' = [pc EXCEPT ![h] = p], request' = [request EXCEPT ![h] = r],
         StoreOK(store)', OutcomeOK', Asked(h)', Vouched(h)'
  PROVE  IInv'
<1>1. InParts
  BY IInvParts
<1>2. /\ pc' \in [Handlers -> {"idle", "asking", "answered", "storing", "backoff"}]
      /\ request' \in [Handlers -> Requests]
  BY <1>1 DEF InParts
<1>3. ASSUME NEW g \in Handlers, g # h
      PROVE  Asked(g)' /\ Vouched(g)'
  <2>1. pc'[g] = pc[g] /\ request'[g] = request[g]
    BY <1>1, <1>3 DEF InParts
  <2>2. Asked(g) /\ Vouched(g)
    BY <1>1 DEF InParts, RequestsSound
  <2>3. QED
    BY <2>1, <2>2 DEF Asked, Vouched, Holds
<1>4. RequestsSound'
  BY <1>3 DEF RequestsSound
<1>5. now' \in Times /\ lapsed' \in [Tokens -> [Rights -> Times \cup {Never}]]
  BY <1>1 DEF InParts
<1>6. InParts'
  BY <1>2, <1>4, <1>5 DEF InParts, OutcomeOK
<1>7. QED
  BY <1>6, IInvParts

\* A store that is left alone stays as good as it was.
LEMMA SameStore ==
  ASSUME IInv, UNCHANGED <<now, store, lapsed>>
  PROVE  StoreOK(store)'
<1>1. StoreOK(store)
  BY IInvParts DEF InParts
<1>2. QED
  BY <1>1 DEF StoreOK, Sound, Distinct, Holds

\* The end of a request: nothing is left of it.
LEMMA DoneStep ==
  ASSUME IInv, NEW h \in Handlers, Done(h), UNCHANGED <<now, store, lapsed>>, OutcomeOK'
  PROVE  IInv'
<1>1. NoRequest \in Requests
  BY SizesAssumption DEF NoRequest, Requests, Statuses
<1>2. pc'[h] = "idle"
  BY IInvParts DEF InParts, Done
<1>3. Asked(h)' /\ Vouched(h)'
  BY <1>2 DEF Asked, Vouched
<1>4. StoreOK(store)'
  BY SameStore
<1>5. QED
  BY <1>1, <1>3, <1>4, RequestStep DEF Done

-----------------------------------------------------------------------------
\* an absent token
LEMMA MissingIInv ==
  ASSUME IInv, NEW h \in Handlers, Missing(h)
  PROVE  IInv'
<1>1. OutcomeOK'
  BY FailureOutcome DEF Missing, Reasons
<1>2. StoreOK(store)'
  BY SameStore DEF Missing
<1>3. InParts'
  BY <1>1, <1>2, IInvParts
  DEF Missing, InParts, OutcomeOK, RequestsSound, Asked, Vouched, Holds
<1>4. QED
  BY <1>3, IInvParts

\* A cached result is used until it expires.
LEMMA HitIInv ==
  ASSUME IInv, NEW h \in Handlers, NEW t \in Tokens, Hit(h, t)
  PROVE  IInv'
<1>1. InParts /\ StoreOK(store)
  BY IInvParts DEF InParts
<1>2. PICK i \in Positions(t) : now < store[i].expiry
  BY DEF Hit, Fresh
<1>3. Positions(t) = {i}
  BY <1>1 DEF StoreOK, Distinct, Positions
<1>4. i \in 1..Len(store) /\ store[i].token = t /\ store[i] \in Entries
  <2>1. i \in 1..Len(store) /\ store[i].token = t
    BY DEF Positions
  <2>2. QED
    BY <1>1, <2>1, ElementOfSeq DEF StoreOK
<1>5. Sound(store[i])
  BY <1>1, <1>4 DEF StoreOK
<1>6. StoreOK(store')
  <2>1. store' = Append(Dropped(t), store[i])
    <3>1. (CHOOSE j \in Positions(t) : TRUE) = i
      BY <1>3
    <3>2. QED
      BY <3>1 DEF Hit, CacheHit
  <2>2. /\ StoreOK(Dropped(t)) /\ Len(Dropped(t)) < MaxSize
        /\ \A j \in 1..Len(Dropped(t)) : Dropped(t)[j].token # t
    BY <1>1, DroppedKeeps DEF Hit
  <2>3. /\ Len(Append(Dropped(t), store[i])) = Len(Dropped(t)) + 1
        /\ Len(Dropped(t)) \in Nat
    BY <1>4, <2>2, AppendProperties, LenProperties DEF StoreOK
  <2>4. Len(Append(Dropped(t), store[i])) <= MaxSize
    BY <2>2, <2>3, SizesAssumption
  <2>5. QED
    BY <1>4, <1>5, <2>1, <2>2, <2>4, AppendedKeeps
<1>7. StoreOK(store)'
  BY <1>6 DEF Hit, StoreOK, Sound, Distinct, Holds
<1>8. OutcomeOK'
  <2>1. store[i].paid \in BOOLEAN /\ store[i].expiry \in Nat
    BY <1>4 DEF Entries
  <2>2. Gate(h, t, store[i].paid)
    BY <1>3 DEF Hit
  <2>3. /\ now \in Nat /\ TTL \in Nat /\ Latency \in Nat
        /\ lapsed[t]["valid"] \in Nat /\ lapsed[t]["paid"] \in Nat
    BY <1>1, SizesAssumption DEF InParts, Times, Never, Rights
  <2>4. /\ now <= lapsed[t]["valid"] + TTL + Latency
        /\ store[i].paid => now <= lapsed[t]["paid"] + TTL + Latency
        /\ ~store[i].paid => ~Holds(t, "paid")
    <3>1. /\ store[i].expiry <= lapsed[t]["valid"] + TTL + Latency
          /\ store[i].paid => store[i].expiry <= lapsed[t]["paid"] + TTL + Latency
          /\ ~store[i].paid => ~Holds(t, "paid")
      BY <1>4, <1>5 DEF Sound
    <3>2. \A n \in Nat : store[i].expiry <= n => now <= n
      BY <1>2, <2>1, <2>3
    <3>3. QED
      BY <2>3, <3>1, <3>2
  <2>5. QED
    BY <2>1, <2>2, <2>4, GateOutcome, TokensAssumption DEF Hit
<1>9. InParts'
  BY <1>1, <1>7, <1>8
  DEF Hit, InParts, OutcomeOK, RequestsSound, Asked, Vouched, Holds
<1>10. QED
  BY <1>9, IInvParts

\* A miss sends a request that has its whole budget left.
LEMMA MissIInv ==
  ASSUME IInv, NEW h \in Handlers, NEW t \in Tokens, Miss(h, t)
  PROVE  IInv'
<1> DEFINE r == [NoRequest EXCEPT !.token = t, !.deadline = now + Budget, !.at = now]
<1>1. InParts /\ StoreOK(store) /\ now \in Nat
  BY IInvParts, SizesAssumption DEF InParts, Times
<1>2. r \in Requests
  <2>1. NoRequest \in Requests
    BY SizesAssumption DEF NoRequest, Requests, Statuses
  <2>2. now + Budget \in Nat
    BY <1>1, SizesAssumption
  <2>3. QED
    BY <1>1, <2>1, <2>2 DEF Requests
<1>3. /\ r.token = t /\ r.at = now /\ r.deadline = now + Budget
  BY DEF NoRequest
<1>4. request' = [request EXCEPT ![h] = r] /\ pc' = [pc EXCEPT ![h] = "asking"]
      /\ UNCHANGED <<now, lapsed>> /\ store' = Dropped(t) /\ outcome' = NoOutcome
  BY DEF Miss
<1> HIDE DEF r
<1>5. pc'[h] = "asking" /\ request'[h] = r
  BY <1>1, <1>4 DEF InParts
<1>6. Asked(h)' /\ Vouched(h)'
  BY <1>1, <1>3, <1>4, <1>5, SizesAssumption DEF Asked, Vouched
<1>7. StoreOK(store')
  BY <1>1, <1>4, DroppedKeeps
<1>8. StoreOK(store)'
  BY <1>4, <1>7 DEF StoreOK, Sound, Distinct, Holds
<1>9. QED
  BY <1>2, <1>4, <1>6, <1>8, QuietOutcome, RequestStep

\* set() keeps a result for a cache_ttl from now.
LEMMA VerifiedIInv ==
  ASSUME IInv, NEW h \in Handlers, Verified(h)
  PROVE  IInv'
<1> DEFINE t == request[h].token
           e == [token |-> t, expiry |-> now + TTL, paid |-> request[h].paid]
<1>1. InParts /\ StoreOK(store) /\ Asked(h) /\ Vouched(h)
  BY IInvParts DEF InParts, RequestsSound
<1>2. /\ request[h] \in Requests /\ request[h].at \in Nat /\ request[h].paid \in BOOLEAN
      /\ t \in Tokens
  BY <1>1 DEF InParts, Requests, Asked, Verified
<1>3. /\ now \in Nat /\ lapsed[t]["valid"] \in Nat /\ lapsed[t]["paid"] \in Nat
  BY <1>1, <1>2, SizesAssumption DEF InParts, Times, Never, Rights
<1>4. e \in Entries
  BY <1>2, <1>3, SizesAssumption DEF Entries
<1>5. Sound(e)
  <2>1. /\ request[h].at <= now /\ now <= request[h].at + Latency
        /\ request[h].at <= lapsed[t]["valid"]
        /\ request[h].paid => request[h].at <= lapsed[t]["paid"]
        /\ ~request[h].paid => ~Holds(t, "paid")
    BY <1>1 DEF Asked, Vouched, Verified
  <2>2. e.token = t /\ e.expiry = now + TTL /\ e.paid = request[h].paid
    OBVIOUS
  <2> HIDE DEF e, t
  <2>3. QED
    BY <1>2, <1>3, <2>1, <2>2, SizesAssumption DEF Sound
<1>6. StoreOK(store')
  <2>1. CASE TTL = 0
    BY <1>1, <2>1 DEF Verified, CacheSet
  <2>2. CASE TTL # 0
    <3>1. store' = IF Len(Append(Dropped(t), e)) > MaxSize
                   THEN Tail(Append(Dropped(t), e)) ELSE Append(Dropped(t), e)
      BY <2>2 DEF Verified, CacheSet
    <3>2. /\ StoreOK(Dropped(t))
          /\ \A j \in 1..Len(Dropped(t)) : Dropped(t)[j].token # e.token
      BY <1>1, <1>2, DroppedKeeps
    <3> HIDE DEF e
    <3>3. Len(Append(Dropped(t), e)) \in Nat
      BY <1>4, <3>2, AppendProperties, LenProperties DEF StoreOK
    <3>4. QED
      BY <1>4, <1>5, <3>1, <3>2, <3>3, AppendedKeeps, SizesAssumption
  <2>3. QED
    BY <2>1, <2>2
<1>7. StoreOK(store)'
  BY <1>6 DEF Verified, StoreOK, Sound, Distinct, Holds
<1>8. /\ pc' = [pc EXCEPT ![h] = "storing"] /\ request' = [request EXCEPT ![h] = request[h]]
      /\ UNCHANGED <<now, lapsed, request>> /\ outcome' = NoOutcome
  BY <1>1 DEF Verified, InParts
<1>9. Asked(h)' /\ Vouched(h)'
  <2>1. pc'[h] = "storing" /\ request'[h] = request[h]
    BY <1>1, <1>8 DEF InParts
  <2>2. QED
    BY <1>1, <1>8, <2>1 DEF Asked, Vouched, Holds, Verified
<1>10. QED
  BY <1>2, <1>7, <1>8, <1>9, QuietOutcome, RequestStep

\* The gates are applied to what this request verified.
LEMMA AdmitIInv ==
  ASSUME IInv, NEW h \in Handlers, Admit(h)
  PROVE  IInv'
<1> DEFINE t == request[h].token
<1>1. InParts /\ Asked(h) /\ Vouched(h)
  BY IInvParts DEF InParts, RequestsSound
<1>2. request[h].at \in Nat /\ request[h].paid \in BOOLEAN /\ t \in Tokens
  BY <1>1 DEF InParts, Requests, Asked, Admit
<1>3. now \in Nat /\ lapsed[t]["valid"] \in Nat /\ lapsed[t]["paid"] \in Nat
  BY <1>1, <1>2, SizesAssumption DEF InParts, Times, Never, Rights
<1>4. /\ now <= request[h].at + Latency
      /\ request[h].at <= lapsed[t]["valid"]
      /\ request[h].paid => request[h].at <= lapsed[t]["paid"]
      /\ ~request[h].paid => ~Holds(t, "paid")
  BY <1>1 DEF Asked, Vouched, Admit
<1>5. Gate(h, t, request[h].paid) /\ UNCHANGED <<now, store, lapsed>> /\ Done(h)
  BY DEF Admit
<1> HIDE DEF t
<1>6. /\ now <= lapsed[t]["valid"] + TTL + Latency
      /\ request[h].paid => now <= lapsed[t]["paid"] + TTL + Latency
  BY <1>2, <1>3, <1>4, SizesAssumption
<1>7. OutcomeOK'
  BY <1>2, <1>4, <1>5, <1>6, GateOutcome, TokensAssumption
<1>8. QED
  BY <1>5, <1>7, DoneStep

\* A refusal, an outage or an exception of another kind ends the request.
LEMMA EndsIInv ==
  ASSUME IInv, NEW h \in Handlers, Refused(h) \/ Breaks(h) \/ GivesUp(h)
  PROVE  IInv'
<1>1. request[h].token \in Tokens
  BY IInvParts DEF InParts, RequestsSound, Asked, Refused, Breaks, GivesUp
<1>2. OutcomeOK'
  BY <1>1, FailureOutcome DEF Refused, Breaks, GivesUp, Reasons, Outages
<1>3. QED
  BY <1>2, DoneStep DEF Refused, Breaks, GivesUp

\* A failed attempt that has neither used up the attempts nor the budget.
LEMMA BacksOffIInv ==
  ASSUME IInv, NEW h \in Handlers, BacksOff(h)
  PROVE  IInv'
<1> DEFINE wake == IF now + Backoff(request[h].attempt) < request[h].deadline
                   THEN now + Backoff(request[h].attempt) ELSE request[h].deadline
           r == [request[h] EXCEPT !.status = "none", !.at = wake]
<1>1. InParts /\ Asked(h) /\ request[h] \in Requests
  BY IInvParts DEF InParts, RequestsSound
<1>2. /\ now \in Nat /\ request[h].attempt \in 1..Attempts /\ request[h].deadline \in Nat
      /\ request[h].token \in Tokens
  BY <1>1, SizesAssumption DEF InParts, Times, Requests, Asked, BacksOff
<1>3. Backoff(request[h].attempt) \in Nat
  BY <1>2, BackoffAssumption
<1>4. wake \in Nat
  BY <1>2, <1>3
<1>5. pc' = [pc EXCEPT ![h] = "backoff"] /\ request' = [request EXCEPT ![h] = r]
      /\ UNCHANGED <<now, store, lapsed>> /\ outcome' = NoOutcome
      /\ request[h].attempt < Attempts
  BY DEF BacksOff
<1> HIDE DEF wake
<1>6. r \in Requests /\ r.token = request[h].token /\ r.attempt = request[h].attempt
  BY <1>1, <1>4 DEF Requests, Statuses
<1> HIDE DEF r
<1>7. pc'[h] = "backoff" /\ request'[h] = r
  BY <1>1, <1>5 DEF InParts
<1>8. Asked(h)' /\ Vouched(h)'
  BY <1>2, <1>5, <1>6, <1>7 DEF Asked, Vouched
<1>9. QED
  BY <1>5, <1>6, <1>8, SameStore, QuietOutcome, RequestStep

\* The sleep is over: the next attempt, or the end of the budget.
LEMMA WakesIInv ==
  ASSUME IInv, NEW h \in Handlers, Wakes(h)
  PROVE  IInv'
<1> DEFINE r == [request[h] EXCEPT !.attempt = @ + 1, !.at = now]
<1>1. InParts /\ Asked(h) /\ request[h] \in Requests
  BY IInvParts DEF InParts, RequestsSound
<1>2. /\ now \in Nat /\ request[h].attempt \in 1..Attempts /\ request[h].deadline \in Nat
      /\ request[h].token \in Tokens /\ request[h].attempt < Attempts
  BY <1>1, SizesAssumption DEF InParts, Times, Requests, Asked, Wakes
<1>3. CASE now >= request[h].deadline
  <2>1. Done(h) /\ Fails(h, request[h].token, "unavailable") /\ UNCHANGED <<now, store, lapsed>>
    BY <1>3 DEF Wakes
  <2>2. QED
    BY <1>2, <2>1, FailureOutcome, DoneStep DEF Reasons, Outages
<1>4. CASE ~(now >= request[h].deadline)
  <2>1. pc' = [pc EXCEPT ![h] = "asking"] /\ request' = [request EXCEPT ![h] = r]
        /\ UNCHANGED <<now, store, lapsed>> /\ outcome' = NoOutcome
    BY <1>4 DEF Wakes
  <2>2. request[h].attempt + 1 \in 1..Attempts
    BY <1>2, SizesAssumption
  <2>3. /\ r \in Requests /\ r.token = request[h].token /\ r.at = now
        /\ r.deadline = request[h].deadline
    BY <1>1, <1>2, <2>2 DEF Requests
  <2> HIDE DEF r
  <2>4. pc'[h] = "asking" /\ request'[h] = r
    BY <1>1, <2>1 DEF InParts
  <2>5. Asked(h)' /\ Vouched(h)'
    BY <1>2, <1>4, <2>1, <2>3, <2>4, SizesAssumption DEF Asked, Vouched
  <2>6. QED
    BY <2>1, <2>3, <2>5, SameStore, QuietOutcome, RequestStep
<1>5. QED
  BY <1>3, <1>4

\* The server vouches for rights the token holds when it answers.
LEMMA AnswersIInv ==
  ASSUME IInv, NEW h \in Handlers, NEW status \in Statuses \ {"none"}, Answers(h, status)
  PROVE  IInv'
<1> DEFINE t == request[h].token
           paid == status = "ok" /\ Holds(t, "paid")
           r == [request[h] EXCEPT !.status = status, !.paid = paid]
<1>1. InParts /\ Asked(h) /\ request[h] \in Requests
  BY IInvParts DEF InParts, RequestsSound
<1>2. /\ now \in Times /\ request[h].at \in Nat /\ t \in Tokens
      /\ request[h].at <= now /\ now <= request[h].at + Latency
  BY <1>1 DEF InParts, Requests, Asked, Answers
<1>3. /\ pc' = [pc EXCEPT ![h] = "answered"] /\ request' = [request EXCEPT ![h] = r]
      /\ UNCHANGED <<now, store, lapsed>> /\ outcome' = NoOutcome
      /\ status = "ok" => Holds(t, "valid")
  BY DEF Answers
<1>4. paid \in BOOLEAN
  OBVIOUS
<1> HIDE DEF paid
<1>5. /\ r \in Requests /\ r.token = t /\ r.at = request[h].at
      /\ r.status = status /\ r.paid = paid
  BY <1>1, <1>4 DEF Requests
<1> HIDE DEF r
<1>6. pc'[h] = "answered" /\ request'[h] = r
  BY <1>1, <1>3 DEF InParts
<1>7. \A right \in Rights : Holds(t, right) => request[h].at <= lapsed[t][right]
  BY <1>2, SizesAssumption DEF Holds, Times, Never
<1>8. Asked(h)'
  BY <1>2, <1>3, <1>5, <1>6 DEF Asked
<1>9. Vouched(h)'
  <2>1. status = "ok" => (paid <=> Holds(t, "paid"))
    BY DEF paid
  <2>2. /\ status = "ok" => request[h].at <= lapsed[t]["valid"]
        /\ status = "ok" /\ paid => request[h].at <= lapsed[t]["paid"]
        /\ status = "ok" /\ ~paid => ~Holds(t, "paid")
    BY <1>3, <1>7, <2>1 DEF Rights
  <2> HIDE DEF t
  <2>3. QED
    BY <1>3, <1>4, <1>5, <1>6, <2>2 DEF Vouched, Holds
<1>10. QED
  BY <1>3, <1>5, <1>8, <1>9, SameStore, QuietOutcome, RequestStep

LEMMA InvalidateIInv ==
  ASSUME IInv, NEW t \in Tokens, Invalidate(t)
  PROVE  IInv'
<1>1. InParts /\ StoreOK(store)
  BY IInvParts DEF InParts
<1>2. StoreOK(store')
  BY <1>1, DroppedKeeps DEF Invalidate
<1>3. StoreOK(store)'
  BY <1>2 DEF Invalidate, StoreOK, Sound, Distinct, Holds
<1>4. OutcomeOK'
  BY QuietOutcome DEF Invalidate
<1>5. InParts'
  BY <1>1, <1>3, <1>4
  DEF Invalidate, InParts, OutcomeOK, RequestsSound, Asked, Vouched, Holds
<1>6. QED
  BY <1>5, IInvParts

\* A right that is lost now was not lost before.
LEMMA LapseIInv ==
  ASSUME IInv, NEW t \in Tokens, NEW right \in Rights, Lapse(t, right)
  PROVE  IInv'
<1>1. InParts /\ StoreOK(store) /\ now \in Times /\ now \in Nat
  BY IInvParts, SizesAssumption DEF InParts, Times
<1>2. lapsed \in [Tokens -> [Rights -> Times \cup {Never}]]
  BY <1>1 DEF InParts
<1>3. /\ lapsed' = [lapsed EXCEPT ![t][right] = now]
      /\ UNCHANGED <<now, store, pc, request>> /\ outcome' = NoOutcome
  BY DEF Lapse
<1>4. lapsed' \in [Tokens -> [Rights -> Times \cup {Never}]]
  BY <1>1, <1>2, <1>3
<1>5. ASSUME NEW u \in Tokens, NEW kind \in Rights
      PROVE  /\ lapsed[u][kind] \in Nat /\ lapsed'[u][kind] \in Nat
             /\ lapsed'[u][kind] = lapsed[u][kind] \/ lapsed'[u][kind] = now
             /\ ~Holds(u, kind) => ~Holds(u, kind)'
  BY <1>1, <1>2, <1>3, <1>4, SizesAssumption DEF Times, Never, Holds, Lapse
<1>6. "valid" \in Rights /\ "paid" \in Rights
  BY DEF Rights
<1>7. StoreOK(store)'
  <2>1. ASSUME NEW i \in 1..Len(store) PROVE Sound(store[i])'
    <3>1. store[i] \in Entries /\ Sound(store[i])
      BY <1>1, ElementOfSeq DEF StoreOK
    <3>2. store[i].token \in Tokens /\ store[i].expiry \in Nat /\ store[i].paid \in BOOLEAN
      BY <3>1 DEF Entries
    <3>3. store[i].expiry <= now + TTL
      BY <3>1 DEF Sound
    <3>4. ASSUME NEW kind \in Rights,
                 store[i].expiry <= lapsed[store[i].token][kind] + TTL + Latency
          PROVE  store[i].expiry <= lapsed'[store[i].token][kind] + TTL + Latency
      <4>1. TTL \in Nat /\ Latency \in Nat
        BY SizesAssumption
      <4>2. CASE lapsed'[store[i].token][kind] = now
        BY <1>1, <3>2, <3>3, <4>1, <4>2
      <4>3. CASE lapsed'[store[i].token][kind] = lapsed[store[i].token][kind]
        BY <3>4, <4>3
      <4>4. QED
        BY <1>5, <3>2, <4>2, <4>3
    <3>5. QED
      BY <1>3, <1>5, <1>6, <3>1, <3>2, <3>4 DEF Sound
  <2>2. QED
    BY <1>1, <1>3, <2>1 DEF StoreOK, Distinct
<1>8. RequestsSound'
  <2> SUFFICES ASSUME NEW h \in Handlers PROVE Asked(h)' /\ Vouched(h)'
    BY DEF RequestsSound
  <2>1. Asked(h) /\ Vouched(h) /\ request[h].at \in Nat
    BY <1>1 DEF InParts, RequestsSound, Requests
  <2>2. Asked(h)'
    BY <1>3, <2>1 DEF Asked
  <2>3. ASSUME NEW kind \in Rights, request[h].token \in Tokens, request[h].at <= now,
               request[h].at <= lapsed[request[h].token][kind]
        PROVE  request[h].at <= lapsed'[request[h].token][kind]
    BY <1>5, <2>3
  <2>4. pc[h] \in {"answered", "storing"} => request[h].token \in Tokens /\ request[h].at <= now
    BY <2>1 DEF Asked
  <2>5. Vouched(h)'
    BY <1>3, <1>5, <1>6, <2>1, <2>3, <2>4 DEF Vouched
  <2>6. QED
    BY <2>2, <2>5
<1>9. OutcomeOK'
  BY <1>3, QuietOutcome
<1>10. InParts'
  BY <1>1, <1>3, <1>4, <1>7, <1>8, <1>9 DEF InParts, OutcomeOK
<1>11. QED
  BY <1>10, IInvParts

\* Time passes; no verification outlives Latency.
LEMMA TickIInv ==
  ASSUME IInv, Tick
  PROVE  IInv'
<1>1. InParts /\ StoreOK(store) /\ now \in Nat
  BY IInvParts, SizesAssumption DEF InParts, Times
<1>2. /\ now' = now + 1 /\ now' \in Times
      /\ UNCHANGED <<store, pc, request, lapsed>> /\ outcome' = NoOutcome
  BY <1>1, SizesAssumption DEF Tick, Times
<1>3. StoreOK(store)'
  <2>1. ASSUME NEW i \in 1..Len(store) PROVE Sound(store[i])'
    <3>1. store[i] \in Entries /\ Sound(store[i])
      BY <1>1, ElementOfSeq DEF StoreOK
    <3>2. store[i].expiry \in Nat
      BY <3>1 DEF Entries
    <3>3. store[i].expiry <= now + 1 + TTL
      BY <1>1, <3>1, <3>2, SizesAssumption DEF Sound
    <3>4. QED
      BY <1>2, <3>1, <3>3 DEF Sound, Holds
  <2>2. QED
    BY <1>1, <1>2, <2>1 DEF StoreOK, Distinct
<1>4. RequestsSound'
  <2> SUFFICES ASSUME NEW h \in Handlers PROVE Asked(h)' /\ Vouched(h)'
    BY DEF RequestsSound
  <2>1. Asked(h) /\ Vouched(h) /\ request[h].at \in Nat
    BY <1>1 DEF InParts, RequestsSound, Requests
  <2>2. pc[h] \in {"asking", "answered", "storing"} =>
          request[h].at <= now + 1 /\ now + 1 <= request[h].at + Latency
    BY <1>1, <2>1, SizesAssumption DEF Tick, Asked
  <2>3. Asked(h)'
    BY <1>2, <2>1, <2>2 DEF Asked
  <2>4. Vouched(h)'
    BY <1>2, <2>1 DEF Vouched, Holds
  <2>5. QED
    BY <2>3, <2>4
<1>5. OutcomeOK'
  BY <1>2, QuietOutcome
<1>6. InParts'
  BY <1>1, <1>2, <1>3, <1>4, <1>5 DEF InParts, OutcomeOK
<1>7. QED
  BY <1>6, IInvParts

LEMMA NextIInv == IInv /\ [Next]_vars => IInv'
<1> SUFFICES ASSUME IInv, [Next]_vars PROVE IInv'
  OBVIOUS
<1>1. ASSUME Resolving PROVE IInv'
  BY <1>1, MissingIInv, HitIInv, MissIInv, VerifiedIInv, AdmitIInv, EndsIInv, BacksOffIInv,
     WakesIInv DEF Resolving
<1>2. ASSUME Environment PROVE IInv'
  BY <1>2, AnswersIInv, InvalidateIInv, LapseIInv, TickIInv DEF Environment
<1>3. CASE UNCHANGED vars
  <2>1. InParts'
    BY <1>3, IInvParts DEF vars, InParts, StoreOK, Sound, Distinct, Holds, RequestsSound,
       Asked, Vouched, LapsedIsRefused, OutageIsNotSignOut, TreatedAsUnauth
  <2>2. QED
    BY <2>1, IInvParts
<1>4. QED
  BY <1>1, <1>2, <1>3 DEF Next

\* The inductive invariant holds in every state.
THEOREM AuthGateInvariant == Spec => []IInv
BY InitIInv, NextIInv, PTL DEF Spec

\* The cache stays within max_size with one entry per token, and no request makes
\* more than retry_attempts attempts.
THEOREM AuthGateTyped == Spec => []TypeOK
<1>1. IInv => TypeOK
  BY DEF IInv
<1>2. QED
  BY <1>1, AuthGateInvariant, PTL

\* No handler admits on a right lost more than a cache_ttl and a verification ago,
\* whichever handler filled the cache (_resolve, _check_gates, InProcessAuthCache).
THEOREM AuthGateRefusesLapsed == Spec => []LapsedIsRefused
<1>1. IInv => LapsedIsRefused
  BY DEF IInv
<1>2. QED
  BY <1>1, AuthGateInvariant, PTL

\* No outage turns into a 401, a 403 or an anonymous request, in any adapter, and an
\* exception outside OneloAuthError at most into an anonymous request behind the ASGI
\* or WSGI middleware (their `except Exception`).
THEOREM AuthGateOutageIsNotSignOut == Spec => []OutageIsNotSignOut
<1>1. IInv => OutageIsNotSignOut
  BY DEF IInv
<1>2. QED
  BY <1>1, AuthGateInvariant, PTL

\* No attempt starts once retry_total_timeout is used up (_verify_with_retry).
THEOREM AuthGateNoLateAttempt == Spec => []NoLateAttempt
<1>1. IInv => NoLateAttempt
  BY DEF IInv
<1>2. QED
  BY <1>1, AuthGateInvariant, PTL
=============================================================================
