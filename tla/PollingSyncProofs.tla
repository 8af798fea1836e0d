-------------------------- MODULE PollingSyncProofs --------------------------
(***************************************************************************)
(* What identify() promises under the polling strategy, for any number of  *)
(* threads, identities, switches and versions.                             *)
(***************************************************************************)
EXTENDS PollingSync, TLAPS

(***************************************************************************)
(* The inductive invariant.  A snapshot belongs to the identity its        *)
(* generation stands for, and so does a request that carries the current   *)
(* generation: that is why comparing generations is enough.  A request of  *)
(* an older generation has a wake-up on its way.                           *)
(***************************************************************************)
LockHeld == \A t \in Threads : callPc[t] = "switching" <=> userLock = t

BoundIsUser == bound = userId <=> userLock = NoThread

CacheOfBound ==
  /\ features \in {bound, NoSnapshot}
  /\ features = NoSnapshot <=> configVersion = 0
  /\ ready => features # NoSnapshot
  /\ configVersion <= serverVersion

RequestOfBound ==
  /\ request.gen <= generation
  /\ request.since <= serverVersion
  /\ pollPc \in {"asking", "sent"} /\ request.gen = generation =>
       request.since = configVersion
  /\ pollPc = "sent" /\ request.gen = generation => request.user = bound

AnswerOfRequest ==
  answer.kind # "none" =>
    /\ pollPc = "sent"
    /\ answer \in Answers
    /\ answer.user = request.user
    /\ answer.version >= request.since
    /\ answer.version <= serverVersion
    /\ answer.kind = "up_to_date" => request.since = answer.version

\* Until the consumer has closed the loop a switch is always on its way to it.
SignalOnItsWay ==
  /\ loop = "closed" <=> pollPc = "done"
  /\ pollPc \in {"asking", "sent", "waiting"} /\ request.gen # generation =>
       \/ wake \/ posted > 0
       \/ \E t \in Threads : callPc[t] = "signalling"

IInv == /\ TypeOK /\ LockHeld /\ BoundIsUser /\ CacheOfBound
        /\ RequestOfBound /\ AnswerOfRequest /\ SignalOnItsWay

-----------------------------------------------------------------------------
\* The initial state of the client satisfies the invariant.
LEMMA InitIInv == Init => IInv
<1> SUFFICES ASSUME Init PROVE IInv
  OBVIOUS
<1> USE UsersAssumption, ThreadsAssumption, BoundsAssumption DEF Init, SharedInit
<1>1. SharedTypeOK
  <2>1. /\ userId \in Users /\ bound \in Users
        /\ userLock \in Threads \cup {NoThread}
        /\ features \in Users \cup {NoSnapshot}
        /\ loop \in {"open", "closed"}
    OBVIOUS
  <2>2. ready \in BOOLEAN /\ stopPosted \in BOOLEAN /\ closed \in BOOLEAN
    BY Zenon
  <2>3. /\ switches \in 0..MaxSwitches /\ generation \in Nat /\ posted \in Nat
        /\ configVersion \in 0..MaxVersion /\ serverVersion \in 1..MaxVersion
    OBVIOUS
  <2>4. callPc \in [Threads -> CallStates]
    BY DEF CallStates
  <2>5. QED
    BY <2>1, <2>2, <2>3, <2>4 DEF SharedTypeOK
<1>2. TypeOK
  <2>1. pollPc \in {"top", "asking", "sent", "waiting", "done"}
    OBVIOUS
  <2>2. request \in Requests
    BY DEF Requests
  <2>3. wake \in BOOLEAN /\ stop \in BOOLEAN
    BY Zenon
  <2>4. QED
    BY <1>1, <2>1, <2>2, <2>3 DEF TypeOK
<1>3. LockHeld /\ BoundIsUser
  BY DEF LockHeld, BoundIsUser
<1>4. CacheOfBound
  BY DEF CacheOfBound
<1>5. RequestOfBound /\ AnswerOfRequest /\ SignalOnItsWay
  BY DEF RequestOfBound, AnswerOfRequest, SignalOnItsWay, NoAnswer
<1>6. QED
  BY <1>2, <1>3, <1>4, <1>5 DEF IInv

\* No step of an application thread or of close() breaks it.
LEMMA ApplicationIInv ==
  ASSUME IInv, Application, UNCHANGED pollVars
  PROVE  IInv'
<1> USE UsersAssumption, ThreadsAssumption, BoundsAssumption
        DEF IInv, TypeOK, SharedTypeOK, LockHeld, BoundIsUser, CacheOfBound,
            RequestOfBound, AnswerOfRequest, SignalOnItsWay, pollVars, CallStates
<1>1. ASSUME NEW t \in Threads, IdentifySame(t) PROVE IInv'
  BY <1>1 DEF IdentifySame, cacheVars, mailbox
<1>2. ASSUME NEW t \in Threads, NEW u \in Users, IdentifyNew(t, u) PROVE IInv'
  BY <1>2 DEF IdentifyNew, cacheVars, mailbox
<1>3. ASSUME NEW t \in Threads, BeginIdentity(t) PROVE IInv'
  <2> USE <1>3 DEF BeginIdentity, CacheBegin, mailbox
  <2>a. ready' \in BOOLEAN
    BY Zenon
  <2>1. TypeOK'
    BY <2>a
  <2>2. LockHeld' /\ BoundIsUser'
    OBVIOUS
  <2>3. CacheOfBound'
    OBVIOUS
  <2>4. RequestOfBound'
    BY DEF Requests
  <2>5. AnswerOfRequest'
    OBVIOUS
  <2>6. SignalOnItsWay'
    OBVIOUS
  <2>7. QED
    BY <2>1, <2>2, <2>3, <2>4, <2>5, <2>6
<1>4. ASSUME NEW t \in Threads, SignalUserChange(t) PROVE IInv'
  <2> USE <1>4 DEF SignalUserChange, cacheVars
  <2>1. TypeOK' /\ LockHeld' /\ BoundIsUser' /\ CacheOfBound'
    OBVIOUS
  <2>2. RequestOfBound' /\ AnswerOfRequest'
    OBVIOUS
  <2>3. SignalOnItsWay'
    OBVIOUS
  <2>4. QED
    BY <2>1, <2>2, <2>3
<1>5. CASE Close
  BY <1>5 DEF Close, cacheVars, identityVars
<1>6. QED
  BY <1>1, <1>2, <1>3, <1>4, <1>5 DEF Application

\* No step of the consumer breaks it.
LEMMA ConsumerIInv == ASSUME IInv, Consumer PROVE IInv'
<1> USE UsersAssumption, ThreadsAssumption, BoundsAssumption
        DEF IInv, TypeOK, SharedTypeOK, LockHeld, BoundIsUser, CacheOfBound,
            RequestOfBound, AnswerOfRequest, SignalOnItsWay, Requests, CallStates,
            sharedVars, identityVars, cacheVars, mailbox
<1>1. CASE StartPoll
  <2> USE <1>1 DEF StartPoll, RequestView
  <2>1. request' \in Requests /\ request'.gen = generation
        /\ request'.since = configVersion
    OBVIOUS
  <2>2. TypeOK'
    BY <2>1
  <2>3. RequestOfBound' /\ AnswerOfRequest' /\ SignalOnItsWay'
    BY <2>1
  <2>4. QED
    BY <2>2, <2>3
<1>2. CASE ReadUser
  <2> USE <1>2 DEF ReadUser
  <2>1. /\ request' \in Requests /\ request'.gen = request.gen
        /\ request'.since = request.since /\ request'.user = userId
    OBVIOUS
  <2>2. TypeOK'
    BY <2>1
  <2>3. RequestOfBound' /\ AnswerOfRequest' /\ SignalOnItsWay'
    BY <2>1
  <2>4. QED
    BY <2>2, <2>3
<1>3. CASE ReceiveAnswer
  <2>1. CASE answer.kind = "snapshot" /\ request.gen = generation
    <3>1. /\ features' = answer.user /\ configVersion' = answer.version
          /\ ready' = TRUE /\ answer' = NoAnswer /\ pollPc' = "waiting"
          /\ UNCHANGED <<identityVars, mailbox, serverVersion, request, wake, stop,
                         generation, bound>>
      BY <1>3, <2>1 DEF ReceiveAnswer, CacheApply
    <3>2. answer \in Answers /\ answer.user = bound /\ answer.version <= serverVersion
      BY <1>3, <2>1
    <3>3. ready' \in BOOLEAN
      BY <3>1, Zenon
    <3>4. TypeOK'
      BY <3>1, <3>2, <3>3 DEF Answers
    <3>5. CacheOfBound'
      BY <3>1, <3>2 DEF Answers
    <3>6. /\ LockHeld' /\ BoundIsUser' /\ RequestOfBound' /\ AnswerOfRequest'
          /\ SignalOnItsWay'
      BY <1>3, <3>1 DEF NoAnswer, ReceiveAnswer
    <3>7. QED
      BY <3>4, <3>5, <3>6
  <2>2. CASE answer.kind = "snapshot" /\ request.gen # generation
    BY <1>3, <2>2 DEF ReceiveAnswer, CacheApply, NoAnswer
  <2>3. CASE answer.kind = "up_to_date"
    <3>1. /\ ready' = (ready \/ request.gen = generation)
          /\ answer' = NoAnswer /\ pollPc' = "waiting"
          /\ UNCHANGED <<identityVars, mailbox, serverVersion, request, wake, stop,
                         generation, features, configVersion, bound>>
      BY <1>3, <2>3 DEF ReceiveAnswer, CacheConfirm
    <3>2. ready' \in BOOLEAN
      BY <3>1, Zenon
    <3>3. TypeOK'
      BY <3>1, <3>2
    <3>4. request.gen = generation => configVersion >= 1
      BY <1>3, <2>3 DEF Answers
    <3>5. CacheOfBound'
      BY <3>1, <3>4
    <3>6. /\ LockHeld' /\ BoundIsUser' /\ RequestOfBound' /\ AnswerOfRequest'
          /\ SignalOnItsWay'
      BY <1>3, <3>1 DEF NoAnswer, ReceiveAnswer
    <3>7. QED
      BY <3>3, <3>5, <3>6
  <2>4. QED
    BY <1>3, <2>1, <2>2, <2>3 DEF ReceiveAnswer
<1>4. CASE PollFails
  BY <1>4 DEF PollFails, NoAnswer
<1>5. CASE Woken
  BY <1>5 DEF Woken
<1>6. CASE IntervalElapses
  BY <1>6 DEF IntervalElapses
<1>7. CASE Exit
  BY <1>7 DEF Exit
<1>8. QED
  BY <1>1, <1>2, <1>3, <1>4, <1>5, <1>6, <1>7 DEF Consumer

\* Nor does a callback or the server.
LEMMA EnvironmentIInv == ASSUME IInv, Callbacks \/ Server PROVE IInv'
<1> USE UsersAssumption, ThreadsAssumption, BoundsAssumption
        DEF IInv, TypeOK, SharedTypeOK, LockHeld, BoundIsUser, CacheOfBound,
            RequestOfBound, AnswerOfRequest, SignalOnItsWay, Requests, CallStates,
            sharedVars, identityVars, cacheVars, mailbox, pollVars
<1>1. CASE PollNow
  BY <1>1 DEF PollNow
<1>2. CASE ConsumerStop
  <2> USE <1>2 DEF ConsumerStop
  <2>1. TypeOK'
    OBVIOUS
  <2>2. LockHeld' /\ BoundIsUser' /\ CacheOfBound' /\ RequestOfBound'
    OBVIOUS
  <2>3. AnswerOfRequest' /\ SignalOnItsWay'
    OBVIOUS
  <2>4. QED
    BY <2>1, <2>2, <2>3
<1>3. CASE ServerAnswers
  <2> USE <1>3 DEF ServerAnswers, Answer, Answers
  <2>1. TypeOK'
    OBVIOUS
  <2>2. LockHeld' /\ BoundIsUser' /\ CacheOfBound' /\ RequestOfBound'
    OBVIOUS
  <2>3. AnswerOfRequest' /\ SignalOnItsWay'
    OBVIOUS
  <2>4. QED
    BY <2>1, <2>2, <2>3
<1>4. CASE ConfigChange
  BY <1>4 DEF ConfigChange, Answers
<1>5. QED
  BY <1>1, <1>2, <1>3, <1>4 DEF Callbacks, Server

\* The invariant is inductive.
LEMMA NextIInv == IInv /\ [Next]_vars => IInv'
<1> SUFFICES ASSUME IInv, [Next]_vars PROVE IInv'
  OBVIOUS
<1>1. CASE UNCHANGED vars
  BY <1>1 DEF vars, sharedVars, identityVars, cacheVars, mailbox, pollVars, IInv,
     TypeOK, SharedTypeOK, LockHeld, BoundIsUser, CacheOfBound, RequestOfBound,
     AnswerOfRequest, SignalOnItsWay
<1>2. QED
  BY <1>1, ApplicationIInv, ConsumerIInv, EnvironmentIInv DEF Next

\* Under the polling strategy the invariant holds of every reachable state.
THEOREM PollingInvariant == SafetySpec => []IInv
BY InitIInv, NextIInv, PTL DEF SafetySpec

-----------------------------------------------------------------------------
\* Type correctness of the polling client.
THEOREM PollingTyped == SafetySpec => []TypeOK
<1>1. IInv => TypeOK
  BY DEF IInv
<1>2. QED
  BY <1>1, PollingInvariant, PTL

\* feature() never reads another identity's snapshot once identify() has left
\* its critical section, and ready() never reports an empty cache.
THEOREM PollingIdentitySafe == SafetySpec => [](SnapshotIsCurrent /\ ReadyHasSnapshot)
<1>1. IInv => SnapshotIsCurrent /\ ReadyHasSnapshot
  BY UsersAssumption
     DEF IInv, TypeOK, SharedTypeOK, BoundIsUser, CacheOfBound,
         SnapshotIsCurrent, ReadyHasSnapshot
<1>2. QED
  BY <1>1, PollingInvariant, PTL

\* A request of the current generation carries the current user, and a version
\* only if that user's snapshot at that version is cached.
THEOREM PollingRequestConsistent == SafetySpec => []RequestIsConsistent
<1>1. IInv => RequestIsConsistent
  BY UsersAssumption
     DEF IInv, TypeOK, SharedTypeOK, Requests, BoundIsUser, CacheOfBound,
         RequestOfBound, RequestIsConsistent
<1>2. QED
  BY <1>1, PollingInvariant, PTL

\* A consumer that last asked for a previous identity is always about to be woken.
THEOREM PollingStaleSignalled == SafetySpec => []StaleRequestIsSignalled
<1>1. IInv => StaleRequestIsSignalled
  BY DEF IInv, SignalOnItsWay, StaleRequestIsSignalled
<1>2. QED
  BY <1>1, PollingInvariant, PTL

-----------------------------------------------------------------------------
\* A step that leaves the cache alone is a stutter of the snapshot.
LEMMA CacheUntouched ==
  UNCHANGED cacheVars => UNCHANGED Snapshot!vars
BY DEF cacheVars, Snapshot!vars

\* Every step of the polling client switches the abstract identity, teaches it a
\* snapshot, or leaves it alone.
LEMMA StepRefines ==
  ASSUME IInv, [Next]_vars
  PROVE  [Snapshot!Next]_(Snapshot!vars)
<1>1. ASSUME NEW t \in Threads, BeginIdentity(t) PROVE Snapshot!Next
  <2>1. userId \in Users /\ userId # bound
    BY <1>1, ThreadsAssumption
       DEF BeginIdentity, IInv, LockHeld, BoundIsUser, TypeOK, SharedTypeOK
  <2>2. Snapshot!Switch(userId)
    BY <1>1, <2>1 DEF BeginIdentity, CacheBegin, Snapshot!Switch
  <2>3. QED
    BY <2>1, <2>2 DEF Snapshot!Next
<1>2. CASE ReceiveAnswer
  <2>1. CASE answer.kind = "snapshot" /\ request.gen = generation
    <3>1. /\ answer.user = bound /\ answer.version \in 1..MaxVersion
          /\ answer.version >= configVersion
      BY <1>2, <2>1 DEF ReceiveAnswer, IInv, RequestOfBound, AnswerOfRequest, Answers
    <3>2. Snapshot!Learn(answer.version)
      BY <1>2, <2>1, <3>1 DEF ReceiveAnswer, CacheApply, Snapshot!Learn
    <3>3. QED
      BY <3>1, <3>2 DEF Snapshot!Next
  <2>2. CASE answer.kind = "snapshot" /\ request.gen # generation
    BY <1>2, <2>2, CacheUntouched DEF ReceiveAnswer, CacheApply, cacheVars
  <2>3. CASE answer.kind = "up_to_date" /\ request.gen = generation
    <3>1. /\ features = bound /\ configVersion \in 1..MaxVersion
      BY <1>2, <2>3, BoundsAssumption
         DEF ReceiveAnswer, IInv, TypeOK, SharedTypeOK, CacheOfBound, RequestOfBound,
             AnswerOfRequest, Answers
    <3>2. /\ features' = features /\ configVersion' = configVersion /\ bound' = bound
      BY <1>2, <2>3 DEF ReceiveAnswer, CacheConfirm
    <3>3. ready' = TRUE
      BY <1>2, <2>3, Zenon DEF ReceiveAnswer, CacheConfirm
    <3>4. Snapshot!Learn(configVersion)
      BY <3>1, <3>2, <3>3 DEF Snapshot!Learn
    <3>5. QED
      BY <3>1, <3>4 DEF Snapshot!Next
  <2>4. CASE answer.kind = "up_to_date" /\ request.gen # generation
    <3>1. /\ UNCHANGED <<generation, features, configVersion, bound>>
      BY <1>2, <2>4 DEF ReceiveAnswer, CacheConfirm
    <3>2. ready \in BOOLEAN
      BY DEF IInv, TypeOK, SharedTypeOK
    <3>3. ready' = ready
      BY <1>2, <2>4, <3>2, Zenon DEF ReceiveAnswer, CacheConfirm
    <3>4. QED
      BY <3>1, <3>3 DEF Snapshot!vars
  <2>5. QED
    BY <1>2, <2>1, <2>2, <2>3, <2>4 DEF ReceiveAnswer
<1>3. CASE Application /\ UNCHANGED pollVars
  <2>1. ASSUME NEW t \in Threads, IdentifySame(t) PROVE UNCHANGED cacheVars
    BY <2>1 DEF IdentifySame
  <2>2. ASSUME NEW t \in Threads, NEW u \in Users, IdentifyNew(t, u)
        PROVE  UNCHANGED cacheVars
    BY <2>2 DEF IdentifyNew
  <2>3. ASSUME NEW t \in Threads, SignalUserChange(t) PROVE UNCHANGED cacheVars
    BY <2>3 DEF SignalUserChange
  <2>4. CASE Close
    BY <2>4, CacheUntouched DEF Close
  <2>5. QED
    BY <1>3, <1>1, <2>1, <2>2, <2>3, <2>4, CacheUntouched DEF Application
<1>4. CASE Consumer /\ ~ReceiveAnswer
  <2>1. UNCHANGED cacheVars
    BY <1>4 DEF Consumer, StartPoll, ReadUser, PollFails, Woken, IntervalElapses,
       Exit, sharedVars
  <2>2. QED
    BY <2>1, CacheUntouched
<1>5. CASE Callbacks \/ Server
  <2>1. UNCHANGED cacheVars
    BY <1>5 DEF Callbacks, Server, PollNow, ConsumerStop, ServerAnswers, ConfigChange,
       sharedVars
  <2>2. QED
    BY <2>1, CacheUntouched
<1>6. CASE UNCHANGED vars
  BY <1>6, CacheUntouched DEF vars, sharedVars
<1>7. QED
  BY <1>2, <1>3, <1>4, <1>5, <1>6 DEF Next

\* The polling strategy implements the one-identity snapshot.
THEOREM PollingImplements == SafetySpec => ImplementsSnapshot
<1>1. Init => Snapshot!Init
  BY DEF Init, SharedInit, Snapshot!Init
<1>2. IInv /\ [Next]_vars => [Snapshot!Next]_(Snapshot!vars)
  BY StepRefines
<1>3. QED
  BY <1>1, <1>2, PollingInvariant, PTL DEF SafetySpec, ImplementsSnapshot, Snapshot!Spec
=============================================================================
