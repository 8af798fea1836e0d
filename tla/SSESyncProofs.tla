---------------------------- MODULE SSESyncProofs ----------------------------
(***************************************************************************)
(* What identify() promises under the streaming strategy, for any number   *)
(* of threads, identities, switches and versions, whatever the network and *)
(* the server do to the connection.                                        *)
(***************************************************************************)
EXTENDS SSESync, TLAPS

Connected == ssePc \in {"connecting", "open"}

(***************************************************************************)
(* The inductive invariant                                                 *)
(***************************************************************************)
LockHeld == \A t \in Threads : callPc[t] = "switching" <=> userLock = t

BoundIsUser == bound = userId <=> userLock = NoThread

CacheOfBound ==
  /\ features \in {bound, NoSnapshot}
  /\ features = NoSnapshot <=> configVersion = 0
  /\ ready => features # NoSnapshot
  /\ configVersion <= serverVersion

ConnOfBound ==
  /\ conn.gen <= generation
  /\ conn.since <= serverVersion
  /\ conn.gen = generation =>
       /\ ssePc \in {"asking", "connecting", "open"} => configVersion >= conn.since
       /\ Connected => conn.user = bound

\* What is on the wire answers the open connection, in the order of versions.
StreamOfConn ==
  /\ ~Connected => stream = <<>> /\ link \in {"none", "stalled"}
  /\ link \in {"none", "dialing", "refused"} => stream = <<>>
  /\ \A i \in 1..Len(stream) :
       /\ stream[i].user = conn.user
       /\ stream[i].version <= serverVersion
       /\ stream[i].kind = "up_to_date" => conn.since = stream[i].version
       /\ conn.gen = generation => configVersion <= stream[i].version
  /\ \A i, j \in 1..Len(stream) : i < j => stream[i].version <= stream[j].version

SignalOnItsWay ==
  /\ loop = "closed" <=> ssePc = "done"
  /\ ssePc \in {"asking", "connecting", "open"} /\ conn.gen # generation =>
       \/ signal \/ posted > 0
       \/ \E t \in Threads : callPc[t] = "signalling"

IInv == /\ TypeOK /\ LockHeld /\ BoundIsUser /\ CacheOfBound
        /\ ConnOfBound /\ StreamOfConn /\ SignalOnItsWay

-----------------------------------------------------------------------------
\* Every frame on the wire is an answer of the server.
LEMMA StreamOfAnswers ==
  ASSUME TypeOK
  PROVE  \A i \in 1..Len(stream) : stream[i] \in Answers /\ stream[i].version \in Nat
<1>1. \A i \in 1..Len(stream) : stream[i] \in Answers
  BY DEF TypeOK
<1>2. \A a \in Answers : a.version \in Nat
  BY BoundsAssumption DEF Answers
<1>3. QED
  BY <1>1, <1>2

\* The initial state of the client satisfies the invariant.
LEMMA InitIInv == Init => IInv
<1> SUFFICES ASSUME Init PROVE IInv
  OBVIOUS
<1> USE UsersAssumption, ThreadsAssumption, BoundsAssumption DEF Init, SharedInit
<1>1. SharedTypeOK
  <2>1. /\ userId \in Users /\ bound \in Users
        /\ userLock \in Threads \cup {NoThread}
        /\ features \in Users \cup {NoSnapshot}
        /\ loop \in {"open", "closed"}
    OBVIOUS
  <2>2. ready \in BOOLEAN /\ stopPosted \in BOOLEAN /\ closed \in BOOLEAN
    BY Zenon
  <2>3. /\ switches \in 0..MaxSwitches /\ generation \in Nat /\ posted \in Nat
        /\ configVersion \in 0..MaxVersion /\ serverVersion \in 1..MaxVersion
    OBVIOUS
  <2>4. callPc \in [Threads -> CallStates]
    BY DEF CallStates
  <2>5. QED
    BY <2>1, <2>2, <2>3, <2>4 DEF SharedTypeOK
<1>2. TypeOK
  <2>1. /\ ssePc \in {"top", "asking", "connecting", "open", "leaving", "backoff", "done"}
        /\ link \in {"none", "dialing", "refused", "live", "stalled", "closed"}
        /\ stream \in Seq(Answers)
    OBVIOUS
  <2>2. conn \in Connections
    BY DEF Connections
  <2>3. signal \in BOOLEAN /\ stop \in BOOLEAN /\ silent \in BOOLEAN
    BY Zenon
  <2>4. QED
    BY <1>1, <2>1, <2>2, <2>3 DEF TypeOK
<1>3. LockHeld /\ BoundIsUser
  BY DEF LockHeld, BoundIsUser
<1>4. CacheOfBound
  BY DEF CacheOfBound
<1>5. ConnOfBound
  BY DEF ConnOfBound, Connected
<1>6. StreamOfConn /\ SignalOnItsWay
  BY DEF StreamOfConn, SignalOnItsWay
<1>7. QED
  BY <1>2, <1>3, <1>4, <1>5, <1>6 DEF IInv

\* No step of an application thread or of close() breaks it.
LEMMA ApplicationIInv ==
  ASSUME IInv, Application, UNCHANGED sseVars
  PROVE  IInv'
<1> USE UsersAssumption, ThreadsAssumption, BoundsAssumption
        DEF IInv, TypeOK, SharedTypeOK, LockHeld, BoundIsUser, CacheOfBound,
            ConnOfBound, StreamOfConn, SignalOnItsWay, Connected, sseVars, CallStates
<1>1. ASSUME NEW t \in Threads, IdentifySame(t) PROVE IInv'
  <2> USE <1>1 DEF IdentifySame, cacheVars, mailbox
  <2>1. TypeOK'
    OBVIOUS
  <2>2. LockHeld' /\ BoundIsUser' /\ CacheOfBound'
    OBVIOUS
  <2>3. ConnOfBound' /\ StreamOfConn' /\ SignalOnItsWay'
    OBVIOUS
  <2>4. QED
    BY <2>1, <2>2, <2>3
<1>2. ASSUME NEW t \in Threads, NEW u \in Users, IdentifyNew(t, u) PROVE IInv'
  <2> USE <1>2 DEF IdentifyNew, cacheVars, mailbox
  <2>1. TypeOK'
    OBVIOUS
  <2>2. LockHeld' /\ BoundIsUser'
    OBVIOUS
  <2>3. CacheOfBound' /\ ConnOfBound' /\ StreamOfConn'
    OBVIOUS
  <2>4. SignalOnItsWay'
    OBVIOUS
  <2>5. QED
    BY <2>1, <2>2, <2>3, <2>4
<1>3. ASSUME NEW t \in Threads, BeginIdentity(t) PROVE IInv'
  <2> USE <1>3 DEF BeginIdentity, CacheBegin, mailbox
  <2>a. ready' \in BOOLEAN
    BY Zenon
  <2>1. TypeOK'
    BY <2>a
  <2>2. LockHeld' /\ BoundIsUser'
    OBVIOUS
  <2>3. CacheOfBound'
    OBVIOUS
  <2>4. conn.gen < generation'
    BY DEF Connections
  <2>5. ConnOfBound'
    BY <2>4 DEF Connections
  <2>6. StreamOfConn'
    BY <2>4 DEF Connections
  <2>7. SignalOnItsWay'
    OBVIOUS
  <2>8. QED
    BY <2>1, <2>2, <2>3, <2>5, <2>6, <2>7
<1>4. ASSUME NEW t \in Threads, SignalUserChange(t) PROVE IInv'
  <2> USE <1>4 DEF SignalUserChange, cacheVars
  <2>1. TypeOK' /\ LockHeld' /\ BoundIsUser' /\ CacheOfBound' /\ ConnOfBound'
    OBVIOUS
  <2>2. StreamOfConn'
    OBVIOUS
  <2>3. SignalOnItsWay'
    OBVIOUS
  <2>4. QED
    BY <2>1, <2>2, <2>3
<1>5. CASE Close
  BY <1>5 DEF Close, cacheVars, identityVars
<1>6. QED
  BY <1>1, <1>2, <1>3, <1>4, <1>5 DEF Application

\* No step of the consumer breaks it.
LEMMA ConsumerIInv == ASSUME IInv, Consumer PROVE IInv'
<1> USE UsersAssumption, ThreadsAssumption, BoundsAssumption
        DEF IInv, TypeOK, SharedTypeOK, LockHeld, BoundIsUser, CacheOfBound,
            ConnOfBound, StreamOfConn, SignalOnItsWay, Connected, Connections, CallStates,
            sharedVars, identityVars, cacheVars, mailbox
<1>1. CASE Connect
  <2> USE <1>1 DEF Connect, RequestView
  <2>1. conn' \in Connections /\ conn'.gen = generation /\ conn'.since = configVersion
    OBVIOUS
  <2>2. TypeOK'
    BY <2>1
  <2>3. ConnOfBound' /\ StreamOfConn' /\ SignalOnItsWay'
    BY <2>1
  <2>4. QED
    BY <2>2, <2>3
<1>2. CASE ReadUser
  <2> USE <1>2 DEF ReadUser
  <2>1. /\ conn' \in Connections /\ conn'.gen = conn.gen
        /\ conn'.since = conn.since /\ conn'.user = userId
    OBVIOUS
  <2>2. TypeOK'
    BY <2>1
  <2>3. ConnOfBound' /\ StreamOfConn' /\ SignalOnItsWay'
    BY <2>1
  <2>4. QED
    BY <2>2, <2>3
<1>3. CASE HeadersArrive
  BY <1>3 DEF HeadersArrive
<1>4. CASE Refused
  BY <1>4 DEF Refused
<1>5. CASE NextFrame
  <2> DEFINE frame == Head(stream)
  <2>0. frame = stream[1] /\ 1 \in 1..Len(stream)
    BY <1>5 DEF NextFrame
  <2>1. /\ frame = stream[1] /\ frame \in Answers /\ 1 \in 1..Len(stream)
        /\ frame.user = conn.user /\ frame.version \in 1..MaxVersion
        /\ frame.version <= serverVersion
    <3>1. frame \in Answers
      BY <2>0, StreamOfAnswers
    <3>2. frame.version \in 1..MaxVersion
      BY <3>1 DEF Answers
    <3>3. QED
      BY <2>0, <3>1, <3>2
  <2>2. /\ stream' = Tail(stream) /\ Len(stream') = Len(stream) - 1
        /\ \A i \in 1..Len(stream') : stream'[i] = stream[i + 1]
        /\ stream' \in Seq(Answers)
    BY <1>5 DEF NextFrame
  <2>3. UNCHANGED <<identityVars, mailbox, serverVersion, ssePc, conn, link, signal,
                    stop, generation, bound>>
    BY <1>5 DEF NextFrame, CacheApply, CacheConfirm
  <2>4. ssePc = "open"
    BY <1>5 DEF NextFrame
  <2>5. silent' \in BOOLEAN
    BY <1>5, Zenon DEF NextFrame
  <2>6. \A i \in 1..Len(stream') : i + 1 \in 1..Len(stream) /\ 1 < i + 1
    BY <2>2
  <2>7. CASE frame.kind = "snapshot" /\ conn.gen = generation
    <3>1. features' = bound /\ configVersion' = frame.version /\ ready' = TRUE
      BY <1>5, <2>7, <2>1 DEF NextFrame, CacheApply
    <3>2. ready' \in BOOLEAN
      BY <3>1, Zenon
    <3>3. TypeOK'
      BY <2>1, <2>2, <2>3, <2>5, <3>1, <3>2
    <3>4. configVersion <= frame.version
      BY <2>1, <2>7
    <3>5. CacheOfBound' /\ ConnOfBound'
      BY <2>1, <2>3, <2>4, <3>1, <3>4
    <3>6. \A i \in 1..Len(stream') : frame.version <= stream'[i].version
      BY <2>1, <2>2, <2>6
    <3>7. StreamOfConn'
      BY <2>1, <2>2, <2>3, <2>4, <2>6, <3>1, <3>6
    <3>8. SignalOnItsWay' /\ LockHeld' /\ BoundIsUser'
      BY <2>3
    <3>9. QED
      BY <3>3, <3>5, <3>7, <3>8
  <2>8. CASE ~(frame.kind = "snapshot" /\ conn.gen = generation)
    <3>1. UNCHANGED <<features, configVersion>>
      BY <1>5, <2>8, <2>1 DEF NextFrame, CacheApply, CacheConfirm
    <3>2. \/ ready' = ready
          \/ ready' = (ready \/ conn.gen = generation) /\ frame.kind = "up_to_date"
      BY <1>5, <2>8 DEF NextFrame, CacheApply, CacheConfirm
    <3>3. ready' \in BOOLEAN
      BY <3>2, Zenon
    <3>4. ready' => ready \/ (conn.gen = generation /\ frame.kind = "up_to_date")
      BY <3>2
    <3>5. conn.gen = generation /\ frame.kind = "up_to_date" => configVersion >= 1
      BY <2>1, <2>4
    <3>6. TypeOK'
      BY <2>2, <2>3, <2>5, <3>1, <3>3
    <3>7. CacheOfBound' /\ ConnOfBound'
      BY <2>3, <2>4, <3>1, <3>4, <3>5
    <3>8. StreamOfConn'
      BY <2>1, <2>2, <2>3, <2>4, <2>6, <3>1
    <3>9. SignalOnItsWay' /\ LockHeld' /\ BoundIsUser'
      BY <2>3
    <3>10. QED
      BY <3>6, <3>7, <3>8, <3>9
  <2>9. QED
    BY <2>7, <2>8
<1>6. CASE Abort \/ StreamEnds \/ TransportFails
  <2> USE <1>6 DEF Abort, StreamEnds, TransportFails, Leave
  <2>0. /\ ssePc' = "leaving" /\ stream' = <<>> /\ link' \in {"none", "stalled"}
        /\ UNCHANGED <<sharedVars, conn, signal, stop, silent>> /\ Connected
    OBVIOUS
  <2>1. TypeOK'
    BY <2>0
  <2>2. LockHeld' /\ BoundIsUser' /\ CacheOfBound' /\ ConnOfBound'
    BY <2>0
  <2>3. StreamOfConn' /\ SignalOnItsWay'
    BY <2>0
  <2>4. QED
    BY <2>1, <2>2, <2>3
<1>7. CASE Retry
  <2> USE <1>7 DEF Retry
  <2>1. TypeOK'
    OBVIOUS
  <2>2. LockHeld' /\ BoundIsUser' /\ CacheOfBound'
    OBVIOUS
  <2>3. ConnOfBound' /\ StreamOfConn' /\ SignalOnItsWay'
    OBVIOUS
  <2>4. QED
    BY <2>1, <2>2, <2>3
<1>8. CASE BackOff
  BY <1>8 DEF BackOff
<1>9. CASE BackoffExpires
  BY <1>9 DEF BackoffExpires
<1>10. CASE Exit
  BY <1>10 DEF Exit
<1>11. QED
  BY <1>1, <1>2, <1>3, <1>4, <1>5, <1>6, <1>7, <1>8, <1>9, <1>10 DEF Consumer

\* Nor does a callback, the watchdog, the server or the network.
LEMMA EnvironmentIInv == ASSUME IInv, Callbacks \/ Server PROVE IInv'
<1> USE UsersAssumption, ThreadsAssumption, BoundsAssumption
        DEF IInv, TypeOK, SharedTypeOK, LockHeld, BoundIsUser, CacheOfBound,
            ConnOfBound, StreamOfConn, SignalOnItsWay, Connected, Connections, CallStates,
            sharedVars, identityVars, cacheVars, mailbox, sseVars, Awaiting
<1>1. CASE ForceReconnect
  <2> USE <1>1 DEF ForceReconnect
  <2>0. signal' \in BOOLEAN /\ stop' \in BOOLEAN /\ silent' \in BOOLEAN /\ stopPosted' \in BOOLEAN
    BY Zenon
  <2>1. TypeOK'
    BY <2>0
  <2>2. LockHeld' /\ BoundIsUser' /\ CacheOfBound' /\ ConnOfBound'
    OBVIOUS
  <2>3. StreamOfConn' /\ SignalOnItsWay'
    OBVIOUS
  <2>4. QED
    BY <2>1, <2>2, <2>3
<1>2. CASE ConsumerStop
  <2> USE <1>2 DEF ConsumerStop
  <2>0. signal' \in BOOLEAN /\ stop' \in BOOLEAN /\ silent' \in BOOLEAN /\ stopPosted' \in BOOLEAN
    BY Zenon
  <2>1. TypeOK'
    BY <2>0
  <2>2. LockHeld' /\ BoundIsUser' /\ CacheOfBound' /\ ConnOfBound'
    OBVIOUS
  <2>3. StreamOfConn' /\ SignalOnItsWay'
    OBVIOUS
  <2>4. QED
    BY <2>1, <2>2, <2>3
<1>3. CASE GoesSilent
  <2> USE <1>3 DEF GoesSilent
  <2>0. signal' \in BOOLEAN /\ stop' \in BOOLEAN /\ silent' \in BOOLEAN /\ stopPosted' \in BOOLEAN
    BY Zenon
  <2>1. TypeOK'
    BY <2>0
  <2>2. LockHeld' /\ BoundIsUser' /\ CacheOfBound' /\ ConnOfBound'
    OBVIOUS
  <2>3. StreamOfConn' /\ SignalOnItsWay'
    OBVIOUS
  <2>4. QED
    BY <2>1, <2>2, <2>3
<1>4. CASE Watchdog
  <2> USE <1>4 DEF Watchdog
  <2>0. signal' \in BOOLEAN /\ stop' \in BOOLEAN /\ silent' \in BOOLEAN /\ stopPosted' \in BOOLEAN
    BY Zenon
  <2>1. TypeOK'
    BY <2>0
  <2>2. LockHeld' /\ BoundIsUser' /\ CacheOfBound' /\ ConnOfBound'
    OBVIOUS
  <2>3. StreamOfConn' /\ SignalOnItsWay'
    OBVIOUS
  <2>4. QED
    BY <2>1, <2>2, <2>3
<1>5. CASE ServerAccepts
  <2> USE <1>5 DEF ServerAccepts
  <2>1. Answer(conn.user, conn.since) \in Answers
    BY DEF Answer, Answers
  <2>2. /\ stream' = <<Answer(conn.user, conn.since)>> /\ Len(stream') = 1
        /\ stream'[1] = Answer(conn.user, conn.since) /\ stream' \in Seq(Answers)
    BY <2>1
  <2>3. TypeOK'
    BY <2>2
  <2>4. Connected
    OBVIOUS
  <2>5. StreamOfConn'
    BY <2>2, <2>4 DEF Answer
  <2>6. QED
    BY <2>3, <2>5
<1>6. CASE ServerRefuses \/ ServerCloses \/ LinkStalls
  <2>1. /\ link' \in {"refused", "closed", "stalled"}
        /\ link' = "refused" => link = "dialing"
        /\ UNCHANGED <<sharedVars, ssePc, conn, stream, signal, stop, silent>>
    BY <1>6 DEF ServerRefuses, ServerCloses, LinkStalls
  <2>2. TypeOK'
    BY <2>1
  <2>3. LockHeld' /\ BoundIsUser' /\ CacheOfBound'
    BY <2>1
  <2>4. ConnOfBound' /\ SignalOnItsWay'
    BY <2>1
  <2>5. Connected
    BY <1>6 DEF ServerRefuses, ServerCloses, LinkStalls
  <2>6. StreamOfConn'
    BY <2>1, <2>5
  <2>7. QED
    BY <2>2, <2>3, <2>4, <2>6
<1>7. CASE ConfigChange
  <2>1. CASE link = "live"
    <3> DEFINE pushed == [kind |-> "snapshot", user |-> conn.user,
                          version |-> serverVersion + 1]
    <3>1. /\ pushed \in Answers /\ stream' = Append(stream, pushed)
          /\ serverVersion' = serverVersion + 1
          /\ UNCHANGED <<identityVars, cacheVars, mailbox, ssePc, conn, link, signal,
                         stop, silent>>
      BY <1>7, <2>1 DEF ConfigChange, Answers
    <3>2. /\ stream' \in Seq(Answers) /\ Len(stream') = Len(stream) + 1
          /\ stream'[Len(stream) + 1] = pushed
          /\ \A i \in 1..Len(stream) : stream'[i] = stream[i]
          /\ \A i \in 1..Len(stream') : i \in 1..Len(stream) \/ i = Len(stream) + 1
      BY <3>1
    <3>3. TypeOK'
      BY <1>7, <3>1, <3>2 DEF ConfigChange
    <3>4. Connected
      BY <2>1
    <3>5. \A i \in 1..Len(stream) : stream[i] \in Answers /\ stream[i].version \in Nat
      BY StreamOfAnswers
    <3>6. StreamOfConn'
      <4>1. Connected' /\ link' = "live"
        BY <2>1, <3>1, <3>4
      <4>2. \A i \in 1..Len(stream') : stream'[i].version <= serverVersion + 1
        BY <3>1, <3>2, <3>5
      <4>3. \A i \in 1..Len(stream') :
              /\ stream'[i].user = conn.user
              /\ stream'[i].kind = "up_to_date" => conn.since = stream'[i].version
        BY <3>2
      <4>4. conn.gen = generation =>
              \A i \in 1..Len(stream') : configVersion <= stream'[i].version
        BY <3>2
      <4>5. \A i, j \in 1..Len(stream') : i < j => stream'[i].version <= stream'[j].version
        <5> SUFFICES ASSUME NEW i \in 1..Len(stream'), NEW j \in 1..Len(stream'), i < j
                     PROVE  stream'[i].version <= stream'[j].version
          OBVIOUS
        <5>1. CASE j \in 1..Len(stream)
          BY <5>1, <3>2
        <5>2. CASE j = Len(stream) + 1
          BY <5>2, <3>2, <3>5
        <5>3. QED
          BY <5>1, <5>2, <3>2
      <4>6. QED
        BY <3>1, <4>1, <4>2, <4>3, <4>4, <4>5
    <3>7. CacheOfBound' /\ ConnOfBound' /\ LockHeld' /\ BoundIsUser' /\ SignalOnItsWay'
      BY <3>1
    <3>8. QED
      BY <3>3, <3>6, <3>7
  <2>2. CASE link # "live"
    <3>1. /\ serverVersion' = serverVersion + 1
          /\ UNCHANGED <<identityVars, cacheVars, mailbox, sseVars>>
      BY <1>7, <2>2 DEF ConfigChange
    <3>2. TypeOK'
      BY <1>7, <3>1 DEF ConfigChange
    <3>3. \A i \in 1..Len(stream) : stream[i] \in Answers /\ stream[i].version \in Nat
      BY StreamOfAnswers
    <3>4. QED
      BY <3>1, <3>2, <3>3
  <2>3. QED
    BY <2>1, <2>2
<1>8. QED
  BY <1>1, <1>2, <1>3, <1>4, <1>5, <1>6, <1>7 DEF Callbacks, Server

\* The invariant is inductive.
LEMMA NextIInv == IInv /\ [Next]_vars => IInv'
<1> SUFFICES ASSUME IInv, [Next]_vars PROVE IInv'
  OBVIOUS
<1>1. CASE UNCHANGED vars
  BY <1>1 DEF vars, sharedVars, identityVars, cacheVars, mailbox, sseVars, IInv,
     TypeOK, SharedTypeOK, LockHeld, BoundIsUser, CacheOfBound, ConnOfBound,
     StreamOfConn, SignalOnItsWay, Connected
<1>2. QED
  BY <1>1, ApplicationIInv, ConsumerIInv, EnvironmentIInv DEF Next

\* Under the streaming strategy the invariant holds of every reachable state.
THEOREM SSEInvariant == SafetySpec => []IInv
BY InitIInv, NextIInv, PTL DEF SafetySpec

-----------------------------------------------------------------------------
\* Type correctness of the streaming client.
THEOREM SSETyped == SafetySpec => []TypeOK
<1>1. IInv => TypeOK
  BY DEF IInv
<1>2. QED
  BY <1>1, SSEInvariant, PTL

\* feature() never reads another identity's snapshot once identify() has left
\* its critical section, and ready() never reports an empty cache.
THEOREM SSEIdentitySafe == SafetySpec => [](SnapshotIsCurrent /\ ReadyHasSnapshot)
<1>1. IInv => SnapshotIsCurrent /\ ReadyHasSnapshot
  BY UsersAssumption
     DEF IInv, TypeOK, SharedTypeOK, BoundIsUser, CacheOfBound,
         SnapshotIsCurrent, ReadyHasSnapshot
<1>2. QED
  BY <1>1, SSEInvariant, PTL

\* A connection of the current generation is the current user's, and a stale one
\* is always about to be told to reconnect.
THEOREM SSEConnectionSafe ==
  SafetySpec => [](ConnectionIsConsistent /\ StaleConnectionIsSignalled)
<1>1. IInv => ConnectionIsConsistent
  BY UsersAssumption
     DEF IInv, TypeOK, SharedTypeOK, Connections, Connected, BoundIsUser,
         CacheOfBound, ConnOfBound, ConnectionIsConsistent
<1>2. IInv => StaleConnectionIsSignalled
  BY DEF IInv, SignalOnItsWay, StaleConnectionIsSignalled
<1>3. QED
  BY <1>1, <1>2, SSEInvariant, PTL

-----------------------------------------------------------------------------
\* A step that leaves the cache alone is a stutter of the snapshot.
LEMMA CacheUntouched ==
  UNCHANGED cacheVars => UNCHANGED Snapshot!vars
BY DEF cacheVars, Snapshot!vars

\* Reading a frame teaches the current identity its snapshot, at a version that
\* is not older, or changes nothing that can be seen.
LEMMA NextFrameRefines ==
  ASSUME IInv, NextFrame
  PROVE  [Snapshot!Next]_(Snapshot!vars)
<1> DEFINE frame == Head(stream)
<1>1. frame = stream[1] /\ 1 \in 1..Len(stream) /\ ssePc = "open"
  BY DEF NextFrame, IInv, TypeOK
<1>2. frame \in Answers /\ frame.version \in 1..MaxVersion
  <2>1. frame \in Answers
    BY <1>1, StreamOfAnswers DEF IInv
  <2>2. QED
    BY <2>1 DEF Answers
<1>3. /\ frame.user = conn.user
      /\ frame.kind = "up_to_date" => conn.since = frame.version
      /\ conn.gen = generation => frame.user = bound /\ configVersion <= frame.version
      /\ conn.gen = generation => configVersion >= conn.since
  BY <1>1 DEF IInv, StreamOfConn, ConnOfBound, Connected
<1>4. CASE frame.kind = "snapshot" /\ conn.gen = generation
  <2>1. /\ features' = bound /\ configVersion' = frame.version /\ ready' = TRUE
        /\ bound' = bound
    BY <1>2, <1>3, <1>4 DEF NextFrame, CacheApply
  <2>2. Snapshot!Learn(frame.version)
    BY <1>2, <1>3, <1>4, <2>1 DEF Snapshot!Learn, IInv, TypeOK, SharedTypeOK
  <2>3. QED
    BY <1>2, <2>2 DEF Snapshot!Next
<1>5. CASE frame.kind = "snapshot" /\ conn.gen # generation
  BY <1>5, CacheUntouched DEF NextFrame, CacheApply, cacheVars
<1>6. CASE frame.kind = "up_to_date" /\ conn.gen = generation
  <2>1. features = bound /\ configVersion \in 1..MaxVersion
    BY <1>2, <1>3, <1>6 DEF IInv, TypeOK, SharedTypeOK, CacheOfBound
  <2>2. UNCHANGED <<generation, features, configVersion, bound>>
    BY <1>6 DEF NextFrame, CacheConfirm
  <2>3. ready' = TRUE
    BY <1>6, Zenon DEF NextFrame, CacheConfirm
  <2>4. Snapshot!Learn(configVersion)
    BY <2>1, <2>2, <2>3 DEF Snapshot!Learn
  <2>5. QED
    BY <2>1, <2>4 DEF Snapshot!Next
<1>7. CASE frame.kind = "up_to_date" /\ conn.gen # generation
  <2>1. UNCHANGED <<generation, features, configVersion, bound>>
    BY <1>7 DEF NextFrame, CacheConfirm
  <2>2. ready \in BOOLEAN
    BY DEF IInv, TypeOK, SharedTypeOK
  <2>3. ready' = ready
    BY <1>7, <2>2, Zenon DEF NextFrame, CacheConfirm
  <2>4. QED
    BY <2>1, <2>3 DEF Snapshot!vars
<1>8. QED
  BY <1>4, <1>5, <1>6, <1>7 DEF NextFrame

\* Every step of the streaming client switches the abstract identity, teaches it
\* a snapshot, or leaves it alone.
LEMMA StepRefines ==
  ASSUME IInv, [Next]_vars
  PROVE  [Snapshot!Next]_(Snapshot!vars)
<1>1. ASSUME NEW t \in Threads, BeginIdentity(t) PROVE Snapshot!Next
  <2>1. userId \in Users /\ userId # bound
    BY <1>1, ThreadsAssumption
       DEF BeginIdentity, IInv, LockHeld, BoundIsUser, TypeOK, SharedTypeOK
  <2>2. Snapshot!Switch(userId)
    BY <1>1, <2>1 DEF BeginIdentity, CacheBegin, Snapshot!Switch
  <2>3. QED
    BY <2>1, <2>2 DEF Snapshot!Next
<1>2. CASE Application /\ UNCHANGED sseVars
  <2>1. ASSUME NEW t \in Threads, IdentifySame(t) PROVE UNCHANGED cacheVars
    BY <2>1 DEF IdentifySame
  <2>2. ASSUME NEW t \in Threads, NEW u \in Users, IdentifyNew(t, u)
        PROVE  UNCHANGED cacheVars
    BY <2>2 DEF IdentifyNew
  <2>3. ASSUME NEW t \in Threads, SignalUserChange(t) PROVE UNCHANGED cacheVars
    BY <2>3 DEF SignalUserChange
  <2>4. CASE Close
    BY <2>4, CacheUntouched DEF Close
  <2>5. QED
    BY <1>2, <1>1, <2>1, <2>2, <2>3, <2>4, CacheUntouched DEF Application
<1>3. CASE Consumer /\ ~NextFrame
  <2>1. UNCHANGED cacheVars
    BY <1>3 DEF Consumer, Connect, ReadUser, HeadersArrive, Refused, Abort, StreamEnds,
       TransportFails, Leave, Retry, BackOff, BackoffExpires, Exit, sharedVars
  <2>2. QED
    BY <2>1, CacheUntouched
<1>4. CASE Callbacks \/ Server
  <2>1. UNCHANGED cacheVars
    BY <1>4 DEF Callbacks, Server, ForceReconnect, ConsumerStop, GoesSilent, Watchdog,
       ServerAccepts, ServerRefuses, ServerCloses, LinkStalls, ConfigChange, sharedVars
  <2>2. QED
    BY <2>1, CacheUntouched
<1>5. CASE UNCHANGED vars
  BY <1>5, CacheUntouched DEF vars, sharedVars
<1>6. QED
  BY <1>2, <1>3, <1>4, <1>5, NextFrameRefines DEF Next

\* The streaming strategy implements the one-identity snapshot.
THEOREM SSEImplements == SafetySpec => ImplementsSnapshot
<1>1. Init => Snapshot!Init
  BY DEF Init, SharedInit, Snapshot!Init
<1>2. IInv /\ [Next]_vars => [Snapshot!Next]_(Snapshot!vars)
  BY StepRefines
<1>3. QED
  BY <1>1, <1>2, SSEInvariant, PTL DEF SafetySpec, ImplementsSnapshot, Snapshot!Spec
=============================================================================
