------------------------- MODULE UserSnapshotsProofs -------------------------
(***************************************************************************)
(* How old an answer of for_user() can be and what its cache evicts, for   *)
(* any number of callers and users, any capacity and any ttls.             *)
(***************************************************************************)
EXTENDS UserSnapshots, FiniteSetTheorems, TLAPS

(***************************************************************************)
(* The inductive invariant.  A call in flight is young and its snapshot    *)
(* younger than the call; that bounds the deadline of the entry it puts by *)
(* the age of the snapshot, and with the deadline the age of what is       *)
(* served, whoever put it.                                                 *)
(***************************************************************************)
CallsAreYoung ==
  \A c \in Callers : InFlight(c) =>
    /\ call[c].user \in Users
    /\ call[c].sent <= now /\ now <= call[c].sent + Latency
    /\ callPc[c] = "resolved" =>
         call[c].sent <= call[c].snapshot.asOf /\ call[c].snapshot.asOf <= now

EntriesExpire ==
  /\ IsFiniteSet(DOMAIN store)
  /\ \A u \in DOMAIN store :
       store[u].deadline <= store[u].snapshot.asOf + Max(TTLs) + Latency

IInv == TypeOK /\ CallsAreYoung /\ EntriesExpire /\ ServedIsFresh

-----------------------------------------------------------------------------
\* A finite, non-empty set of naturals has a maximum.
LEMMA FiniteHasMax ==
  ASSUME NEW S \in SUBSET Nat, IsFiniteSet(S), S # {}
  PROVE  Max(S) \in S /\ \A x \in S : x <= Max(S)
<1> DEFINE HasMax(T) == \E m \in T : \A x \in T : m >= x
           Bad == {T \in SUBSET S : T # {} /\ ~HasMax(T)}
<1>1. Bad = {}
  <2> SUFFICES ASSUME Bad # {} PROVE FALSE
    OBVIOUS
  <2>1. FiniteSubsetsOf(S) = SUBSET S
    BY FS_FiniteSubsetsOfFinite
  <2>2. IsWellFoundedOn(StrictSubsetOrdering(S), SUBSET S)
    BY <2>1, FS_StrictSubsetOrderingWellFounded
  <2>3. Bad \subseteq SUBSET S
    OBVIOUS
  <2>4. PICK T \in Bad : \A U \in Bad : ~(<<U, T>> \in StrictSubsetOrdering(S))
    <3> HIDE DEF Bad
    <3>1. QED
      BY <2>2, <2>3, WFMin
  <2>5. PICK x \in T : TRUE
    OBVIOUS
  <2> DEFINE U == T \ {x}
  <2>6. T \subseteq S /\ T \subseteq Nat /\ U \in SUBSET S /\ U # T
    OBVIOUS
  <2>7. <<U, T>> \in StrictSubsetOrdering(S)
    BY <2>6 DEF StrictSubsetOrdering
  <2>8. U = {} \/ HasMax(U)
    BY <2>4, <2>6, <2>7
  <2>9. CASE U = {}
    <3>1. \A y \in T : x >= y
      BY <2>9, <2>6
    <3>2. QED
      BY <3>1, <2>5
  <2>10. CASE HasMax(U)
    <3>1. PICK m \in U : \A y \in U : m >= y
      BY <2>10
    <3>2. CASE m >= x
      BY <3>1, <3>2
    <3>3. CASE ~(m >= x)
      <4>1. \A y \in T : x >= y
        BY <3>1, <3>3, <2>6
      <4>2. QED
        BY <4>1
    <3>4. QED
      BY <3>2, <3>3
  <2>11. QED
    BY <2>8, <2>9, <2>10
<1>2. HasMax(S)
  BY <1>1
<1>3. QED
  BY <1>2 DEF Max

\* The ttl arguments have a largest one.
LEMMA LongestTTL == Max(TTLs) \in Nat /\ \A ttl \in TTLs : ttl <= Max(TTLs)
BY FiniteHasMax, SizesAssumption

\* What put() keeps fits, and what it drops was expired or expires no later than
\* anything it keeps.
LEMMA KeptFits ==
  ASSUME NEW d, IsFiniteSet(DOMAIN d), NEW kept \in Kept(d)
  PROVE  /\ kept \subseteq DOMAIN d
         /\ IsFiniteSet(kept) /\ Cardinality(kept) <= MaxEntries
         /\ kept # DOMAIN d =>
              /\ ~(Cardinality(DOMAIN d) <= MaxEntries)
              /\ \A u \in DOMAIN d \ kept : d[u].deadline > now =>
                   \A v \in kept : d[v].deadline > now /\ d[u].deadline <= d[v].deadline
<1> DEFINE live == {u \in DOMAIN d : d[u].deadline > now}
<1>1. CASE Cardinality(DOMAIN d) <= MaxEntries
  BY <1>1 DEF Kept
<1>2. CASE ~(Cardinality(DOMAIN d) <= MaxEntries)
  <2>1. kept \in Survivors(d)
    BY <1>2 DEF Kept
  <2>2. CASE Cardinality(live) <= MaxEntries
    <3>1. kept = live
      BY <2>1, <2>2 DEF Survivors
    <3>2. IsFiniteSet(live)
      BY FS_Subset
    <3>3. QED
      BY <1>2, <2>2, <3>1, <3>2
  <2>3. CASE ~(Cardinality(live) <= MaxEntries)
    <3>1. /\ kept \in kSubset(MaxEntries, live)
          /\ \A u \in live \ kept, v \in kept : d[u].deadline <= d[v].deadline
      BY <2>1, <2>3 DEF Survivors
    <3>2. kept \subseteq live /\ Cardinality(kept) = MaxEntries
      BY <3>1 DEF kSubset
    <3>3. IsFiniteSet(kept)
      BY <3>2, FS_Subset
    <3>4. QED
      BY <1>2, <3>1, <3>2, <3>3, SizesAssumption
  <2>4. QED
    BY <2>2, <2>3
<1>3. QED
  BY <1>1, <1>2

LEMMA InitIInv == Init => IInv
<1> SUFFICES ASSUME Init PROVE IInv
  OBVIOUS
<1> USE SizesAssumption, UsersAssumption DEF Init
<1>1. (CHOOSE t \in TTLs : TRUE) \in TTLs
  OBVIOUS
<1>2. call \in [Callers -> Calls]
  BY <1>1 DEF Calls, NoCall, Nothing, Snapshots, Epochs
<1>3. DOMAIN store = {} /\ IsFiniteSet(DOMAIN store) /\ Cardinality(DOMAIN store) = 0
  BY FS_EmptySet
<1>4. TypeOK
  BY <1>2, <1>3 DEF TypeOK, Epochs
<1>5. CallsAreYoung /\ EntriesExpire /\ ServedIsFresh
  BY <1>3 DEF CallsAreYoung, InFlight, EntriesExpire, ServedIsFresh
<1>6. QED
  BY <1>4, <1>5 DEF IInv

\* What IInv says of a store.
Sound(d) ==
  /\ IsFiniteSet(DOMAIN d) /\ DOMAIN d \subseteq Users
  /\ \A u \in DOMAIN d :
       d[u] \in Entries /\ d[u].deadline <= d[u].snapshot.asOf + Max(TTLs) + Latency

\* What is left of a sound store is sound.
LEMMA RestrictKeeps ==
  ASSUME NEW d, Sound(d), NEW kept \in SUBSET DOMAIN d
  PROVE  /\ Sound(Restrict(d, kept)) /\ DOMAIN Restrict(d, kept) = kept
         /\ \A u \in kept : Restrict(d, kept)[u] = d[u]
         /\ Cardinality(kept) <= Cardinality(DOMAIN d)
         /\ Cardinality(kept) \in Nat /\ Cardinality(DOMAIN d) \in Nat
<1>1. DOMAIN Restrict(d, kept) = kept /\ \A u \in kept : Restrict(d, kept)[u] = d[u]
  BY DEF Restrict
<1>2. /\ IsFiniteSet(kept) /\ Cardinality(kept) <= Cardinality(DOMAIN d)
      /\ Cardinality(kept) \in Nat /\ Cardinality(DOMAIN d) \in Nat
  BY FS_Subset, FS_CardinalityType DEF Sound
<1>3. Sound(Restrict(d, kept))
  BY <1>1, <1>2 DEF Sound
<1>4. QED
  BY <1>1, <1>2, <1>3

\* IInv, with the part about the store in one piece.
InParts ==
  /\ Sound(store) /\ Cardinality(DOMAIN store) <= MaxEntries
  /\ now \in 0..MaxTime
  /\ callPc \in [Callers -> {"idle", "resolving", "resolved"}]
  /\ call \in [Callers -> Calls]
  /\ epoch \in [Users -> Epochs]
  /\ shown \in [snapshot : Snapshots, asked : Epochs] \cup {NoAnswer}
  /\ CallsAreYoung /\ ServedIsFresh

LEMMA IInvParts == (IInv <=> InParts) /\ (IInv' <=> InParts')
BY DEF IInv, InParts, TypeOK, EntriesExpire, Sound

\* A step that removes entries keeps a sound store.
LEMMA RemovalKeeps ==
  ASSUME IInv, NEW kept \in SUBSET DOMAIN store, store' = Restrict(store, kept)
  PROVE  Sound(store') /\ Cardinality(DOMAIN store') <= MaxEntries
<1>1. Sound(store) /\ Cardinality(DOMAIN store) <= MaxEntries
  BY IInvParts DEF InParts
<1>2. /\ Sound(Restrict(store, kept)) /\ DOMAIN Restrict(store, kept) = kept
      /\ Cardinality(kept) <= Cardinality(DOMAIN store)
      /\ Cardinality(kept) \in Nat /\ Cardinality(DOMAIN store) \in Nat
  BY <1>1, RestrictKeeps
<1>3. QED
  BY <1>1, <1>2, SizesAssumption

\* for_user() serves a live entry, or forgets an expired one and resolves
LEMMA LookupIInv ==
  ASSUME IInv, NEW c \in Callers, NEW u \in Users,
         Hit(c, u) \/ \E ttl \in TTLs : Miss(c, u, ttl)
  PROVE  IInv'
<1> USE SizesAssumption, UsersAssumption, LongestTTL
<1>1. CASE Hit(c, u)
  <2> USE <1>1 DEF Hit, Returns, Live
  <2>1. /\ store[u] \in Entries /\ store[u].snapshot \in Snapshots /\ store[u].deadline \in Nat
        /\ epoch[u] \in Epochs /\ now \in Nat
    BY DEF IInv, TypeOK, Entries
  <2>2. TypeOK'
    BY <2>1 DEF IInv, TypeOK
  <2>3. CallsAreYoung' /\ EntriesExpire'
    BY DEF IInv, CallsAreYoung, EntriesExpire, InFlight
  <2>4. ServedIsFresh'
    BY <2>1 DEF IInv, EntriesExpire, ServedIsFresh, Snapshots
  <2>5. QED
    BY <2>2, <2>3, <2>4 DEF IInv
<1>2. ASSUME NEW ttl \in TTLs, Miss(c, u, ttl) PROVE IInv'
  <2>1. Sound(store') /\ Cardinality(DOMAIN store') <= MaxEntries
    BY <1>2, RemovalKeeps DEF Miss, Without
  <2> USE <1>2 DEF Miss
  <2>2. call' \in [Callers -> Calls]
    BY DEF IInv, TypeOK, Calls, Snapshots, Nothing, Epochs
  <2>3. CallsAreYoung'
    BY DEF IInv, TypeOK, CallsAreYoung, InFlight
  <2>4. ServedIsFresh'
    BY DEF ServedIsFresh
  <2>5. callPc' \in [Callers -> {"idle", "resolving", "resolved"}]
    BY DEF IInv, TypeOK
  <2>6. QED
    BY <2>1, <2>2, <2>3, <2>4, <2>5, IInvParts DEF InParts
<1>3. QED
  BY <1>1, <1>2

\* the server's answer comes back, younger than the call
LEMMA ResolveIInv ==
  ASSUME IInv, NEW c \in Callers, Resolve(c)
  PROVE  IInv'
<1> USE SizesAssumption, UsersAssumption DEF Resolve
<1>1. call[c] \in Calls /\ call[c].user \in Users /\ epoch[call[c].user] \in Epochs
  BY DEF IInv, TypeOK, CallsAreYoung, InFlight
<1>2. [asOf |-> now, epoch |-> epoch[call[c].user]] \in Snapshots
  BY <1>1 DEF IInv, TypeOK, Snapshots
<1>3. call' \in [Callers -> Calls]
  BY <1>2 DEF IInv, TypeOK, Calls
<1>4. CallsAreYoung'
  BY <1>1 DEF IInv, TypeOK, CallsAreYoung, InFlight, Calls
<1>5. ServedIsFresh'
  BY DEF ServedIsFresh
<1>6. callPc' \in [Callers -> {"idle", "resolving", "resolved"}]
  BY DEF IInv, TypeOK
<1>7. Sound(store') /\ Cardinality(DOMAIN store') <= MaxEntries
  BY IInvParts DEF InParts
<1>8. QED
  BY <1>3, <1>4, <1>5, <1>6, <1>7, IInvParts DEF InParts

\* put() adds a sound entry and lets go of what does not fit
LEMMA PutStore ==
  ASSUME IInv, NEW c \in Callers, callPc[c] = "resolved", NEW d,
         d = With(store, call[c].user,
                  [snapshot |-> call[c].snapshot, deadline |-> now + call[c].ttl])
  PROVE  /\ Sound(d) /\ DOMAIN d = DOMAIN store \cup {call[c].user}
         /\ \A u \in DOMAIN store \ {call[c].user} : d[u] = store[u]
<1> DEFINE user == call[c].user
           entry == [snapshot |-> call[c].snapshot, deadline |-> now + call[c].ttl]
<1>1. call[c] \in Calls /\ user \in Users /\ now \in Nat
  BY SizesAssumption DEF IInv, TypeOK, CallsAreYoung, InFlight
<1>2. call[c].snapshot \in Snapshots /\ call[c].ttl \in TTLs /\ call[c].sent \in Nat
  BY <1>1 DEF Calls
<1>3. call[c].snapshot.asOf \in Nat /\ call[c].ttl \in Nat /\ call[c].ttl <= Max(TTLs)
  <2>1. call[c].snapshot.asOf \in 0..MaxTime
    BY <1>2 DEF Snapshots
  <2>2. call[c].snapshot.asOf \in Nat
    BY <2>1, SizesAssumption
  <2>3. call[c].ttl \in Nat
    BY <1>2, SizesAssumption
  <2>4. QED
    BY <1>2, <2>2, <2>3, LongestTTL
<1>4. entry \in Entries
  BY <1>1, <1>2, <1>3 DEF Entries
<1>5. call[c].sent <= call[c].snapshot.asOf /\ now <= call[c].sent + Latency
  BY DEF IInv, CallsAreYoung, InFlight
<1>6. entry.deadline <= entry.snapshot.asOf + Max(TTLs) + Latency
  BY <1>1, <1>2, <1>3, <1>5, LongestTTL, SizesAssumption
<1>7. Sound(store)
  BY IInvParts DEF InParts
<1>8. /\ DOMAIN d = DOMAIN store \cup {user} /\ d[user] = entry
      /\ \A u \in DOMAIN store \ {user} : d[u] = store[u]
  BY DEF With
<1>9. IsFiniteSet(DOMAIN store \cup {user})
  BY <1>7, FS_AddElement DEF Sound
<1> HIDE DEF entry, user
<1>10. Sound(d)
  BY <1>1, <1>4, <1>6, <1>7, <1>8, <1>9 DEF Sound
<1>11. QED
  BY <1>8, <1>10 DEF user

LEMMA PutIInv ==
  ASSUME IInv, NEW c \in Callers, Put(c)
  PROVE  IInv'
<1> DEFINE d == With(store, call[c].user,
                     [snapshot |-> call[c].snapshot, deadline |-> now + call[c].ttl])
<1>1. Sound(d)
  BY PutStore DEF Put
<1>2. PICK kept \in Kept(d) : store' = Restrict(d, kept)
  BY DEF Put
<1> HIDE DEF d
<1>3. kept \subseteq DOMAIN d /\ Cardinality(kept) <= MaxEntries
  BY <1>1, <1>2, KeptFits DEF Sound
<1>4. Sound(store') /\ DOMAIN store' = kept
  BY <1>1, <1>2, <1>3, RestrictKeeps
<1> USE SizesAssumption, UsersAssumption DEF Put
<1>5. call[c] \in Calls /\ call[c].snapshot \in Snapshots /\ call[c].asked \in Epochs
      /\ call[c].ttl \in TTLs
  BY DEF IInv, TypeOK, Calls
<1>6. NoCall \in Calls
  BY <1>5 DEF NoCall, Calls, Nothing, Snapshots, Epochs
<1>7. call' \in [Callers -> Calls] /\ callPc' \in [Callers -> {"idle", "resolving", "resolved"}]
  BY <1>6 DEF IInv, TypeOK
<1>8. shown' \in [snapshot : Snapshots, asked : Epochs]
  BY <1>5 DEF Returns
<1>9. CallsAreYoung'
  BY DEF IInv, TypeOK, CallsAreYoung, InFlight
<1>10. ServedIsFresh'
  <2>1. /\ call[c].sent <= call[c].snapshot.asOf /\ now <= call[c].sent + Latency
        /\ call[c].sent \in Nat /\ call[c].snapshot.asOf \in Nat /\ now \in Nat
    BY <1>5 DEF IInv, TypeOK, CallsAreYoung, InFlight, Calls, Snapshots
  <2>2. shown'.snapshot = call[c].snapshot /\ now' = now
    BY DEF Returns
  <2>3. QED
    BY <2>1, <2>2, LongestTTL DEF ServedIsFresh
<1>11. now' \in 0..MaxTime /\ epoch' \in [Users -> Epochs]
  BY DEF IInv, TypeOK
<1>12. Cardinality(DOMAIN store') <= MaxEntries
  BY <1>3, <1>4
<1>13. QED
  BY <1>4, <1>7, <1>8, <1>9, <1>10, <1>11, <1>12, IInvParts DEF InParts

\* invalidate_user() and clear() forget entries and touch no call
LEMMA InvalidateIInv ==
  ASSUME IInv, Clear \/ \E u \in Users : Invalidate(u)
  PROVE  IInv'
<1>1. Sound(store') /\ Cardinality(DOMAIN store') <= MaxEntries
  BY RemovalKeeps DEF Clear, Invalidate, Without
<1> USE SizesAssumption DEF Clear, Invalidate
<1>2. epoch' \in [Users -> Epochs]
  BY DEF IInv, TypeOK, Epochs
<1>3. CallsAreYoung' /\ ServedIsFresh'
  BY DEF IInv, CallsAreYoung, InFlight, ServedIsFresh
<1>4. UNCHANGED <<now, call, callPc>> /\ shown' = NoAnswer
  OBVIOUS
<1>5. QED
  BY <1>1, <1>2, <1>3, <1>4, IInvParts DEF InParts

\* time passes, and no call grows older than Latency
LEMMA TickIInv ==
  ASSUME IInv, Tick
  PROVE  IInv'
<1> USE SizesAssumption DEF Tick
<1>1. now \in Nat /\ now' = now + 1 /\ now' \in 0..MaxTime
  BY DEF IInv, TypeOK
<1>2. CallsAreYoung'
  <2> SUFFICES ASSUME NEW c \in Callers, InFlight(c)
               PROVE  /\ call[c].user \in Users
                      /\ call[c].sent <= now + 1 /\ now + 1 <= call[c].sent + Latency
                      /\ callPc[c] = "resolved" =>
                           /\ call[c].sent <= call[c].snapshot.asOf
                           /\ call[c].snapshot.asOf <= now + 1
    BY DEF CallsAreYoung, InFlight
  <2>1. call[c].sent \in Nat /\ call[c].snapshot.asOf \in Nat
    BY DEF IInv, TypeOK, Calls, Snapshots
  <2>2. QED
    BY <1>1, <2>1 DEF IInv, CallsAreYoung
<1>3. ServedIsFresh'
  BY DEF ServedIsFresh
<1>4. Sound(store') /\ Cardinality(DOMAIN store') <= MaxEntries
  BY IInvParts DEF InParts
<1>5. UNCHANGED <<call, callPc, epoch>> /\ shown' = NoAnswer
  OBVIOUS
<1>6. QED
  BY <1>1, <1>2, <1>3, <1>4, <1>5, IInvParts DEF InParts

LEMMA NextIInv == IInv /\ [Next]_vars => IInv'
<1> SUFFICES ASSUME IInv, [Next]_vars PROVE IInv'
  OBVIOUS
<1>1. CASE \E c \in Callers, u \in Users : Hit(c, u) \/ \E ttl \in TTLs : Miss(c, u, ttl)
  BY <1>1, LookupIInv
<1>2. CASE \E c \in Callers : Resolve(c)
  BY <1>2, ResolveIInv
<1>3. CASE \E c \in Callers : Put(c)
  BY <1>3, PutIInv
<1>4. CASE Clear \/ \E u \in Users : Invalidate(u)
  BY <1>4, InvalidateIInv
<1>5. CASE Tick
  BY <1>5, TickIInv
<1>6. CASE UNCHANGED vars
  BY <1>6 DEF vars, IInv, TypeOK, CallsAreYoung, EntriesExpire, ServedIsFresh, InFlight
<1>7. QED
  BY <1>1, <1>2, <1>3, <1>4, <1>5, <1>6 DEF Next

\* The inductive invariant holds in every state.
THEOREM UserSnapshotsInvariant == Spec => []IInv
BY InitIInv, NextIInv, PTL DEF Spec

\* put() leaves at most max_entries entries, each with a deadline, whatever
\* is resolved and invalidated in between.
THEOREM UserSnapshotsTyped == Spec => []TypeOK
<1>1. IInv => TypeOK
  BY DEF IInv
<1>2. QED
  BY <1>1, UserSnapshotsInvariant, PTL

\* No answer of for_user() is older than the longest ttl and one resolve, for
\* any number of concurrent calls (_UserSnapshotCache.get and put).
THEOREM UserSnapshotsFresh == Spec => []ServedIsFresh
<1>1. IInv => ServedIsFresh
  BY DEF IInv
<1>2. QED
  BY <1>1, UserSnapshotsInvariant, PTL

EvictsSoonestStep ==
  \A u \in DOMAIN store \ DOMAIN store' :
    store[u].deadline > now /\ epoch' = epoch =>
      \A v \in DOMAIN store' : store'[v].deadline > now
                               /\ store'[v].deadline >= store[u].deadline

\* put() evicts a live entry only for entries that live at least as long.
LEMMA PutEvictsSoonest ==
  ASSUME IInv, NEW c \in Callers, Put(c)
  PROVE  EvictsSoonestStep
<1> DEFINE user == call[c].user
           d == With(store, user,
                     [snapshot |-> call[c].snapshot, deadline |-> now + call[c].ttl])
<1>1. /\ Sound(d) /\ DOMAIN d = DOMAIN store \cup {user}
      /\ \A u \in DOMAIN store \ {user} : d[u] = store[u]
  BY PutStore DEF Put
<1>2. PICK kept \in Kept(d) : store' = Restrict(d, kept)
  BY DEF Put
<1>3. Sound(store) /\ Cardinality(DOMAIN store) <= MaxEntries /\ now \in Nat
  BY SizesAssumption, IInvParts DEF InParts, IInv, TypeOK
<1> HIDE DEF d, user
<1>4. /\ kept \subseteq DOMAIN d
      /\ kept # DOMAIN d =>
           /\ ~(Cardinality(DOMAIN d) <= MaxEntries)
           /\ \A u \in DOMAIN d \ kept : d[u].deadline > now =>
                \A v \in kept : d[v].deadline > now /\ d[u].deadline <= d[v].deadline
  BY <1>1, <1>2, KeptFits DEF Sound
<1>5. DOMAIN store' = kept /\ \A v \in kept : store'[v] = d[v]
  BY <1>1, <1>2, <1>4, RestrictKeeps
<1> SUFFICES ASSUME NEW u \in DOMAIN store \ DOMAIN store', store[u].deadline > now,
                    NEW v \in DOMAIN store'
             PROVE  store'[v].deadline > now /\ store'[v].deadline >= store[u].deadline
  BY DEF EvictsSoonestStep
<1>6. kept # DOMAIN d /\ u \in DOMAIN d \ kept
  BY <1>1, <1>5
<1>7. u # user
  <2> SUFFICES ASSUME u = user PROVE FALSE
    OBVIOUS
  <2>1. DOMAIN d = DOMAIN store
    BY <1>1
  <2>2. QED
    BY <2>1, <1>3, <1>4, <1>6
<1>8. d[u] = store[u] /\ d[u].deadline \in Nat /\ d[v].deadline \in Nat
  BY <1>1, <1>4, <1>5, <1>6, <1>7 DEF Sound, Entries
<1>9. d[v].deadline > now /\ d[u].deadline <= d[v].deadline
  BY <1>4, <1>5, <1>6, <1>8
<1>10. QED
  BY <1>5, <1>8, <1>9

\* No step evicts a live entry and keeps one that is expired or expires sooner
\* (_UserSnapshotCache._evict_locked).
THEOREM UserSnapshotsEvictsSoonest == Spec => EvictsSoonest
<1>1. ASSUME IInv, [Next]_vars PROVE [EvictsSoonestStep]_vars
  <2>1. CASE \E c \in Callers, u \in Users : Hit(c, u)
    BY <2>1 DEF Hit, EvictsSoonestStep
  <2>2. CASE \E c \in Callers, u \in Users, ttl \in TTLs : Miss(c, u, ttl)
    <3>1. PICK c \in Callers, u \in Users, ttl \in TTLs : Miss(c, u, ttl)
      BY <2>2
    <3>2. DOMAIN store' = DOMAIN store \ {u}
      BY <3>1 DEF Miss, Without, Restrict
    <3>3. u \in DOMAIN store => ~(store[u].deadline > now)
      BY <3>1 DEF Miss, Live
    <3>4. QED
      BY <3>2, <3>3 DEF EvictsSoonestStep
  <2>3. CASE \E c \in Callers : Resolve(c)
    BY <2>3 DEF Resolve, EvictsSoonestStep
  <2>4. CASE \E c \in Callers : Put(c)
    BY <1>1, <2>4, PutEvictsSoonest
  <2>5. CASE \E u \in Users : Invalidate(u)
    <3>1. PICK u \in Users : Invalidate(u)
      BY <2>5
    <3>2. epoch \in [Users -> Epochs] /\ epoch[u] \in Nat
      BY <1>1, SizesAssumption DEF IInv, TypeOK, Epochs
    <3>3. epoch'[u] # epoch[u]
      BY <3>1, <3>2 DEF Invalidate
    <3>4. QED
      BY <3>3 DEF EvictsSoonestStep
  <2>6. CASE Clear
    <3>1. DOMAIN store' = {}
      BY <2>6 DEF Clear, Restrict
    <3>2. QED
      BY <3>1 DEF EvictsSoonestStep
  <2>7. CASE Tick
    BY <2>7 DEF Tick, EvictsSoonestStep
  <2>8. QED
    BY <1>1, <2>1, <2>2, <2>3, <2>4, <2>5, <2>6, <2>7 DEF Next
<1>2. EvictsSoonest <=> [][EvictsSoonestStep]_vars
  BY PTL DEF EvictsSoonest, EvictsSoonestStep
<1>3. QED
  BY <1>1, <1>2, UserSnapshotsInvariant, PTL DEF Spec
=============================================================================
