------------------------ MODULE ClientLifecycleProofs ------------------------
(***************************************************************************)
(* No name is forgotten and a discovery request is answered directly, for  *)
(* any number of threads, names, requests and forks, however identify(),   *)
(* the consumer, close() and forks interleave.                             *)
(***************************************************************************)
EXTENDS ClientLifecycle, SequenceTheorems, TLAPS

(***************************************************************************)
(* The inductive invariant.  Until the loop is open no ping is dropped     *)
(* without its name being recorded as early, and nothing has been asked    *)
(* for yet: that is what NoNameForgotten and DiscoverIsDirect need to hold *)
(* from the moment it opens.                                               *)
(***************************************************************************)
OnItsWay(n) ==
  \/ n \in reached \cup lost \/ (pingPc = "sending" /\ n \in pingNames)
  \/ pingPc = "sleeping" \/ resets > 0
  \/ \E c \in Callers : callPc[c] = "scheduling"

NamesOnTheirWay == loop # "closed" => \A n \in discovered \ early : OnItsWay(n)

RequestsDirect ==
  /\ loop = "starting" => wanted = {}
  /\ loop # "closed" =>
       \A n \in wanted : n \in reached \cup lost \/ \E i \in 1..Len(direct) : n \in direct[i]

\* A ping is scheduled for a name and carries known names only.
PingHasNames ==
  /\ discovered = {} =>
       resets = 0 /\ pingPc # "sleeping" /\ \A c \in Callers : callPc[c] = "idle"
  /\ \A i \in 1..Len(direct) : direct[i] \subseteq discovered

Connected == conn # "down" => loop = "open"

IInv == TypeOK /\ NamesOnTheirWay /\ RequestsDirect /\ PingHasNames /\ Connected

-----------------------------------------------------------------------------
\* RemoveAt() takes one position out of a sequence and keeps the others.
LEMMA RemoveAtKeepsOthers ==
  ASSUME NEW S, NEW s \in Seq(S), NEW i \in 1..Len(s)
  PROVE  /\ RemoveAt(s, i) \in Seq(S)
         /\ Len(RemoveAt(s, i)) = Len(s) - 1
         /\ \A j \in 1..Len(s) : j # i =>
              \E k \in 1..Len(RemoveAt(s, i)) : RemoveAt(s, i)[k] = s[j]
         /\ \A k \in 1..Len(RemoveAt(s, i)) :
              \E j \in 1..Len(s) : j # i /\ RemoveAt(s, i)[k] = s[j]
<1> DEFINE before == SubSeq(s, 1, i - 1)
           after == SubSeq(s, i + 1, Len(s))
<1>1. Len(s) \in Nat /\ \A j \in 1..Len(s) : s[j] \in S
  BY ElementOfSeq, LenProperties
<1>2. /\ before \in Seq(S) /\ Len(before) = i - 1
      /\ \A j \in 1..(i - 1) : before[j] = s[j]
  <2>1. 1 \in Int /\ i - 1 \in Int /\ \A j \in 1..(i - 1) : s[j] \in S
    BY <1>1
  <2>2. /\ SubSeq(s, 1, i - 1) \in Seq(S)
        /\ Len(SubSeq(s, 1, i - 1)) = IF 1 <= i - 1 THEN (i - 1) - 1 + 1 ELSE 0
        /\ \A j \in 1..((i - 1) - 1 + 1) : SubSeq(s, 1, i - 1)[j] = s[1 + j - 1]
    BY <2>1, SubSeqProperties
  <2>3. QED
    BY <2>2, <1>1
<1>3. /\ after \in Seq(S) /\ Len(after) = Len(s) - i
      /\ \A j \in 1..(Len(s) - i) : after[j] = s[i + j]
  <2>1. i + 1 \in Int /\ Len(s) \in Int /\ \A j \in (i + 1)..Len(s) : s[j] \in S
    BY <1>1
  <2>2. /\ SubSeq(s, i + 1, Len(s)) \in Seq(S)
        /\ Len(SubSeq(s, i + 1, Len(s))) =
             IF i + 1 <= Len(s) THEN Len(s) - (i + 1) + 1 ELSE 0
        /\ \A j \in 1..(Len(s) - (i + 1) + 1) :
             SubSeq(s, i + 1, Len(s))[j] = s[i + 1 + j - 1]
    BY <2>1, SubSeqProperties
  <2>3. QED
    BY <2>2, <1>1
<1> HIDE DEF before, after
<1>4. /\ before \o after \in Seq(S)
      /\ Len(before \o after) = Len(s) - 1
      /\ \A k \in 1..(Len(s) - 1) :
           (before \o after)[k] = IF k <= i - 1 THEN s[k] ELSE s[k + 1]
  <2>1. /\ before \o after \in Seq(S)
        /\ Len(before \o after) = Len(before) + Len(after)
        /\ \A k \in 1..(Len(before) + Len(after)) : (before \o after)[k] =
             IF k <= Len(before) THEN before[k] ELSE after[k - Len(before)]
    BY <1>2, <1>3, ConcatProperties
  <2>2. Len(before) + Len(after) = Len(s) - 1
    BY <1>1, <1>2, <1>3
  <2>3. ASSUME NEW k \in 1..(Len(s) - 1)
        PROVE  (before \o after)[k] = IF k <= i - 1 THEN s[k] ELSE s[k + 1]
    <3>1. CASE k <= i - 1
      BY <3>1, <2>1, <2>2, <1>1, <1>2
    <3>2. CASE ~(k <= i - 1)
      <4>1. k - (i - 1) \in 1..(Len(s) - i) /\ i + (k - (i - 1)) = k + 1
        BY <3>2, <1>1
      <4>2. after[k - (i - 1)] = s[k + 1]
        BY <4>1, <1>3
      <4>3. QED
        BY <3>2, <4>2, <2>1, <2>2, <1>2
    <3>3. QED
      BY <3>1, <3>2
  <2>4. QED
    BY <2>1, <2>2, <2>3
<1>5. RemoveAt(s, i) = before \o after
  BY DEF RemoveAt, before, after
<1>6. ASSUME NEW j \in 1..Len(s), j # i
      PROVE  \E k \in 1..(Len(s) - 1) : (before \o after)[k] = s[j]
  <2>1. CASE j < i
    <3>1. j \in 1..(Len(s) - 1) /\ (before \o after)[j] = s[j]
      BY <2>1, <1>1, <1>4
    <3>2. QED
      BY <3>1
  <2>2. CASE j > i
    <3>1. j - 1 \in 1..(Len(s) - 1) /\ ~(j - 1 <= i - 1) /\ (j - 1) + 1 = j
      BY <2>2, <1>1
    <3>2. (before \o after)[j - 1] = s[j]
      BY <3>1, <1>4
    <3>3. QED
      BY <3>1, <3>2
  <2>3. j < i \/ j > i
    BY <1>6, <1>1
  <2>4. QED
    BY <2>1, <2>2, <2>3
<1>7. ASSUME NEW k \in 1..(Len(s) - 1)
      PROVE  \E j \in 1..Len(s) : j # i /\ (before \o after)[k] = s[j]
  <2>1. CASE k <= i - 1
    <3>1. k \in 1..Len(s) /\ k # i
      BY <2>1, <1>1
    <3>2. QED
      BY <2>1, <3>1, <1>4
  <2>2. CASE ~(k <= i - 1)
    <3>1. k + 1 \in 1..Len(s) /\ k + 1 # i
      BY <2>2, <1>1
    <3>2. QED
      BY <2>2, <3>1, <1>4
  <2>3. QED
    BY <2>1, <2>2
<1>8. QED
  BY <1>4, <1>5, <1>6, <1>7

\* What the server is told, or fails to be told, is never taken back.
LEMMA DeliveredGrows ==
  ASSUME NEW names, Delivered(names)
  PROVE  reached \cup lost \cup names \subseteq reached' \cup lost'
BY DEF Delivered

LEMMA InitIInv == Init => IInv
<1> SUFFICES ASSUME Init PROVE IInv
  OBVIOUS
<1> USE RequestsAssumption, ForksAssumption DEF Init, DiscoveryInit
<1>1. first \in BOOLEAN /\ (first => loop # "starting")
  BY Zenon
<1>2. direct \in Seq(SUBSET Names)
  OBVIOUS
<1>3. DiscoveryTypeOK
  BY <1>2 DEF DiscoveryTypeOK
<1>4. TypeOK
  BY <1>1, <1>3 DEF TypeOK
<1>5. NamesOnTheirWay /\ RequestsDirect /\ PingHasNames /\ Connected
  BY DEF NamesOnTheirWay, RequestsDirect, PingHasNames, Connected
<1>6. QED
  BY <1>4, <1>5 DEF IInv

\* feature(), declare() and the ping they schedule
LEMMA CallIInv == ASSUME IInv, Call, UNCHANGED connecting PROVE IInv'
<1> USE DEF IInv, TypeOK, DiscoveryTypeOK, NamesOnTheirWay, RequestsDirect, PingHasNames, Connected,
            OnItsWay, connecting
<1>1. ASSUME NEW c \in Callers, Schedule(c) PROVE IInv'
  <2> USE <1>1 DEF Schedule
  <2>1. TypeOK'
    OBVIOUS
  <2>2. NamesOnTheirWay'
    OBVIOUS
  <2>3. RequestsDirect' /\ PingHasNames'
    OBVIOUS
  <2>4. QED
    BY <2>1, <2>2, <2>3
<1>2. ASSUME NEW c \in Callers, NEW names \in SUBSET Names, Asks(c, names) PROVE IInv'
  <2> USE <1>2 DEF Asks, Ask, pings
  <2>1. TypeOK'
    OBVIOUS
  <2>2. NamesOnTheirWay'
    OBVIOUS
  <2>3. RequestsDirect' /\ PingHasNames'
    OBVIOUS
  <2>4. QED
    BY <2>1, <2>2, <2>3
<1>3. QED
  BY <1>1, <1>2 DEF Call

\* the debounced task and the pings of discovery_requested
LEMMA CallbackIInv ==
  ASSUME IInv, Callback \/ Requested, UNCHANGED connecting
  PROVE  IInv'
<1>0. Connected'
  BY DEF IInv, Connected, connecting, Callback, Requested, Reset, DebounceEnds, PingEnds,
     DirectEnds, PingArrives, DiscoveryRequested
<1> USE <1>0, RequestsAssumption
        DEF IInv, TypeOK, DiscoveryTypeOK, NamesOnTheirWay, RequestsDirect, PingHasNames,
            OnItsWay, connecting
<1>1. CASE Reset
  BY <1>1 DEF Reset
<1>2. CASE DebounceEnds
  BY <1>2 DEF DebounceEnds
<1>3. CASE PingEnds
  <2> USE <1>3, DeliveredGrows DEF PingEnds
  <2>1. TypeOK'
    BY DEF Delivered
  <2>2. NamesOnTheirWay' /\ RequestsDirect' /\ PingHasNames'
    OBVIOUS
  <2>3. QED
    BY <2>1, <2>2
<1>4. CASE DirectEnds
  <2>1. PICK i \in 1..Len(direct) :
          Delivered(direct[i]) /\ direct' = RemoveAt(direct, i)
    BY <1>4 DEF DirectEnds
  <2>2. /\ direct' \in Seq(SUBSET Names)
        /\ Len(direct') = Len(direct) - 1
        /\ \A j \in 1..Len(direct) : j # i =>
             \E k \in 1..Len(direct') : direct'[k] = direct[j]
        /\ \A k \in 1..Len(direct') :
             \E j \in 1..Len(direct) : j # i /\ direct'[k] = direct[j]
    <3>1. direct \in Seq(SUBSET Names) /\ i \in 1..Len(direct)
      OBVIOUS
    <3>2. direct' = RemoveAt(direct, i)
      BY <2>1
    <3>3. /\ RemoveAt(direct, i) \in Seq(SUBSET Names)
          /\ Len(RemoveAt(direct, i)) = Len(direct) - 1
          /\ \A j \in 1..Len(direct) : j # i =>
               \E k \in 1..Len(RemoveAt(direct, i)) : RemoveAt(direct, i)[k] = direct[j]
          /\ \A k \in 1..Len(RemoveAt(direct, i)) :
               \E j \in 1..Len(direct) : j # i /\ RemoveAt(direct, i)[k] = direct[j]
      BY ONLY <3>1, RemoveAtKeepsOthers
    <3>. QED
      BY ONLY <3>2, <3>3
  <2>3. direct[i] \subseteq discovered
    OBVIOUS
  <2>4. reached \cup lost \cup direct[i] \subseteq reached' \cup lost'
    BY <2>1, DeliveredGrows
  <2>5. TypeOK'
    BY <1>4, <2>1, <2>2, <2>3 DEF DirectEnds, Delivered
  <2>6. NamesOnTheirWay' /\ PingHasNames'
    BY <1>4, <2>2, <2>4 DEF DirectEnds
  <2>7. RequestsDirect'
    <3>1. UNCHANGED <<loop, wanted>>
      BY <1>4 DEF DirectEnds
    <3>2. ASSUME loop # "closed", NEW n \in wanted, n \notin reached' \cup lost'
          PROVE  \E k \in 1..Len(direct') : n \in direct'[k]
      <4>1. PICK j \in 1..Len(direct) : n \in direct[j]
        BY <3>2, <2>4
      <4>2. j # i
        BY <4>1, <3>2, <2>4
      <4>3. QED
        BY <4>1, <4>2, <2>2
    <3>3. QED
      BY <3>1, <3>2
  <2>8. QED
    BY <2>5, <2>6, <2>7
<1>5. CASE PingArrives
  BY <1>5 DEF PingArrives, pings
<1>6. CASE Requested
  <2> USE <1>6 DEF Requested, DiscoveryRequested
  <2>1. CASE discovered = {}
    BY <2>1
  <2>2. CASE discovered # {}
    <3>1. /\ direct' \in Seq(SUBSET Names) /\ Len(direct') = Len(direct) + 1
          /\ \A i \in 1..Len(direct) : direct'[i] = direct[i]
          /\ direct'[Len(direct')] = discovered
      BY <2>2, AppendProperties
    <3>2. TypeOK'
      BY <3>1
    <3>3. NamesOnTheirWay' /\ PingHasNames'
      OBVIOUS
    <3>4. RequestsDirect'
      BY <3>1
    <3>5. QED
      BY <3>2, <3>3, <3>4
  <2>3. QED
    BY <2>1, <2>2
<1>7. QED
  BY <1>1, <1>2, <1>3, <1>4, <1>5, <1>6 DEF Callback

\* The names and their pings are as they were.
LEMMA SamePings ==
  ASSUME IInv, UNCHANGED discoveryVars
  PROVE  DiscoveryTypeOK' /\ NamesOnTheirWay' /\ RequestsDirect' /\ PingHasNames'
BY DEF IInv, TypeOK, DiscoveryTypeOK, NamesOnTheirWay, RequestsDirect, PingHasNames, Connected,
       OnItsWay, discoveryVars, pings

\* What TypeOK says of the lock and the connection, but for `first`.
LockTyped ==
  /\ holder \in Callers \cup {"free", "loop", "dead"}
  /\ conn \in {"down", "locking", "reading", "up"}
  /\ conn = "reading" <=> holder = "loop"
  /\ forks \in 0..MaxForks

\* identify() and the consumer
LEMMA ConnectionIInv ==
  ASSUME IInv,
         \/ \E c \in Callers : IdentifyLocks(c) \/ Identify(c)
         \/ Connects \/ ConsumerLocks \/ ConsumerReads \/ Answered \/ Drops
  PROVE  IInv'
<1>1. UNCHANGED discoveryVars
  BY DEF IdentifyLocks, Identify, Connects, ConsumerLocks, ConsumerReads, Answered, Drops
<1>2. LockTyped' /\ Connected'
  <2>1. LockTyped /\ Connected
    BY DEF IInv, TypeOK, LockTyped
  <2>2. ASSUME NEW c \in Callers, IdentifyLocks(c) PROVE LockTyped' /\ Connected'
    BY <2>1, <2>2, CallersAssumption
       DEF IdentifyLocks, LockTyped, Connected, discoveryVars
  <2>3. ASSUME NEW c \in Callers, Identify(c) PROVE LockTyped' /\ Connected'
    BY <2>1, <2>3, CallersAssumption DEF Identify, LockTyped, Connected, discoveryVars
  <2>4. CASE Connects \/ ConsumerLocks \/ ConsumerReads \/ Answered \/ Drops
    BY <2>1, <2>4 DEF Connects, ConsumerLocks, ConsumerReads, Answered, Drops,
       LockTyped, Connected, discoveryVars
  <2>5. QED
    BY <2>2, <2>3, <2>4
<1>3. (first \in BOOLEAN)'
  <2>1. first' \in {first, FALSE, TRUE}
    BY DEF IdentifyLocks, Identify, Connects, ConsumerLocks, ConsumerReads, Answered, Drops
  <2>2. first \in BOOLEAN
    BY DEF IInv, TypeOK
  <2>3. QED
    BY <2>1, <2>2, Zenon
<1>4. (first => loop # "starting")'
  <2>1. CASE Answered
    BY <2>1 DEF Answered, discoveryVars, IInv, Connected
  <2>2. CASE ~Answered
    <3>1. first' \in {first, FALSE} /\ loop' = loop
      BY <2>2 DEF IdentifyLocks, Identify, Connects, ConsumerLocks, ConsumerReads, Drops,
         discoveryVars
    <3>2. first => loop # "starting"
      BY DEF IInv, TypeOK
    <3>3. QED
      BY <3>1, <3>2, Zenon
  <2>3. QED
    BY <2>1, <2>2
<1>5. QED
  BY <1>1, <1>2, <1>3, <1>4, SamePings DEF IInv, TypeOK, LockTyped

\* close(), fork() and the start of the loop, in the parent or in the child
LEMMA ProcessIInv ==
  ASSUME IInv, Closes \/ Fork \/ (Starts /\ UNCHANGED connecting)
  PROVE  IInv'
<1> DEFINE Pings == DiscoveryTypeOK /\ NamesOnTheirWay /\ RequestsDirect /\ PingHasNames
<1>1. CASE Closes
  <2> USE <1>1 DEF Closes, LoopCloses, Responsive
  <2>1. Pings'
    BY DEF IInv, TypeOK, DiscoveryTypeOK, NamesOnTheirWay, RequestsDirect, PingHasNames,
       OnItsWay, pings
  <2>2. LockTyped' /\ Connected'
    BY DEF IInv, TypeOK, LockTyped, Connected
  <2>3. first' = first /\ first' \in BOOLEAN /\ loop' # "starting"
    BY DEF IInv, TypeOK
  <2>4. QED
    BY <2>1, <2>2, <2>3 DEF IInv, TypeOK, LockTyped
<1>2. CASE Fork
  <2> USE <1>2 DEF Fork
  <2>1. Pings'
    BY DEF IInv, TypeOK, DiscoveryTypeOK, NamesOnTheirWay, RequestsDirect, PingHasNames,
       OnItsWay, pings
  <2>2. LockTyped' /\ Connected'
    BY ForksAssumption DEF IInv, TypeOK, LockTyped, Connected
  <2>3. first' = FALSE
    OBVIOUS
  <2>4. first' \in BOOLEAN /\ (first => loop # "starting")'
    BY <2>3, Zenon
  <2>5. QED
    BY <2>1, <2>2, <2>4 DEF IInv, TypeOK, LockTyped
<1>3. CASE Starts /\ UNCHANGED connecting
  <2> USE <1>3 DEF Starts, LoopOpens, connecting
  <2>1. Pings'
    BY DEF IInv, TypeOK, DiscoveryTypeOK, NamesOnTheirWay, RequestsDirect, PingHasNames,
       OnItsWay, pings
  <2>2. LockTyped' /\ Connected'
    BY DEF IInv, TypeOK, LockTyped, Connected
  <2>3. first' \in BOOLEAN /\ loop' = "open"
    BY DEF IInv, TypeOK
  <2>4. QED
    BY <2>1, <2>2, <2>3 DEF IInv, TypeOK, LockTyped
<1>4. QED
  BY <1>1, <1>2, <1>3

-----------------------------------------------------------------------------
\* The invariant holds in every reachable state.
THEOREM ClientInvariant == SafetySpec => []IInv
<1>1. IInv /\ [Next]_vars => IInv'
  <2> SUFFICES ASSUME IInv, [Next]_vars PROVE IInv'
    OBVIOUS
  <2>1. CASE UNCHANGED vars
    BY <2>1 DEF vars, discoveryVars, pings, connecting, IInv, TypeOK, DiscoveryTypeOK,
       NamesOnTheirWay, RequestsDirect, PingHasNames, Connected, OnItsWay
  <2>2. QED
    BY <2>1, CallIInv, CallbackIInv, ConnectionIInv, ProcessIInv DEF Next
<1>2. QED
  BY InitIInv, <1>1, PTL DEF SafetySpec

\* The client is well typed: in particular only a ping under way has names, and the
\* consumer that reads the user id is the one that has the lock.
THEOREM ClientTyped == SafetySpec => []TypeOK
<1>1. IInv => TypeOK
  BY DEF IInv
<1>2. QED
  BY <1>1, ClientInvariant, PTL

\* No name is forgotten while the loop is open (feature(), declare(), the debounced
\* ping), whichever ping cancels which and whatever fork() and identify() do.
THEOREM ClientForgetsNoName == SafetySpec => []NoNameForgotten
<1>1. IInv => NoNameForgotten
  BY DEF IInv, NamesOnTheirWay, OnItsWay, NoNameForgotten
<1>2. QED
  BY <1>1, ClientInvariant, PTL

\* What the dashboard asked for is in a ping of its own until that ends
\* (_on_discovery_requested).
THEOREM ClientDiscoversDirectly == SafetySpec => []DiscoverIsDirect
<1>1. ASSUME IInv PROVE DiscoverIsDirect
  <2>1. direct \in Seq(SUBSET Names)
    BY <1>1 DEF IInv, TypeOK, DiscoveryTypeOK
  <2>2. \A i \in 1..Len(direct) : direct[i] \in ToSet(direct)
    BY <2>1, LenProperties DEF ToSet
  <2>3. QED
    BY <1>1, <2>2 DEF IInv, RequestsDirect, DiscoverIsDirect
<1>2. QED
  BY <1>1, ClientInvariant, PTL
=============================================================================
