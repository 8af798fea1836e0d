---------------------------- MODULE UserSnapshots ----------------------------
(***************************************************************************)
(* FeaturesClient.for_user() and its _UserSnapshotCache: concurrent request*)
(* handlers look a user up, resolve him over the network on a miss and put *)
(* the answer back with a deadline, while the application invalidates.     *)
(*                                                                         *)
(* A snapshot is abstracted to when, and after how many invalidations of   *)
(* its user, the server evaluated it; the {} of a failed resolve, cached   *)
(* like any other, to when it failed.                                      *)
(***************************************************************************)
EXTENDS Naturals, FiniteSets, FiniteSetsExt, Functions

CONSTANTS Callers,          \* concurrent for_user() calls
          Users,
          NoUser,
          MaxEntries,       \* max_entries
          TTLs,             \* the ttl arguments in use
          Latency,          \* bound: how long a resolve takes, request to put()
          MaxTime,          \* bound: ticks of the clock
          MaxInvalidations  \* bound: calls of invalidate_user()

ASSUME UsersAssumption == NoUser \notin Users
ASSUME SizesAssumption ==
  /\ MaxEntries \in Nat \ {0} /\ Latency \in Nat
  /\ TTLs \subseteq Nat /\ TTLs # {} /\ IsFiniteSet(TTLs)
  /\ MaxTime \in Nat /\ MaxInvalidations \in Nat

Epochs == 0..MaxInvalidations

VARIABLES
  now,      \* time.monotonic()
  store,    \* _UserSnapshotCache._d
  callPc,   \* where each for_user() call stands
  call,     \* its user and ttl, when it was sent and the resolved snapshot
  epoch,    \* invalidations of each user so far
  shown     \* history: the answer for_user() returned in the last step, or NoAnswer

vars == <<now, store, callPc, call, epoch, shown>>

Snapshots == [asOf : 0..MaxTime, epoch : Epochs]
Entries == [snapshot : Snapshots, deadline : Nat]
Calls == [user : Users \cup {NoUser}, ttl : TTLs, sent : 0..MaxTime, asked : Epochs,
          snapshot : Snapshots]
Nothing == [asOf |-> 0, epoch |-> 0]
NoAnswer == [snapshot |-> Nothing, asked |-> MaxInvalidations + 1]
NoCall == [user |-> NoUser, ttl |-> CHOOSE t \in TTLs : TRUE, sent |-> 0, asked |-> 0,
           snapshot |-> Nothing]
Live(d, u) == u \in DOMAIN d /\ d[u].deadline > now
InFlight(c) == callPc[c] \in {"resolving", "resolved"}

\* put() leaves at most max_entries.
TypeOK ==
  /\ now \in 0..MaxTime
  /\ DOMAIN store \subseteq Users /\ Cardinality(DOMAIN store) <= MaxEntries
  /\ \A u \in DOMAIN store : store[u] \in Entries
  /\ callPc \in [Callers -> {"idle", "resolving", "resolved"}]
  /\ call \in [Callers -> Calls]
  /\ epoch \in [Users -> Epochs]
  /\ shown \in [snapshot : Snapshots, asked : Epochs] \cup {NoAnswer}

Init ==
  /\ now = 0
  /\ store = [u \in {} |-> 0]
  /\ callPc = [c \in Callers |-> "idle"]
  /\ call = [c \in Callers |-> NoCall]
  /\ epoch = [u \in Users |-> 0]
  /\ shown = NoAnswer

Without(d, u) == Restrict(d, DOMAIN d \ {u})
With(d, u, entry) == [v \in DOMAIN d \cup {u} |-> IF v = u THEN entry ELSE d[v]]

Returns(snapshot, asked) == shown' = [snapshot |-> snapshot, asked |-> asked]

(***************************************************************************)
(* for_user()                                                              *)
(***************************************************************************)
\* Mutant: an entry is served again however old it is.
HitAnyAge(c, u) ==
  /\ callPc[c] = "idle" /\ u \in DOMAIN store
  /\ Returns(store[u].snapshot, epoch[u])
  /\ UNCHANGED <<now, store, callPc, call, epoch>>

Hit(c, u) ==
  /\ callPc[c] = "idle" /\ Live(store, u)
  /\ Returns(store[u].snapshot, epoch[u])
  /\ UNCHANGED <<now, store, callPc, call, epoch>>

\* get() deletes the expired entry it finds, and the resolve is sent
Miss(c, u, ttl) ==
  /\ callPc[c] = "idle" /\ ~Live(store, u)
  /\ store' = Without(store, u)
  /\ callPc' = [callPc EXCEPT ![c] = "resolving"]
  /\ call' = [call EXCEPT ![c] = [user |-> u, ttl |-> ttl, sent |-> now,
                                  asked |-> epoch[u], snapshot |-> Nothing]]
  /\ shown' = NoAnswer
  /\ UNCHANGED <<now, epoch>>

\* The server's answer, or a failure: {} then stands for every feature hidden.
Resolve(c) ==
  /\ callPc[c] = "resolving"
  /\ callPc' = [callPc EXCEPT ![c] = "resolved"]
  /\ call' = [call EXCEPT ![c].snapshot =
                [asOf |-> now, epoch |-> epoch[call[c].user]]]
  /\ shown' = NoAnswer
  /\ UNCHANGED <<now, store, epoch>>

\* Mutant: the eviction keeps the entries closest to expiry.
EvictLongestLived(d) ==
  LET live == {u \in DOMAIN d : d[u].deadline > now}
  IN IF Cardinality(live) <= MaxEntries THEN {live}
     ELSE {kept \in kSubset(MaxEntries, live) :
             \A u \in live \ kept, k \in kept : d[u].deadline >= d[k].deadline}

\* _evict_locked(): expired entries first, then those closest to expiry.  What
\* may be left; the order of insertion decides between equal deadlines.
Survivors(d) ==
  LET live == {u \in DOMAIN d : d[u].deadline > now}
  IN IF Cardinality(live) <= MaxEntries THEN {live}
     ELSE {kept \in kSubset(MaxEntries, live) :
             \A u \in live \ kept, k \in kept : d[u].deadline <= d[k].deadline}

\* Mutant: the size is compared before the entry is added.
PutOneTooMany(d) == IF Cardinality(DOMAIN d) - 1 <= MaxEntries
                    THEN {DOMAIN d} ELSE Survivors(d)

Kept(d) == IF Cardinality(DOMAIN d) <= MaxEntries THEN {DOMAIN d} ELSE Survivors(d)

\* put() and the return, a failed resolve included.
Put(c) ==
  /\ callPc[c] = "resolved"
  /\ LET u == call[c].user
         entry == [snapshot |-> call[c].snapshot, deadline |-> now + call[c].ttl]
         d == With(store, u, entry)
     IN \E kept \in Kept(d) : store' = Restrict(d, kept)
  /\ Returns(call[c].snapshot, call[c].asked)
  /\ callPc' = [callPc EXCEPT ![c] = "idle"]
  /\ call' = [call EXCEPT ![c] = NoCall]
  /\ UNCHANGED <<now, epoch>>

(***************************************************************************)
(* invalidate_user()                                                       *)
(***************************************************************************)
Invalidate(u) ==
  /\ epoch[u] < MaxInvalidations
  /\ store' = Without(store, u)
  /\ epoch' = [epoch EXCEPT ![u] = @ + 1]
  /\ shown' = NoAnswer
  /\ UNCHANGED <<now, callPc, call>>

Clear ==
  /\ \A u \in Users : epoch[u] < MaxInvalidations
  /\ store' = Restrict(store, {})
  /\ epoch' = [u \in Users |-> epoch[u] + 1]
  /\ shown' = NoAnswer
  /\ UNCHANGED <<now, callPc, call>>

\* A resolve takes no longer than Latency.
Tick ==
  /\ now < MaxTime
  /\ \A c \in Callers : InFlight(c) => now < call[c].sent + Latency
  /\ now' = now + 1
  /\ shown' = NoAnswer
  /\ UNCHANGED <<store, callPc, call, epoch>>

Next ==
  \/ \E c \in Callers :
       \/ \E u \in Users : Hit(c, u) \/ \E ttl \in TTLs : Miss(c, u, ttl)
       \/ Resolve(c) \/ Put(c)
  \/ \E u \in Users : Invalidate(u)
  \/ Clear \/ Tick

Spec == Init /\ [][Next]_vars
-----------------------------------------------------------------------------
\* No answer is older than the longest ttl and one resolve: a hit never extends
\* the life of an entry, and an entry is never served past its deadline, whoever
\* put it and however late.
ServedIsFresh ==
  shown # NoAnswer => now <= shown.snapshot.asOf + Max(TTLs) + Latency

\* A live snapshot is evicted only when everything kept is live and lives at
\* least as long (_evict_locked).
EvictsSoonest ==
  [][\A u \in DOMAIN store \ DOMAIN store' :
       store[u].deadline > now /\ epoch' = epoch =>
         \A v \in DOMAIN store' : store'[v].deadline > now
                                  /\ store'[v].deadline >= store[u].deadline]_vars

\* After invalidate_user() the next for_user() fetches fresh state: a call made
\* after it never returns what the server evaluated before it.
InvalidateRefetches ==
  shown # NoAnswer => shown.asked <= shown.snapshot.epoch
=============================================================================
