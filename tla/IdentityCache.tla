---------------------------- MODULE IdentityCache ----------------------------
(***************************************************************************)
(* The state the application threads share with the consumer thread of one *)
(* Onelo client: the process-global identity (Onelo._user_id under         *)
(* _user_id_lock), the ThreadSafeCache with its identity generation, the   *)
(* ready event, and the callbacks posted to the consumer's event loop.     *)
(* The consumers (PollingSync, SSESync) extend this module.                *)
(*                                                                         *)
(* A feature snapshot is abstracted to the user the server evaluated it    *)
(* for; configVersion says which configuration it was evaluated at.        *)
(***************************************************************************)
EXTENDS Naturals

CONSTANTS Users,        \* every identity, the anonymous one included
          Anonymous,    \* user_id = None
          Threads,      \* application threads calling identify()
          NoSnapshot,   \* an empty cache: every feature is "hidden"
          NoThread,     \* nobody holds _user_id_lock
          MaxSwitches,  \* bound: calls of identify()
          MaxVersion    \* bound: versions the server's configuration reaches

ASSUME UsersAssumption == Anonymous \in Users /\ NoSnapshot \notin Users
ASSUME ThreadsAssumption == NoThread \notin Threads
ASSUME BoundsAssumption == MaxSwitches \in Nat /\ MaxVersion \in Nat \ {0}

VARIABLES
  userId,         \* Onelo._user_id
  userLock,       \* holder of Onelo._user_id_lock
  callPc,         \* where each application thread stands in identify()
  switches,       \* calls of identify() so far
  generation,     \* ThreadSafeCache._generation
  features,       \* ThreadSafeCache._features: whose snapshot it is
  configVersion,  \* ThreadSafeCache._config_version
  ready,          \* BackendThread.first_event
  bound,          \* history: the identity the current generation stands for
  posted,         \* signal callbacks posted to the loop and not yet run
  stopPosted,     \* BackendThread.stop() posted consumer.stop, not yet run
  closed,         \* Onelo._closed / BackendThread._stopped
  loop,           \* "open" until the consumer's thread closes its loop
  serverVersion   \* external: the app's current config_version

identityVars == <<userId, userLock, callPc, switches>>
cacheVars    == <<generation, features, configVersion, ready, bound>>
mailbox      == <<posted, stopPosted, closed, loop>>
sharedVars   == <<identityVars, cacheVars, mailbox, serverVersion>>

CallStates == {"idle", "switching", "signalling"}

SharedTypeOK ==
  /\ userId \in Users /\ bound \in Users
  /\ userLock \in Threads \cup {NoThread}
  /\ callPc \in [Threads -> CallStates]
  /\ switches \in 0..MaxSwitches
  /\ generation \in Nat
  /\ features \in Users \cup {NoSnapshot}
  /\ configVersion \in 0..MaxVersion
  /\ ready \in BOOLEAN
  /\ posted \in Nat
  /\ stopPosted \in BOOLEAN /\ closed \in BOOLEAN
  /\ loop \in {"open", "closed"}
  /\ serverVersion \in 1..MaxVersion

SharedInit ==
  /\ userId = Anonymous /\ bound = Anonymous
  /\ userLock = NoThread
  /\ callPc = [t \in Threads |-> "idle"]
  /\ switches = 0
  /\ generation = 0
  /\ features = NoSnapshot
  /\ configVersion = 0
  /\ ready = FALSE
  /\ posted = 0
  /\ stopPosted = FALSE /\ closed = FALSE
  /\ loop = "open"
  /\ serverVersion \in 1..MaxVersion

(***************************************************************************)
(* ThreadSafeCache                                                         *)
(***************************************************************************)
\* (generation, since_version), read together under the cache lock
RequestView == [gen |-> generation, since |-> configVersion]

\* Mutant: apply() without the generation check.
ApplyAnyGeneration(gen, user, version) ==
  /\ features' = user /\ configVersion' = version /\ ready' = TRUE
  /\ UNCHANGED <<generation, bound>>

\* Mutant: remembers the version after the one it was given.
ApplyNextVersion(gen, user, version) ==
  /\ gen = generation
  /\ features' = user /\ configVersion' = version + 1 /\ ready' = TRUE
  /\ UNCHANGED <<generation, bound>>

\* apply(): a result for an older generation is dropped whole
CacheApply(gen, user, version) ==
  /\ IF gen = generation
     THEN features' = user /\ configVersion' = version /\ ready' = TRUE
     ELSE UNCHANGED <<features, configVersion, ready>>
  /\ UNCHANGED <<generation, bound>>

\* Mutant: confirm() without the generation check.
ConfirmAnyGeneration(gen) ==
  /\ ready' = TRUE
  /\ UNCHANGED <<generation, features, configVersion, bound>>

\* confirm(): an up-to-date answer signals ready, for the current generation
CacheConfirm(gen) ==
  /\ ready' = (ready \/ gen = generation)
  /\ UNCHANGED <<generation, features, configVersion, bound>>

\* Mutant: a switch that forgets to reset the version.
BeginKeepsVersion ==
  /\ generation' = generation + 1
  /\ features' = NoSnapshot
  /\ ready' = FALSE
  /\ bound' = userId
  /\ UNCHANGED configVersion

\* begin_identity(): a new generation over an empty cache
CacheBegin ==
  /\ generation' = generation + 1
  /\ features' = NoSnapshot
  /\ configVersion' = 0
  /\ ready' = FALSE
  /\ bound' = userId

(***************************************************************************)
(* identify(), in the steps another thread can see                         *)
(***************************************************************************)
\* The same id again: nothing changes under the lock, the signal still goes out.
IdentifySame(t) ==
  /\ callPc[t] = "idle" /\ userLock = NoThread
  /\ switches < MaxSwitches
  /\ switches' = switches + 1
  /\ callPc' = [callPc EXCEPT ![t] = "signalling"]
  /\ UNCHANGED <<userId, userLock, cacheVars, mailbox, serverVersion>>

\* A new id: _user_id is written first, the cache is still the previous one's.
IdentifyNew(t, u) ==
  /\ callPc[t] = "idle" /\ userLock = NoThread
  /\ switches < MaxSwitches
  /\ u # userId
  /\ userId' = u
  /\ userLock' = t
  /\ switches' = switches + 1
  /\ callPc' = [callPc EXCEPT ![t] = "switching"]
  /\ UNCHANGED <<cacheVars, mailbox, serverVersion>>

\* begin_identity() under the cache lock, then _user_id_lock is released.
BeginIdentity(t) ==
  /\ callPc[t] = "switching"
  /\ CacheBegin
  /\ userLock' = NoThread
  /\ callPc' = [callPc EXCEPT ![t] = "signalling"]
  /\ UNCHANGED <<userId, switches, mailbox, serverVersion>>

\* signal_user_change(): posts a callback; a closed loop raises RuntimeError,
\* which is swallowed.
SignalUserChange(t) ==
  /\ callPc[t] = "signalling"
  /\ callPc' = [callPc EXCEPT ![t] = "idle"]
  /\ posted' = IF loop = "open" THEN posted + 1 ELSE posted
  /\ UNCHANGED <<userId, userLock, switches, cacheVars,
                 stopPosted, closed, loop, serverVersion>>

\* close(), once: BackendThread.stop() posts consumer.stop to an open loop.
Close ==
  /\ ~closed
  /\ closed' = TRUE
  /\ stopPosted' = (loop = "open")
  /\ UNCHANGED <<identityVars, cacheVars, posted, loop, serverVersion>>

Application ==
  \/ \E t \in Threads : \/ IdentifySame(t)
                        \/ \E u \in Users : IdentifyNew(t, u)
                        \/ BeginIdentity(t)
                        \/ SignalUserChange(t)
  \/ Close

(***************************************************************************)
(* The server's answer to a request for `user` that already holds          *)
(* configuration `since` (external).                                       *)
(***************************************************************************)
Answers == [kind : {"snapshot", "up_to_date"}, user : Users, version : 1..MaxVersion]

Answer(user, since) ==
  [kind |-> IF since = serverVersion THEN "up_to_date" ELSE "snapshot",
   user |-> user, version |-> serverVersion]

(***************************************************************************)
(* What identify() promises the application                                *)
(***************************************************************************)
\* While no identify() is inside its critical section, the snapshot that
\* feature() reads is the current identity's or nothing at all: a late answer
\* for a previous user is never shown (ThreadSafeCache.apply, #739).
SnapshotIsCurrent == userLock = NoThread => features \in {userId, NoSnapshot}

\* ready() is only true when a snapshot of the current identity has arrived:
\* neither an old answer nor an up-to-date answer computed from an old version
\* can report readiness over an empty cache.
ReadyHasSnapshot ==
  userLock = NoThread /\ ready => features = userId /\ configVersion > 0
=============================================================================
