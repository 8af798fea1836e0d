-------------------------- MODULE ClientLifecycle --------------------------
(***************************************************************************)
(* The client of one process and of the children it forks (_client.py):    *)
(* identify(), whose lock the background loop takes to learn the user id   *)
(* of every connection, ready(), which waits for that connection's first   *)
(* answer, and the names of Discovery, reported by the same loop.  After a *)
(* fork the model follows the child.                                       *)
(***************************************************************************)
EXTENDS Discovery

CONSTANT MaxForks  \* bound: forks

ASSUME ForksAssumption == MaxForks \in Nat
ASSUME CallersAssumption == Callers \cap {"free", "loop", "dead"} = {}

VARIABLES
  holder,  \* _user_id_lock: "free", a caller, "loop", or "dead": a thread the fork left behind
  conn,    \* the consumer: "down" | "locking": in _get_user_id() | "reading": has the lock | "up"
  first,   \* BackendThread.first_event
  forks    \* forks so far

connecting == <<holder, conn, first, forks>>
vars == <<discoveryVars, connecting>>

\* first_event is never set while there is no loop, and a loop that is reading the
\* user id has the lock.
TypeOK ==
  /\ DiscoveryTypeOK
  /\ holder \in Callers \cup {"free", "loop", "dead"}
  /\ conn \in {"down", "locking", "reading", "up"} /\ (conn = "reading" <=> holder = "loop")
  /\ first \in BOOLEAN /\ (first => loop # "starting")
  /\ forks \in 0..MaxForks

Init ==
  /\ DiscoveryInit
  /\ holder = "free" /\ conn = "down" /\ first = FALSE /\ forks = 0

(***************************************************************************)
(* identify() and close()                                                  *)
(***************************************************************************)
IdentifyLocks(c) ==
  /\ callPc[c] = "idle" /\ holder = "free"
  /\ holder' = c
  /\ UNCHANGED <<discoveryVars, conn, first, forks>>

\* a new user id clears first_event under the lock; the same one does not.  Either
\* way signal_user_change() makes the consumer connect again.
Identify(c) ==
  /\ holder = c
  /\ holder' = "free"
  /\ first' \in {first, FALSE}
  /\ conn' = IF conn = "up" THEN "down" ELSE conn
  /\ UNCHANGED <<discoveryVars, forks>>

\* close(), or a refused key, once the loop's thread is not in _get_user_id()
Responsive == conn \notin {"locking", "reading"}

Closes ==
  /\ Responsive /\ LoopCloses
  /\ conn' = "down"
  /\ UNCHANGED <<holder, first, forks>>

(***************************************************************************)
(* The consumer: external but for _get_user_id()                           *)
(***************************************************************************)
Connects ==
  /\ loop = "open" /\ conn = "down"
  /\ conn' = "locking"
  /\ UNCHANGED <<discoveryVars, holder, first, forks>>

ConsumerLocks ==
  /\ conn = "locking" /\ holder = "free"
  /\ holder' = "loop" /\ conn' = "reading"
  /\ UNCHANGED <<discoveryVars, first, forks>>

ConsumerReads ==
  /\ conn = "reading"
  /\ holder' = "free" /\ conn' = "up"
  /\ UNCHANGED <<discoveryVars, first, forks>>

Answered ==
  /\ conn = "up" /\ first' = TRUE
  /\ UNCHANGED <<discoveryVars, holder, conn, forks>>

Drops ==
  /\ conn = "up" /\ conn' = "down"
  /\ UNCHANGED <<discoveryVars, holder, first, forks>>

(***************************************************************************)
(* fork() by a thread that is in neither call; the child has only it.      *)
(* _after_fork() replaces the cache, the names and the backend with its    *)
(* thread and event, and forgets the debounced task; not the lock.         *)
(***************************************************************************)
\* Mutant: the debounced task of the parent is kept.
ForkKeepsPing ==
  /\ forks < MaxForks /\ \E c \in Callers : callPc[c] = "idle" /\ holder # c
  /\ forks' = forks + 1
  /\ loop' = "starting" /\ conn' = "down" /\ first' = FALSE
  /\ holder' = IF holder = "free" THEN "free" ELSE "dead"
  /\ discovered' = {} /\ reached' = {} /\ lost' = {} /\ early' = {} /\ wanted' = {}
  /\ callPc' = [c \in Callers |-> "idle"]
  /\ resets' = 0 /\ direct' = <<>>
  /\ UNCHANGED <<pingPc, pingNames, requests>>

\* Mutant: the discovered names are kept, though no ping carries them any more.
ForkKeepsNames ==
  /\ forks < MaxForks /\ \E c \in Callers : callPc[c] = "idle" /\ holder # c
  /\ forks' = forks + 1
  /\ loop' = "starting" /\ conn' = "down" /\ first' = FALSE
  /\ holder' = IF holder = "free" THEN "free" ELSE "dead"
  /\ reached' = {} /\ lost' = {} /\ early' = {} /\ wanted' = {}
  /\ callPc' = [c \in Callers |-> "idle"]
  /\ resets' = 0 /\ pingPc' = "none" /\ pingNames' = {} /\ direct' = <<>>
  /\ UNCHANGED <<discovered, requests>>

Fork ==
  /\ forks < MaxForks /\ \E c \in Callers : callPc[c] = "idle" /\ holder # c
  /\ forks' = forks + 1
  /\ loop' = "starting" /\ conn' = "down" /\ first' = FALSE
  /\ holder' = IF holder = "free" THEN "free" ELSE "dead"
  /\ discovered' = {} /\ reached' = {} /\ lost' = {} /\ early' = {} /\ wanted' = {}
  /\ callPc' = [c \in Callers |-> "idle"]
  /\ resets' = 0 /\ pingPc' = "none" /\ pingNames' = {} /\ direct' = <<>>
  /\ UNCHANGED requests

(***************************************************************************)
(* Threads and the loop; its thread runs no callback in _get_user_id()     *)
(***************************************************************************)
Asks(c, names) == holder # c /\ Ask(c, names)

\* Mutant: the backend is built in the child but not started.
StartsInParent == forks = 0 /\ LoopOpens
Starts == LoopOpens

Call ==
  \E c \in Callers : Schedule(c) \/ \E names \in SUBSET Names : Asks(c, names)

Callback ==
  Responsive /\ (Reset \/ DebounceEnds \/ PingEnds \/ DirectEnds \/ PingArrives)

\* the stream or the answer to a poll brings discovery_requested
Requested == conn = "up" /\ DiscoveryRequested

Next ==
  \/ (Call \/ Callback \/ Requested \/ Starts) /\ UNCHANGED connecting
  \/ \E c \in Callers : IdentifyLocks(c) \/ Identify(c)
  \/ Connects \/ ConsumerLocks \/ ConsumerReads \/ Answered \/ Drops
  \/ Closes \/ Fork

(***************************************************************************)
(* Fairness: threads and callbacks run, the request timeout ends every     *)
(* POST, the debounce ends once no new name restarts it.  The loop's       *)
(* callbacks take their turn between connections, the loop gets a lock     *)
(* that is free again and again, and the server answers some connection.   *)
(***************************************************************************)
Turn(callback) == Responsive /\ callback /\ UNCHANGED connecting

SafetySpec == Init /\ [][Next]_vars
Spec ==
  /\ SafetySpec
  /\ WF_vars(Starts /\ UNCHANGED connecting)
  /\ \A c \in Callers : WF_vars(Schedule(c) /\ UNCHANGED connecting) /\ WF_vars(Identify(c))
  /\ SF_vars(Turn(Reset)) /\ SF_vars(Turn(DebounceEnds))
  /\ SF_vars(Turn(PingEnds)) /\ SF_vars(Turn(DirectEnds))
  /\ WF_vars(Connects) /\ SF_vars(ConsumerLocks) /\ WF_vars(ConsumerReads)
  /\ SF_vars(Answered)
-----------------------------------------------------------------------------
\* A name asked for is reported by the process it was asked in, or its POST failed,
\* or the loop closed, or the process forked while a thread had the user id's lock:
\* the child's loop then waits for that lock for ever.
NamesReachServer ==
  \A n \in Names :
    n \in discovered \ early ~>
      (n \in reached \cup lost \cup early \/ loop = "closed" \/ n \notin discovered
         \/ holder = "dead")

\* ready() is answered: in the parent and in a forked child, and again after every
\* identify(), the first answer comes, unless the loop closed or the lock was lost.
ReadyUnlessLockLost ==
  loop # "closed" /\ ~first ~> first \/ loop = "closed" \/ holder = "dead"
=============================================================================
