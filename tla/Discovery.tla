----------------------------- MODULE Discovery -----------------------------
(***************************************************************************)
(* Auto-discovery: feature() and declare() record slug names from any      *)
(* thread; a debounced task on the backend loop reports the whole set, and *)
(* the dashboard's discovery_requested event reports it at once.           *)
(* ClientLifecycle composes this with identify(), ready() and fork().      *)
(***************************************************************************)
EXTENDS Naturals, Sequences, SequencesExt

CONSTANTS Callers,      \* application threads
          Names,        \* feature slugs
          MaxRequests   \* bound: discovery_requested events

ASSUME RequestsAssumption == MaxRequests \in Nat

VARIABLES
  loop,        \* BackendThread._loop: "starting" (None), "open" or "closed"
  discovered,  \* FeaturesClient._discovered
  callPc,      \* "scheduling": between the insert and the call to the loop
  resets,      \* _reset_pending_ping_task callbacks posted and not yet run
  pingPc,      \* _pending_ping_task: "none" | "sleeping" | "sending"
  pingNames,   \* what it sends
  direct,      \* pings of _fire_batch_ping, scheduled or in flight
  requests,    \* discovery_requested events so far
  reached,     \* external: names the server was told
  lost,        \* history: names in a POST that failed
  early,       \* history: names whose ping was dropped, there was no loop yet
  wanted       \* history: names known at a discovery_requested event

pings == <<resets, pingPc, pingNames, direct>>
discoveryVars ==
  <<loop, discovered, callPc, pings, requests, reached, lost, early, wanted>>

\* Only a ping that is being sent has names: the set is read once the debounce is over.
DiscoveryTypeOK ==
  /\ loop \in {"starting", "open", "closed"}
  /\ discovered \subseteq Names /\ reached \subseteq discovered /\ lost \subseteq discovered
  /\ early \subseteq discovered /\ wanted \subseteq discovered
  /\ callPc \in [Callers -> {"idle", "scheduling"}]
  /\ resets \in Nat
  /\ pingPc \in {"none", "sleeping", "sending"}
  /\ pingNames \subseteq discovered /\ (pingPc = "sending" <=> pingNames # {})
  /\ direct \in Seq(SUBSET Names)
  /\ requests \in 0..MaxRequests

DiscoveryInit ==
  /\ loop = "starting"
  /\ discovered = {} /\ reached = {} /\ lost = {} /\ early = {} /\ wanted = {}
  /\ callPc = [c \in Callers |-> "idle"]
  /\ resets = 0 /\ pingPc = "none" /\ pingNames = {}
  /\ direct = <<>> /\ requests = 0

(***************************************************************************)
(* feature() and declare()                                                 *)
(***************************************************************************)
\* Only a name never seen before schedules a ping.
Ask(c, names) ==
  /\ callPc[c] = "idle"
  /\ discovered' = discovered \cup names
  /\ callPc' = [callPc EXCEPT ![c] = IF names \subseteq discovered
                                     THEN "idle" ELSE "scheduling"]
  /\ UNCHANGED <<loop, pings, requests, reached, lost, early, wanted>>

\* _schedule_batch_ping(): no loop, or a closed one, drops the ping
Schedule(c) ==
  /\ callPc[c] = "scheduling"
  /\ callPc' = [callPc EXCEPT ![c] = "idle"]
  /\ resets' = IF loop = "open" THEN resets + 1 ELSE resets
  /\ early' = IF loop = "starting" THEN discovered ELSE early
  /\ UNCHANGED <<loop, discovered, pingPc, pingNames, direct, requests, reached,
                 lost, wanted>>

(***************************************************************************)
(* The backend loop                                                        *)
(***************************************************************************)
\* Mutant: a ping that is still under way is left to finish.
ResetUnlessPending ==
  /\ loop = "open" /\ resets > 0
  /\ resets' = resets - 1
  /\ pingPc' = IF pingPc = "none" THEN "sleeping" ELSE pingPc
  /\ UNCHANGED <<loop, discovered, callPc, pingNames, direct, requests, reached,
                 lost, early, wanted>>

\* _reset_pending_ping_task(): whatever the task is doing, its POST included, is
\* cancelled and the debounce starts again
Reset ==
  /\ loop = "open" /\ resets > 0
  /\ resets' = resets - 1
  /\ pingPc' = "sleeping" /\ pingNames' = {}
  /\ UNCHANGED <<loop, discovered, callPc, direct, requests, reached, lost, early, wanted>>

\* the debounce is over: the set as it is now is sent
DebounceEnds ==
  /\ loop = "open" /\ pingPc = "sleeping"
  /\ pingPc' = "sending" /\ pingNames' = discovered
  /\ UNCHANGED <<loop, discovered, callPc, resets, direct, requests, reached, lost,
                 early, wanted>>

\* the POST is answered, or refused or lost, which is logged and not retried
Delivered(names) ==
  \/ reached' = reached \cup names /\ UNCHANGED lost
  \/ lost' = lost \cup names /\ UNCHANGED reached

PingEnds ==
  /\ loop = "open" /\ pingPc = "sending"
  /\ Delivered(pingNames)
  /\ pingPc' = "none" /\ pingNames' = {}
  /\ UNCHANGED <<loop, discovered, callPc, resets, direct, requests, early, wanted>>

\* the request reaches the server before its cancellation
PingArrives ==
  /\ loop = "open" /\ pingPc = "sending"
  /\ reached' = reached \cup pingNames
  /\ UNCHANGED <<loop, discovered, callPc, pings, requests, lost, early, wanted>>

\* Mutant: discovery_requested goes through the debounce like any other ping.
RequestDebounced ==
  /\ loop = "open" /\ requests < MaxRequests
  /\ requests' = requests + 1
  /\ wanted' = discovered
  /\ resets' = IF discovered = {} THEN resets ELSE resets + 1
  /\ UNCHANGED <<loop, discovered, callPc, pingPc, pingNames, direct, reached, lost, early>>

\* _on_discovery_requested(): an immediate ping of its own
DiscoveryRequested ==
  /\ loop = "open" /\ requests < MaxRequests
  /\ requests' = requests + 1
  /\ wanted' = discovered
  /\ direct' = IF discovered = {} THEN direct ELSE Append(direct, discovered)
  /\ UNCHANGED <<loop, discovered, callPc, resets, pingPc, pingNames, reached, lost, early>>

DirectEnds ==
  /\ loop = "open"
  /\ \E i \in 1..Len(direct) : Delivered(direct[i]) /\ direct' = RemoveAt(direct, i)
  /\ UNCHANGED <<loop, discovered, callPc, resets, pingPc, pingNames, requests, early, wanted>>

LoopOpens ==
  /\ loop = "starting" /\ loop' = "open"
  /\ UNCHANGED <<discovered, callPc, pings, requests, reached, lost, early, wanted>>

\* close() or a refused key: the tasks die with the loop
LoopCloses ==
  /\ loop = "open" /\ loop' = "closed"
  /\ UNCHANGED <<discovered, callPc, pings, requests, reached, lost, early, wanted>>

-----------------------------------------------------------------------------
\* No name is forgotten: while the loop is open each one has been sent, or is in
\* a ping under way, or a ping that will read the whole set is still to come,
\* however often pings cancel one another.  (A name asked for before the thread
\* has its loop is: its ping is dropped and only a later one carries it.)
NoNameForgotten ==
  loop = "open" =>
    \A n \in discovered \ early :
      \/ n \in reached \cup lost \/ (pingPc = "sending" /\ n \in pingNames)
      \/ pingPc = "sleeping" \/ resets > 0
      \/ \E c \in Callers : callPc[c] = "scheduling"

\* "Discover Features" does not wait for the debounce (_on_discovery_requested):
\* what was known when it was asked for is in a ping of its own until that ends,
\* whatever the debounced task does and whoever cancels it.
DiscoverIsDirect ==
  loop = "open" => wanted \subseteq reached \cup lost \cup UNION ToSet(direct)
=============================================================================
