----------------------------- MODULE Excepthook -----------------------------
(***************************************************************************)
(* The hooks for uncaught exceptions (monitor/_excepthook.py): one for the *)
(* main thread, one for other threads, one per event loop, each shared     *)
(* with another SDK that saves the handler it finds and calls it on.       *)
(* MonitorLifecycle composes them with init(), close() and the threads     *)
(* whose exceptions reach them.                                            *)
(***************************************************************************)
EXTENDS Naturals, FiniteSets

CONSTANTS Threads,      \* the slots for threads: sys.excepthook, threading.excepthook
          Loops,        \* event loops of the workers
          MaxContested  \* bound: slots that the other SDK comes to

Slots == Threads \cup Loops
ASSUME SlotsAssumption == Loops \cap Threads = {} /\ "none" \notin Slots
Handlers == {"default", "onelo", "other"}

VARIABLES
  active,      \* the handler each slot calls
  prev,        \* _prev_sys_excepthook, _prev_thread_excepthook, _prev_loop_handlers
  installed,   \* _installed
  registered,  \* _loop_handlers_installed
  equipped,    \* loops whose middleware set its _loop_handler_installed
  open,        \* loops not closed
  otherPrev,   \* external: what the other SDK calls on, "none" if not installed
  disordered   \* history: slots the monitor was closed under while the other was on top

hookVars == <<active, prev, installed, registered, equipped, open, otherPrev, disordered>>

HooksInit ==
  /\ active = [s \in Slots |-> "default"]
  /\ prev = [s \in Slots |-> "none"]
  /\ installed = FALSE
  /\ registered = {} /\ equipped = {} /\ open = Loops
  /\ otherPrev = [s \in Slots |-> "none"]
  /\ disordered = {}

\* whom a handler calls next; the loop handler calls loop.default_exception_handler
Calls(s, h) ==
  CASE h = "onelo" -> IF s \in Loops THEN "default" ELSE prev[s]
    [] h = "other" -> otherPrev[s]
    [] OTHER -> "none"

\* the handlers that run: of three, two calls reach whatever is reached
Chain(s) ==
  LET second == Calls(s, active[s])
  IN {active[s], second, Calls(s, second)}
Runs(s, h) == h \in Chain(s)

\* A previous handler is saved exactly while our hook counts as installed.
HooksTypeOK ==
  /\ active \in [Slots -> Handlers]
  /\ prev \in [Slots -> Handlers \cup {"none"}]
  /\ otherPrev \in [Slots -> {"none", "default", "onelo"}]
  /\ registered \subseteq Loops /\ equipped \subseteq Loops /\ open \subseteq Loops
  /\ disordered \subseteq Slots
  /\ \A s \in Threads : prev[s] # "none" <=> installed
  /\ \A l \in Loops : prev[l] # "none" <=> l \in registered

(***************************************************************************)
(* install(), install_for_loop() and uninstall()                           *)
(***************************************************************************)
Takes(slots) ==
  /\ prev' = [s \in Slots |-> IF s \in slots THEN active[s] ELSE prev[s]]
  /\ active' = [s \in Slots |-> IF s \in slots THEN "onelo" ELSE active[s]]

\* monitor.init(), in a thread that runs one of the loops or none
Install ==
  /\ ~installed
  /\ \E here \in {ls \in SUBSET open : Cardinality(ls) <= 1} :
       /\ Takes(Threads \cup (here \ registered))
       /\ registered' = registered \cup here
  /\ installed' = TRUE
  /\ UNCHANGED <<equipped, open, otherPrev, disordered>>

\* the first HTTP request of a loop's middleware, monitor on or off
FirstRequest(l) ==
  /\ l \in open \ equipped
  /\ equipped' = equipped \cup {l}
  /\ Takes({l} \ registered)
  /\ registered' = registered \cup {l}
  /\ UNCHANGED <<installed, open, otherPrev, disordered>>

\* Mutant: what was saved is put back whoever is in charge now.
RestoresBlindly(s) == s \in Threads \/ s \in registered \cap open

\* only where our handler is still the active one; closed loops are skipped
Restores(s) ==
  active[s] = "onelo" /\ (s \in Threads \/ s \in registered \cap open)

Disorders == disordered' = disordered \cup {s \in Slots : active[s] = "other"}

\* Mutant: the hooks of the loops are left in place.
UninstallThreadsOnly ==
  /\ installed
  /\ active' = [s \in Slots |-> IF s \in Threads /\ Restores(s) THEN prev[s] ELSE active[s]]
  /\ prev' = [s \in Slots |-> "none"]
  /\ registered' = {}
  /\ installed' = FALSE
  /\ Disorders
  /\ UNCHANGED <<equipped, open, otherPrev>>

\* Mutant: the list of the loops outlives the uninstall.
UninstallKeepsLoops ==
  /\ installed
  /\ active' = [s \in Slots |-> IF Restores(s) THEN prev[s] ELSE active[s]]
  /\ prev' = [s \in Slots |-> "none"]
  /\ installed' = FALSE
  /\ Disorders
  /\ UNCHANGED <<registered, equipped, open, otherPrev>>

\* Mutant: the saved handlers are forgotten before they are put back.
UninstallForgetsFirst ==
  /\ installed
  /\ active' = [s \in Slots |-> IF s \in Loops /\ Restores(s) THEN prev[s] ELSE active[s]]
  /\ prev' = [s \in Slots |-> "none"]
  /\ registered' = {}
  /\ installed' = FALSE
  /\ Disorders
  /\ UNCHANGED <<equipped, open, otherPrev>>

\* monitor.close(), or the start of a second monitor.init()
Uninstall ==
  /\ installed
  /\ active' = [s \in Slots |-> IF Restores(s) THEN prev[s] ELSE active[s]]
  /\ prev' = [s \in Slots |-> "none"]
  /\ registered' = {}
  /\ installed' = FALSE
  /\ Disorders
  /\ UNCHANGED <<equipped, open, otherPrev>>

LoopCloses(l) ==
  /\ l \in open
  /\ open' = open \ {l}
  /\ UNCHANGED <<active, prev, installed, registered, equipped, otherPrev, disordered>>

(***************************************************************************)
(* The other SDK: well behaved, it leaves only while it is on top.         *)
(***************************************************************************)
Contested == {s \in Slots : otherPrev[s] # "none"} \cup disordered

OtherInstalls(s) ==
  /\ otherPrev[s] = "none"
  /\ Cardinality(Contested \cup {s}) <= MaxContested
  /\ otherPrev' = [otherPrev EXCEPT ![s] = active[s]]
  /\ active' = [active EXCEPT ![s] = "other"]
  /\ UNCHANGED <<prev, installed, registered, equipped, open, disordered>>

OtherLeaves(s) ==
  /\ active[s] = "other"
  /\ active' = [active EXCEPT ![s] = otherPrev[s]]
  /\ otherPrev' = [otherPrev EXCEPT ![s] = "none"]
  /\ UNCHANGED <<prev, installed, registered, equipped, open, disordered>>

-----------------------------------------------------------------------------
\* After monitor.close() nothing of ours is left in the chain of a live slot that the
\* other SDK has left, with the same exception.
ClosedLeavesNothing ==
  \A s \in (Threads \cup (open \ registered)) \ disordered :
    ~installed /\ otherPrev[s] = "none" => active[s] = "default"

\* Whatever the order of closings and restarts, an SDK that has hooked the threads
\* still runs: it is neither overwritten by uninstall ("leave whoever replaced us
\* in charge") nor dropped from the chain by a later init().
OthersStillRun == \A s \in Threads : otherPrev[s] # "none" => Runs(s, "other")
=============================================================================
