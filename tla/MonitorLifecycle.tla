-------------------------- MODULE MonitorLifecycle --------------------------
(***************************************************************************)
(* init() and close() of the monitor, step by step, while other threads    *)
(* capture events or die of uncaught exceptions, and while the process     *)
(* forks (_init.py, _capture.py, the handlers of _excepthook.py).  After a *)
(* fork the model follows the child.  A transport is what MonitorTransport *)
(* shows of it: it sends what it has while its thread runs, and stop()     *)
(* drains it.  init() and close() are called, and the process is forked,   *)
(* by one thread at a time.                                                *)
(***************************************************************************)
EXTENDS Excepthook, SequencesExt

CONSTANTS Emitters,  \* application threads
          MaxInits,  \* bound: calls of init()
          MaxForks   \* bound: forks

ASSUME BoundsAssumption == MaxInits \in Nat /\ MaxForks \in Nat

Inits == 0..MaxInits           \* an init() by its number, 0 for none
Caches == 0..(MaxForks + 1)    \* a cache of the client by the process that made it
Settings == [deploy : Inits, session : Inits, strict : Inits, flags : Caches]

VARIABLES
  main,        \* the steps still to do of the init() or close() under way
  inits,       \* calls of init() so far
  asked,       \* history: whether the last init() was given an Onelo client
  sink,        \* _sink: the init() whose transport it feeds
  current,     \* _active_transport
  transports,  \* "none" | "running" | "stopped", by init()
  settings,    \* _session_id, _deploy_*, _strict_email_scrub; _flag_provider's cache
  box,         \* what the running transports hold
  stranded,    \* history: a stopped one took an event it was handed after the sink was gone
  cache,       \* the cache the client uses now
  forks,       \* forks so far
  pc,          \* of a thread in _emit(): "idle" | "stamping" | "scrubbing" | "posting" | "sending"
  event,       \* what its event was stamped with
  target,      \* the transport it hands it to
  calm,        \* history: neither init() nor close() was under way during its _emit()
  crossed,     \* history: the sink was taken away while it was in send()
  dying,       \* the slot its uncaught exception went to, "none" if there is none
  at,          \* the handler it is in: "none" | "onelo" | "tests" | "calls" | "other" | "default" | "lost"
  overtaken    \* history: our hooks were uninstalled during its exception

monitor == <<main, inits, asked, sink, current, transports, settings, box, stranded>>
process == <<cache, forks>>
emitting == <<pc, event, target, calm, crossed>>
crashing == <<dying, at, overtaken>>
vars == <<monitor, process, emitting, crashing, hookVars>>

Unset == [deploy |-> 0, session |-> 0, strict |-> 0, flags |-> 0]

\* Mutant: the transport is stopped before the sink is taken away.
CloseStepsDrainFirst == <<"stop", "mute", "noFlags", "noSession", "noDeploy", "lenient",
                          "unhook", "forget">>

\* Mutant: the flag provider outlives close().
CloseStepsKeepFlags == <<"mute", "noSession", "noDeploy", "lenient", "unhook",
                         "stop", "forget">>

CloseSteps == <<"mute", "noFlags", "noSession", "noDeploy", "lenient", "unhook",
                "stop", "forget">>

InitSteps == <<"deploy", "start", "listen", "activate", "session", "strict",
               "flags", "hook", "opened">>

\* init() closes a monitor that is on first; close() is over before anything is set
Steps == CloseSteps \o InitSteps
StepNames == ToSet(Steps)

\* A transport that is set to receive events exists, and only a thread whose
\* exception is in a handler of ours is captured by it.
TypeOK ==
  /\ HooksTypeOK
  /\ main \subseteq StepNames /\ inits \in Inits /\ asked \in BOOLEAN
  /\ sink \in Inits /\ current \in Inits /\ settings \in Settings
  /\ transports \in [1..MaxInits -> {"none", "running", "stopped"}]
  /\ \A k \in {sink, current} \ {0} : transports[k] # "none"
  /\ box \subseteq [to : 1..MaxInits, own : BOOLEAN] /\ stranded \in BOOLEAN
  /\ cache \in Caches /\ forks \in 0..MaxForks
  /\ pc \in [Emitters -> {"idle", "stamping", "scrubbing", "posting", "sending"}]
  /\ event \in [Emitters -> Settings] /\ target \in [Emitters -> Inits]
  /\ calm \in [Emitters -> BOOLEAN] /\ crossed \in [Emitters -> BOOLEAN]
  /\ dying \in [Emitters -> Slots \cup {"none"}]
  /\ at \in [Emitters -> {"none", "onelo", "tests", "calls", "other", "default", "lost"}]
  /\ \A e \in Emitters : dying[e] # "none" <=> at[e] # "none"
  /\ \A e \in Emitters : pc[e] # "idle" => at[e] \in {"none", "onelo"}
  /\ overtaken \subseteq Emitters

Init ==
  /\ HooksInit
  /\ main = {} /\ inits = 0 /\ asked = FALSE
  /\ sink = 0 /\ current = 0 /\ settings = Unset
  /\ transports = [k \in 1..MaxInits |-> "none"]
  /\ box = {} /\ stranded = FALSE
  /\ cache = 1 /\ forks = 0
  /\ pc = [e \in Emitters |-> "idle"]
  /\ event = [e \in Emitters |-> Unset]
  /\ target = [e \in Emitters |-> 0]
  /\ calm = [e \in Emitters |-> FALSE] /\ crossed = [e \in Emitters |-> FALSE]
  /\ dying = [e \in Emitters |-> "none"] /\ at = [e \in Emitters |-> "none"]
  /\ overtaken = {}

(***************************************************************************)
(* init() and close()                                                      *)
(***************************************************************************)
Begins(steps) ==
  /\ main = {}
  /\ main' = steps
  /\ calm' = [e \in Emitters |-> FALSE]
  /\ UNCHANGED <<sink, current, transports, settings, box, stranded, process, pc, event,
                 target, crossed, crashing, hookVars>>

\* a monitor that is on is closed first
Before == IF current = 0 THEN {} ELSE ToSet(CloseSteps)

\* with or without an Onelo client, with or without hooks
CallInit ==
  /\ inits < MaxInits
  /\ inits' = inits + 1
  /\ \E left \in SUBSET {"flags", "hook"} :
       /\ asked' = ("flags" \notin left)
       /\ Begins(Before \cup (ToSet(InitSteps) \ left))

\* no key or no api_url: ValueError, but only once the previous monitor is closed
CallInitWrongly ==
  /\ current # 0
  /\ Begins(ToSet(CloseSteps))
  /\ UNCHANGED <<inits, asked>>

CallClose ==
  /\ Begins(ToSet(CloseSteps))
  /\ UNCHANGED <<inits, asked>>

\* no step before it is left
Due(name) ==
  /\ name \in main
  /\ \E i \in 1..Len(Steps) : Steps[i] = name /\ \A j \in 1..(i - 1) : Steps[j] \notin main

\* the next step of the thread that is in init() or close()
Step(name) ==
  /\ Due(name)
  /\ main' = main \ {name}
  /\ UNCHANGED <<inits, asked, stranded, process, pc, event, target, calm, dying, at>>

\* set_transport(None)
Mute ==
  /\ Step("mute")
  /\ sink' = 0
  /\ crossed' = [e \in Emitters |-> crossed[e] \/ pc[e] = "sending"]
  /\ UNCHANGED <<current, transports, settings, box, overtaken, hookVars>>

Set(name, field, value) ==
  /\ Step(name)
  /\ settings' = [settings EXCEPT ![field] = value]
  /\ UNCHANGED <<sink, current, transports, box, crossed, overtaken, hookVars>>

\* uninstall(): a no-op where nothing is installed
Unhook ==
  /\ Step("unhook")
  /\ IF installed THEN Uninstall ELSE UNCHANGED hookVars
  /\ overtaken' = overtaken \cup {e \in Emitters : installed /\ dying[e] # "none"}
  /\ UNCHANGED <<sink, current, transports, settings, box, crossed>>

\* stop(): the thread drains the buffer before it ends
Stop ==
  /\ Step("stop")
  /\ transports' = [k \in 1..MaxInits |-> IF k = current THEN "stopped" ELSE transports[k]]
  /\ box' = {b \in box : b.to # current}
  /\ UNCHANGED <<sink, current, settings, crossed, overtaken, hookVars>>

Forget ==
  /\ Step("forget")
  /\ current' = 0
  /\ UNCHANGED <<sink, transports, settings, box, crossed, overtaken, hookVars>>

Start ==
  /\ Step("start")
  /\ transports' = [transports EXCEPT ![inits] = "running"]
  /\ UNCHANGED <<sink, current, settings, box, crossed, overtaken, hookVars>>

\* set_transport(transport.send)
Listen ==
  /\ Step("listen")
  /\ sink' = inits
  /\ UNCHANGED <<current, transports, settings, box, crossed, overtaken, hookVars>>

Activate ==
  /\ Step("activate")
  /\ current' = inits
  /\ UNCHANGED <<sink, transports, settings, box, crossed, overtaken, hookVars>>

\* install(), in a thread that runs one of the loops or none
Hook ==
  /\ Step("hook")
  /\ IF installed THEN UNCHANGED hookVars ELSE Install
  /\ UNCHANGED <<sink, current, transports, settings, box, crossed, overtaken>>

\* session_opened, never sampled
Opened ==
  /\ Step("opened")
  /\ box' = box \cup {[to |-> sink, own |-> TRUE]}
  /\ UNCHANGED <<sink, current, transports, settings, crossed, overtaken, hookVars>>

InInit ==
  \/ Set("deploy", "deploy", inits) \/ Start \/ Listen \/ Activate
  \/ Set("session", "session", inits) \/ Set("strict", "strict", inits)
  \/ Set("flags", "flags", cache) \/ Hook \/ Opened

InClose ==
  \/ Mute \/ Set("noFlags", "flags", 0) \/ Set("noSession", "session", 0)
  \/ Set("noDeploy", "deploy", 0) \/ Set("lenient", "strict", 0)
  \/ Unhook \/ Stop \/ Forget

(***************************************************************************)
(* _emit(), called by a thread or by our handler of its exception          *)
(***************************************************************************)
\* where an exception goes once our handler has captured it
Captured(e) ==
  IF at[e] # "onelo" THEN at[e] ELSE IF dying[e] \in Loops THEN "default" ELSE "tests"

Done(e) ==
  /\ pc' = [pc EXCEPT ![e] = "idle"]
  /\ event' = [event EXCEPT ![e] = Unset]
  /\ target' = [target EXCEPT ![e] = 0]
  /\ calm' = [calm EXCEPT ![e] = FALSE]
  /\ crossed' = [crossed EXCEPT ![e] = FALSE]
  /\ at' = [at EXCEPT ![e] = Captured(e)]
  /\ UNCHANGED <<dying, overtaken>>

\* the monitor is off, or the event is sampled out
Skips(e) ==
  /\ pc[e] = "idle" /\ at[e] = "onelo"
  /\ Done(e)
  /\ UNCHANGED <<monitor, process, hookVars>>

Emits(e) ==
  /\ pc[e] = "idle" /\ sink # 0
  /\ pc' = [pc EXCEPT ![e] = "stamping"]
  /\ calm' = [calm EXCEPT ![e] = main = {}]
  /\ UNCHANGED <<monitor, process, event, target, crossed, crashing, hookVars>>

\* capture_exception(), capture_message(), capture_event() or a log record
Captures(e) == at[e] \in {"none", "onelo"} /\ Emits(e)

\* a track() span ends, whether or not by an exception that then goes on
SpanEnds(e) == at[e] = "none" /\ Emits(e)

\* session, deploy context and flags
Stamps(e) ==
  /\ pc[e] = "stamping"
  /\ pc' = [pc EXCEPT ![e] = "scrubbing"]
  /\ event' = [event EXCEPT ![e] = [settings EXCEPT !.strict = 0]]
  /\ UNCHANGED <<monitor, process, target, calm, crossed, crashing, hookVars>>

Scrubs(e) ==
  /\ pc[e] = "scrubbing"
  /\ pc' = [pc EXCEPT ![e] = "posting"]
  /\ event' = [event EXCEPT ![e].strict = settings.strict]
  /\ UNCHANGED <<monitor, process, target, calm, crossed, crashing, hookVars>>

\* _sink is read again; the call of None is swallowed, as is a scrubber's failure
Posts(e) ==
  /\ pc[e] = "posting"
  /\ IF sink = 0
     THEN Done(e)
     ELSE /\ target' = [target EXCEPT ![e] = sink]
          /\ pc' = [pc EXCEPT ![e] = "sending"]
          /\ UNCHANGED <<event, calm, crossed, crashing>>
  /\ UNCHANGED <<monitor, process, hookVars>>

ScrubFails(e) ==
  /\ pc[e] = "scrubbing"
  /\ Done(e)
  /\ UNCHANGED <<monitor, process, hookVars>>

\* MonitorTransport.send(): the buffer takes it whether or not a thread empties it
Sends(e) ==
  /\ pc[e] = "sending"
  /\ IF transports[target[e]] = "running"
     THEN /\ box' = box \cup {[to |-> target[e], own |-> TRUE]}
          /\ UNCHANGED stranded
     ELSE /\ stranded' = (stranded \/ ~crossed[e])
          /\ UNCHANGED box
  /\ Done(e)
  /\ UNCHANGED <<main, inits, asked, sink, current, transports, settings, process, hookVars>>

\* external: a batch is sent
Ships(k) ==
  /\ transports[k] = "running"
  /\ \E b \in box : b.to = k
  /\ box' = {b \in box : b.to # k}
  /\ UNCHANGED <<main, inits, asked, sink, current, transports, settings, stranded, process,
                 emitting, crashing, hookVars>>

(***************************************************************************)
(* Uncaught exceptions                                                     *)
(***************************************************************************)
Moves(e, handler) ==
  /\ at' = [at EXCEPT ![e] = handler]
  /\ UNCHANGED <<monitor, process, emitting, overtaken, hookVars>>

Dies(e, s) ==
  /\ pc[e] = "idle" /\ dying[e] = "none"
  /\ s \in Threads \cup open
  /\ dying' = [dying EXCEPT ![e] = s]
  /\ Moves(e, active[s])

\* if _prev_thread_excepthook is not None ...
Tests(e) ==
  /\ at[e] = "tests"
  /\ UNCHANGED dying
  /\ Moves(e, IF prev[dying[e]] = "none" THEN "lost" ELSE "calls")

\* ... _prev_thread_excepthook(args), read again: the call of None raises
CallsOn(e) ==
  /\ at[e] = "calls"
  /\ UNCHANGED dying
  /\ Moves(e, IF prev[dying[e]] = "none" THEN "lost" ELSE prev[dying[e]])

\* external: the other SDK's handler calls on
OtherCallsOn(e) ==
  /\ at[e] = "other"
  /\ UNCHANGED dying
  /\ Moves(e, otherPrev[dying[e]])

\* the thread ends, the loop goes on, shown or not
Ends(e) ==
  /\ at[e] \in {"default", "lost"}
  /\ dying' = [dying EXCEPT ![e] = "none"]
  /\ at' = [at EXCEPT ![e] = "none"]
  /\ overtaken' = overtaken \ {e}
  /\ UNCHANGED <<monitor, process, emitting, hookVars>>

(***************************************************************************)
(* fork(): the child has one thread.  The client's hook gives it a new     *)
(* cache; ours gives the current transport a new thread and buffer.        *)
(***************************************************************************)
ChildThreads ==
  /\ pc' = [e \in Emitters |-> "idle"]
  /\ event' = [e \in Emitters |-> Unset]
  /\ target' = [e \in Emitters |-> 0]
  /\ calm' = [e \in Emitters |-> FALSE] /\ crossed' = [e \in Emitters |-> FALSE]
  /\ dying' = [e \in Emitters |-> "none"] /\ at' = [e \in Emitters |-> "none"]
  /\ overtaken' = {}

Inherited(events) == {[b EXCEPT !.own = FALSE] : b \in events}

Fork ==
  /\ main = {} /\ forks < MaxForks
  /\ forks' = forks + 1 /\ cache' = forks + 2
  /\ ChildThreads
  /\ box' = Inherited({b \in box : b.to # current})
  /\ UNCHANGED <<main, inits, asked, sink, current, transports, settings, stranded,
                 hookVars>>

(***************************************************************************)
(* The rest of the process                                                 *)
(***************************************************************************)
Elsewhere ==
  \/ \E l \in Loops : FirstRequest(l) \/ LoopCloses(l)
  \/ \E s \in Slots : OtherInstalls(s)
  \/ \E s \in Slots : /\ \A e \in Emitters : ~(dying[e] = s /\ at[e] = "other")
                      /\ OtherLeaves(s)

Next ==
  \/ CallInit \/ CallInitWrongly \/ CallClose \/ InInit \/ InClose
  \/ \E e \in Emitters :
       \/ Skips(e) \/ Captures(e) \/ SpanEnds(e) \/ Stamps(e) \/ Scrubs(e) \/ ScrubFails(e)
       \/ Posts(e) \/ Sends(e)
       \/ Tests(e) \/ CallsOn(e) \/ OtherCallsOn(e) \/ Ends(e)
       \/ \E s \in Slots : Dies(e, s)
  \/ \E k \in 1..MaxInits : Ships(k)
  \/ Fork
  \/ Elsewhere /\ UNCHANGED <<monitor, process, emitting, crashing>>

Spec == Init /\ [][Next]_vars
-----------------------------------------------------------------------------
\* An event that a transport has accepted leaves with this process and with no
\* other: what close() leaves behind was in send() when the sink was taken away,
\* and a forked child sends nothing that its parent sends too.
BufferedIsDelivered ==
  ~stranded /\ \A b \in box : b.own /\ transports[b.to] = "running"

\* An event never carries settings of a later init() than the one whose transport
\* takes it; captured while neither init() nor close() was under way, it carries the
\* session, the deploy context and the scrubbing of just that init(), and the flags
\* of a client exactly if it was given one.
EventsMatchTheirInit ==
  \A e \in Emitters :
    /\ pc[e] = "sending" =>
         \A f \in {"deploy", "session", "strict"} : event[e][f] <= target[e]
    /\ pc[e] = "sending" /\ calm[e] =>
         /\ target[e] = current
         /\ \A f \in {"deploy", "session", "strict"} : event[e][f] = current
         /\ event[e].flags # 0 <=> asked

\* An uncaught exception is always shown by the interpreter, whatever is installed
\* and whoever installs or leaves meanwhile, unless the monitor was closed during it
\* or, before it, under another SDK's hook.
UncaughtIsShown ==
  \A e \in Emitters :
    at[e] = "lost" => e \in overtaken \/ dying[e] \in disordered

\* "every captured event ships with the flag state that was live at that moment"
\* (_capture.py): the flags are those of the cache the client uses.
FlagsAreLive ==
  \A e \in Emitters :
    pc[e] = "sending" /\ calm[e] => event[e].flags \in {0, cache}
=============================================================================
