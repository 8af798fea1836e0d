----------------------- MODULE MonitorLifecycleProofs -----------------------
(***************************************************************************)
(* What MonitorLifecycle guarantees, for every number of threads, event    *)
(* loops, init() calls and forks.                                          *)
(*                                                                         *)
(* Which transport is fed, which one runs and whose settings are in force  *)
(* follows from how far the init() or close() under way has come; the      *)
(* invariant says so for every step of theirs, then for the threads that   *)
(* are inside _emit(), and separately for the hooks.                       *)
(***************************************************************************)
EXTENDS MonitorLifecycle, SequenceTheorems, TLAPS

(***************************************************************************)
(* init() and close()                                                      *)
(***************************************************************************)
\* The steps left are the last ones of close(), of init(), or of one after the other.
Ordered ==
  /\ "mute" \in main => "noFlags" \in main
  /\ "noFlags" \in main => "noSession" \in main
  /\ "noSession" \in main => "noDeploy" \in main
  /\ "noDeploy" \in main => "lenient" \in main
  /\ "lenient" \in main => "unhook" \in main
  /\ "unhook" \in main => "stop" \in main
  /\ "stop" \in main => "forget" \in main
  /\ "forget" \in main /\ "opened" \in main => "deploy" \in main
  /\ "deploy" \in main => "start" \in main
  /\ "start" \in main => "listen" \in main
  /\ "listen" \in main => "activate" \in main
  /\ "activate" \in main => "session" \in main
  /\ "session" \in main => "strict" \in main
  /\ "strict" \in main => "opened" \in main
  /\ "flags" \in main => "opened" \in main
  /\ "hook" \in main => "opened" \in main

Closing == "forget" \in main
Opening == "opened" \in main

\* between set_transport(None) and set_transport(transport.send)
Off == "mute" \notin main /\ (Closing \/ "listen" \in main)

\* The sink feeds the active transport, or for a moment the one to be activated.
SinkFollows ==
  /\ sink = IF Off THEN 0
            ELSE IF "activate" \in main /\ "mute" \notin main THEN inits ELSE current
  /\ current <= inits
  /\ Opening => inits # 0
  /\ "activate" \in main /\ ~Closing => current = 0
  /\ Opening /\ "activate" \notin main => current = inits

\* the transport whose thread runs
Live ==
  IF "stop" \in main THEN current
  ELSE IF Closing \/ "start" \in main THEN 0
  ELSE IF "activate" \in main THEN inits ELSE current

OneRuns == \A k \in 1..MaxInits : transports[k] = "running" <=> k = Live
BoxOfLive == \A b \in box : b.own /\ b.to = Live

\* What an init() has set belongs to it, and nothing outlives the close() that clears it.
SettingsFollow ==
  /\ settings.deploy <= inits /\ settings.session <= inits /\ settings.strict <= inits
  /\ sink # 0 =>
       settings.deploy <= sink /\ settings.session <= sink /\ settings.strict <= sink
  /\ Opening /\ "deploy" \notin main => settings.deploy = inits
  /\ Opening /\ "session" \notin main => settings.session = inits
  /\ Opening /\ "strict" \notin main => settings.strict = inits
  /\ main = {} /\ current # 0 =>
       settings.deploy = current /\ settings.session = current /\ settings.strict = current

FlagsFollow ==
  /\ cache # 0
  /\ Closing /\ "noFlags" \notin main => settings.flags = 0
  /\ "strict" \in main /\ "noFlags" \notin main => settings.flags = 0
  /\ "strict" \in main => (asked <=> "flags" \in main)
  /\ "flags" \in main => asked
  /\ Opening /\ "strict" \notin main /\ "flags" \notin main => (settings.flags # 0 <=> asked)
  /\ main = {} => IF current = 0 THEN settings.flags = 0 ELSE settings.flags # 0 <=> asked

(***************************************************************************)
(* Threads in _emit()                                                      *)
(***************************************************************************)
\* A sender holds the sink of now, unless it was taken away meanwhile.
SendersHoldSink ==
  \A e \in Emitters : pc[e] = "sending" =>
    /\ target[e] # 0
    /\ ~crossed[e] => target[e] = sink

\* An event is never ahead of the init() whose transport takes it.
EventsBehind ==
  \A e \in Emitters :
    LET ahead(k) == event[e].deploy <= k /\ event[e].session <= k /\ event[e].strict <= k IN
    /\ pc[e] = "sending" => ahead(target[e])
    /\ pc[e] \in {"scrubbing", "posting"} => ahead(inits) /\ (sink # 0 => ahead(sink))

\* What a thread has read in calm is what the monitor that is on has set.
CalmEvents ==
  \A e \in Emitters : calm[e] =>
    /\ main = {} /\ current # 0
    /\ pc[e] \in {"scrubbing", "posting", "sending"} =>
         /\ event[e].deploy = current /\ event[e].session = current
         /\ event[e].flags # 0 <=> asked
    /\ pc[e] \in {"posting", "sending"} => event[e].strict = current
    /\ pc[e] = "sending" => target[e] = current

(***************************************************************************)
(* Hooks                                                                   *)
(***************************************************************************)
\* The other SDK stays in a slot's chain for as long as it is installed; a hook of ours
\* that saved it is on top of it.
OthersSaved ==
  /\ \A s \in Slots :
       /\ active[s] = "other" => otherPrev[s] # "none"
       /\ prev[s] = "other" => active[s] = "onelo" /\ otherPrev[s] # "none"
  /\ \A s \in Threads :
       otherPrev[s] # "none" => active[s] = "other" \/ prev[s] = "other"

\* Where the monitor was not closed under the other SDK's hook the two are stacked in
\* the order they came, on top of the interpreter's own.
Stacks ==
  {[active |-> "default", prev |-> "none",    otherPrev |-> "none"],
   [active |-> "onelo",   prev |-> "default", otherPrev |-> "none"],
   [active |-> "other",   prev |-> "none",    otherPrev |-> "default"],
   [active |-> "onelo",   prev |-> "other",   otherPrev |-> "default"],
   [active |-> "other",   prev |-> "default", otherPrev |-> "onelo"]}
Tidy ==
  \A s \in (Threads \cup open) \ disordered :
    [active |-> active[s], prev |-> prev[s], otherPrev |-> otherPrev[s]] \in Stacks

\* The handler an exception is in has somewhere to pass it on.
ExceptionsGoOn ==
  \A e \in Emitters :
    /\ at[e] \in {"tests", "calls"} => dying[e] \in Threads
    /\ at[e] \in {"onelo", "tests", "calls"} /\ dying[e] \in Threads =>
         prev[dying[e]] # "none" \/ e \in overtaken \/ dying[e] \in disordered
    /\ at[e] = "other" => otherPrev[dying[e]] # "none"

\* TypeOK by its parts: the monitor and the threads in it, those with an exception.
MonitorTypeOK ==
  /\ main \subseteq StepNames /\ inits \in Inits /\ asked \in BOOLEAN
  /\ sink \in Inits /\ current \in Inits /\ settings \in Settings
  /\ transports \in [1..MaxInits -> {"none", "running", "stopped"}]
  /\ \A k \in {sink, current} \ {0} : transports[k] # "none"
  /\ box \subseteq [to : 1..MaxInits, own : BOOLEAN] /\ stranded \in BOOLEAN
  /\ cache \in Caches /\ forks \in 0..MaxForks
EmitTypeOK ==
  /\ pc \in [Emitters -> {"idle", "stamping", "scrubbing", "posting", "sending"}]
  /\ event \in [Emitters -> Settings] /\ target \in [Emitters -> Inits]
  /\ calm \in [Emitters -> BOOLEAN] /\ crossed \in [Emitters -> BOOLEAN]
CrashTypeOK ==
  /\ dying \in [Emitters -> Slots \cup {"none"}]
  /\ at \in [Emitters -> {"none", "onelo", "tests", "calls", "other", "default", "lost"}]
  /\ \A e \in Emitters : dying[e] # "none" <=> at[e] # "none"
  /\ \A e \in Emitters : pc[e] # "idle" => at[e] \in {"none", "onelo"}
  /\ overtaken \subseteq Emitters

MonitorInv ==
  Ordered /\ SinkFollows /\ OneRuns /\ BoxOfLive /\ SettingsFollow /\ FlagsFollow
EmitInv == SendersHoldSink /\ EventsBehind /\ CalmEvents /\ ~stranded
HooksInv == HooksTypeOK /\ OthersSaved /\ Tidy
CrashInv == CrashTypeOK /\ ExceptionsGoOn /\ UncaughtIsShown

IInv == TypeOK /\ MonitorInv /\ EmitInv /\ HooksInv /\ CrashInv
-----------------------------------------------------------------------------
\* The steps of close() come before those of init(), each in the order of the code.
LEMMA StepsInOrder ==
  /\ Len(CloseSteps) = 8 /\ Len(InitSteps) = 9 /\ Len(Steps) = 17
  /\ Steps[1] = "mute" /\ Steps[2] = "noFlags" /\ Steps[3] = "noSession"
  /\ Steps[4] = "noDeploy" /\ Steps[5] = "lenient" /\ Steps[6] = "unhook"
  /\ Steps[7] = "stop" /\ Steps[8] = "forget" /\ Steps[9] = "deploy"
  /\ Steps[10] = "start" /\ Steps[11] = "listen" /\ Steps[12] = "activate"
  /\ Steps[13] = "session" /\ Steps[14] = "strict" /\ Steps[15] = "flags"
  /\ Steps[16] = "hook" /\ Steps[17] = "opened"
<1>1. Len(CloseSteps) = 8 /\ Len(InitSteps) = 9
  BY DEF CloseSteps, InitSteps
<1>. DEFINE S == {"mute", "noFlags", "noSession", "noDeploy", "lenient", "unhook",
                   "stop", "forget", "deploy", "start", "listen", "activate", "session",
                   "strict", "flags", "hook", "opened"}
<1>3. CloseSteps \in Seq(S) /\ InitSteps \in Seq(S)
  BY DEF CloseSteps, InitSteps
<1>. HIDE DEF S
<1>4. /\ Len(Steps) = Len(CloseSteps) + Len(InitSteps)
      /\ \A i \in 1..(Len(CloseSteps) + Len(InitSteps)) :
           Steps[i] = IF i <= Len(CloseSteps) THEN CloseSteps[i]
                      ELSE InitSteps[i - Len(CloseSteps)]
  BY <1>3, ConcatProperties DEF Steps
<1>. QED
  BY <1>1, <1>4 DEF CloseSteps, InitSteps

\* Steps by their names, for those who do not mind the order.
LEMMA StepsByName ==
  /\ ToSet(CloseSteps) = {"mute", "noFlags", "noSession", "noDeploy", "lenient", "unhook",
                          "stop", "forget"}
  /\ ToSet(InitSteps) = {"deploy", "start", "listen", "activate", "session", "strict",
                         "flags", "hook", "opened"}
  /\ StepNames = ToSet(CloseSteps) \cup ToSet(InitSteps)
<1>1. Len(CloseSteps) = 8 /\ DOMAIN CloseSteps = 1..8
  BY DEF CloseSteps
<1>2. Len(InitSteps) = 9 /\ DOMAIN InitSteps = 1..9
  BY DEF InitSteps
<1>3. ToSet(CloseSteps) = {"mute", "noFlags", "noSession", "noDeploy", "lenient", "unhook",
                          "stop", "forget"}
  BY <1>1 DEF ToSet, CloseSteps
<1>4. ToSet(InitSteps) = {"deploy", "start", "listen", "activate", "session", "strict",
                         "flags", "hook", "opened"}
  BY <1>2 DEF ToSet, InitSteps
<1>5. DOMAIN Steps = 1..17
  BY StepsInOrder DEF Steps, CloseSteps, InitSteps
<1>6. StepNames = ToSet(CloseSteps) \cup ToSet(InitSteps)
  BY <1>3, <1>4, <1>5, StepsInOrder DEF StepNames, ToSet
<1>. QED
  BY <1>3, <1>4, <1>6

\* A step is done only after the one before it.
LEMMA DueInOrder ==
  ASSUME NEW name, Due(name)
  PROVE  /\ name \in main
         /\ name = "noFlags" => "mute" \notin main
         /\ name = "noSession" => "noFlags" \notin main
         /\ name = "noDeploy" => "noSession" \notin main
         /\ name = "lenient" => "noDeploy" \notin main
         /\ name = "unhook" => "lenient" \notin main
         /\ name = "stop" => "unhook" \notin main
         /\ name = "forget" => "stop" \notin main
         /\ name = "deploy" => "forget" \notin main
         /\ name = "start" => "deploy" \notin main
         /\ name = "listen" => "start" \notin main
         /\ name = "activate" => "listen" \notin main
         /\ name = "session" => "activate" \notin main
         /\ name = "strict" => "session" \notin main
         /\ name = "flags" => "strict" \notin main
         /\ name = "hook" => "flags" \notin main
         /\ name = "opened" => "hook" \notin main
         /\ name = "hook" => "strict" \notin main
         /\ name = "opened" => {"strict", "flags"} \cap main = {}
<1>1. PICK i \in 1..17 : Steps[i] = name /\ \A j \in 1..(i - 1) : Steps[j] \notin main
  BY StepsInOrder DEF Due
<1>2. name \in main
  BY DEF Due
<1>3. name = "noFlags" => "mute" \notin main
  BY <1>1, StepsInOrder
<1>4. name = "noSession" => "noFlags" \notin main
  BY <1>1, StepsInOrder
<1>5. name = "noDeploy" => "noSession" \notin main
  BY <1>1, StepsInOrder
<1>6. name = "lenient" => "noDeploy" \notin main
  BY <1>1, StepsInOrder
<1>7. name = "unhook" => "lenient" \notin main
  BY <1>1, StepsInOrder
<1>8. name = "stop" => "unhook" \notin main
  BY <1>1, StepsInOrder
<1>9. name = "forget" => "stop" \notin main
  BY <1>1, StepsInOrder
<1>10. name = "deploy" => "forget" \notin main
  BY <1>1, StepsInOrder
<1>11. name = "start" => "deploy" \notin main
  BY <1>1, StepsInOrder
<1>12. name = "listen" => "start" \notin main
  BY <1>1, StepsInOrder
<1>13. name = "activate" => "listen" \notin main
  BY <1>1, StepsInOrder
<1>14. name = "session" => "activate" \notin main
  BY <1>1, StepsInOrder
<1>15. name = "strict" => "session" \notin main
  BY <1>1, StepsInOrder
<1>16. name = "flags" => "strict" \notin main
  BY <1>1, StepsInOrder
<1>17. name = "hook" => {"strict", "flags"} \cap main = {}
  BY <1>1, StepsInOrder
<1>18. name = "opened" => {"strict", "flags", "hook"} \cap main = {}
  BY <1>1, StepsInOrder
<1>. QED
  BY <1>2, <1>3, <1>4, <1>5, <1>6, <1>7, <1>8, <1>9, <1>10, <1>11, <1>12, <1>13, <1>14, <1>15, <1>16, <1>17, <1>18

Advances(name) ==
  Due(name) /\ main' = main \ {name} /\ UNCHANGED <<inits, asked, cache>>

\* Each step of init() and close() leaves what its place in the order says.
LEMMA StepsKeepMonitor ==
  ASSUME TypeOK, MonitorInv, InInit \/ InClose
  PROVE  MonitorInv'
<1>. USE DEF MonitorInv, Ordered, Closing, Opening, Advances
<1>1. CASE Mute
  <2>1. Advances("mute")
    BY <1>1 DEF Mute, Step, process
  <2>2. Ordered'
    BY <2>1, DueInOrder
  <2>3. (SinkFollows /\ OneRuns /\ BoxOfLive)'
    BY <1>1, <2>1, DueInOrder, BoundsAssumption
       DEF Mute, SinkFollows, OneRuns, BoxOfLive, Live, Off, TypeOK, Inits
  <2>4. (SettingsFollow /\ FlagsFollow)'
    BY <1>1, <2>1, DueInOrder
       DEF Mute, SinkFollows, SettingsFollow, FlagsFollow, Off, TypeOK, Inits, Caches, Settings
  <2>. QED
    BY <2>2, <2>3, <2>4
<1>2. CASE Set("noFlags", "flags", 0)
  <2>1. Advances("noFlags")
    BY <1>2 DEF Set, Step, process
  <2>2. Ordered'
    BY <2>1, DueInOrder
  <2>3. (SinkFollows /\ OneRuns /\ BoxOfLive)'
    BY <1>2, <2>1, DueInOrder, BoundsAssumption
       DEF Set, SinkFollows, OneRuns, BoxOfLive, Live, Off, TypeOK, Inits
  <2>4. (SettingsFollow /\ FlagsFollow)'
    BY <1>2, <2>1, DueInOrder
       DEF Set, SinkFollows, SettingsFollow, FlagsFollow, Off, TypeOK, Inits, Caches, Settings
  <2>. QED
    BY <2>2, <2>3, <2>4
<1>3. CASE Set("noSession", "session", 0)
  <2>1. Advances("noSession")
    BY <1>3 DEF Set, Step, process
  <2>2. Ordered'
    BY <2>1, DueInOrder
  <2>3. (SinkFollows /\ OneRuns /\ BoxOfLive)'
    BY <1>3, <2>1, DueInOrder, BoundsAssumption
       DEF Set, SinkFollows, OneRuns, BoxOfLive, Live, Off, TypeOK, Inits
  <2>4. (SettingsFollow /\ FlagsFollow)'
    BY <1>3, <2>1, DueInOrder
       DEF Set, SinkFollows, SettingsFollow, FlagsFollow, Off, TypeOK, Inits, Caches, Settings
  <2>. QED
    BY <2>2, <2>3, <2>4
<1>4. CASE Set("noDeploy", "deploy", 0)
  <2>1. Advances("noDeploy")
    BY <1>4 DEF Set, Step, process
  <2>2. Ordered'
    BY <2>1, DueInOrder
  <2>3. (SinkFollows /\ OneRuns /\ BoxOfLive)'
    BY <1>4, <2>1, DueInOrder, BoundsAssumption
       DEF Set, SinkFollows, OneRuns, BoxOfLive, Live, Off, TypeOK, Inits
  <2>4. (SettingsFollow /\ FlagsFollow)'
    BY <1>4, <2>1, DueInOrder
       DEF Set, SinkFollows, SettingsFollow, FlagsFollow, Off, TypeOK, Inits, Caches, Settings
  <2>. QED
    BY <2>2, <2>3, <2>4
<1>5. CASE Set("lenient", "strict", 0)
  <2>1. Advances("lenient")
    BY <1>5 DEF Set, Step, process
  <2>2. Ordered'
    BY <2>1, DueInOrder
  <2>3. (SinkFollows /\ OneRuns /\ BoxOfLive)'
    BY <1>5, <2>1, DueInOrder, BoundsAssumption
       DEF Set, SinkFollows, OneRuns, BoxOfLive, Live, Off, TypeOK, Inits
  <2>4. (SettingsFollow /\ FlagsFollow)'
    BY <1>5, <2>1, DueInOrder
       DEF Set, SinkFollows, SettingsFollow, FlagsFollow, Off, TypeOK, Inits, Caches, Settings
  <2>. QED
    BY <2>2, <2>3, <2>4
<1>6. CASE Unhook
  <2>1. Advances("unhook")
    BY <1>6 DEF Unhook, Step, process
  <2>2. Ordered'
    BY <2>1, DueInOrder
  <2>3. (SinkFollows /\ OneRuns /\ BoxOfLive)'
    BY <1>6, <2>1, DueInOrder, BoundsAssumption
       DEF Unhook, SinkFollows, OneRuns, BoxOfLive, Live, Off, TypeOK, Inits
  <2>4. (SettingsFollow /\ FlagsFollow)'
    BY <1>6, <2>1, DueInOrder
       DEF Unhook, SinkFollows, SettingsFollow, FlagsFollow, Off, TypeOK, Inits, Caches, Settings
  <2>. QED
    BY <2>2, <2>3, <2>4
<1>7. CASE Stop
  <2>1. Advances("stop")
    BY <1>7 DEF Stop, Step, process
  <2>2. Ordered'
    BY <2>1, DueInOrder
  <2>3. (SinkFollows /\ OneRuns /\ BoxOfLive)'
    BY <1>7, <2>1, DueInOrder, BoundsAssumption
       DEF Stop, SinkFollows, OneRuns, BoxOfLive, Live, Off, TypeOK, Inits
  <2>4. (SettingsFollow /\ FlagsFollow)'
    BY <1>7, <2>1, DueInOrder
       DEF Stop, SinkFollows, SettingsFollow, FlagsFollow, Off, TypeOK, Inits, Caches, Settings
  <2>. QED
    BY <2>2, <2>3, <2>4
<1>8. CASE Forget
  <2>1. Advances("forget")
    BY <1>8 DEF Forget, Step, process
  <2>2. Ordered'
    BY <2>1, DueInOrder
  <2>3. (SinkFollows /\ OneRuns /\ BoxOfLive)'
    BY <1>8, <2>1, DueInOrder, BoundsAssumption
       DEF Forget, SinkFollows, OneRuns, BoxOfLive, Live, Off, TypeOK, Inits
  <2>4. (SettingsFollow /\ FlagsFollow)'
    BY <1>8, <2>1, DueInOrder
       DEF Forget, SinkFollows, SettingsFollow, FlagsFollow, Off, TypeOK, Inits, Caches, Settings
  <2>. QED
    BY <2>2, <2>3, <2>4
<1>9. CASE Set("deploy", "deploy", inits)
  <2>1. Advances("deploy")
    BY <1>9 DEF Set, Step, process
  <2>2. Ordered'
    BY <2>1, DueInOrder
  <2>3. (SinkFollows /\ OneRuns /\ BoxOfLive)'
    BY <1>9, <2>1, DueInOrder, BoundsAssumption
       DEF Set, SinkFollows, OneRuns, BoxOfLive, Live, Off, TypeOK, Inits
  <2>4. (SettingsFollow /\ FlagsFollow)'
    BY <1>9, <2>1, DueInOrder
       DEF Set, SinkFollows, SettingsFollow, FlagsFollow, Off, TypeOK, Inits, Caches, Settings
  <2>. QED
    BY <2>2, <2>3, <2>4
<1>10. CASE Start
  <2>1. Advances("start")
    BY <1>10 DEF Start, Step, process
  <2>2. Ordered'
    BY <2>1, DueInOrder
  <2>3. (SinkFollows /\ OneRuns /\ BoxOfLive)'
    BY <1>10, <2>1, DueInOrder, BoundsAssumption
       DEF Start, SinkFollows, OneRuns, BoxOfLive, Live, Off, TypeOK, Inits
  <2>4. (SettingsFollow /\ FlagsFollow)'
    BY <1>10, <2>1, DueInOrder
       DEF Start, SinkFollows, SettingsFollow, FlagsFollow, Off, TypeOK, Inits, Caches, Settings
  <2>. QED
    BY <2>2, <2>3, <2>4
<1>11. CASE Listen
  <2>1. Advances("listen")
    BY <1>11 DEF Listen, Step, process
  <2>2. Ordered'
    BY <2>1, DueInOrder
  <2>3. (SinkFollows /\ OneRuns /\ BoxOfLive)'
    BY <1>11, <2>1, DueInOrder, BoundsAssumption
       DEF Listen, SinkFollows, OneRuns, BoxOfLive, Live, Off, TypeOK, Inits
  <2>4. (SettingsFollow /\ FlagsFollow)'
    BY <1>11, <2>1, DueInOrder
       DEF Listen, SinkFollows, SettingsFollow, FlagsFollow, Off, TypeOK, Inits, Caches, Settings
  <2>. QED
    BY <2>2, <2>3, <2>4
<1>12. CASE Activate
  <2>1. Advances("activate")
    BY <1>12 DEF Activate, Step, process
  <2>2. Ordered'
    BY <2>1, DueInOrder
  <2>3. (SinkFollows /\ OneRuns /\ BoxOfLive)'
    BY <1>12, <2>1, DueInOrder, BoundsAssumption
       DEF Activate, SinkFollows, OneRuns, BoxOfLive, Live, Off, TypeOK, Inits
  <2>4. (SettingsFollow /\ FlagsFollow)'
    BY <1>12, <2>1, DueInOrder
       DEF Activate, SinkFollows, SettingsFollow, FlagsFollow, Off, TypeOK, Inits, Caches, Settings
  <2>. QED
    BY <2>2, <2>3, <2>4
<1>13. CASE Set("session", "session", inits)
  <2>1. Advances("session")
    BY <1>13 DEF Set, Step, process
  <2>2. Ordered'
    BY <2>1, DueInOrder
  <2>3. (SinkFollows /\ OneRuns /\ BoxOfLive)'
    BY <1>13, <2>1, DueInOrder, BoundsAssumption
       DEF Set, SinkFollows, OneRuns, BoxOfLive, Live, Off, TypeOK, Inits
  <2>4. (SettingsFollow /\ FlagsFollow)'
    BY <1>13, <2>1, DueInOrder
       DEF Set, SinkFollows, SettingsFollow, FlagsFollow, Off, TypeOK, Inits, Caches, Settings
  <2>. QED
    BY <2>2, <2>3, <2>4
<1>14. CASE Set("strict", "strict", inits)
  <2>1. Advances("strict")
    BY <1>14 DEF Set, Step, process
  <2>2. Ordered'
    BY <2>1, DueInOrder
  <2>3. (SinkFollows /\ OneRuns /\ BoxOfLive)'
    BY <1>14, <2>1, DueInOrder, BoundsAssumption
       DEF Set, SinkFollows, OneRuns, BoxOfLive, Live, Off, TypeOK, Inits
  <2>4. (SettingsFollow /\ FlagsFollow)'
    BY <1>14, <2>1, DueInOrder
       DEF Set, SinkFollows, SettingsFollow, FlagsFollow, Off, TypeOK, Inits, Caches, Settings
  <2>. QED
    BY <2>2, <2>3, <2>4
<1>15. CASE Set("flags", "flags", cache)
  <2>1. Advances("flags")
    BY <1>15 DEF Set, Step, process
  <2>2. Ordered'
    BY <2>1, DueInOrder
  <2>3. (SinkFollows /\ OneRuns /\ BoxOfLive)'
    BY <1>15, <2>1, DueInOrder, BoundsAssumption
       DEF Set, SinkFollows, OneRuns, BoxOfLive, Live, Off, TypeOK, Inits
  <2>4. (SettingsFollow /\ FlagsFollow)'
    BY <1>15, <2>1, DueInOrder
       DEF Set, SinkFollows, SettingsFollow, FlagsFollow, Off, TypeOK, Inits, Caches, Settings
  <2>. QED
    BY <2>2, <2>3, <2>4
<1>16. CASE Hook
  <2>1. Advances("hook")
    BY <1>16 DEF Hook, Step, process
  <2>2. Ordered'
    BY <2>1, DueInOrder
  <2>3. (SinkFollows /\ OneRuns /\ BoxOfLive)'
    BY <1>16, <2>1, DueInOrder, BoundsAssumption
       DEF Hook, SinkFollows, OneRuns, BoxOfLive, Live, Off, TypeOK, Inits
  <2>4. (SettingsFollow /\ FlagsFollow)'
    BY <1>16, <2>1, DueInOrder
       DEF Hook, SinkFollows, SettingsFollow, FlagsFollow, Off, TypeOK, Inits, Caches, Settings
  <2>. QED
    BY <2>2, <2>3, <2>4
<1>17. CASE Opened
  <2>1. Advances("opened")
    BY <1>17 DEF Opened, Step, process
  <2>2. Ordered'
    BY <2>1, DueInOrder
  <2>3. (SinkFollows /\ OneRuns /\ BoxOfLive)'
    BY <1>17, <2>1, DueInOrder, BoundsAssumption
       DEF Opened, SinkFollows, OneRuns, BoxOfLive, Live, Off, TypeOK, Inits
  <2>4. (SettingsFollow /\ FlagsFollow)'
    BY <1>17, <2>1, DueInOrder
       DEF Opened, SinkFollows, SettingsFollow, FlagsFollow, Off, TypeOK, Inits, Caches, Settings
  <2>. QED
    BY <2>2, <2>3, <2>4
<1>. QED
  BY <1>1, <1>2, <1>3, <1>4, <1>5, <1>6, <1>7, <1>8, <1>9, <1>10, <1>11, <1>12, <1>13, <1>14, <1>15, <1>16, <1>17 DEF InInit, InClose

\* A call of init() or close() begins where the last one ended.
LEMMA CallsKeepMonitor ==
  ASSUME TypeOK, MonitorInv, CallInit \/ CallInitWrongly \/ CallClose
  PROVE  MonitorInv'
<1>. USE DEF MonitorInv, Ordered, Closing, Opening
<1>1. CASE CallInit
  <2>1. PICK left \in SUBSET {"flags", "hook"} :
          /\ asked' = ("flags" \notin left)
          /\ main' = Before \cup (ToSet(InitSteps) \ left)
    BY <1>1 DEF CallInit, Begins
  <2>2. /\ main = {} /\ inits' = inits + 1
        /\ <<sink, current, transports, settings, box, cache>>' =
             <<sink, current, transports, settings, box, cache>>
    BY <1>1 DEF CallInit, Begins, process
  <2>3. Ordered'
    BY <2>1, StepsByName DEF Before
  <2>4. CASE current = 0
    <3>1. /\ {"deploy", "start", "listen", "activate", "session", "strict", "opened"} \subseteq main'
          /\ main' \cap {"mute", "noFlags", "stop", "forget"} = {}
          /\ "flags" \in main' <=> asked'
      BY <2>1, <2>4, StepsByName DEF Before
    <3>2. (SinkFollows /\ OneRuns /\ BoxOfLive)'
      BY <3>1, <2>2, <2>4 DEF SinkFollows, OneRuns, BoxOfLive, Live, Off, TypeOK, Inits
    <3>3. (SettingsFollow /\ FlagsFollow)'
      BY <3>1, <2>2, <2>4 DEF SinkFollows, SettingsFollow, FlagsFollow, Off, TypeOK, Inits, Settings
    <3>. QED
      BY <2>3, <3>2, <3>3
  <2>5. CASE current # 0
    <3>1. /\ ToSet(CloseSteps) \subseteq main'
          /\ {"deploy", "start", "listen", "activate", "session", "strict", "opened"} \subseteq main'
          /\ "flags" \in main' <=> asked'
      BY <2>1, <2>5, StepsByName DEF Before
    <3>2. (SinkFollows /\ OneRuns /\ BoxOfLive)'
      BY <3>1, <2>2, <2>5, StepsByName DEF SinkFollows, OneRuns, BoxOfLive, Live, Off, TypeOK, Inits
    <3>3. (SettingsFollow /\ FlagsFollow)'
      BY <3>1, <2>2, <2>5, StepsByName
         DEF SinkFollows, SettingsFollow, FlagsFollow, Off, TypeOK, Inits, Settings
    <3>. QED
      BY <2>3, <3>2, <3>3
  <2>. QED
    BY <2>4, <2>5
<1>2. CASE CallInitWrongly \/ CallClose
  <2>1. /\ main = {} /\ main' = ToSet(CloseSteps)
        /\ <<inits, asked, sink, current, transports, settings, box, cache>>' =
             <<inits, asked, sink, current, transports, settings, box, cache>>
    BY <1>2 DEF CallInitWrongly, CallClose, Begins, process
  <2>2. Ordered'
    BY <2>1, StepsByName
  <2>3. (SinkFollows /\ OneRuns /\ BoxOfLive)'
    BY <2>1, StepsByName DEF SinkFollows, OneRuns, BoxOfLive, Live, Off, TypeOK, Inits
  <2>4. (SettingsFollow /\ FlagsFollow)'
    BY <2>1, StepsByName DEF SinkFollows, SettingsFollow, FlagsFollow, Off, TypeOK, Inits
  <2>. QED
    BY <2>2, <2>3, <2>4
<1>. QED
  BY <1>1, <1>2

\* What is sent goes to the transport that runs, and what a child inherits is not its own.
LEMMA TrafficKeepsMonitor ==
  ASSUME TypeOK, MonitorInv, SendersHoldSink,
         \/ \E e \in Emitters : Sends(e)
         \/ \E k \in 1..MaxInits : Ships(k)
         \/ Fork
  PROVE  MonitorInv'
<1>. USE DEF MonitorInv
<1>1. <<main, inits, asked, sink, current, transports, settings>>' =
        <<main, inits, asked, sink, current, transports, settings>>
  BY DEF Sends, Ships, Fork
<1>2. Live' = Live /\ Off' = Off
  BY <1>1 DEF Live, Off, Closing
<1>3. (Ordered /\ SinkFollows /\ OneRuns /\ SettingsFollow)'
  BY <1>1, <1>2 DEF Ordered, SinkFollows, OneRuns, SettingsFollow, Closing, Opening
<1>4. CASE \E e \in Emitters : Sends(e)
  <2>1. PICK e \in Emitters : Sends(e)
    BY <1>4
  <2>2. cache' = cache
    BY <2>1 DEF Sends, process
  <2>3. \A b \in box' \ box : b.own /\ b.to = target[e] /\ transports[target[e]] = "running"
    BY <2>1 DEF Sends
  <2>4. target[e] \in 1..MaxInits
    BY <2>1, BoundsAssumption DEF SendersHoldSink, TypeOK, Sends, Inits
  <2>. QED
    BY <1>1, <1>2, <1>3, <2>2, <2>3, <2>4
       DEF OneRuns, BoxOfLive, FlagsFollow, Closing, Opening
<1>5. CASE \E k \in 1..MaxInits : Ships(k)
  <2>1. box' \subseteq box /\ cache' = cache
    BY <1>5 DEF Ships, process
  <2>. QED
    BY <1>1, <1>2, <1>3, <2>1 DEF BoxOfLive, FlagsFollow, Closing, Opening
<1>6. CASE Fork
  <2>1. main = {} /\ cache' = forks + 2
    BY <1>6 DEF Fork
  <2>2. Live = current
    BY <2>1 DEF Live, Closing
  <2>3. box' = {}
    BY <1>6, <2>2 DEF Fork, Inherited, BoxOfLive
  <2>. QED
    BY <1>1, <1>2, <1>3, <2>1, <2>3 DEF BoxOfLive, FlagsFollow, Closing, Opening, TypeOK
<1>. QED
  BY <1>4, <1>5, <1>6

\* A sink that is set feeds the transport that runs.
LEMMA SinkIsLive ==
  ASSUME TypeOK, MonitorInv, sink # 0
  PROVE  sink = Live /\ transports[sink] = "running"
<1>1. sink = Live
  BY DEF MonitorInv, Ordered, SinkFollows, Live, Off, Closing, Opening
<1>. QED
  BY <1>1, BoundsAssumption DEF MonitorInv, OneRuns, TypeOK, Inits

-----------------------------------------------------------------------------
\* A call ends the calm; the sink is given to a monitor only when no event waits for it.
LEMMA MainKeepsEmit ==
  ASSUME TypeOK, MonitorInv, EmitInv,
         CallInit \/ CallInitWrongly \/ CallClose \/ InInit \/ InClose
  PROVE  EmitInv'
<1>. USE DEF EmitInv
<1>1. CASE CallInit \/ CallInitWrongly \/ CallClose
  <2>1. /\ inits' \in {inits, inits + 1} /\ \A e \in Emitters : ~calm'[e]
        /\ <<sink, stranded, pc, event, target, crossed>>' =
             <<sink, stranded, pc, event, target, crossed>>
    BY <1>1 DEF CallInit, CallInitWrongly, CallClose, Begins
  <2>. QED
    BY <2>1 DEF SendersHoldSink, EventsBehind, CalmEvents, TypeOK, Inits, Settings
<1>2. CASE InInit \/ InClose
  <2>1. /\ main # {} /\ <<inits, stranded, pc, event, target, calm>>' =
                          <<inits, stranded, pc, event, target, calm>>
    BY <1>2 DEF InInit, InClose, Mute, Set, Unhook, Stop, Forget, Start, Listen, Activate,
                Hook, Opened, Step, Due
  <2>2. CalmEvents'
    BY <2>1 DEF CalmEvents
  <2>3. CASE Mute
    <3>1. sink' = 0 /\ \A e \in Emitters : pc[e] = "sending" => crossed'[e]
      BY <2>3 DEF Mute
    <3>2. SendersHoldSink'
      BY <2>1, <3>1 DEF SendersHoldSink
    <3>. QED
      BY <2>1, <2>2, <3>1, <3>2 DEF EventsBehind
  <2>4. CASE Listen
    <3>1. sink = 0 /\ sink' = inits /\ crossed' = crossed
      BY <2>4, DueInOrder
         DEF Listen, Step, MonitorInv, Ordered, SinkFollows, Off, Closing, Opening
    <3>. QED
      BY <2>1, <2>2, <3>1 DEF SendersHoldSink, EventsBehind
  <2>5. CASE sink' = sink /\ crossed' = crossed
    BY <2>1, <2>2, <2>5 DEF SendersHoldSink, EventsBehind
  <2>. QED
    BY <1>2, <2>3, <2>4, <2>5
       DEF InInit, InClose, Set, Unhook, Stop, Forget, Start, Activate, Hook, Opened
<1>. QED
  BY <1>1, <1>2

\* What _emit() does in one thread, another's event does not see.
LEMMA EmitKeepsEmit ==
  ASSUME TypeOK, MonitorInv, EmitInv, NEW e \in Emitters,
         \/ Skips(e) \/ Captures(e) \/ SpanEnds(e) \/ Stamps(e) \/ Scrubs(e)
         \/ ScrubFails(e) \/ Posts(e) \/ Sends(e)
  PROVE  EmitInv'
<1>. USE DEF EmitInv
<1>1. <<main, inits, asked, sink, current, settings>>' =
        <<main, inits, asked, sink, current, settings>>
  BY DEF Skips, Captures, SpanEnds, Emits, Stamps, Scrubs, ScrubFails, Posts, Sends, monitor
<1>2. /\ pc' = [pc EXCEPT ![e] = pc'[e]] /\ event' = [event EXCEPT ![e] = event'[e]]
      /\ target' = [target EXCEPT ![e] = target'[e]] /\ calm' = [calm EXCEPT ![e] = calm'[e]]
      /\ crossed' = [crossed EXCEPT ![e] = crossed'[e]]
  BY DEF Skips, Captures, SpanEnds, Emits, Stamps, Scrubs, ScrubFails, Posts, Sends, Done,
         TypeOK
<1>3. ~stranded'
  <2>1. CASE Sends(e)
    <3>1. ~crossed[e] => transports[target[e]] = "running"
      BY <2>1, SinkIsLive DEF Sends, SendersHoldSink
    <3>. QED
      BY <2>1, <3>1 DEF Sends
  <2>2. CASE ~Sends(e)
    BY <2>2 DEF Skips, Captures, SpanEnds, Emits, Stamps, Scrubs, ScrubFails, Posts, monitor
  <2>. QED
    BY <2>1, <2>2
<1>4. SUFFICES
        /\ pc'[e] = "sending" =>
             target'[e] # 0 /\ target'[e] = sink
        /\ LET ahead(k) == event'[e].deploy <= k /\ event'[e].session <= k
                             /\ event'[e].strict <= k IN
           /\ pc'[e] = "sending" => ahead(target'[e])
           /\ pc'[e] \in {"scrubbing", "posting"} => ahead(inits) /\ (sink # 0 => ahead(sink))
        /\ calm'[e] =>
             /\ main = {} /\ current # 0
             /\ pc'[e] \in {"scrubbing", "posting", "sending"} =>
                  /\ event'[e].deploy = current /\ event'[e].session = current
                  /\ event'[e].flags # 0 <=> asked
             /\ pc'[e] \in {"posting", "sending"} => event'[e].strict = current
             /\ pc'[e] = "sending" => target'[e] = current
  BY <1>1, <1>2, <1>3 DEF SendersHoldSink, EventsBehind, CalmEvents, TypeOK
<1>5. CASE Skips(e) \/ ScrubFails(e) \/ Sends(e)
  <2>1. Done(e)
    BY <1>5 DEF Skips, ScrubFails, Sends
  <2>. QED
    BY <2>1 DEF Done, TypeOK
<1>6. CASE Captures(e) \/ SpanEnds(e)
  <2>1. Emits(e)
    BY <1>6 DEF Captures, SpanEnds
  <2>. QED
    BY <2>1 DEF Emits, MonitorInv, SinkFollows, Off, Closing, TypeOK
<1>7. CASE Stamps(e)
  <2>1. /\ pc'[e] = "scrubbing" /\ event'[e] = [settings EXCEPT !.strict = 0]
        /\ calm'[e] = calm[e]
    BY <1>7 DEF Stamps, TypeOK
  <2>2. /\ event'[e].deploy = settings.deploy /\ event'[e].session = settings.session
        /\ event'[e].strict = 0 /\ event'[e].flags = settings.flags
    BY <2>1 DEF TypeOK, Settings
  <2>. QED
    BY <2>1, <2>2 DEF MonitorInv, SettingsFollow, FlagsFollow, CalmEvents, TypeOK, Inits
<1>8. CASE Scrubs(e)
  <2>1. /\ pc[e] = "scrubbing" /\ pc'[e] = "posting" /\ calm'[e] = calm[e]
        /\ event'[e] = [event[e] EXCEPT !.strict = settings.strict]
    BY <1>8 DEF Scrubs, TypeOK
  <2>2. /\ event'[e].deploy = event[e].deploy /\ event'[e].session = event[e].session
        /\ event'[e].strict = settings.strict /\ event'[e].flags = event[e].flags
    BY <2>1 DEF TypeOK, Settings
  <2>. QED
    BY <2>1, <2>2 DEF MonitorInv, SettingsFollow, EventsBehind, CalmEvents
<1>9. CASE Posts(e) /\ sink = 0
  BY <1>9 DEF Posts, Done, TypeOK
<1>10. CASE Posts(e) /\ sink # 0
  <2>1. /\ pc[e] = "posting" /\ pc'[e] = "sending" /\ target'[e] = sink
        /\ event'[e] = event[e] /\ calm'[e] = calm[e]
    BY <1>10 DEF Posts, TypeOK
  <2>. QED
    BY <1>10, <2>1 DEF EventsBehind, CalmEvents, MonitorInv, SinkFollows, Off, Closing
<1>. QED
  BY <1>5, <1>6, <1>7, <1>8, <1>9, <1>10

-----------------------------------------------------------------------------
\* Whatever is taken for the first time, by us or by the other SDK, goes on top.
LEMMA InstallsKeepHooks ==
  ASSUME HooksInv, Install \/ \E l \in Loops : FirstRequest(l)
  PROVE  HooksInv' /\ \A s \in Threads : prev[s] # "none" => prev'[s] # "none"
<1>. USE DEF HooksInv
<1>1. PICK slots \in SUBSET Slots :
        /\ Takes(slots)
        /\ \A s \in slots : prev[s] = "none"
        /\ \/ slots \cap Threads = {} /\ installed' = installed
           \/ Threads \subseteq slots /\ installed' = TRUE
        /\ registered' = registered \cup (slots \cap Loops)
        /\ equipped' \subseteq Loops
        /\ <<open, otherPrev, disordered>>' = <<open, otherPrev, disordered>>
  <2>1. CASE Install
    <3>1. PICK here \in SUBSET open : /\ Takes(Threads \cup (here \ registered))
                                      /\ registered' = registered \cup here
      BY <2>1 DEF Install
    <3>2. \A s \in Threads \cup (here \ registered) : prev[s] = "none"
      BY <2>1, <3>1 DEF Install, HooksTypeOK
    <3>. QED
      BY <2>1, <3>1, <3>2, SlotsAssumption DEF Install, HooksTypeOK, Slots
  <2>2. CASE \E l \in Loops : FirstRequest(l)
    <3>1. PICK l \in Loops : FirstRequest(l)
      BY <2>2
    <3>2. \A s \in {l} \ registered : prev[s] = "none"
      BY <3>1 DEF HooksTypeOK
    <3>. QED
      BY <3>1, <3>2, SlotsAssumption DEF FirstRequest, HooksTypeOK, Slots
  <2>. QED
    BY <2>1, <2>2
<1>2. \A s \in Slots : /\ prev'[s] = IF s \in slots THEN active[s] ELSE prev[s]
                       /\ active'[s] = IF s \in slots THEN "onelo" ELSE active[s]
  BY <1>1 DEF Takes
<1>3. active' \in [Slots -> Handlers] /\ prev' \in [Slots -> Handlers \cup {"none"}]
  BY <1>1 DEF Takes, HooksTypeOK, Handlers
<1>4. HooksTypeOK'
  BY <1>1, <1>2, <1>3, SlotsAssumption DEF HooksTypeOK, Slots, Handlers
<1>5. OthersSaved'
  BY <1>1, <1>2 DEF OthersSaved, HooksTypeOK, Slots, Handlers
<1>6. Tidy'
  BY <1>1, <1>2 DEF Tidy, Stacks, HooksTypeOK, Slots
<1>. QED
  BY <1>2, <1>4, <1>5, <1>6 DEF HooksTypeOK, Slots, Handlers

\* uninstall() takes our hook off the top, or leaves the slot disordered.
LEMMA UninstallKeepsHooks ==
  ASSUME HooksInv, Uninstall
  PROVE  HooksInv' /\ otherPrev' = otherPrev
<1>. USE DEF HooksInv
<1>1. \A s \in Slots : /\ active'[s] = IF Restores(s) THEN prev[s] ELSE active[s]
                       /\ prev'[s] = "none" /\ otherPrev'[s] = otherPrev[s]
  BY DEF Uninstall
<1>2. \A s \in Slots : Restores(s) => active[s] = "onelo" /\ prev[s] # "none"
  BY DEF Uninstall, Restores, HooksTypeOK
<1>3. HooksTypeOK'
  BY <1>1, <1>2 DEF Uninstall, Disorders, HooksTypeOK, Slots
<1>4. OthersSaved'
  BY <1>1, <1>2 DEF OthersSaved, Restores, Slots
<1>5. Tidy'
  BY <1>1, <1>2 DEF Uninstall, Disorders, Tidy, Stacks, Restores, HooksTypeOK, Slots
<1>. QED
  BY <1>3, <1>4, <1>5 DEF Uninstall

\* The other SDK comes and goes on top.
LEMMA OthersKeepHooks ==
  ASSUME HooksInv, \/ \E l \in Loops : LoopCloses(l)
                   \/ \E s \in Slots : OtherInstalls(s) \/ OtherLeaves(s)
  PROVE  HooksInv' /\ prev' = prev /\ disordered' = disordered
<1>. USE DEF HooksInv
<1>1. CASE \E l \in Loops : LoopCloses(l)
  BY <1>1 DEF LoopCloses, HooksTypeOK, OthersSaved, Tidy
<1>2. ASSUME NEW s \in Slots, OtherInstalls(s) \/ OtherLeaves(s)
      PROVE  HooksInv' /\ prev' = prev /\ disordered' = disordered
  <2>1. /\ \A r \in Slots \ {s} : active'[r] = active[r] /\ otherPrev'[r] = otherPrev[r]
        /\ \/ /\ otherPrev[s] = "none" /\ otherPrev'[s] = active[s] /\ active'[s] = "other"
           \/ /\ active[s] = "other" /\ otherPrev'[s] = "none" /\ active'[s] = otherPrev[s]
        /\ <<prev, installed, registered, equipped, open, disordered>>' =
             <<prev, installed, registered, equipped, open, disordered>>
    BY <1>2 DEF OtherInstalls, OtherLeaves, HooksTypeOK
  <2>2. otherPrev[s] = "none" => active[s] # "other"
    BY DEF OthersSaved
  <2>3. HooksTypeOK'
    BY <1>2, <2>1, <2>2 DEF OtherInstalls, OtherLeaves, HooksTypeOK, OthersSaved, Handlers
  <2>4. OthersSaved'
    BY <2>1, <2>2 DEF OthersSaved, HooksTypeOK, Slots, Handlers
  <2>5. Tidy'
    BY <2>1, <2>2 DEF Tidy, Stacks, Slots, HooksTypeOK
  <2>. QED
    BY <2>1, <2>3, <2>4, <2>5
<1>. QED
  BY <1>1, <1>2

\* An exception finds the next handler where the last one saved it.
LEMMA ExceptionKeepsCrash ==
  ASSUME HooksInv, CrashInv, NEW e \in Emitters,
         \/ Tests(e) \/ CallsOn(e) \/ OtherCallsOn(e) \/ Ends(e)
         \/ \E s \in Slots : Dies(e, s)
  PROVE  CrashInv'
<1>. USE DEF CrashInv
<1>1. /\ at' = [at EXCEPT ![e] = at'[e]] /\ dying' = [dying EXCEPT ![e] = dying'[e]]
      /\ pc' = pc /\ <<prev, otherPrev, disordered>>' = <<prev, otherPrev, disordered>>
  BY DEF Tests, CallsOn, OtherCallsOn, Ends, Dies, Moves, CrashTypeOK, emitting, hookVars
<1>2. SUFFICES
        /\ overtaken' \subseteq Emitters /\ overtaken \ {e} \subseteq overtaken'
        /\ dying'[e] \in Slots \cup {"none"}
        /\ at'[e] \in {"none", "onelo", "tests", "calls", "other", "default", "lost"}
        /\ dying'[e] # "none" <=> at'[e] # "none"
        /\ pc[e] # "idle" => at'[e] \in {"none", "onelo"}
        /\ at'[e] \in {"tests", "calls"} => dying'[e] \in Threads
        /\ at'[e] \in {"onelo", "tests", "calls"} /\ dying'[e] \in Threads =>
             prev[dying'[e]] # "none" \/ e \in overtaken' \/ dying'[e] \in disordered
        /\ at'[e] = "other" => otherPrev[dying'[e]] # "none"
        /\ at'[e] = "lost" => e \in overtaken' \/ dying'[e] \in disordered
  BY <1>1 DEF CrashTypeOK, ExceptionsGoOn, UncaughtIsShown
<1>3. CASE Tests(e) \/ CallsOn(e)
  <2>1. /\ dying' = dying /\ overtaken' = overtaken /\ at[e] \in {"tests", "calls"}
        /\ at'[e] \in {"calls", prev[dying[e]]} \/ at'[e] = "lost"
        /\ at'[e] = "lost" <=> prev[dying[e]] = "none"
    BY <1>3 DEF Tests, CallsOn, Moves, CrashTypeOK, HooksInv, HooksTypeOK, Handlers,
                ExceptionsGoOn, Slots
  <2>2. dying[e] \in Threads /\ pc[e] = "idle"
    BY <2>1 DEF ExceptionsGoOn, CrashTypeOK
  <2>3. prev[dying[e]] \in Handlers \cup {"none"}
    BY <2>2 DEF HooksInv, HooksTypeOK, Slots
  <2>4. prev[dying[e]] = "other" => otherPrev[dying[e]] # "none"
    BY <2>2 DEF HooksInv, OthersSaved, Slots
  <2>. QED
    BY <2>1, <2>2, <2>3, <2>4 DEF ExceptionsGoOn, CrashTypeOK, Handlers
<1>4. CASE OtherCallsOn(e)
  <2>1. /\ dying' = dying /\ overtaken' = overtaken /\ at[e] = "other"
        /\ at'[e] = otherPrev[dying[e]]
    BY <1>4 DEF OtherCallsOn, Moves, CrashTypeOK
  <2>2. dying[e] \in Slots /\ pc[e] = "idle" /\ at'[e] \in {"default", "onelo"}
    BY <2>1 DEF ExceptionsGoOn, CrashTypeOK, HooksInv, HooksTypeOK
  <2>3. ASSUME dying[e] \in Threads \ disordered, at'[e] = "onelo"
        PROVE  prev[dying[e]] # "none"
    BY <2>1, <2>3 DEF HooksInv, Tidy, Stacks
  <2>. QED
    BY <2>1, <2>2, <2>3 DEF CrashTypeOK
<1>5. CASE Ends(e)
  BY <1>5 DEF Ends, CrashTypeOK
<1>6. CASE \E s \in Slots : Dies(e, s)
  <2>1. PICK s \in Threads \cup open :
          /\ dying'[e] = s /\ at'[e] = active[s] /\ overtaken' = overtaken /\ pc[e] = "idle"
    BY <1>6 DEF Dies, Moves, CrashTypeOK
  <2>2. s \in Slots /\ active[s] \in Handlers
    BY DEF HooksInv, HooksTypeOK, Slots
  <2>3. ASSUME s \in Threads \ disordered, active[s] = "onelo" PROVE prev[s] # "none"
    BY <2>3 DEF HooksInv, Tidy, Stacks
  <2>4. active[s] = "other" => otherPrev[s] # "none"
    BY <2>2 DEF HooksInv, OthersSaved
  <2>. QED
    BY <2>1, <2>2, <2>3, <2>4, SlotsAssumption DEF Handlers, CrashTypeOK
<1>. QED
  BY <1>3, <1>4, <1>5, <1>6

\* A hook that is taken or put back while an exception is in ours: it is overtaken, or
\* finds a handler as before.
LEMMA HooksKeepCrash ==
  ASSUME IInv, <<pc, dying, at>>' = <<pc, dying, at>>,
         \/ Hook
         \/ Unhook
         \/ Elsewhere /\ overtaken' = overtaken
  PROVE  HooksInv' /\ CrashInv'
<1>. USE DEF IInv, CrashInv
<1>1. CASE Hook \/ ((\E l \in Loops : FirstRequest(l)) /\ overtaken' = overtaken)
  <2>1. overtaken' = overtaken
    BY <1>1 DEF Hook
  <2>2. CASE UNCHANGED hookVars
    BY <2>1, <2>2 DEF HooksInv, HooksTypeOK, OthersSaved, Tidy, CrashTypeOK,
                      ExceptionsGoOn, UncaughtIsShown, hookVars
  <2>3. CASE Install \/ \E l \in Loops : FirstRequest(l)
    <3>1. HooksInv' /\ \A s \in Threads : prev[s] # "none" => prev'[s] # "none"
      BY <2>3, InstallsKeepHooks
    <3>2. otherPrev' = otherPrev /\ disordered' = disordered
      BY <2>3 DEF Install, FirstRequest
    <3>. QED
      BY <2>1, <3>1, <3>2 DEF CrashTypeOK, ExceptionsGoOn, UncaughtIsShown
  <2>. QED
    BY <1>1, <2>2, <2>3 DEF Hook
<1>2. CASE Unhook /\ ~installed
  <2>1. UNCHANGED hookVars /\ overtaken' = overtaken
    BY <1>2 DEF Unhook, CrashTypeOK
  <2>. QED
    BY <2>1 DEF HooksInv, HooksTypeOK, OthersSaved, Tidy, CrashTypeOK, ExceptionsGoOn,
                UncaughtIsShown, hookVars
<1>3. CASE Unhook /\ installed
  <2>1. Uninstall /\ overtaken' = overtaken \cup {e \in Emitters : dying[e] # "none"}
    BY <1>3 DEF Unhook
  <2>2. HooksInv' /\ otherPrev' = otherPrev /\ disordered \subseteq disordered'
    BY <2>1, UninstallKeepsHooks DEF Uninstall, Disorders
  <2>3. \A e \in Emitters : at[e] # "none" => e \in overtaken'
    BY <2>1 DEF CrashTypeOK
  <2>. QED
    BY <2>1, <2>2, <2>3 DEF CrashTypeOK, ExceptionsGoOn, UncaughtIsShown
<1>4. CASE (\E l \in Loops : LoopCloses(l)) /\ overtaken' = overtaken
  <2>1. HooksInv' /\ <<prev, otherPrev, disordered>>' = <<prev, otherPrev, disordered>>
    BY <1>4, OthersKeepHooks DEF LoopCloses
  <2>. QED
    BY <1>4, <2>1 DEF CrashTypeOK, ExceptionsGoOn, UncaughtIsShown
<1>5. ASSUME NEW s \in Slots, overtaken' = overtaken,
             \/ OtherInstalls(s)
             \/ (\A e \in Emitters : ~(dying[e] = s /\ at[e] = "other")) /\ OtherLeaves(s)
      PROVE  HooksInv' /\ CrashInv'
  <2>1. HooksInv' /\ prev' = prev /\ disordered' = disordered
    BY <1>5, OthersKeepHooks
  <2>2. ASSUME NEW e \in Emitters, at[e] = "other" PROVE otherPrev'[dying[e]] # "none"
    <3>1. dying[e] \in Slots /\ otherPrev[dying[e]] # "none"
      BY <2>2 DEF CrashTypeOK, ExceptionsGoOn
    <3>2. OtherInstalls(s) => dying[e] # s
      BY <3>1 DEF OtherInstalls
    <3>3. OtherLeaves(s) => dying[e] # s
      BY <1>5, <2>2, <3>2 DEF OtherLeaves, OtherInstalls
    <3>. QED
      BY <1>5, <3>1, <3>2, <3>3 DEF OtherInstalls, OtherLeaves, HooksInv, HooksTypeOK
  <2>. QED
    BY <1>5, <2>1, <2>2 DEF CrashTypeOK, ExceptionsGoOn, UncaughtIsShown
<1>. QED
  BY <1>1, <1>2, <1>3, <1>4, <1>5 DEF Elsewhere

\* _emit() leaves the exception it was called for to the handler that comes next.
LEMMA EmitKeepsCrash ==
  ASSUME CrashInv, EmitTypeOK, NEW e \in Emitters,
         \/ Skips(e) \/ Captures(e) \/ SpanEnds(e) \/ Stamps(e) \/ Scrubs(e)
         \/ ScrubFails(e) \/ Posts(e) \/ Sends(e)
  PROVE  CrashInv'
<1>. USE DEF CrashInv
<1>1. CASE Done(e) /\ UNCHANGED hookVars
  <2>1. /\ pc' = [pc EXCEPT ![e] = "idle"] /\ at' = [at EXCEPT ![e] = Captured(e)]
        /\ <<dying, overtaken, prev, otherPrev, disordered>>' =
             <<dying, overtaken, prev, otherPrev, disordered>>
    BY <1>1 DEF Done, hookVars
  <2>2. /\ Captured(e) \in {at[e], "default", "tests"}
        /\ Captured(e) # at[e] => at[e] = "onelo"
        /\ Captured(e) = "tests" /\ at[e] = "onelo" => dying[e] \in Threads
    BY DEF Captured, CrashTypeOK, Slots
  <2>. QED
    BY <2>1, <2>2 DEF EmitTypeOK, CrashTypeOK, ExceptionsGoOn, UncaughtIsShown
<1>2. CASE /\ at[e] \in {"none", "onelo"} /\ pc' = [pc EXCEPT ![e] = pc'[e]]
           /\ UNCHANGED <<crashing, hookVars>>
  BY <1>2 DEF EmitTypeOK, CrashTypeOK, ExceptionsGoOn, UncaughtIsShown, crashing, hookVars
<1>3. at[e] \in {"none", "onelo"}
  BY DEF Skips, Captures, SpanEnds, Stamps, Scrubs, ScrubFails, Posts, Sends, CrashTypeOK
<1>. QED
  BY <1>1, <1>2, <1>3 DEF Skips, Captures, SpanEnds, Emits, Stamps, Scrubs, ScrubFails,
                          Posts, Sends, EmitTypeOK

-----------------------------------------------------------------------------
LEMMA TypeOKByParts ==
  TypeOK <=> HooksTypeOK /\ MonitorTypeOK /\ EmitTypeOK /\ CrashTypeOK
BY DEF TypeOK, MonitorTypeOK, EmitTypeOK, CrashTypeOK

\* init() and close() keep to their steps and number what they set.
LEMMA MainKeepsTypes ==
  ASSUME IInv, CallInit \/ CallInitWrongly \/ CallClose \/ InInit \/ InClose
  PROVE  MonitorTypeOK' /\ EmitTypeOK'
<1>. USE TypeOKByParts DEF IInv
<1>1. CASE CallInit \/ CallInitWrongly \/ CallClose
  <2>1. main' \subseteq StepNames
    BY <1>1, StepsByName DEF CallInit, CallInitWrongly, CallClose, Begins, Before
  <2>2. inits' \in Inits
    BY <1>1, BoundsAssumption
       DEF CallInit, CallInitWrongly, CallClose, MonitorTypeOK, Inits
  <2>3. asked' \in BOOLEAN
    BY <1>1 DEF CallInit, CallInitWrongly, CallClose, MonitorTypeOK
  <2>4. /\ UNCHANGED <<sink, current, transports, settings, box, stranded, cache, forks>>
        /\ UNCHANGED <<pc, event, target, crossed>>
        /\ calm' \in [Emitters -> BOOLEAN]
    BY <1>1 DEF CallInit, CallInitWrongly, CallClose, Begins, process
  <2>. QED
    BY <2>1, <2>2, <2>3, <2>4 DEF MonitorTypeOK, EmitTypeOK
<1>2. CASE InInit \/ InClose
  <2>1. /\ main' \subseteq main
        /\ UNCHANGED <<inits, asked, stranded, cache, forks, pc, event, target, calm>>
    BY <1>2 DEF InInit, InClose, Mute, Set, Unhook, Stop, Forget, Start, Listen, Activate,
                Hook, Opened, Step, process
  <2>2. crossed' \in [Emitters -> BOOLEAN]
    BY <1>2 DEF InInit, InClose, Mute, Set, Unhook, Stop, Forget, Start, Listen, Activate,
                Hook, Opened, EmitTypeOK
  <2>3. EmitTypeOK'
    BY <2>1, <2>2 DEF EmitTypeOK
  <2>4. sink' \in Inits /\ current' \in Inits
    BY <1>2, BoundsAssumption DEF InInit, InClose, Mute, Set, Unhook, Stop, Forget, Start, Listen, Activate,
                Hook, Opened, MonitorTypeOK, Inits
  <2>5. settings' \in Settings
    <3>1. \A f \in {"deploy", "session", "strict"}, v \in Inits :
            [settings EXCEPT ![f] = v] \in Settings
      BY DEF MonitorTypeOK, Settings
    <3>2. \A v \in Caches : [settings EXCEPT !["flags"] = v] \in Settings
      BY DEF MonitorTypeOK, Settings
    <3>3. 0 \in Inits /\ 0 \in Caches /\ inits \in Inits /\ cache \in Caches
      BY BoundsAssumption DEF MonitorTypeOK, Inits, Caches
    <3>. QED
      BY <1>2, <3>1, <3>2, <3>3
         DEF InInit, InClose, Mute, Set, Unhook, Stop, Forget, Start, Listen, Activate,
             Hook, Opened, MonitorTypeOK
  <2>6. transports' \in [1..MaxInits -> {"none", "running", "stopped"}]
    BY <1>2 DEF InInit, InClose, Mute, Set, Unhook, Stop, Forget, Start, Listen, Activate,
                Hook, Opened, MonitorTypeOK
  <2>7. MonitorInv' /\ \A k \in 1..MaxInits : transports[k] # "none" => transports'[k] # "none"
    BY <1>2, <2>6, StepsKeepMonitor
       DEF InInit, InClose, Mute, Set, Unhook, Stop, Forget, Start, Listen, Activate,
           Hook, Opened, MonitorTypeOK
  <2>8. sink' # 0 => transports'[sink'] # "none"
    <3>1. sink' # 0 => sink' = Live'
      BY <2>7 DEF MonitorInv, Ordered, SinkFollows, Live, Off, Closing, Opening
    <3>. QED
      BY <2>4, <2>7, <3>1, BoundsAssumption DEF MonitorInv, OneRuns, Inits
  <2>9. current' # 0 => transports'[current'] # "none"
    <3>1. CASE Activate
      <4>1. inits # 0 /\ inits = Live /\ transports' = transports /\ current' = inits
        BY <3>1, DueInOrder
           DEF Activate, Step, MonitorInv, Ordered, SinkFollows, Live, Closing, Opening
      <4>. QED
        BY <4>1, BoundsAssumption DEF MonitorInv, OneRuns, MonitorTypeOK, Inits
    <3>2. CASE current' \in {0, current}
      <4>1. current # 0 => current \in 1..MaxInits /\ transports[current] # "none"
        BY BoundsAssumption DEF MonitorTypeOK, Inits
      <4>. QED
        BY <2>7, <3>2, <4>1
    <3>. QED
      BY <1>2, <3>1, <3>2 DEF InInit, InClose, Mute, Set, Unhook, Stop, Forget, Start,
                              Listen, Hook, Opened
  <2>10. box' \subseteq [to : 1..MaxInits, own : BOOLEAN]
    <3>1. CASE Opened
      <4>1. sink \in 1..MaxInits
        BY <3>1, DueInOrder, BoundsAssumption
           DEF Opened, Step, MonitorInv, Ordered, SinkFollows, Off, Closing, Opening,
               MonitorTypeOK, Inits
      <4>2. [to |-> sink, own |-> TRUE] \in [to : 1..MaxInits, own : BOOLEAN]
        BY <4>1
      <4>. QED
        BY <3>1, <4>2 DEF Opened, MonitorTypeOK
    <3>2. CASE box' \subseteq box
      BY <3>2 DEF MonitorTypeOK
    <3>. QED
      BY <1>2, <3>1, <3>2 DEF InInit, InClose, Mute, Set, Unhook, Stop, Forget, Start,
                              Listen, Activate, Hook
  <2>. QED
    BY <2>1, <2>3, <2>4, <2>5, <2>6, <2>8, <2>9, <2>10 DEF MonitorTypeOK
<1>. QED
  BY <1>1, <1>2

\* What a thread does in _emit() changes nothing of the monitor but the box.
LEMMA EmitKeepsTypes ==
  ASSUME IInv, NEW e \in Emitters,
         \/ Skips(e) \/ Captures(e) \/ SpanEnds(e) \/ Stamps(e) \/ Scrubs(e)
         \/ ScrubFails(e) \/ Posts(e) \/ Sends(e)
  PROVE  MonitorTypeOK' /\ EmitTypeOK'
<1>. USE TypeOKByParts DEF IInv
<1>1. MonitorTypeOK'
  <2>1. CASE Sends(e)
    <3>1. target[e] \in 1..MaxInits
      BY <2>1, BoundsAssumption
         DEF Sends, EmitInv, SendersHoldSink, EmitTypeOK, Inits
    <3>2. box' \subseteq [to : 1..MaxInits, own : BOOLEAN] /\ stranded' \in BOOLEAN
      <4>1. [to |-> target[e], own |-> TRUE] \in [to : 1..MaxInits, own : BOOLEAN]
        BY <3>1
      <4>2. CASE transports[target[e]] = "running"
        BY <2>1, <4>1, <4>2 DEF Sends, MonitorTypeOK
      <4>3. CASE transports[target[e]] # "running"
        <5>1. stranded' = (stranded \/ ~crossed[e]) /\ box' = box
          BY <2>1, <4>3 DEF Sends
        <5>. QED
          BY <5>1 DEF MonitorTypeOK
      <4>. QED
        BY <4>2, <4>3
    <3>. QED
      BY <2>1, <3>2 DEF Sends, MonitorTypeOK, process
  <2>2. CASE UNCHANGED <<monitor, process>>
    BY <2>2 DEF MonitorTypeOK, monitor, process
  <2>. QED
    BY <2>1, <2>2 DEF Skips, Captures, SpanEnds, Emits, Stamps, Scrubs, ScrubFails, Posts
<1>2. EmitTypeOK'
  <2>1. CASE Done(e)
    BY <2>1, BoundsAssumption DEF Done, EmitTypeOK, Unset, Settings, Inits, Caches
  <2>2. CASE Emits(e)
    BY <2>2 DEF Emits, EmitTypeOK
  <2>3. CASE Stamps(e)
    <3>1. [settings EXCEPT !.strict = 0] \in Settings
      BY BoundsAssumption DEF MonitorTypeOK, Settings, Inits
    <3>. QED
      BY <2>3, <3>1 DEF Stamps, EmitTypeOK
  <2>4. CASE Scrubs(e)
    <3>1. [event[e] EXCEPT !.strict = settings.strict] \in Settings
      BY DEF MonitorTypeOK, EmitTypeOK, Settings
    <3>. QED
      BY <2>4, <3>1 DEF Scrubs, EmitTypeOK
  <2>5. CASE Posts(e) /\ sink # 0
    BY <2>5 DEF Posts, EmitTypeOK, MonitorTypeOK
  <2>. QED
    BY <2>1, <2>2, <2>3, <2>4, <2>5
       DEF Skips, Captures, SpanEnds, ScrubFails, Posts, Sends
<1>. QED
  BY <1>1, <1>2

\* A batch that leaves, a fork.
LEMMA TrafficKeepsTypes ==
  ASSUME IInv, Fork \/ \E k \in 1..MaxInits : Ships(k)
  PROVE  MonitorTypeOK' /\ EmitTypeOK'
<1>. USE TypeOKByParts DEF IInv
<1>1. CASE Fork
  <2>1. EmitTypeOK'
    BY <1>1, BoundsAssumption DEF Fork, ChildThreads, EmitTypeOK, Unset, Settings, Inits, Caches
  <2>2. forks' \in 0..MaxForks /\ cache' \in Caches
    BY <1>1, BoundsAssumption DEF Fork, MonitorTypeOK, Caches
  <2>3. box' \subseteq [to : 1..MaxInits, own : BOOLEAN]
    BY <1>1 DEF Fork, Inherited, MonitorTypeOK
  <2>. QED
    BY <1>1, <2>1, <2>2, <2>3 DEF Fork, MonitorTypeOK
<1>2. CASE \E k \in 1..MaxInits : Ships(k)
  <2>1. box' \subseteq box
    BY <1>2 DEF Ships
  <2>. QED
    BY <1>2, <2>1 DEF Ships, MonitorTypeOK, EmitTypeOK, process, emitting
<1>. QED
  BY <1>1, <1>2

-----------------------------------------------------------------------------
LEMMA InitIInv == Init => IInv
<1>. SUFFICES ASSUME Init PROVE IInv
  OBVIOUS
<1>. USE BoundsAssumption DEF Init
<1>1. MonitorTypeOK /\ EmitTypeOK
  <2>1. Unset \in Settings /\ 0 \in Inits /\ 1 \in Caches
    BY DEF Unset, Settings, Inits, Caches
  <2>2. MonitorTypeOK
    <3>1. asked \in BOOLEAN /\ stranded \in BOOLEAN
      OBVIOUS
    <3>. QED
      BY <2>1, <3>1 DEF MonitorTypeOK
  <2>3. EmitTypeOK
    BY <2>1 DEF EmitTypeOK
  <2>. QED
    BY <2>2, <2>3
<1>2. HooksInv
  BY DEF HooksInit, HooksInv, HooksTypeOK, OthersSaved, Tidy, Stacks, Handlers, Slots
<1>3. CrashInv
  BY DEF CrashInv, CrashTypeOK, ExceptionsGoOn, UncaughtIsShown
<1>4. MonitorInv
  BY DEF MonitorInv, Ordered, SinkFollows, OneRuns, BoxOfLive, SettingsFollow, FlagsFollow,
         Live, Off, Closing, Opening, Unset
<1>5. EmitInv
  BY DEF EmitInv, SendersHoldSink, EventsBehind, CalmEvents
<1>. QED
  BY <1>1, <1>2, <1>3, <1>4, <1>5, TypeOKByParts DEF IInv, HooksInv, CrashInv

LEMMA NextIInv == IInv /\ [Next]_vars => IInv'
<1>. SUFFICES ASSUME IInv, [Next]_vars
              PROVE  MonitorTypeOK' /\ EmitTypeOK' /\ MonitorInv' /\ EmitInv' /\ HooksInv' /\ CrashInv'
  <2>1. TypeOK' <=> HooksTypeOK' /\ MonitorTypeOK' /\ EmitTypeOK' /\ CrashTypeOK'
    BY TypeOKByParts, PTL
  <2>. QED
    BY <2>1 DEF IInv, HooksInv, CrashInv
<1>. USE DEF IInv
<1>1. CASE UNCHANGED vars
  <2>1. MonitorTypeOK' /\ EmitTypeOK' /\ MonitorInv' /\ EmitInv'
    BY <1>1, TypeOKByParts
       DEF vars, monitor, process, emitting, MonitorTypeOK, EmitTypeOK, MonitorInv, Ordered,
           SinkFollows, OneRuns, BoxOfLive, SettingsFollow, FlagsFollow, Live, Off, Closing,
           Opening, EmitInv, SendersHoldSink, EventsBehind, CalmEvents
  <2>2. HooksInv' /\ CrashInv'
    BY <1>1
       DEF vars, emitting, crashing, hookVars, HooksInv, HooksTypeOK, OthersSaved, Tidy,
           CrashInv, CrashTypeOK, ExceptionsGoOn, UncaughtIsShown
  <2>. QED
    BY <2>1, <2>2
<1>2. CASE CallInit \/ CallInitWrongly \/ CallClose
  <2>1. UNCHANGED <<hookVars, pc, crashing>>
    BY <1>2 DEF CallInit, CallInitWrongly, CallClose, Begins
  <2>2. HooksInv' /\ CrashInv'
    BY <2>1
       DEF crashing, hookVars, HooksInv, HooksTypeOK, OthersSaved, Tidy,
           CrashInv, CrashTypeOK, ExceptionsGoOn, UncaughtIsShown
  <2>. QED
    BY <1>2, <2>2, CallsKeepMonitor, MainKeepsEmit, MainKeepsTypes
<1>3. CASE InInit \/ InClose
  <2>1. UNCHANGED <<pc, dying, at>>
    BY <1>3 DEF InInit, InClose, Mute, Set, Unhook, Stop, Forget, Start, Listen, Activate,
                Hook, Opened, Step
  <2>2. CASE Hook \/ Unhook
    BY <1>3, <2>1, <2>2, HooksKeepCrash, StepsKeepMonitor, MainKeepsEmit, MainKeepsTypes
  <2>3. CASE UNCHANGED <<overtaken, hookVars>>
    <3>1. HooksInv' /\ CrashInv'
      BY <2>1, <2>3
         DEF hookVars, HooksInv, HooksTypeOK, OthersSaved, Tidy,
             CrashInv, CrashTypeOK, ExceptionsGoOn, UncaughtIsShown
    <3>. QED
      BY <1>3, <3>1, StepsKeepMonitor, MainKeepsEmit, MainKeepsTypes
  <2>. QED
    BY <1>3, <2>2, <2>3 DEF InInit, InClose, Mute, Set, Stop, Forget, Start, Listen,
                            Activate, Opened
<1>4. ASSUME NEW e \in Emitters,
             \/ Skips(e) \/ Captures(e) \/ SpanEnds(e) \/ Stamps(e) \/ Scrubs(e)
             \/ ScrubFails(e) \/ Posts(e) \/ Sends(e)
      PROVE  MonitorTypeOK' /\ EmitTypeOK' /\ MonitorInv' /\ EmitInv' /\ HooksInv' /\ CrashInv'
  <2>1. UNCHANGED hookVars
    BY <1>4 DEF Skips, Captures, SpanEnds, Emits, Stamps, Scrubs, ScrubFails, Posts, Sends
  <2>2. HooksInv'
    BY <2>1 DEF hookVars, HooksInv, HooksTypeOK, OthersSaved, Tidy
  <2>3. MonitorInv'
    <3>1. CASE Sends(e)
      BY <3>1, TrafficKeepsMonitor DEF EmitInv
    <3>2. CASE UNCHANGED <<monitor, process>>
      BY <3>2 DEF monitor, process, MonitorInv, Ordered, SinkFollows, OneRuns, BoxOfLive,
                  SettingsFollow, FlagsFollow, Live, Off, Closing, Opening
    <3>. QED
      BY <1>4, <3>1, <3>2
         DEF Skips, Captures, SpanEnds, Emits, Stamps, Scrubs, ScrubFails, Posts
  <2>4. MonitorTypeOK' /\ EmitTypeOK'
    BY <1>4, EmitKeepsTypes
  <2>5. EmitInv'
    BY <1>4, EmitKeepsEmit
  <2>6. CrashInv'
    BY <1>4, EmitKeepsCrash, TypeOKByParts
  <2>. QED
    BY <2>2, <2>3, <2>4, <2>5, <2>6
<1>5. ASSUME NEW e \in Emitters,
             \/ Tests(e) \/ CallsOn(e) \/ OtherCallsOn(e) \/ Ends(e)
             \/ \E s \in Slots : Dies(e, s)
      PROVE  MonitorTypeOK' /\ EmitTypeOK' /\ MonitorInv' /\ EmitInv' /\ HooksInv' /\ CrashInv'
  <2>1. UNCHANGED <<monitor, process, emitting, hookVars>>
    BY <1>5 DEF Tests, CallsOn, OtherCallsOn, Ends, Dies, Moves
  <2>2. MonitorTypeOK' /\ EmitTypeOK' /\ MonitorInv' /\ EmitInv'
    BY <2>1, TypeOKByParts
       DEF monitor, process, emitting, MonitorTypeOK, EmitTypeOK, MonitorInv, Ordered,
           SinkFollows, OneRuns, BoxOfLive, SettingsFollow, FlagsFollow, Live, Off, Closing,
           Opening, EmitInv, SendersHoldSink, EventsBehind, CalmEvents
  <2>3. HooksInv'
    BY <2>1 DEF hookVars, HooksInv, HooksTypeOK, OthersSaved, Tidy
  <2>4. CrashInv'
    BY <1>5, ExceptionKeepsCrash
  <2>. QED
    BY <2>2, <2>3, <2>4
<1>6. CASE \E k \in 1..MaxInits : Ships(k)
  <2>1. UNCHANGED <<main, inits, asked, sink, current, stranded, emitting, crashing, hookVars>>
    BY <1>6 DEF Ships
  <2>2. EmitInv' /\ HooksInv' /\ CrashInv'
    BY <2>1
       DEF emitting, crashing, hookVars, EmitInv, SendersHoldSink, EventsBehind, CalmEvents,
           HooksInv, HooksTypeOK, OthersSaved, Tidy, CrashInv, CrashTypeOK, ExceptionsGoOn,
           UncaughtIsShown
  <2>3. MonitorInv' /\ MonitorTypeOK' /\ EmitTypeOK'
    BY <1>6, TrafficKeepsMonitor, TrafficKeepsTypes DEF EmitInv
  <2>. QED
    BY <2>2, <2>3
<1>7. CASE Fork
  <2>1. /\ UNCHANGED <<stranded, hookVars>> /\ overtaken' = {}
        /\ \A e \in Emitters : pc'[e] = "idle" /\ dying'[e] = "none" /\ at'[e] = "none" /\ ~calm'[e]
        /\ dying' \in [Emitters -> {"none"}] /\ at' \in [Emitters -> {"none"}]
    BY <1>7 DEF Fork, ChildThreads
  <2>2. EmitInv' /\ HooksInv' /\ CrashInv'
    BY <2>1
       DEF hookVars, EmitInv, SendersHoldSink, EventsBehind, CalmEvents, HooksInv,
           HooksTypeOK, OthersSaved, Tidy, CrashInv, CrashTypeOK, ExceptionsGoOn,
           UncaughtIsShown
  <2>3. MonitorInv' /\ MonitorTypeOK' /\ EmitTypeOK'
    BY <1>7, TrafficKeepsMonitor, TrafficKeepsTypes DEF EmitInv
  <2>. QED
    BY <2>2, <2>3
<1>8. CASE Elsewhere /\ UNCHANGED <<monitor, process, emitting, crashing>>
  <2>1. MonitorTypeOK' /\ EmitTypeOK' /\ MonitorInv' /\ EmitInv'
    BY <1>8, TypeOKByParts
       DEF monitor, process, emitting, MonitorTypeOK, EmitTypeOK, MonitorInv, Ordered,
           SinkFollows, OneRuns, BoxOfLive, SettingsFollow, FlagsFollow, Live, Off, Closing,
           Opening, EmitInv, SendersHoldSink, EventsBehind, CalmEvents
  <2>2. HooksInv' /\ CrashInv'
    BY <1>8, HooksKeepCrash DEF emitting, crashing
  <2>. QED
    BY <2>1, <2>2
<1>. QED
  BY <1>1, <1>2, <1>3, <1>4, <1>5, <1>6, <1>7, <1>8 DEF Next

\* How far init() or close() has come decides which transport is fed, which one runs and
\* whose settings are in force, at every moment of every thread.
THEOREM MonitorLifecycleInvariant == Spec => []IInv
  BY InitIInv, NextIInv, PTL DEF Spec

\* A transport that is set to receive events exists, a previous handler is saved exactly
\* while our hook counts as installed, and only a thread whose exception is in our handler
\* is captured by it.
THEOREM MonitorLifecycleTyped == Spec => []TypeOK
<1>1. IInv => TypeOK
  BY DEF IInv
<1>. QED
  BY <1>1, MonitorLifecycleInvariant, PTL

\* However often the monitor is closed, initialised again and forked under capturing
\* threads, no event is left to a thread that is gone, nor sent by parent and child.
THEOREM MonitorLifecycleDelivers == Spec => []BufferedIsDelivered
<1>1. IInv => BufferedIsDelivered
  <2>. SUFFICES ASSUME IInv, NEW b \in box PROVE b.own /\ transports[b.to] = "running"
    BY DEF IInv, EmitInv, BufferedIsDelivered
  <2>. QED
    BY DEF IInv, TypeOK, MonitorInv, BoxOfLive, OneRuns
<1>. QED
  BY <1>1, MonitorLifecycleInvariant, PTL

\* No event mixes the settings of two monitors, nor runs ahead of its transport.
THEOREM MonitorLifecycleMatches == Spec => []EventsMatchTheirInit
<1>1. IInv => EventsMatchTheirInit
  BY DEF IInv, EmitInv, EventsBehind, CalmEvents, EventsMatchTheirInit
<1>. QED
  BY <1>1, MonitorLifecycleInvariant, PTL

\* An uncaught exception is shown, whoever installs and uninstalls hooks around it.
THEOREM MonitorLifecycleShowsUncaught == Spec => []UncaughtIsShown
<1>1. IInv => UncaughtIsShown
  BY DEF IInv, CrashInv
<1>. QED
  BY <1>1, MonitorLifecycleInvariant, PTL

\* After close() nothing of ours is left in a slot the other SDK has left.
THEOREM MonitorLifecycleLeavesNothing == Spec => []ClosedLeavesNothing
<1>1. IInv => ClosedLeavesNothing
  BY DEF IInv, HooksInv, HooksTypeOK, Tidy, Stacks, ClosedLeavesNothing, Slots
<1>. QED
  BY <1>1, MonitorLifecycleInvariant, PTL

\* Another SDK that has hooked the threads still runs, whatever we install and restore.
THEOREM MonitorLifecycleOthersRun == Spec => []OthersStillRun
<1>1. ASSUME IInv, NEW s \in Threads, otherPrev[s] # "none" PROVE "other" \in Chain(s)
  <2>1. active[s] = "other" \/ (active[s] = "onelo" /\ prev[s] = "other")
    BY <1>1 DEF IInv, HooksInv, OthersSaved, Slots
  <2>2. s \notin Loops
    BY SlotsAssumption
  <2>3. active[s] = "onelo" => Calls(s, active[s]) = prev[s]
    BY <2>2 DEF Calls
  <2>. QED
    BY <2>1, <2>3 DEF Chain
<1>2. IInv => OthersStillRun
  BY <1>1 DEF OthersStillRun, Runs
<1>. QED
  BY <1>2, MonitorLifecycleInvariant, PTL
=============================================================================
