-------------------------- MODULE MonitorTransport --------------------------
(***************************************************************************)
(* monitor/_transport.py: application threads append events to a bounded   *)
(* buffer; the loop of a daemon thread drains it in batches, on a timer,   *)
(* at once after an error, for flush() and a last time on stop(); the      *)
(* atexit hook posts synchronously whatever the loop left.                 *)
(*                                                                         *)
(* An event is the number of the send() call that queued it.  The clock is *)
(* abstracted: the flush interval, the hold-off window and the timeouts of *)
(* flush() may end at any moment; holdOff is now < _retry_after_until.     *)
(***************************************************************************)
EXTENDS Naturals, Sequences, FiniteSets, SequencesExt

CONSTANTS Senders,      \* threads that capture events
          Flushers,     \* threads that call monitor.flush(), once each
          Main,         \* the flush task of _loop_main
          AtExit,       \* the flush task of _atexit_drain
          Capacity,     \* buffer_size
          MaxAttempts,  \* MAX_RETRY_ATTEMPTS
          MaxEvents,    \* bound: calls of send()
          Urgent        \* the events that are errors

Events == 1..MaxEvents

ASSUME TasksAssumption ==
  Main # AtExit /\ Main \notin Flushers /\ AtExit \notin Flushers
ASSUME SizesAssumption ==
  /\ Capacity \in Nat \ {0} /\ MaxAttempts \in Nat \ {0} /\ MaxEvents \in Nat
  /\ Urgent \subseteq Events

Callers == Flushers \cup {AtExit}
Tasks == Callers \cup {Main}

VARIABLES
  buffer,      \* _buffer, oldest first
  sent,        \* events queued so far
  evicted,     \* the ones pushed out of a full buffer
  settled,     \* the ones a batch is done with: accepted, refused or given up
  dropped,     \* _dropped
  reported,    \* _dropped_reported
  owed,        \* history: the drops counted when stop() was called
  sendPc,      \* where each sender stands in send()
  wakePosted,  \* _wake_event_set callbacks posted and not yet run
  wake,        \* _wake
  stopPc,      \* where stop() stands; past "idle", _stopping is set
  holdOff,     \* the Retry-After or quota window is open
  loop,        \* where _loop_main and its thread stand
  taskPc,      \* where each task stands in _do_flush
  flushLock,   \* the tasks inside _flush_lock
  batch,       \* what each task is sending
  attempt,     \* its attempt
  asked,       \* history: events queued when flush() was called
  exitPc,      \* where the interpreter's exit stands
  exitBatch    \* what _sync_post is sending

bufferVars == <<buffer, sent, evicted, dropped, reported, owed>>
wakeVars   == <<wakePosted, wake>>
taskVars   == <<taskPc, flushLock, batch, attempt>>
exitVars   == <<exitPc, exitBatch>>
vars == <<bufferVars, settled, sendPc, wakeVars, stopPc, holdOff, loop,
          taskVars, asked, exitVars>>

Running == loop \in {"waiting", "flushing", "final", "closing"}
Stopping == stopPc # "idle"
InFlight == UNION {ToSet(batch[x]) : x \in Tasks}

TypeOK ==
  /\ buffer \in Seq(Events) /\ Len(buffer) <= Capacity
  /\ sent \in 0..MaxEvents
  /\ evicted \subseteq Events /\ settled \subseteq Events
  /\ dropped = Cardinality(evicted) /\ reported \in 0..dropped /\ owed \in 0..dropped
  /\ sendPc \in [Senders -> {"idle", "check", "running", "post", "raised"}]
  /\ wakePosted \in Nat /\ wake \in BOOLEAN
  /\ stopPc \in {"idle", "set", "joining"}
  /\ holdOff \in BOOLEAN
  /\ loop \in {"waiting", "flushing", "final", "closing", "closed", "gone"}
  /\ taskPc \in [Tasks -> {"off", "gate", "queued", "sending", "backoff", "done", "held"}]
  /\ flushLock \subseteq Tasks
  /\ batch \in [Tasks -> Seq(Events)]
  /\ attempt \in [Tasks -> 1..MaxAttempts]
  /\ asked \in [Callers -> 0..MaxEvents]
  /\ exitPc \in {"no", "flushing", "posting", "dead"}
  /\ exitBatch \in Seq(Events)

Init ==
  /\ buffer = <<>> /\ sent = 0 /\ evicted = {} /\ settled = {}
  /\ dropped = 0 /\ reported = 0 /\ owed = 0
  /\ sendPc = [s \in Senders |-> "idle"]
  /\ wakePosted = 0 /\ wake = FALSE
  /\ stopPc = "idle"
  /\ holdOff = FALSE
  /\ loop = "waiting"
  /\ taskPc = [x \in Tasks |-> "off"]
  /\ flushLock = {}
  /\ batch = [x \in Tasks |-> <<>>]
  /\ attempt = [x \in Tasks |-> 1]
  /\ asked = [c \in Callers |-> 0]
  /\ exitPc = "no" /\ exitBatch = <<>>

(***************************************************************************)
(* send()                                                                  *)
(***************************************************************************)
\* Mutant: a deque without maxlen.
SendUnbounded(s) ==
  /\ sendPc[s] = "idle" /\ sent < MaxEvents
  /\ sent' = sent + 1 /\ buffer' = Append(buffer, sent + 1)
  /\ UNCHANGED <<evicted, dropped, reported, owed, sendPc, settled, wakeVars, stopPc,
                 holdOff, loop, taskVars, asked, exitVars>>

\* Mutant: a full buffer drops its newest event.
SendEvictsNewest(s) ==
  /\ sendPc[s] = "idle" /\ sent < MaxEvents
  /\ sent' = sent + 1
  /\ IF Len(buffer) = Capacity
     THEN /\ buffer' = Append(Front(buffer), sent + 1)
          /\ evicted' = evicted \cup {Last(buffer)}
          /\ dropped' = dropped + 1
     ELSE /\ buffer' = Append(buffer, sent + 1)
          /\ UNCHANGED <<evicted, dropped>>
  /\ sendPc' = [sendPc EXCEPT ![s] = IF sent + 1 \in Urgent THEN "check" ELSE "idle"]
  /\ UNCHANGED <<reported, owed, settled, wakeVars, stopPc, holdOff, loop,
                 taskVars, asked, exitVars>>

\* Under _lock: a full deque drops its oldest event and the drop is counted.
Send(s) ==
  /\ sendPc[s] = "idle" /\ sent < MaxEvents
  /\ sent' = sent + 1
  /\ IF Len(buffer) = Capacity
     THEN /\ buffer' = Append(Tail(buffer), sent + 1)
          /\ evicted' = evicted \cup {Head(buffer)}
          /\ dropped' = dropped + 1
     ELSE /\ buffer' = Append(buffer, sent + 1)
          /\ UNCHANGED <<evicted, dropped>>
  /\ sendPc' = [sendPc EXCEPT ![s] = IF sent + 1 \in Urgent THEN "check" ELSE "idle"]
  /\ UNCHANGED <<reported, owed, settled, wakeVars, stopPc, holdOff, loop,
                 taskVars, asked, exitVars>>

SendStep(s, from, to) ==
  /\ sendPc[s] = from
  /\ sendPc' = [sendPc EXCEPT ![s] = to]
  /\ UNCHANGED <<bufferVars, settled, wake, stopPc, holdOff, loop,
                 taskVars, asked, exitVars>>

\* self._loop is not None
SendCheck(s) ==
  /\ SendStep(s, "check", IF loop = "gone" THEN "idle" ELSE "running")
  /\ UNCHANGED wakePosted

\* self._loop.is_running(), outside the try: AttributeError once it is None
SendRunning(s) ==
  /\ SendStep(s, "running", IF Running THEN "post"
                            ELSE IF loop = "gone" THEN "raised" ELSE "idle")
  /\ UNCHANGED wakePosted

\* self._loop.call_soon_threadsafe(): only RuntimeError is caught
SendPost(s) ==
  /\ SendStep(s, "post", IF loop = "gone" THEN "raised" ELSE "idle")
  /\ wakePosted' = IF Running THEN wakePosted + 1 ELSE wakePosted

(***************************************************************************)
(* _do_flush() and _send_batch_with_retry(), for any task                  *)
(***************************************************************************)
\* Mutant: the drops are reported in the loop's rounds, not after the last drain.
FinishReportsInRounds(x, how) ==
  /\ flushLock' = flushLock \ {x}
  /\ batch' = [batch EXCEPT ![x] = <<>>]
  /\ attempt' = [attempt EXCEPT ![x] = 1]
  /\ IF x # Main
     THEN /\ taskPc' = [taskPc EXCEPT ![x] = how]
          /\ UNCHANGED <<loop, reported>>
     ELSE /\ loop' = IF loop = "final" THEN "closing"
                     ELSE IF Stopping THEN "final" ELSE "waiting"
          /\ taskPc' = [taskPc EXCEPT ![x] = IF loop' = "final" THEN "gate" ELSE "off"]
          /\ reported' = IF loop = "final" THEN reported ELSE dropped

\* The task is over.  Main reports the events dropped since its last report and
\* goes round its loop; a caller of flush() is told.
Finish(x, how) ==
  /\ flushLock' = flushLock \ {x}
  /\ batch' = [batch EXCEPT ![x] = <<>>]
  /\ attempt' = [attempt EXCEPT ![x] = 1]
  /\ IF x # Main
     THEN /\ taskPc' = [taskPc EXCEPT ![x] = how]
          /\ UNCHANGED <<loop, reported>>
     ELSE /\ reported' = dropped
          /\ loop' = IF loop = "final" THEN "closing"
                     ELSE IF Stopping THEN "final" ELSE "waiting"
          /\ taskPc' = [taskPc EXCEPT ![x] = IF loop' = "final" THEN "gate" ELSE "off"]

TaskUnchanged ==
  UNCHANGED <<sent, evicted, dropped, owed, sendPc, wakeVars, stopPc, asked, exitVars>>

\* An open hold-off window ends the flush before it asks for the lock.
Gate(x) ==
  /\ Running /\ taskPc[x] = "gate"
  /\ \/ holdOff /\ Finish(x, "held")
     \/ /\ ~holdOff
        /\ taskPc' = [taskPc EXCEPT ![x] = "queued"]
        /\ UNCHANGED <<flushLock, batch, attempt, loop, reported>>
  /\ TaskUnchanged /\ UNCHANGED <<buffer, settled, holdOff>>

TakesBatch(x) ==
  /\ buffer # <<>>
  /\ flushLock' = flushLock \cup {x}
  /\ batch' = [batch EXCEPT ![x] = buffer]
  /\ taskPc' = [taskPc EXCEPT ![x] = "sending"]
  /\ UNCHANGED <<attempt, loop, reported>>

\* Mutant: the batch is copied and the buffer not cleared.
DrainKeepsBuffer(x) ==
  /\ Running /\ taskPc[x] = "queued" /\ flushLock = {}
  /\ (buffer = <<>> /\ Finish(x, "done")) \/ TakesBatch(x)
  /\ TaskUnchanged /\ UNCHANGED <<buffer, settled, holdOff>>

\* Mutant: an empty buffer is returned on before the lock is awaited.
DrainLooksFirst(x) ==
  /\ Running /\ taskPc[x] = "queued"
  /\ (buffer = <<>> /\ Finish(x, "done")) \/ (flushLock = {} /\ TakesBatch(x))
  /\ buffer' = <<>>
  /\ TaskUnchanged /\ UNCHANGED <<settled, holdOff>>

\* Holding _flush_lock, take the whole buffer under _lock.
Drain(x) ==
  /\ Running /\ taskPc[x] = "queued" /\ flushLock = {}
  /\ (buffer = <<>> /\ Finish(x, "done")) \/ TakesBatch(x)
  /\ buffer' = <<>>
  /\ TaskUnchanged /\ UNCHANGED <<settled, holdOff>>

\* 2xx or 4xx: the batch is done.  429, or a quota of 0, may open the window.
Answered(x) ==
  /\ Running /\ taskPc[x] = "sending"
  /\ settled' = settled \cup ToSet(batch[x])
  /\ holdOff' \in {holdOff, TRUE}
  /\ Finish(x, "done")
  /\ TaskUnchanged /\ UNCHANGED buffer

\* network error, 5xx or a closed client: sleep before the next attempt ...
Failed(x) ==
  /\ Running /\ taskPc[x] = "sending" /\ attempt[x] < MaxAttempts
  /\ taskPc' = [taskPc EXCEPT ![x] = "backoff"]
  /\ TaskUnchanged
  /\ UNCHANGED <<buffer, reported, settled, flushLock, batch, attempt, loop, holdOff>>

\* ... or, after the last one, drop the batch
GivesUp(x) ==
  /\ Running /\ taskPc[x] = "sending" /\ attempt[x] = MaxAttempts
  /\ settled' = settled \cup ToSet(batch[x])
  /\ Finish(x, "done")
  /\ TaskUnchanged /\ UNCHANGED <<buffer, holdOff>>

Retry(x) ==
  /\ Running /\ taskPc[x] = "backoff"
  /\ taskPc' = [taskPc EXCEPT ![x] = "sending"]
  /\ attempt' = [attempt EXCEPT ![x] = @ + 1]
  /\ TaskUnchanged
  /\ UNCHANGED <<buffer, reported, settled, flushLock, batch, loop, holdOff>>

HoldOffEnds ==
  /\ holdOff /\ holdOff' = FALSE
  /\ UNCHANGED <<bufferVars, settled, sendPc, wakeVars, stopPc, loop,
                 taskVars, asked, exitVars>>

(***************************************************************************)
(* _loop_main() and _thread_main()                                         *)
(***************************************************************************)
\* wait_for(wake.wait(), interval) is over: clear the event, then the last
\* drain or a flush
AfterWait ==
  /\ wake' = FALSE
  /\ loop' = IF Stopping THEN "final" ELSE "flushing"
  /\ taskPc' = [taskPc EXCEPT ![Main] = "gate"]
  /\ UNCHANGED <<bufferVars, settled, sendPc, wakePosted, stopPc, holdOff,
                 flushLock, batch, attempt, asked, exitVars>>

Woken == loop = "waiting" /\ wake /\ AfterWait
IntervalElapses == loop = "waiting" /\ ~wake /\ AfterWait

\* Mutant: only a loop that is already waiting is woken.
NotifyWaiter ==
  /\ Running /\ wakePosted > 0
  /\ wakePosted' = wakePosted - 1
  /\ wake' = (wake \/ loop = "waiting")
  /\ UNCHANGED <<bufferVars, settled, sendPc, stopPc, holdOff, loop,
                 taskVars, asked, exitVars>>

WakeCallback ==
  /\ Running /\ wakePosted > 0
  /\ wakePosted' = wakePosted - 1
  /\ wake' = TRUE
  /\ UNCHANGED <<bufferVars, settled, sendPc, stopPc, holdOff, loop,
                 taskVars, asked, exitVars>>

\* the client is closed, then the loop, then self._loop is None again
Teardown ==
  /\ \/ loop = "closing" /\ loop' = "closed"
     \/ loop = "closed" /\ loop' = "gone"
  /\ UNCHANGED <<bufferVars, settled, sendPc, wakeVars, stopPc, holdOff,
                 taskVars, asked, exitVars>>

(***************************************************************************)
(* flush(), stop() and the atexit hook                                     *)
(***************************************************************************)
\* flush() posts its task to a running loop, else it returns at once
PostFlush(c) ==
  /\ taskPc[c] = "off"
  /\ taskPc' = [taskPc EXCEPT ![c] = IF Running THEN "gate" ELSE "held"]
  /\ asked' = [asked EXCEPT ![c] = sent]
  /\ UNCHANGED <<bufferVars, settled, sendPc, wakeVars, stopPc, holdOff,
                 loop, flushLock, batch, attempt>>

FlushCall(f) == f \in Flushers /\ PostFlush(f) /\ UNCHANGED exitVars

\* stop(): set _stopping ...
StopSets ==
  /\ stopPc = "idle" /\ loop # "gone"
  /\ stopPc' = "set" /\ owed' = dropped
  /\ UNCHANGED <<buffer, sent, evicted, dropped, reported, settled, sendPc,
                 wakeVars, holdOff, loop, taskVars, asked, exitVars>>

\* ... then wake the loop
StopWakes ==
  /\ stopPc = "set" /\ stopPc' = "joining"
  /\ wakePosted' = IF Running THEN wakePosted + 1 ELSE wakePosted
  /\ UNCHANGED <<bufferVars, settled, sendPc, wake, holdOff, loop,
                 taskVars, asked, exitVars>>

ExitBegins ==
  /\ exitPc = "no" /\ exitPc' = "flushing"
  /\ PostFlush(AtExit)
  /\ UNCHANGED exitBatch

\* Mutant: no synchronous fallback after flush().
ExitTrustsFlush ==
  /\ exitPc = "flushing" /\ exitPc' = "dead"
  /\ UNCHANGED <<bufferVars, settled, sendPc, wakeVars, stopPc, holdOff,
                 loop, taskVars, asked, exitBatch>>

\* flush() is back, done or timed out: take what is still buffered; when nothing
\* is left the process ends
ExitTakes ==
  /\ exitPc = "flushing"
  /\ exitPc' = IF buffer = <<>> THEN "dead" ELSE "posting"
  /\ exitBatch' = buffer
  /\ buffer' = <<>>
  /\ UNCHANGED <<sent, evicted, dropped, reported, owed, settled, sendPc, wakeVars,
                 stopPc, holdOff, loop, taskVars, asked>>

\* _sync_post: failures are swallowed
ExitPosts ==
  /\ exitPc = "posting" /\ exitPc' = "dead"
  /\ settled' = settled \cup ToSet(exitBatch)
  /\ exitBatch' = <<>>
  /\ UNCHANGED <<bufferVars, sendPc, wakeVars, stopPc, holdOff, loop,
                 taskVars, asked>>

(***************************************************************************)
(* reinit_after_fork(), from here on in the child: its one thread is in    *)
(* none of these calls; buffer, counters, window, locks, loop and thread   *)
(* are new, and so is its count of events: it starts where Init does.  A   *)
(* transport that is stopping or stopped is in the hands of close().       *)
(***************************************************************************)
Fork ==
  /\ ~Stopping /\ exitPc = "no"
  /\ buffer' = <<>> /\ sent' = 0 /\ evicted' = {} /\ settled' = {}
  /\ dropped' = 0 /\ reported' = 0 /\ owed' = 0
  /\ sendPc' = [s \in Senders |-> "idle"]
  /\ wakePosted' = 0 /\ wake' = FALSE /\ holdOff' = FALSE /\ loop' = "waiting"
  /\ taskPc' = [x \in Tasks |-> "off"] /\ flushLock' = {}
  /\ batch' = [x \in Tasks |-> <<>>] /\ attempt' = [x \in Tasks |-> 1]
  /\ asked' = [c \in Callers |-> 0]
  /\ UNCHANGED <<stopPc, exitVars>>

Sending == \E s \in Senders : Send(s) \/ SendCheck(s) \/ SendRunning(s) \/ SendPost(s)
Flushing == \E x \in Tasks : \/ Gate(x) \/ Drain(x) \/ Answered(x)
                             \/ Failed(x) \/ GivesUp(x) \/ Retry(x)
Loop == Woken \/ IntervalElapses \/ WakeCallback \/ Teardown \/ HoldOffEnds
Calls == (\E f \in Flushers : FlushCall(f)) \/ StopSets \/ StopWakes
Exit == ExitBegins \/ ExitTakes \/ ExitPosts

\* A dead process takes no step: a batch in flight dies with the daemon thread.
Next == exitPc # "dead" /\ (Sending \/ Flushing \/ Loop \/ Calls \/ Exit \/ Fork)

(***************************************************************************)
(* Fairness: threads, tasks and callbacks run, request_timeout ends every  *)
(* POST and sleeps end.  asyncio.Lock is handed over in order of arrival;  *)
(* weak fairness of Drain, which is less, is enough here.  Nothing obliges *)
(* the interval or the hold-off window to end.                             *)
(***************************************************************************)
Alive(A) == exitPc # "dead" /\ A
SenderProgress ==
  \A s \in Senders : WF_vars(Alive(SendCheck(s) \/ SendRunning(s) \/ SendPost(s)))
TaskProgress ==
  \A x \in Tasks :
    WF_vars(Alive(\/ Gate(x) \/ Drain(x) \/ Answered(x)
                  \/ Failed(x) \/ GivesUp(x) \/ Retry(x)))
LoopProgress ==
  /\ WF_vars(Alive(Woken \/ Teardown)) /\ WF_vars(Alive(WakeCallback))
  /\ WF_vars(Alive(StopWakes))

SafetySpec == Init /\ [][Next]_vars
Spec == SafetySpec /\ SenderProgress /\ TaskProgress /\ LoopProgress
-----------------------------------------------------------------------------
\* Every queued event is in one place: waiting, in one batch, or done with.  None
\* is lost between the buffer and a batch, and none is drained twice.
EventsAccounted ==
  LET waiting == ToSet(buffer)
      leaving == InFlight \cup ToSet(exitBatch)
  IN /\ 1..sent = waiting \cup leaving \cup settled \cup evicted
     /\ Len(buffer) = Cardinality(waiting)
     /\ waiting \cap (leaving \cup settled \cup evicted) = {}
     /\ leaving \cap (settled \cup evicted) = {}
     /\ settled \cap evicted = {}

\* The loop sends one batch at a time (the flush lock), and events leave the buffer
\* oldest first: none is sent, and none pushed out of a full buffer, while an older
\* one is still waiting, whichever task drains.
OldestFirst ==
  /\ \A x, y \in Tasks : batch[x] # <<>> /\ batch[y] # <<>> => x = y
  /\ \A e \in InFlight \cup settled \cup evicted, b \in ToSet(buffer) : e < b

\* When a flush that no hold-off cut short is done, every event queued before the
\* call is done with; it does not return over a batch another task is sending.
FlushMeansSettled ==
  \A c \in Callers : taskPc[c] = "done" =>
    1..asked[c] \subseteq settled \cup evicted \cup ToSet(exitBatch)

\* An exit leaves nothing behind in the buffer that was queued before it began.
ExitDrainsBuffer ==
  exitPc = "dead" => \A e \in ToSet(buffer) : e > asked[AtExit]

\* An error does not wait for the flush interval: as long as it is buffered and the
\* loop runs, a wake-up is on its way from send(), posted, set, or already answered
\* by a flush of Main that has yet to drain.  An open hold-off window swallows
\* wake-ups; nothing else does.
WakeComing ==
  \/ \E s \in Senders : sendPc[s] \in {"check", "running", "post"}
  \/ wakePosted > 0 \/ wake
  \/ taskPc[Main] \in {"gate", "queued"}
  \/ ~Running
Answering(e) == e \in ToSet(buffer) => WakeComing
ErrorStaysSignalled ==
  [][\A e \in Urgent : ~holdOff /\ Answering(e) => Answering(e)']_vars

\* stop() ends the thread after its last drain, and by then every event that a full
\* buffer had dropped when it was called is reported.
StopEnds == Stopping ~> exitPc = "dead" \/ (loop = "gone" /\ reported >= owed)
=============================================================================
