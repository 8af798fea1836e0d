----------------------------- MODULE PollingSync -----------------------------
(***************************************************************************)
(* The polling strategy: PollingConsumer on the backend thread's loop,     *)
(* composed with the application threads of IdentityCache and an external  *)
(* server.  Callbacks run only while the consumer awaits; between a        *)
(* response and the interval wait its code is one step of the loop.        *)
(***************************************************************************)
EXTENDS IdentityCache

VARIABLES
  pollPc,   \* "top" | "asking" | "sent" | "waiting" | "done"
  request,  \* what _poll_once bound: generation, since_version, user
  answer,   \* the server's answer on its way back, or NoAnswer
  wake,     \* PollingConsumer._wake
  stop      \* PollingConsumer._stop

pollVars == <<pollPc, request, answer, wake, stop>>
vars == <<sharedVars, pollVars>>

Requests == [gen : Nat, since : 0..MaxVersion, user : Users]
NoAnswer == [kind |-> "none", user |-> Anonymous, version |-> 1]
Awaiting == pollPc \in {"sent", "waiting"}

TypeOK ==
  /\ SharedTypeOK
  /\ pollPc \in {"top", "asking", "sent", "waiting", "done"}
  /\ request \in Requests
  /\ answer \in Answers \cup {NoAnswer}
  /\ wake \in BOOLEAN /\ stop \in BOOLEAN

Init ==
  /\ SharedInit
  /\ pollPc = "top"
  /\ request = [gen |-> 0, since |-> 0, user |-> Anonymous]
  /\ answer = NoAnswer
  /\ wake = FALSE /\ stop = FALSE

(***************************************************************************)
(* The consumer                                                            *)
(***************************************************************************)
\* while not stop: _poll_once() starts by binding generation and version
StartPoll ==
  /\ pollPc = "top" /\ ~stop
  /\ request' = [request EXCEPT !.gen = RequestView.gen, !.since = RequestView.since]
  /\ pollPc' = "asking"
  /\ UNCHANGED <<sharedVars, answer, wake, stop>>

\* then reads the user, which waits for _user_id_lock, and sends
ReadUser ==
  /\ pollPc = "asking" /\ userLock = NoThread
  /\ request' = [request EXCEPT !.user = userId]
  /\ pollPc' = "sent"
  /\ UNCHANGED <<sharedVars, answer, wake, stop>>

\* Mutant: the wake event is cleared before the wait instead of after it.
ReceiveClearsWake ==
  /\ pollPc = "sent" /\ answer # NoAnswer
  /\ IF answer.kind = "snapshot"
     THEN CacheApply(request.gen, answer.user, answer.version)
     ELSE CacheConfirm(request.gen)
  /\ answer' = NoAnswer /\ wake' = FALSE
  /\ pollPc' = "waiting"
  /\ UNCHANGED <<identityVars, mailbox, serverVersion, request, stop>>

\* 200 with features: apply; 304 or up_to_date: confirm
ReceiveAnswer ==
  /\ pollPc = "sent" /\ answer # NoAnswer
  /\ \/ /\ answer.kind = "snapshot"
        /\ CacheApply(request.gen, answer.user, answer.version)
     \/ /\ answer.kind = "up_to_date"
        /\ CacheConfirm(request.gen)
  /\ answer' = NoAnswer
  /\ pollPc' = "waiting"
  /\ UNCHANGED <<identityVars, mailbox, serverVersion, request, wake, stop>>

\* httpx.HTTPError, a body that is no snapshot, 401 or 5xx: logged, next interval
PollFails ==
  /\ pollPc = "sent"
  /\ answer' = NoAnswer
  /\ pollPc' = "waiting"
  /\ UNCHANGED <<sharedVars, request, wake, stop>>

\* wait_for(wake.wait(), interval) ends by the event ...
Woken ==
  /\ pollPc = "waiting" /\ wake
  /\ wake' = FALSE
  /\ pollPc' = "top"
  /\ UNCHANGED <<sharedVars, request, answer, stop>>

\* ... or by the timeout; either way the event is cleared
IntervalElapses ==
  /\ pollPc = "waiting" /\ ~wake
  /\ pollPc' = "top"
  /\ UNCHANGED <<sharedVars, request, answer, wake, stop>>

\* _stop seen at the top of the loop: run() returns and the thread closes the loop
Exit ==
  /\ pollPc = "top" /\ stop
  /\ pollPc' = "done"
  /\ loop' = "closed"
  /\ UNCHANGED <<identityVars, cacheVars, posted, stopPosted, closed,
                 serverVersion, request, answer, wake, stop>>

(***************************************************************************)
(* Callbacks posted by other threads                                       *)
(***************************************************************************)
PollNow ==
  /\ posted > 0 /\ Awaiting
  /\ posted' = posted - 1
  /\ wake' = TRUE
  /\ UNCHANGED <<identityVars, cacheVars, stopPosted, closed, loop,
                 serverVersion, pollPc, request, answer, stop>>

ConsumerStop ==
  /\ stopPosted /\ Awaiting
  /\ stopPosted' = FALSE
  /\ stop' = TRUE /\ wake' = TRUE
  /\ UNCHANGED <<identityVars, cacheVars, posted, closed, loop,
                 serverVersion, pollPc, request, answer>>

(***************************************************************************)
(* The server (external)                                                   *)
(***************************************************************************)
ServerAnswers ==
  /\ pollPc = "sent" /\ answer = NoAnswer
  /\ answer' = Answer(request.user, request.since)
  /\ UNCHANGED <<sharedVars, pollPc, request, wake, stop>>

ConfigChange ==
  /\ serverVersion < MaxVersion
  /\ serverVersion' = serverVersion + 1
  /\ UNCHANGED <<identityVars, cacheVars, mailbox, pollVars>>

Consumer == StartPoll \/ ReadUser \/ ReceiveAnswer \/ PollFails
            \/ Woken \/ IntervalElapses \/ Exit
Callbacks == PollNow \/ ConsumerStop
Server == ServerAnswers \/ ConfigChange

Next == (Application /\ UNCHANGED pollVars) \/ Consumer \/ Callbacks \/ Server

(***************************************************************************)
(* Fairness: every thread keeps running, request_timeout ends every        *)
(* request, asyncio runs each posted callback once the consumer has        *)
(* awaited (strong: the consumer leaves its awaits again and again), and   *)
(* the network does not lose every request or answer for ever.  Nothing    *)
(* obliges a request to fail or the configuration to change.               *)
(***************************************************************************)
IdentifyProgress ==
  \A t \in Threads : WF_vars((BeginIdentity(t) \/ SignalUserChange(t)) /\ UNCHANGED pollVars)
LoopProgress ==
  /\ WF_vars(StartPoll) /\ WF_vars(ReadUser) /\ WF_vars(Woken) /\ WF_vars(Exit)
  /\ WF_vars(ReceiveAnswer \/ PollFails)
  /\ SF_vars(PollNow) /\ SF_vars(ConsumerStop)
NetworkRecovers == SF_vars(ServerAnswers) /\ SF_vars(ReceiveAnswer)
IntervalProgress == WF_vars(IntervalElapses)

SafetySpec == Init /\ [][Next]_vars
Spec == SafetySpec /\ IdentifyProgress /\ LoopProgress /\ NetworkRecovers /\ IntervalProgress

(***************************************************************************)
(* Safety                                                                  *)
(***************************************************************************)
\* A request of the current generation asks for the current user, and names a
\* version only if it is the one whose snapshot that user's cache holds: the
\* server can never answer "up to date" about another user's snapshot.
RequestIsConsistent ==
  pollPc = "sent" /\ request.gen = generation /\ userLock = NoThread =>
    /\ request.user = userId
    /\ request.since > 0 => features = userId /\ request.since = configVersion

\* A consumer that last asked for a previous identity is always about to ask again:
\* the wake event is set, or on its way from identify().  Otherwise the new identity
\* would wait out the poll interval (poll_now, #739).
StaleRequestIsSignalled ==
  pollPc \in {"sent", "waiting"} /\ request.gen # generation =>
    \/ wake \/ posted > 0
    \/ \E t \in Threads : callPc[t] = "signalling"

(***************************************************************************)
(* Refinement                                                              *)
(***************************************************************************)
\* Polling implements the snapshot of one identity at a time, whatever the
\* interleaving of identify(), answers and failures.
Snapshot == INSTANCE IdentitySnapshot WITH
  identity <- bound, shown <- features, version <- configVersion
ImplementsSnapshot == Snapshot!Spec

(***************************************************************************)
(* Liveness                                                                *)
(***************************************************************************)
\* Once the application settles on an identity, its snapshot at the server's
\* current configuration is what feature() reads, and ready() is true.
SettlesOnCurrent ==
  <>[](closed \/ (ready /\ features = userId /\ configVersion = serverVersion))
=============================================================================
