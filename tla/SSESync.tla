------------------------------- MODULE SSESync -------------------------------
(***************************************************************************)
(* The default strategy: SSEConsumer on the backend thread's loop, its     *)
(* connection, its backoff and its zombie watchdog, composed with the      *)
(* application threads of IdentityCache and an external server that pushes *)
(* a frame at each change of its configuration.                            *)
(*                                                                         *)
(* The stream is what the server has sent and the consumer has not read.   *)
(* Time is abstracted: `silent` becomes true once no frame has come for    *)
(* STALE_THRESHOLD_SECONDS, which a live connection never allows because   *)
(* the server's keepalive comes every 30 seconds.                          *)
(***************************************************************************)
EXTENDS IdentityCache, Sequences

VARIABLES
  ssePc,   \* where run() stands
  conn,    \* what the connection is bound to: generation, since_version, user
  link,    \* the connection as the network has it
  stream,  \* frames sent and not yet read
  signal,  \* SSEConsumer._reconnect_signal
  stop,    \* SSEConsumer._stop
  silent   \* _last_event_at is older than STALE_THRESHOLD_SECONDS

sseVars == <<ssePc, conn, link, stream, signal, stop, silent>>
vars == <<sharedVars, sseVars>>

Connections == [gen : Nat, since : 0..MaxVersion, user : Users]
Awaiting == ssePc \in {"connecting", "open", "leaving", "backoff"}

TypeOK ==
  /\ SharedTypeOK
  /\ ssePc \in {"top", "asking", "connecting", "open", "leaving", "backoff", "done"}
  /\ conn \in Connections
  /\ link \in {"none", "dialing", "refused", "live", "stalled", "closed"}
  /\ stream \in Seq(Answers)
  /\ signal \in BOOLEAN /\ stop \in BOOLEAN /\ silent \in BOOLEAN

Init ==
  /\ SharedInit
  /\ ssePc = "top"
  /\ conn = [gen |-> 0, since |-> 0, user |-> Anonymous]
  /\ link = "none"
  /\ stream = <<>>
  /\ signal = FALSE /\ stop = FALSE /\ silent = FALSE

(***************************************************************************)
(* run() and _connect_and_consume()                                        *)
(***************************************************************************)
\* while not stop: bind the connection to a generation and its version
Connect ==
  /\ ssePc = "top" /\ ~stop
  /\ conn' = [conn EXCEPT !.gen = RequestView.gen, !.since = RequestView.since]
  /\ ssePc' = "asking"
  /\ UNCHANGED <<sharedVars, link, stream, signal, stop, silent>>

\* read the user (behind _user_id_lock), restart the staleness clock, dial
ReadUser ==
  /\ ssePc = "asking" /\ userLock = NoThread
  /\ conn' = [conn EXCEPT !.user = userId]
  /\ link' = "dialing"
  /\ stream' = <<>>
  /\ silent' = FALSE
  /\ ssePc' = "connecting"
  /\ UNCHANGED <<sharedVars, signal, stop>>

\* Mutant: the signal is cleared once connected, not before the next connect.
HeadersClearSignal ==
  /\ ssePc = "connecting" /\ link \in {"live", "closed"}
  /\ ssePc' = "open" /\ signal' = FALSE
  /\ UNCHANGED <<sharedVars, conn, link, stream, stop, silent>>

\* aconnect_sse returns once the response headers are in; neither stop nor the
\* reconnect signal is looked at before that
HeadersArrive ==
  /\ ssePc = "connecting" /\ link \in {"live", "closed"}
  /\ ssePc' = "open"
  /\ UNCHANGED <<sharedVars, conn, link, stream, signal, stop, silent>>

\* 401/403: terminal, the consumer ends and its thread closes the loop
Refused ==
  /\ ssePc = "connecting" /\ link = "refused"
  /\ ssePc' = "done" /\ loop' = "closed" /\ link' = "none"
  /\ UNCHANGED <<identityVars, cacheVars, posted, stopPosted, closed,
                 serverVersion, conn, stream, signal, stop, silent>>

\* an event wins the race only while neither stop nor the signal is set
NextFrame ==
  /\ ssePc = "open" /\ ~signal /\ ~stop /\ stream # <<>>
  /\ LET frame == Head(stream) IN
       \/ frame.kind = "snapshot" /\ CacheApply(conn.gen, frame.user, frame.version)
       \/ frame.kind = "up_to_date" /\ CacheConfirm(conn.gen)
  /\ stream' = Tail(stream)
  /\ silent' = FALSE
  /\ UNCHANGED <<identityVars, mailbox, serverVersion, ssePc, conn, link, signal, stop>>

\* the link is torn down; that it had stalled still counts for the clock
Leave ==
  /\ ssePc' = "leaving" /\ stream' = <<>>
  /\ link' = IF link = "stalled" THEN "stalled" ELSE "none"
  /\ UNCHANGED <<sharedVars, conn, signal, stop, silent>>

\* the signal, or stop, which sets it: unread frames are discarded
Abort == ssePc = "open" /\ signal /\ Leave

\* StopAsyncIteration: the server closed the stream and all of it was read
StreamEnds == ssePc = "open" /\ ~signal /\ link = "closed" /\ stream = <<>> /\ Leave

\* httpx.HTTPError while connecting or reading, a non-SSE response included
TransportFails == \/ ssePc = "connecting" /\ link # "stalled" /\ Leave
                  \/ ssePc = "open" /\ ~signal /\ Leave

\* after _connect_and_consume(): the signal skips the backoff and is cleared
Retry ==
  /\ ssePc = "leaving" /\ ~stop /\ signal
  /\ signal' = FALSE
  /\ ssePc' = "top"
  /\ UNCHANGED <<sharedVars, conn, link, stream, stop, silent>>

BackOff ==
  /\ ssePc = "leaving" /\ ~stop /\ ~signal
  /\ ssePc' = "backoff"
  /\ UNCHANGED <<sharedVars, conn, link, stream, signal, stop, silent>>

\* the backoff sleep waits on _stop alone
BackoffExpires ==
  /\ ssePc = "backoff" /\ ~stop
  /\ ssePc' = "top"
  /\ UNCHANGED <<sharedVars, conn, link, stream, signal, stop, silent>>

Exit ==
  /\ ssePc \in {"top", "leaving", "backoff"} /\ stop
  /\ ssePc' = "done" /\ loop' = "closed"
  /\ UNCHANGED <<identityVars, cacheVars, posted, stopPosted, closed,
                 serverVersion, conn, link, stream, signal, stop, silent>>

(***************************************************************************)
(* The watchdog task and the callbacks posted by other threads             *)
(***************************************************************************)
\* The clock: 90 seconds pass since the last frame or dial, in the backoff too.
\* A responsive server answers a handshake in less.
GoesSilent ==
  /\ Awaiting /\ ~silent /\ link = "stalled" /\ stream = <<>>
  /\ silent' = TRUE
  /\ UNCHANGED <<sharedVars, ssePc, conn, link, stream, signal, stop>>

\* Mutant: restarts the clock and reconnects nothing.
WatchdogOnlyLogs ==
  /\ Awaiting /\ silent /\ ~stop
  /\ silent' = FALSE
  /\ UNCHANGED <<sharedVars, ssePc, conn, link, stream, signal, stop>>

\* _healthcheck_loop: restart the clock and force a reconnect
Watchdog ==
  /\ Awaiting /\ silent /\ ~stop
  /\ silent' = FALSE /\ signal' = TRUE
  /\ UNCHANGED <<sharedVars, ssePc, conn, link, stream, stop>>

ForceReconnect ==
  /\ posted > 0 /\ Awaiting
  /\ posted' = posted - 1
  /\ signal' = TRUE
  /\ UNCHANGED <<identityVars, cacheVars, stopPosted, closed, loop, serverVersion,
                 ssePc, conn, link, stream, stop, silent>>

\* Mutant: stop() without the reconnect signal that ends the read.
StopWithoutSignal ==
  /\ stopPosted /\ Awaiting
  /\ stopPosted' = FALSE /\ stop' = TRUE
  /\ UNCHANGED <<identityVars, cacheVars, posted, closed, loop, serverVersion,
                 ssePc, conn, link, stream, signal, silent>>

ConsumerStop ==
  /\ stopPosted /\ Awaiting
  /\ stopPosted' = FALSE
  /\ stop' = TRUE /\ signal' = TRUE
  /\ UNCHANGED <<identityVars, cacheVars, posted, closed, loop, serverVersion,
                 ssePc, conn, link, stream, silent>>

(***************************************************************************)
(* The server and the network (external)                                   *)
(***************************************************************************)
ServerAccepts ==
  /\ link = "dialing"
  /\ link' = "live"
  /\ stream' = <<Answer(conn.user, conn.since)>>
  /\ UNCHANGED <<sharedVars, ssePc, conn, signal, stop, silent>>

ServerRefuses ==
  /\ link = "dialing"
  /\ link' = "refused"
  /\ UNCHANGED <<sharedVars, ssePc, conn, stream, signal, stop, silent>>

ServerCloses ==
  /\ link = "live"
  /\ link' = "closed"
  /\ UNCHANGED <<sharedVars, ssePc, conn, stream, signal, stop, silent>>

\* the peer vanishes without a reset: nothing sent from now on arrives
LinkStalls ==
  /\ \/ link = "live" /\ ssePc = "open"
     \/ link = "dialing"
  /\ link' = "stalled"
  /\ UNCHANGED <<sharedVars, ssePc, conn, stream, signal, stop, silent>>

ConfigChange ==
  /\ serverVersion < MaxVersion
  /\ serverVersion' = serverVersion + 1
  /\ stream' = IF link = "live"
               THEN Append(stream, [kind |-> "snapshot", user |-> conn.user,
                                    version |-> serverVersion + 1])
               ELSE stream
  /\ UNCHANGED <<identityVars, cacheVars, mailbox, ssePc, conn, link, signal, stop, silent>>

Consumer == \/ Connect \/ ReadUser \/ HeadersArrive \/ Refused \/ NextFrame
            \/ Abort \/ StreamEnds \/ TransportFails
            \/ Retry \/ BackOff \/ BackoffExpires \/ Exit
Callbacks == ForceReconnect \/ ConsumerStop \/ GoesSilent \/ Watchdog
Server == ServerAccepts \/ ServerRefuses \/ ServerCloses \/ LinkStalls \/ ConfigChange

Next == (Application /\ UNCHANGED sseVars) \/ Consumer \/ Callbacks \/ Server

(***************************************************************************)
(* Fairness.  Every thread and task keeps running and timers expire; a     *)
(* posted callback runs once the consumer awaits; a reachable server       *)
(* accepts again and again, and not every handshake or frame is lost.      *)
(* Breaks, closes and stalls are never required.                           *)
(***************************************************************************)
IdentifyProgress ==
  \A t \in Threads : WF_vars((BeginIdentity(t) \/ SignalUserChange(t)) /\ UNCHANGED sseVars)
LoopProgress ==
  /\ WF_vars(Connect) /\ WF_vars(ReadUser) /\ WF_vars(Refused)
  /\ WF_vars(NextFrame) /\ WF_vars(Abort) /\ WF_vars(StreamEnds)
  /\ WF_vars(Retry) /\ WF_vars(BackOff) /\ WF_vars(BackoffExpires) /\ WF_vars(Exit)
  /\ WF_vars(GoesSilent) /\ WF_vars(Watchdog)
  /\ SF_vars(ForceReconnect) /\ SF_vars(ConsumerStop)
NetworkRecovers ==
  SF_vars(ServerAccepts) /\ SF_vars(HeadersArrive) /\ SF_vars(NextFrame)

SafetySpec == Init /\ [][Next]_vars
Spec == SafetySpec /\ IdentifyProgress /\ LoopProgress /\ NetworkRecovers

(***************************************************************************)
(* Safety                                                                  *)
(***************************************************************************)
\* As for polling: a connection of the current generation is the current
\* user's, and named only a version whose snapshot that user's cache held.
ConnectionIsConsistent ==
  ssePc \in {"connecting", "open"} /\ conn.gen = generation /\ userLock = NoThread =>
    /\ conn.user = userId
    /\ conn.since > 0 => features = userId /\ configVersion >= conn.since

\* A connection bound to a previous identity is always about to be dropped: the
\* reconnect signal is set, or on its way from identify().  Otherwise the
\* consumer would go on streaming for the previous user.
StaleConnectionIsSignalled ==
  ssePc \in {"connecting", "open"} /\ conn.gen # generation =>
    \/ signal \/ posted > 0
    \/ \E t \in Threads : callPc[t] = "signalling"

Snapshot == INSTANCE IdentitySnapshot WITH
  identity <- bound, shown <- features, version <- configVersion
\* Streaming implements the snapshot of one identity at a time, through aborts,
\* reconnects, lost frames and late ones.
ImplementsSnapshot == Snapshot!Spec

(***************************************************************************)
(* Liveness                                                                *)
(***************************************************************************)
\* A handshake that is never answered: nothing in the code gives it up.
HandshakeStalled == ssePc = "connecting" /\ link = "stalled"

\* Once the application settles on an identity, its snapshot at the server's
\* current configuration is what feature() reads, unless the client is closed,
\* its key was refused or a handshake stalls.
SettlesOnCurrent ==
  <>[](\/ closed \/ loop = "closed" \/ HandshakeStalled
       \/ ready /\ features = userId /\ configVersion = serverVersion)

\* A stream on which nothing arrives for the threshold is replaced.
SilentStreamIsReplaced == (silent /\ ssePc = "open") ~> (ssePc # "open")

\* So is every silent connection, the module docstring says: "without this watchdog
\* the consumer would hang forever waiting for bytes that will never come".
SilenceForcesReconnect ==
  (silent /\ ssePc \in {"connecting", "open"}) ~> (ssePc \notin {"connecting", "open"})

\* close() ends the consumer and its loop, whatever the consumer awaits but a
\* handshake that stalls.
CloseStops == closed ~> (loop = "closed" \/ HandshakeStalled)
=============================================================================
