------------------------ MODULE MonitorTransportProofs ------------------------
(***************************************************************************)
(* Where each event of the transport is, in which order they leave, and    *)
(* what flush() and the exit hook promise, for any number of senders and   *)
(* of flush() callers, any buffer size and any number of events.           *)
(***************************************************************************)
EXTENDS MonitorTransport, FiniteSetTheorems, SequenceTheorems, TLAPS

(***************************************************************************)
(* The inductive invariant.  The buffer holds the latest events, without a *)
(* gap; what left it is in exactly one place; the task that holds the      *)
(* flush lock is the one with a batch, and its batch covers what is still  *)
(* missing of what its caller asked for.                                   *)
(***************************************************************************)
\* TypeOK but for the counters of drops, which Counters follows: the part about the
\* events and the part about where everybody stands.
DataTyped ==
  /\ buffer \in Seq(Events) /\ Len(buffer) <= Capacity
  /\ sent \in 0..MaxEvents
  /\ evicted \subseteq Events /\ settled \subseteq Events
  /\ dropped = Cardinality(evicted)
  /\ flushLock \subseteq Tasks
  /\ batch \in [Tasks -> Seq(Events)]
  /\ attempt \in [Tasks -> 1..MaxAttempts]
  /\ asked \in [Callers -> 0..MaxEvents]
  /\ exitBatch \in Seq(Events)

ControlTyped ==
  /\ sendPc \in [Senders -> {"idle", "check", "running", "post", "raised"}]
  /\ wakePosted \in Nat /\ wake \in BOOLEAN
  /\ stopPc \in {"idle", "set", "joining"}
  /\ holdOff \in BOOLEAN
  /\ loop \in {"waiting", "flushing", "final", "closing", "closed", "gone"}
  /\ taskPc \in [Tasks -> {"off", "gate", "queued", "sending", "backoff", "done", "held"}]
  /\ exitPc \in {"no", "flushing", "posting", "dead"}

Gone == sent - Len(buffer)

Contiguous ==
  /\ Len(buffer) <= sent
  /\ \A i \in 1..Len(buffer) : buffer[i] = Gone + i

Partition ==
  /\ InFlight \cup ToSet(exitBatch) \cup settled \cup evicted = 1..Gone
  /\ InFlight \cap ToSet(exitBatch) = {}
  /\ (InFlight \cup ToSet(exitBatch)) \cap (settled \cup evicted) = {}
  /\ settled \cap evicted = {}

Locked ==
  /\ \A x \in Tasks : x \in flushLock <=> batch[x] # <<>>
  /\ \A x \in Tasks : x \in flushLock <=> taskPc[x] \in {"sending", "backoff"}
  /\ \A x, y \in flushLock : x = y

TriesLeft == \A x \in Tasks : taskPc[x] = "backoff" => attempt[x] < MaxAttempts

MainInItsRound == loop \in {"flushing", "final"} <=> taskPc[Main] # "off"

PostsAlone == exitPc # "posting" => exitBatch = <<>>

Promised ==
  /\ \A c \in Callers : asked[c] <= sent
  /\ \A c \in Callers : taskPc[c] \in {"sending", "backoff"} =>
       1..asked[c] \subseteq settled \cup evicted \cup ToSet(exitBatch) \cup ToSet(batch[c])
  /\ FlushMeansSettled

ExitTookAll == exitPc \in {"posting", "dead"} => asked[AtExit] <= Gone

Typed == DataTyped /\ ControlTyped

Counters == reported \in 0..dropped /\ owed \in 0..dropped

IInv ==
  /\ Typed /\ Contiguous /\ Partition /\ Locked /\ TriesLeft /\ MainInItsRound
  /\ PostsAlone /\ Promised /\ ExitTookAll

-----------------------------------------------------------------------------
LEMMA ToSetOf ==
  ASSUME NEW S, NEW s \in Seq(S)
  PROVE  /\ Len(s) \in Nat /\ ToSet(s) = {s[i] : i \in 1..Len(s)} /\ ToSet(s) \subseteq S
         /\ (ToSet(s) = {} <=> s = <<>>)
<1>1. Len(s) \in Nat /\ DOMAIN s = 1..Len(s) /\ \A i \in 1..Len(s) : s[i] \in S
  BY ElementOfSeq, LenProperties
<1>2. s = <<>> <=> Len(s) = 0
  BY EmptySeq, <1>1
<1>3. ToSet(s) = {s[i] : i \in 1..Len(s)}
  BY <1>1 DEF ToSet
<1>4. ToSet(s) \subseteq S
  BY <1>1, <1>3
<1>5. Len(s) = 0 <=> 1..Len(s) = {}
  BY <1>1
<1>6. ToSet(s) = {} <=> s = <<>>
  BY <1>2, <1>3, <1>5
<1>7. QED
  BY <1>1, <1>3, <1>4, <1>6

\* The buffer holds exactly the latest events.
LEMMA BufferHoldsLatest ==
  ASSUME buffer \in Seq(Events), sent \in Nat, Contiguous
  PROVE  ToSet(buffer) = (Gone + 1)..sent /\ Len(buffer) \in Nat /\ Gone \in Nat
         /\ Len(buffer) = Cardinality(ToSet(buffer))
<1>1. /\ Len(buffer) \in Nat /\ ToSet(buffer) = {buffer[i] : i \in 1..Len(buffer)}
      /\ Gone \in Nat /\ Gone + Len(buffer) = sent
  BY ToSetOf DEF Gone, Contiguous
<1>2. ToSet(buffer) = (Gone + 1)..sent
  <2>1. \A e \in ToSet(buffer) : e \in (Gone + 1)..sent
    BY <1>1 DEF Contiguous
  <2>2. ASSUME NEW e \in (Gone + 1)..sent PROVE e \in ToSet(buffer)
    <3>1. e - Gone \in 1..Len(buffer) /\ Gone + (e - Gone) = e
      BY <1>1
    <3>2. QED
      BY <1>1, <3>1 DEF Contiguous
  <2>3. QED
    BY <2>1, <2>2
<1>3. Cardinality((Gone + 1)..sent) = Len(buffer)
  <2>1. Gone + 1 \in Int /\ sent \in Int
    BY <1>1
  <2>2. Cardinality((Gone + 1)..sent) =
          IF Gone + 1 > sent THEN 0 ELSE sent - (Gone + 1) + 1
    BY <2>1, FS_Interval
  <2>3. QED
    BY <2>2, <1>1
<1>4. QED
  BY <1>1, <1>2, <1>3

\* One batch is in flight at most, the lock holder's.
LEMMA InFlightIsTheHolders ==
  ASSUME batch \in [Tasks -> Seq(Events)], flushLock \subseteq Tasks, Locked
  PROVE  /\ flushLock = {} => InFlight = {}
         /\ \A x \in flushLock : InFlight = ToSet(batch[x])
<1>1. ToSet(<<>>) = {}
  BY DEF ToSet
<1>2. \A y \in Tasks : y \notin flushLock => ToSet(batch[y]) = {}
  BY <1>1 DEF Locked
<1>3. flushLock = {} => InFlight = {}
  BY <1>2 DEF InFlight
<1>4. ASSUME NEW x \in flushLock PROVE InFlight = ToSet(batch[x])
  <2>1. \A y \in Tasks : y # x => ToSet(batch[y]) = {}
    BY <1>2 DEF Locked
  <2>2. QED
    BY <2>1 DEF InFlight
<1>5. QED
  BY <1>3, <1>4

\* What the runs check follows from IInv.
LEMMA IInvImplies ==
  ASSUME IInv
  PROVE  EventsAccounted /\ OldestFirst /\ FlushMeansSettled /\ ExitDrainsBuffer
<1> USE SizesAssumption
<1>1. /\ buffer \in Seq(Events) /\ sent \in Nat /\ exitBatch \in Seq(Events)
      /\ batch \in [Tasks -> Seq(Events)] /\ flushLock \subseteq Tasks
      /\ Contiguous /\ Partition /\ Locked
  BY DEF IInv, Typed, DataTyped, ControlTyped
<1>2. ToSet(buffer) = (Gone + 1)..sent /\ Gone \in Nat
      /\ Len(buffer) = Cardinality(ToSet(buffer)) /\ Gone <= sent
  BY <1>1, BufferHoldsLatest, ToSetOf DEF Contiguous, Gone
<1>3. 1..sent = ToSet(buffer) \cup 1..Gone /\ ToSet(buffer) \cap 1..Gone = {}
  BY <1>1, <1>2
<1>4. EventsAccounted
  BY <1>2, <1>3, <1>1 DEF EventsAccounted, Partition
<1>5. \A x, y \in Tasks : batch[x] # <<>> /\ batch[y] # <<>> => x = y
  BY <1>1 DEF Locked
<1>6. \A e \in InFlight \cup settled \cup evicted, b \in ToSet(buffer) : e < b
  <2>1. InFlight \cup settled \cup evicted \subseteq 1..Gone
    BY <1>1 DEF Partition
  <2>2. \A e \in 1..Gone, b \in (Gone + 1)..sent : e < b
    BY <1>1, <1>2
  <2>3. QED
    BY <2>1, <2>2, <1>2
<1>7. ExitDrainsBuffer
  <2>1. ASSUME exitPc = "dead" PROVE \A b \in (Gone + 1)..sent : b > asked[AtExit]
    <3>1. asked[AtExit] \in Nat /\ asked[AtExit] <= Gone
      BY <2>1 DEF IInv, Typed, DataTyped, ControlTyped, Callers, ExitTookAll
    <3>2. QED
      BY <1>1, <1>2, <3>1
  <2>2. QED
    BY <2>1, <1>2 DEF ExitDrainsBuffer
<1>8. QED
  BY <1>4, <1>5, <1>6, <1>7 DEF IInv, Promised, OldestFirst

LEMMA InitIInv == Init => IInv
<1> SUFFICES ASSUME Init PROVE IInv
  OBVIOUS
<1> USE SizesAssumption DEF Init
<1>1. <<>> \in Seq(Events) /\ Len(<<>>) = 0 /\ ToSet(<<>>) = {}
  BY EmptySeq DEF ToSet
<1>2. InFlight = {}
  BY <1>1 DEF InFlight
<1>3. Cardinality({}) = 0
  BY FS_EmptySet
<1>4. Typed
  <2>1. /\ buffer \in Seq(Events) /\ Len(buffer) <= Capacity /\ sent \in 0..MaxEvents
        /\ evicted \subseteq Events /\ settled \subseteq Events
        /\ dropped = Cardinality(evicted)
    BY <1>1, <1>3
  <2>2. /\ wakePosted \in Nat /\ wake \in BOOLEAN /\ holdOff \in BOOLEAN
    OBVIOUS
  <2>3. /\ batch \in [Tasks -> Seq(Events)] /\ attempt \in [Tasks -> 1..MaxAttempts]
        /\ asked \in [Callers -> 0..MaxEvents] /\ exitBatch \in Seq(Events)
    BY <1>1
  <2>4. QED
    BY <2>1, <2>2, <2>3 DEF Typed, DataTyped, ControlTyped
<1>5. Contiguous /\ Partition
  BY <1>1, <1>2 DEF Contiguous, Partition, Gone
<1>6. Locked /\ TriesLeft /\ MainInItsRound /\ PostsAlone /\ ExitTookAll
  BY DEF Locked, TriesLeft, MainInItsRound, PostsAlone, ExitTookAll, Tasks
<1>7. Promised
  BY DEF Promised, FlushMeansSettled, Callers, Tasks
<1>8. QED
  BY <1>4, <1>5, <1>6, <1>7 DEF IInv

-----------------------------------------------------------------------------
LEMMA TypeParts == (Typed <=> DataTyped /\ ControlTyped)
                   /\ (Typed' <=> DataTyped' /\ ControlTyped')
<1>1. Typed <=> DataTyped /\ ControlTyped
  BY DEF Typed
<1>2. QED
  BY <1>1, PTL

\* A step that moves no event.
LEMMA NothingMoves ==
  ASSUME IInv,
         UNCHANGED <<buffer, sent, evicted, settled, dropped, flushLock, batch, exitBatch>>
  PROVE  /\ Contiguous' /\ Partition' /\ Gone' = Gone
         /\ attempt' \in [Tasks -> 1..MaxAttempts] /\ asked' \in [Callers -> 0..MaxEvents]
              => DataTyped'
BY TypeParts DEF IInv, Contiguous, Partition, Gone, InFlight, DataTyped

\* A step of senders or of the application that no task and no event takes part in.
LEMMA ControlStep ==
  ASSUME IInv, UNCHANGED <<buffer, sent, evicted, dropped, settled, taskVars, asked, exitVars>>,
         ControlTyped', MainInItsRound'
  PROVE  IInv'
<1>1. Contiguous' /\ Partition' /\ DataTyped' /\ Gone' = Gone
  BY NothingMoves, TypeParts DEF taskVars, exitVars, IInv, DataTyped
<1>2. Locked' /\ TriesLeft' /\ PostsAlone' /\ ExitTookAll'
  BY <1>1 DEF taskVars, exitVars, IInv, Locked, TriesLeft, PostsAlone, ExitTookAll
<1>3. Promised'
  BY DEF taskVars, exitVars, IInv, Promised, FlushMeansSettled
<1>4. QED
  BY <1>1, <1>2, <1>3, TypeParts DEF IInv

\* send() after it has queued its event, and stop()
LEMMA SignallingIInv ==
  ASSUME IInv,
         \/ \E s \in Senders : SendCheck(s) \/ SendRunning(s) \/ SendPost(s)
         \/ StopSets \/ StopWakes \/ WakeCallback \/ Teardown \/ HoldOffEnds
  PROVE  IInv'
<1>0. ControlTyped /\ MainInItsRound
  BY TypeParts DEF IInv
<1>1. CASE \E s \in Senders : SendCheck(s) \/ SendRunning(s) \/ SendPost(s)
  <2>1. PICK s \in Senders : SendCheck(s) \/ SendRunning(s) \/ SendPost(s)
    BY <1>1
  <2>2. /\ UNCHANGED <<buffer, sent, evicted, dropped, settled, taskVars, asked, exitVars, wake,
                       stopPc, holdOff, loop>>
        /\ wakePosted' \in {wakePosted, wakePosted + 1}
        /\ \E to \in {"idle", "running", "post", "raised"} : sendPc' = [sendPc EXCEPT ![s] = to]
    BY <2>1 DEF SendCheck, SendRunning, SendPost, SendStep, bufferVars
  <2>3. wake' \in BOOLEAN /\ holdOff' \in BOOLEAN
    BY <1>0, <2>2 DEF ControlTyped
  <2>4. ControlTyped'
    BY <1>0, <2>2, <2>3 DEF ControlTyped, taskVars, exitVars
  <2>5. MainInItsRound'
    BY <1>0, <2>2 DEF MainInItsRound, taskVars
  <2>6. QED
    BY <2>2, <2>4, <2>5, ControlStep
<1>2. CASE StopSets \/ StopWakes
  <2>1. /\ UNCHANGED <<buffer, sent, evicted, dropped, settled, taskVars, asked, exitVars, wake,
                       holdOff, loop, sendPc>>
        /\ wakePosted' \in {wakePosted, wakePosted + 1} /\ stopPc' \in {"set", "joining"}
    BY <1>2 DEF StopSets, StopWakes, wakeVars, bufferVars
  <2>2. wake' \in BOOLEAN /\ holdOff' \in BOOLEAN
    BY <1>0, <2>1 DEF ControlTyped
  <2>3. ControlTyped' /\ MainInItsRound'
    BY <1>0, <2>1, <2>2 DEF ControlTyped, MainInItsRound, taskVars, exitVars
  <2>4. QED
    BY <2>1, <2>3, ControlStep
<1>3. CASE WakeCallback \/ HoldOffEnds
  <2>1. /\ UNCHANGED <<buffer, sent, evicted, dropped, settled, taskVars, asked, exitVars, stopPc,
                       loop, sendPc>>
        /\ wake' \in {wake, TRUE} /\ holdOff' \in {holdOff, FALSE}
        /\ wakePosted' = wakePosted \/ (wakePosted > 0 /\ wakePosted' = wakePosted - 1)
    BY <1>3 DEF WakeCallback, HoldOffEnds, wakeVars, bufferVars
  <2>2. wake' \in BOOLEAN /\ holdOff' \in BOOLEAN
    BY <1>0, <2>1 DEF ControlTyped
  <2>3. wakePosted' \in Nat
    BY <1>0, <2>1 DEF ControlTyped
  <2>4. ControlTyped' /\ MainInItsRound'
    BY <1>0, <2>1, <2>2, <2>3 DEF ControlTyped, MainInItsRound, taskVars, exitVars
  <2>5. QED
    BY <2>1, <2>4, ControlStep
<1>4. CASE Teardown
  <2>1. /\ UNCHANGED <<buffer, sent, evicted, dropped, settled, taskVars, asked, exitVars, wake,
                       holdOff, stopPc, sendPc, wakePosted>>
        /\ loop \in {"closing", "closed"} /\ loop' \in {"closed", "gone"}
    BY <1>4 DEF Teardown, wakeVars, bufferVars
  <2>2. wake' \in BOOLEAN /\ holdOff' \in BOOLEAN
    BY <1>0, <2>1 DEF ControlTyped
  <2>3. ControlTyped' /\ MainInItsRound'
    BY <1>0, <2>1, <2>2 DEF ControlTyped, MainInItsRound, taskVars, exitVars
  <2>4. QED
    BY <2>1, <2>3, ControlStep
<1>5. QED
  BY <1>1, <1>2, <1>3, <1>4

\* send() queues its event behind the others; a full buffer loses its oldest
LEMMA SendIInv ==
  ASSUME IInv, NEW s \in Senders, Send(s)
  PROVE  IInv'
<1> USE SizesAssumption
<1>0. DataTyped /\ ControlTyped /\ Contiguous /\ Partition
  BY TypeParts DEF IInv
<1>1. /\ UNCHANGED <<settled, wake, wakePosted, stopPc, holdOff, loop, taskPc, flushLock, batch,
                     attempt, asked, exitPc, exitBatch>>
      /\ sent' = sent + 1 /\ sent' \in 0..MaxEvents /\ sent + 1 \in Events
      /\ \E to \in {"check", "idle"} : sendPc' = [sendPc EXCEPT ![s] = to]
  <2>1. UNCHANGED <<settled, wake, wakePosted, stopPc, holdOff, loop, taskPc, flushLock, batch,
                    attempt, asked, exitPc, exitBatch>>
    BY DEF Send, wakeVars, taskVars, exitVars
  <2>2. sent' = sent + 1 /\ sent' \in 0..MaxEvents /\ sent + 1 \in Events
    BY <1>0 DEF Send, DataTyped, Events
  <2>3. \E to \in {"check", "idle"} : sendPc' = [sendPc EXCEPT ![s] = to]
    BY DEF Send
  <2>4. QED
    BY <2>1, <2>2, <2>3
<1>2. /\ Len(buffer) \in Nat /\ sent \in Nat /\ Gone \in Nat /\ Gone + Len(buffer) = sent
      /\ ToSet(buffer) = (Gone + 1)..sent
  BY <1>0, BufferHoldsLatest DEF DataTyped, Gone, Contiguous
<1>3. InFlight' = InFlight
  BY <1>1 DEF InFlight
<1>4. wake' \in BOOLEAN /\ holdOff' \in BOOLEAN
  BY <1>0, <1>1 DEF ControlTyped
<1>5. ControlTyped'
  BY <1>0, <1>1, <1>4 DEF ControlTyped
<1>6. /\ DataTyped' /\ Contiguous' /\ Partition'
      /\ Gone' \in Nat /\ Gone' >= Gone /\ evicted \subseteq evicted'
  <2>1. CASE Len(buffer) = Capacity
    <3>1. /\ buffer' = Append(Tail(buffer), sent + 1) /\ dropped' = dropped + 1
          /\ evicted' = evicted \cup {Head(buffer)}
      BY <2>1 DEF Send
    <3>2. buffer # <<>> /\ buffer \in Seq(Events)
      BY <1>0, <1>2, <2>1, EmptySeq DEF DataTyped
    <3>3. /\ Tail(buffer) \in Seq(Events) /\ Len(Tail(buffer)) = Len(buffer) - 1
          /\ \A i \in 1..(Len(buffer) - 1) : Tail(buffer)[i] = buffer[i + 1]
          /\ Head(buffer) = buffer[1] /\ Head(buffer) \in Events
      <4>1. Len(buffer) >= 1
        BY <1>2, <2>1
      <4>2. QED
        BY <1>2, <3>2, <4>1, HeadTailProperties, ElementOfSeq
    <3>4. /\ buffer' \in Seq(Events) /\ Len(buffer') = Len(buffer)
          /\ \A i \in 1..Len(buffer) :
               buffer'[i] = IF i <= Len(buffer) - 1 THEN buffer[i + 1] ELSE sent + 1
      <4>1. /\ buffer' \in Seq(Events) /\ Len(buffer') = Len(Tail(buffer)) + 1
            /\ \A i \in 1..Len(Tail(buffer)) : buffer'[i] = Tail(buffer)[i]
            /\ buffer'[Len(Tail(buffer)) + 1] = sent + 1
        BY <1>1, <3>1, <3>3, AppendProperties
      <4>2. ASSUME NEW i \in 1..Len(buffer)
            PROVE  buffer'[i] = IF i <= Len(buffer) - 1 THEN buffer[i + 1] ELSE sent + 1
        <5>1. CASE i <= Len(buffer) - 1
          BY <5>1, <4>1, <3>3, <1>2
        <5>2. CASE ~(i <= Len(buffer) - 1)
          <6>1. i = Len(buffer)
            BY <5>2, <1>2
          <6>2. Len(Tail(buffer)) + 1 = Len(buffer)
            BY <3>3, <1>2
          <6>3. QED
            BY <5>2, <6>1, <6>2, <4>1
        <5>3. QED
          BY <5>1, <5>2
      <4>3. QED
        BY <1>2, <3>3, <4>1, <4>2
    <3>5. Gone' = Gone + 1 /\ Head(buffer) = Gone + 1
      BY <1>0, <1>1, <1>2, <2>1, <3>3, <3>4 DEF Gone, Contiguous
    <3>6. Contiguous'
      <4>1. ASSUME NEW i \in 1..Len(buffer)
            PROVE  buffer'[i] = Gone' + i
        <5>1. CASE i <= Len(buffer) - 1
          <6>1. i + 1 \in 1..Len(buffer) /\ buffer'[i] = buffer[i + 1]
            BY <5>1, <1>2, <3>4
          <6>2. buffer[i + 1] = Gone + (i + 1)
            BY <1>0, <6>1 DEF Contiguous
          <6>3. QED
            BY <6>1, <6>2, <3>5, <1>2
        <5>2. CASE ~(i <= Len(buffer) - 1)
          BY <5>2, <3>4, <3>5, <1>2
        <5>3. QED
          BY <5>1, <5>2
      <4>2. QED
        BY <1>0, <1>1, <1>2, <3>4, <4>1 DEF Contiguous
    <3>7. Gone + 1 \notin 1..Gone /\ 1..(Gone + 1) = 1..Gone \cup {Gone + 1}
      BY <1>2
    <3>8. Partition'
      BY <1>0, <1>1, <1>3, <3>1, <3>5, <3>7 DEF Partition
    <3>9. dropped' = Cardinality(evicted')
      <4>1. IsFiniteSet(1..MaxEvents)
        BY FS_Interval
      <4>2. IsFiniteSet(evicted)
        BY <1>0, <4>1, FS_Subset DEF DataTyped, Events
      <4>3. Head(buffer) \notin evicted
        BY <1>0, <3>5, <3>7 DEF Partition
      <4>4. QED
        BY <1>0, <3>1, <4>2, <4>3, FS_AddElement DEF DataTyped
    <3>10. DataTyped'
      BY <1>0, <1>1, <3>1, <3>3, <3>4, <3>9 DEF DataTyped
    <3>11. QED
      BY <1>2, <3>1, <3>5, <3>6, <3>8, <3>10
  <2>2. CASE Len(buffer) # Capacity
    <3>1. buffer' = Append(buffer, sent + 1) /\ UNCHANGED <<evicted, dropped>>
      BY <2>2 DEF Send
    <3>2. /\ buffer' \in Seq(Events) /\ Len(buffer') = Len(buffer) + 1
          /\ \A i \in 1..(Len(buffer) + 1) :
               buffer'[i] = IF i <= Len(buffer) THEN buffer[i] ELSE sent + 1
      BY <1>0, <1>1, <1>2, <3>1, AppendProperties DEF DataTyped
    <3>3. Gone' = Gone
      BY <1>1, <1>2, <3>2 DEF Gone
    <3>4. Contiguous'
      BY <1>0, <1>1, <1>2, <3>2, <3>3 DEF Contiguous
    <3>5. Partition'
      BY <1>0, <1>1, <1>3, <3>1, <3>3 DEF Partition
    <3>6. Len(buffer') <= Capacity
      BY <1>0, <1>2, <2>2, <3>2 DEF DataTyped
    <3>7. DataTyped'
      BY <1>0, <1>1, <3>1, <3>2, <3>6 DEF DataTyped
    <3>8. QED
      BY <1>2, <3>1, <3>3, <3>4, <3>5, <3>7
  <2>3. QED
    BY <2>1, <2>2
<1>7. Locked' /\ TriesLeft' /\ MainInItsRound' /\ PostsAlone'
  BY <1>1 DEF IInv, Locked, TriesLeft, MainInItsRound, PostsAlone
<1>8. ExitTookAll'
  <2>1. asked[AtExit] \in Nat /\ Gone' \in Nat
    BY <1>0, <1>6 DEF DataTyped, Callers
  <2>2. QED
    BY <1>1, <1>2, <1>6, <2>1 DEF IInv, ExitTookAll
<1>9. Promised'
  <2>1. \A c \in Callers : asked[c] \in Nat /\ asked[c] <= sent
    BY <1>0 DEF IInv, Promised, DataTyped
  <2>2. \A c \in Callers : asked'[c] <= sent'
    BY <1>1, <1>2, <2>1
  <2>3. QED
    BY <1>1, <1>6, <2>2 DEF IInv, Promised, FlushMeansSettled
<1>10. QED
  BY <1>5, <1>6, <1>7, <1>8, <1>9, TypeParts DEF IInv

-----------------------------------------------------------------------------
\* A task that is over lets go of the lock and of its batch; the others go on.
LEMMA FinishFrees ==
  ASSUME IInv, NEW x \in Tasks, taskPc[x] # "off", NEW how \in {"done", "held"},
         Finish(x, how), TaskUnchanged
  PROVE  /\ flushLock' \subseteq Tasks /\ batch' \in [Tasks -> Seq(Events)]
         /\ attempt' \in [Tasks -> 1..MaxAttempts]
         /\ taskPc' \in [Tasks ->
              {"off", "gate", "queued", "sending", "backoff", "done", "held"}]
         /\ loop' \in {"waiting", "flushing", "final", "closing", "closed", "gone"}
         /\ Locked' /\ TriesLeft' /\ MainInItsRound'
         /\ \A c \in Callers : c # x => taskPc'[c] = taskPc[c] /\ batch'[c] = batch[c]
         /\ x \in Callers => taskPc'[x] = how
         /\ x \in flushLock => InFlight' = {} /\ InFlight = ToSet(batch[x])
         /\ x \notin flushLock => InFlight' = InFlight
<1> USE SizesAssumption
<1>0. /\ flushLock \subseteq Tasks /\ batch \in [Tasks -> Seq(Events)]
      /\ attempt \in [Tasks -> 1..MaxAttempts]
      /\ taskPc \in [Tasks -> {"off", "gate", "queued", "sending", "backoff", "done", "held"}]
      /\ loop \in {"waiting", "flushing", "final", "closing", "closed", "gone"}
      /\ Locked /\ TriesLeft /\ MainInItsRound
  BY DEF IInv, Typed, DataTyped, ControlTyped
<1>1. PICK to \in {how, "off", "gate"} :
        /\ taskPc' = [taskPc EXCEPT ![x] = to]
        /\ x # Main => to = how /\ loop' = loop
        /\ x = Main => to # how /\ loop' \in {"closing", "final", "waiting"}
                       /\ (to = "gate" <=> loop' = "final")
  BY DEF Finish
<1>2. /\ flushLock' = flushLock \ {x} /\ batch' = [batch EXCEPT ![x] = <<>>]
      /\ attempt' = [attempt EXCEPT ![x] = 1]
  BY DEF Finish
<1>3. /\ flushLock' \subseteq Tasks /\ batch' \in [Tasks -> Seq(Events)]
      /\ attempt' \in [Tasks -> 1..MaxAttempts]
  BY <1>0, <1>2, EmptySeq
<1>4. taskPc' \in [Tasks -> {"off", "gate", "queued", "sending", "backoff", "done", "held"}]
  BY <1>0, <1>1
<1>5. loop' \in {"waiting", "flushing", "final", "closing", "closed", "gone"}
  BY <1>0, <1>1
<1>6. Locked'
  <2>1. /\ \A y \in Tasks \ {x} : taskPc'[y] = taskPc[y] /\ batch'[y] = batch[y]
        /\ taskPc'[x] = to /\ batch'[x] = <<>>
    BY <1>0, <1>1, <1>2
  <2>2. QED
    BY <1>0, <1>2, <2>1 DEF Locked
<1>7. TriesLeft'
  BY <1>0, <1>1, <1>2 DEF TriesLeft
<1>8. MainInItsRound'
  <2>1. Main \in Tasks
    BY DEF Tasks
  <2>2. QED
    BY <1>0, <1>1, <2>1 DEF MainInItsRound
<1>9. \A c \in Callers : c # x => taskPc'[c] = taskPc[c] /\ batch'[c] = batch[c]
  BY <1>0, <1>1, <1>2 DEF Tasks
<1>10. x \in Callers => taskPc'[x] = how
  BY <1>0, <1>1, TasksAssumption DEF Callers
<1>11. x \in flushLock => InFlight' = {} /\ InFlight = ToSet(batch[x])
  <2> SUFFICES ASSUME x \in flushLock PROVE InFlight' = {} /\ InFlight = ToSet(batch[x])
    OBVIOUS
  <2>1. \A y \in Tasks : batch'[y] = <<>>
    BY <1>0, <1>2 DEF Locked
  <2>2. ToSet(<<>>) = {}
    BY DEF ToSet
  <2>3. InFlight' = {}
    BY <2>1, <2>2 DEF InFlight
  <2>4. QED
    BY <1>0, <2>3, InFlightIsTheHolders
<1>12. x \notin flushLock => InFlight' = InFlight
  <2> SUFFICES ASSUME x \notin flushLock PROVE InFlight' = InFlight
    OBVIOUS
  <2>1. batch[x] = <<>>
    BY <1>0 DEF Locked
  <2>2. batch' = batch
    BY <1>0, <1>2, <2>1
  <2>3. QED
    BY <2>2 DEF InFlight
<1>13. QED
  BY <1>3, <1>4, <1>5, <1>6, <1>7, <1>8, <1>9, <1>10, <1>11, <1>12

\* What a step of a task leaves to be shown.
LEMMA TaskStep ==
  ASSUME IInv, TaskUnchanged, holdOff' \in BOOLEAN,
         taskPc' \in [Tasks -> {"off", "gate", "queued", "sending", "backoff", "done", "held"}],
         loop' \in {"waiting", "flushing", "final", "closing", "closed", "gone"},
         DataTyped', Contiguous', Partition', Locked', TriesLeft', MainInItsRound', Promised',
         Gone' \in Nat, Gone' >= Gone
  PROVE  IInv'
<1>1. wake' \in BOOLEAN
  BY DEF IInv, Typed, DataTyped, ControlTyped, TaskUnchanged, wakeVars
<1>2. ControlTyped'
  BY <1>1, TypeParts DEF IInv, ControlTyped, TaskUnchanged, wakeVars, exitVars
<1>3. PostsAlone'
  BY DEF IInv, PostsAlone, TaskUnchanged, exitVars
<1>4. ExitTookAll'
  <2>1. asked[AtExit] \in Nat /\ Gone \in Nat
    BY BufferHoldsLatest, SizesAssumption DEF IInv, Typed, DataTyped, ControlTyped, Callers
  <2>2. QED
    BY <2>1 DEF IInv, ExitTookAll, TaskUnchanged, exitVars
<1>5. QED
  BY <1>2, <1>3, <1>4, TypeParts DEF IInv

\* A task ends with nothing in its hands, its caller's events done with or the
\* hold-off window open.
LEMMA EmptyHandedIInv ==
  ASSUME IInv, NEW x \in Tasks, taskPc[x] \in {"gate", "queued"},
         NEW how \in {"done", "held"}, Finish(x, how), TaskUnchanged,
         UNCHANGED <<buffer, settled, holdOff>>,
         how = "done" /\ x \in Callers =>
           1..asked[x] \subseteq settled \cup evicted \cup ToSet(exitBatch)
  PROVE  IInv'
<1>1. /\ DataTyped /\ Contiguous /\ Partition /\ Locked /\ Promised
      /\ x \notin flushLock
  BY TypeParts DEF IInv, Locked
<1>2. /\ flushLock' \subseteq Tasks /\ batch' \in [Tasks -> Seq(Events)]
      /\ attempt' \in [Tasks -> 1..MaxAttempts]
      /\ taskPc' \in [Tasks -> {"off", "gate", "queued", "sending", "backoff", "done", "held"}]
      /\ loop' \in {"waiting", "flushing", "final", "closing", "closed", "gone"}
      /\ Locked' /\ TriesLeft' /\ MainInItsRound'
      /\ \A c \in Callers : c # x => taskPc'[c] = taskPc[c] /\ batch'[c] = batch[c]
      /\ x \in Callers => taskPc'[x] = how
      /\ InFlight' = InFlight
  BY <1>1, FinishFrees
<1>3. UNCHANGED <<sent, evicted, dropped, asked, exitPc, exitBatch>>
  BY DEF TaskUnchanged, exitVars
<1>4. DataTyped' /\ Gone' = Gone /\ Gone' \in Nat
  BY <1>1, <1>2, <1>3, BufferHoldsLatest, SizesAssumption DEF DataTyped, Gone
<1>5. Contiguous' /\ Partition'
  BY <1>1, <1>2, <1>3, <1>4 DEF Contiguous, Partition
<1>6. Promised'
  <2>1. ASSUME NEW c \in Callers
        PROVE  /\ asked'[c] <= sent'
               /\ taskPc'[c] \in {"sending", "backoff"} => 1..asked'[c] \subseteq
                    settled' \cup evicted' \cup ToSet(exitBatch') \cup ToSet(batch'[c])
               /\ taskPc'[c] = "done" =>
                    1..asked'[c] \subseteq settled' \cup evicted' \cup ToSet(exitBatch')
    <3>1. CASE c # x
      BY <3>1, <1>1, <1>2, <1>3 DEF Promised, FlushMeansSettled
    <3>2. CASE c = x
      BY <3>2, <1>1, <1>2, <1>3 DEF Promised
    <3>3. QED
      BY <3>1, <3>2
  <2>2. QED
    BY <2>1 DEF Promised, FlushMeansSettled
<1>7. holdOff' \in BOOLEAN
  BY DEF IInv, Typed, DataTyped, ControlTyped
<1>8. QED
  BY <1>2, <1>4, <1>5, <1>6, <1>7, TaskStep

\* The window, or the queue for the flush lock.
LEMMA GateIInv ==
  ASSUME IInv, NEW x \in Tasks, Gate(x)
  PROVE  IInv'
<1>1. CASE holdOff /\ Finish(x, "held")
  BY <1>1, EmptyHandedIInv DEF Gate
<1>2. CASE ~(holdOff /\ Finish(x, "held"))
  <2>1. /\ taskPc' = [taskPc EXCEPT ![x] = "queued"] /\ taskPc[x] = "gate"
        /\ UNCHANGED <<flushLock, batch, attempt, loop, buffer, settled, holdOff,
                       sent, evicted, dropped, asked, exitBatch>>
        /\ TaskUnchanged
    BY <1>2 DEF Gate, TaskUnchanged, exitVars
  <2>2. DataTyped /\ Contiguous /\ Partition /\ Locked /\ Promised /\ TriesLeft
        /\ MainInItsRound /\ ControlTyped
    BY TypeParts DEF IInv
  <2>3. Contiguous' /\ Partition' /\ Gone' = Gone /\ DataTyped'
    BY <2>1, <2>2, NothingMoves DEF DataTyped
  <2>4. /\ \A y \in Tasks \ {x} : taskPc'[y] = taskPc[y]
        /\ taskPc'[x] = "queued"
        /\ taskPc' \in [Tasks -> {"off", "gate", "queued", "sending", "backoff", "done", "held"}]
    BY <2>1, <2>2 DEF ControlTyped
  <2>5. Locked' /\ TriesLeft'
    BY <2>1, <2>2, <2>4 DEF Locked, TriesLeft
  <2>6. MainInItsRound'
    BY <2>1, <2>2, <2>4 DEF MainInItsRound, Tasks
  <2>7. Promised'
    BY <2>1, <2>2, <2>4 DEF Promised, FlushMeansSettled, Tasks
  <2>8. Gone \in Nat
    BY <2>2, BufferHoldsLatest DEF DataTyped
  <2>9. holdOff' \in BOOLEAN /\ loop' = loop
    BY <2>1, <2>2 DEF ControlTyped
  <2>10. QED
    BY <2>1, <2>2, <2>3, <2>4, <2>5, <2>6, <2>7, <2>8, <2>9, TaskStep DEF ControlTyped
<1>3. QED
  BY <1>1, <1>2

\* Another attempt with the same batch.
LEMMA RetryIInv ==
  ASSUME IInv, NEW x \in Tasks, Failed(x) \/ Retry(x)
  PROVE  IInv'
<1>1. PICK to \in {"sending", "backoff"} :
        /\ taskPc' = [taskPc EXCEPT ![x] = to] /\ taskPc[x] \in {"sending", "backoff"}
        /\ \/ to = "backoff" /\ attempt[x] < MaxAttempts /\ attempt' = attempt
           \/ to = "sending" /\ taskPc[x] = "backoff"
              /\ attempt' = [attempt EXCEPT ![x] = @ + 1]
        /\ UNCHANGED <<flushLock, batch, loop, buffer, settled, holdOff,
                       sent, evicted, dropped, asked, exitBatch>>
        /\ TaskUnchanged
  BY DEF Failed, Retry, TaskUnchanged, exitVars
<1>2. DataTyped /\ Contiguous /\ Partition /\ Locked /\ Promised /\ TriesLeft
      /\ MainInItsRound /\ ControlTyped
  BY TypeParts DEF IInv
<1>3. attempt' \in [Tasks -> 1..MaxAttempts]
  <2>1. attempt[x] < MaxAttempts
    BY <1>1, <1>2 DEF TriesLeft
  <2>2. attempt[x] + 1 \in 1..MaxAttempts
    BY <1>2, <2>1, SizesAssumption DEF DataTyped
  <2>3. QED
    BY <1>1, <1>2, <2>2 DEF DataTyped
<1>4. Contiguous' /\ Partition' /\ Gone' = Gone /\ DataTyped'
  BY <1>1, <1>2, <1>3, NothingMoves DEF DataTyped
<1>5. /\ \A y \in Tasks \ {x} : taskPc'[y] = taskPc[y] /\ attempt'[y] = attempt[y]
      /\ taskPc'[x] = to
      /\ taskPc' \in [Tasks -> {"off", "gate", "queued", "sending", "backoff", "done", "held"}]
  BY <1>1, <1>2 DEF ControlTyped, DataTyped
<1>6. Locked' /\ TriesLeft'
  BY <1>1, <1>2, <1>5 DEF Locked, TriesLeft
<1>7. MainInItsRound'
  BY <1>1, <1>2, <1>5 DEF MainInItsRound, Tasks
<1>8. Promised'
  BY <1>1, <1>2, <1>5 DEF Promised, FlushMeansSettled, Tasks
<1>9. Gone \in Nat
  BY <1>2, BufferHoldsLatest DEF DataTyped
<1>10. holdOff' \in BOOLEAN /\ loop' = loop
  BY <1>1, <1>2 DEF ControlTyped
<1>11. QED
  BY <1>1, <1>2, <1>4, <1>5, <1>6, <1>7, <1>8, <1>9, <1>10, TaskStep DEF ControlTyped

\* The batch is done with, accepted, refused or given up.
LEMMA SettlesIInv ==
  ASSUME IInv, NEW x \in Tasks, Answered(x) \/ GivesUp(x)
  PROVE  IInv'
<1>1. /\ DataTyped /\ Contiguous /\ Partition /\ Locked /\ Promised /\ ControlTyped
      /\ x \in flushLock
  BY TypeParts DEF IInv, Locked, Answered, GivesUp
<1>2. /\ settled' = settled \cup ToSet(batch[x]) /\ Finish(x, "done") /\ TaskUnchanged
      /\ holdOff' \in {holdOff, TRUE} /\ taskPc[x] = "sending"
      /\ UNCHANGED <<buffer, sent, evicted, dropped, asked, exitPc, exitBatch>>
  BY DEF Answered, GivesUp, TaskUnchanged, exitVars
<1>3. /\ flushLock' \subseteq Tasks /\ batch' \in [Tasks -> Seq(Events)]
      /\ attempt' \in [Tasks -> 1..MaxAttempts]
      /\ taskPc' \in [Tasks -> {"off", "gate", "queued", "sending", "backoff", "done", "held"}]
      /\ loop' \in {"waiting", "flushing", "final", "closing", "closed", "gone"}
      /\ Locked' /\ TriesLeft' /\ MainInItsRound'
      /\ \A c \in Callers : c # x => taskPc'[c] = taskPc[c] /\ batch'[c] = batch[c]
      /\ x \in Callers => taskPc'[x] = "done"
      /\ InFlight' = {} /\ InFlight = ToSet(batch[x])
  BY <1>1, <1>2, FinishFrees
<1>4. ToSet(batch[x]) \subseteq Events
  BY <1>1, ToSetOf DEF DataTyped
<1>5. DataTyped' /\ Gone' = Gone /\ Gone' \in Nat
  BY <1>1, <1>2, <1>3, <1>4, BufferHoldsLatest, SizesAssumption DEF DataTyped, Gone
<1>6. Contiguous'
  BY <1>1, <1>2, <1>5 DEF Contiguous
<1>7. Partition'
  BY <1>1, <1>2, <1>3, <1>5 DEF Partition
<1>8. Promised'
  <2>1. ASSUME NEW c \in Callers
        PROVE  /\ asked'[c] <= sent'
               /\ taskPc'[c] \in {"sending", "backoff"} => 1..asked'[c] \subseteq
                    settled' \cup evicted' \cup ToSet(exitBatch') \cup ToSet(batch'[c])
               /\ taskPc'[c] = "done" =>
                    1..asked'[c] \subseteq settled' \cup evicted' \cup ToSet(exitBatch')
    <3>1. CASE c # x
      BY <3>1, <1>1, <1>2, <1>3 DEF Promised, FlushMeansSettled
    <3>2. CASE c = x
      BY <3>2, <1>1, <1>2, <1>3 DEF Promised
    <3>3. QED
      BY <3>1, <3>2
  <2>2. QED
    BY <2>1 DEF Promised, FlushMeansSettled
<1>9. holdOff' \in BOOLEAN
  BY <1>1, <1>2 DEF ControlTyped
<1>10. QED
  BY <1>2, <1>3, <1>5, <1>6, <1>7, <1>8, <1>9, TaskStep

\* Whoever has the flush lock takes all there is, or finds nothing left to send.
LEMMA DrainIInv ==
  ASSUME IInv, NEW x \in Tasks, Drain(x)
  PROVE  IInv'
<1> USE SizesAssumption
<1>1. /\ DataTyped /\ Contiguous /\ Partition /\ Locked /\ Promised /\ ControlTyped
      /\ TriesLeft /\ MainInItsRound
  BY TypeParts DEF IInv
<1>2. /\ taskPc[x] = "queued" /\ flushLock = {} /\ buffer' = <<>> /\ TaskUnchanged
      /\ UNCHANGED <<settled, holdOff, sent, evicted, dropped, asked, exitPc, exitBatch>>
  BY DEF Drain, TaskUnchanged, exitVars
<1>3. InFlight = {}
  BY <1>1, <1>2, InFlightIsTheHolders DEF DataTyped
<1>4. /\ Len(buffer) \in Nat /\ sent \in Nat /\ Gone \in Nat /\ Gone <= sent
      /\ ToSet(buffer) = (Gone + 1)..sent
  BY <1>1, BufferHoldsLatest DEF DataTyped, Gone, Contiguous
<1>5. 1..sent = ToSet(buffer) \cup settled \cup evicted \cup ToSet(exitBatch)
  BY <1>1, <1>3, <1>4 DEF Partition
<1>6. \A c \in Callers : asked[c] \in Nat /\ 1..asked[c] \subseteq 1..sent
  BY <1>1, <1>4 DEF Promised, DataTyped
<1>7. CASE buffer = <<>> /\ Finish(x, "done")
  <2>1. ToSet(buffer) = {}
    BY <1>7 DEF ToSet
  <2>2. x \in Callers => 1..asked[x] \subseteq settled \cup evicted \cup ToSet(exitBatch)
    BY <1>5, <1>6, <2>1
  <2>3. buffer' = buffer
    BY <1>2, <1>7
  <2>4. QED
    BY <1>2, <1>7, <2>2, <2>3, EmptyHandedIInv
<1>8. CASE TakesBatch(x)
  <2>1. /\ buffer # <<>> /\ flushLock' = {x} /\ batch' = [batch EXCEPT ![x] = buffer]
        /\ taskPc' = [taskPc EXCEPT ![x] = "sending"] /\ UNCHANGED <<attempt, loop>>
    BY <1>2, <1>8 DEF TakesBatch
  <2>2. /\ batch' \in [Tasks -> Seq(Events)]
        /\ taskPc' \in [Tasks -> {"off", "gate", "queued", "sending", "backoff", "done", "held"}]
        /\ batch'[x] = buffer /\ taskPc'[x] = "sending"
        /\ \A y \in Tasks \ {x} :
             batch'[y] = batch[y] /\ taskPc'[y] = taskPc[y] /\ batch[y] = <<>>
    BY <1>1, <1>2, <2>1 DEF DataTyped, ControlTyped, Locked
  <2>3. InFlight' = ToSet(buffer)
    <3>1. ToSet(<<>>) = {}
      BY DEF ToSet
    <3>2. \A y \in Tasks \ {x} : ToSet(batch'[y]) = {}
      BY <2>2, <3>1
    <3>3. InFlight' = UNION {ToSet(batch'[y]) : y \in Tasks}
      BY DEF InFlight
    <3>4. \A e : e \in InFlight' <=> e \in ToSet(buffer)
      BY <2>2, <3>2, <3>3
    <3>5. QED
      BY <3>4
  <2>4. buffer' \in Seq(Events) /\ Len(buffer') = 0 /\ Gone' = sent
    BY <1>2, <1>4, EmptySeq DEF Gone
  <2>5. DataTyped'
    BY <1>1, <1>2, <2>1, <2>2, <2>4 DEF DataTyped
  <2>6. Contiguous'
    BY <1>2, <1>4, <2>4 DEF Contiguous
  <2>7. Partition'
    <3>1. ToSet(buffer) \cap 1..Gone = {}
      BY <1>4
    <3>2. /\ settled \cup evicted \cup ToSet(exitBatch) = 1..Gone
          /\ ToSet(exitBatch) \cap (settled \cup evicted) = {}
          /\ settled \cap evicted = {}
      BY <1>1, <1>3 DEF Partition
    <3>3. QED
      BY <1>2, <1>5, <2>3, <2>4, <3>1, <3>2 DEF Partition
  <2>8. Locked'
    BY <1>1, <1>2, <2>1, <2>2 DEF Locked
  <2>9. TriesLeft' /\ MainInItsRound'
    BY <1>1, <1>2, <2>1, <2>2 DEF TriesLeft, MainInItsRound, Tasks
  <2>10. Promised'
    <3>1. \A c \in Callers : asked'[c] <= sent' /\ c \in Tasks
      BY <1>1, <1>2 DEF Promised, Tasks
    <3>2. ASSUME NEW c \in Callers, taskPc'[c] \in {"sending", "backoff"}
          PROVE  1..asked'[c] \subseteq
                   settled' \cup evicted' \cup ToSet(exitBatch') \cup ToSet(batch'[c])
      <4>1. c = x
        BY <1>1, <1>2, <2>2, <3>1, <3>2 DEF Locked
      <4>2. QED
        BY <1>2, <1>5, <1>6, <2>2, <4>1
    <3>3. ASSUME NEW c \in Callers, taskPc'[c] = "done"
          PROVE  1..asked'[c] \subseteq settled' \cup evicted' \cup ToSet(exitBatch')
      BY <1>1, <1>2, <2>2, <3>1, <3>3 DEF Promised, FlushMeansSettled
    <3>4. QED
      BY <3>1, <3>2, <3>3 DEF Promised, FlushMeansSettled
  <2>11. holdOff' \in BOOLEAN
    BY <1>1, <1>2 DEF ControlTyped
  <2>12. loop' \in {"waiting", "flushing", "final", "closing", "closed", "gone"}
    BY <1>1, <2>1 DEF ControlTyped
  <2>13. QED
    BY <1>2, <1>4, <2>2, <2>4, <2>5, <2>6, <2>7, <2>8, <2>9, <2>10, <2>11, <2>12, TaskStep
<1>9. QED
  BY <1>7, <1>8 DEF Drain

-----------------------------------------------------------------------------
\* The loop starts a flush, or its last one, only when it has none.
LEMMA AfterWaitIInv ==
  ASSUME IInv, Woken \/ IntervalElapses
  PROVE  IInv'
<1>1. /\ DataTyped /\ Contiguous /\ Partition /\ Locked /\ Promised /\ ControlTyped
      /\ TriesLeft /\ MainInItsRound /\ PostsAlone /\ ExitTookAll
  BY TypeParts DEF IInv
<1>2. /\ loop = "waiting" /\ wake' = FALSE /\ loop' \in {"flushing", "final"}
      /\ taskPc' = [taskPc EXCEPT ![Main] = "gate"]
      /\ UNCHANGED <<buffer, sent, evicted, dropped, settled, sendPc, wakePosted, stopPc,
                     holdOff, flushLock, batch, attempt, asked, exitPc, exitBatch>>
  BY DEF Woken, IntervalElapses, AfterWait, bufferVars, exitVars
<1>3. taskPc[Main] = "off" /\ Main \in Tasks /\ Main \notin Callers
  BY <1>1, <1>2, TasksAssumption DEF MainInItsRound, Tasks, Callers
<1>4. /\ taskPc'[Main] = "gate"
      /\ \A y \in Tasks \ {Main} : taskPc'[y] = taskPc[y]
      /\ taskPc' \in [Tasks -> {"off", "gate", "queued", "sending", "backoff", "done", "held"}]
  BY <1>1, <1>2, <1>3 DEF ControlTyped
<1>5. Contiguous' /\ Partition' /\ Gone' = Gone /\ DataTyped'
  BY <1>1, <1>2, NothingMoves DEF DataTyped
<1>6. Locked' /\ TriesLeft'
  BY <1>1, <1>2, <1>3, <1>4 DEF Locked, TriesLeft
<1>7. MainInItsRound' /\ PostsAlone' /\ ExitTookAll'
  BY <1>1, <1>2, <1>4, <1>5 DEF MainInItsRound, PostsAlone, ExitTookAll
<1>8. Promised'
  BY <1>1, <1>2, <1>3, <1>4 DEF Promised, FlushMeansSettled, Tasks
<1>9. wake' \in BOOLEAN /\ holdOff' \in BOOLEAN
  BY <1>1, <1>2 DEF ControlTyped
<1>10. ControlTyped'
  BY <1>1, <1>2, <1>4, <1>9 DEF ControlTyped
<1>11. QED
  BY <1>5, <1>6, <1>7, <1>8, <1>10, TypeParts DEF IInv

\* flush(), called by the application or at exit, asks for what was sent so far.
LEMMA PostFlushIInv ==
  ASSUME IInv, NEW c \in Callers, PostFlush(c), exitBatch' = exitBatch,
         \/ c \in Flushers /\ exitPc' = exitPc
         \/ exitPc = "no" /\ exitPc' = "flushing"
  PROVE  IInv'
<1> USE SizesAssumption
<1>1. /\ DataTyped /\ Contiguous /\ Partition /\ Locked /\ Promised /\ ControlTyped
      /\ TriesLeft /\ MainInItsRound /\ PostsAlone /\ ExitTookAll
  BY TypeParts DEF IInv
<1>2. PICK to \in {"gate", "held"} :
        /\ taskPc' = [taskPc EXCEPT ![c] = to] /\ taskPc[c] = "off"
        /\ asked' = [asked EXCEPT ![c] = sent]
        /\ UNCHANGED <<buffer, sent, evicted, dropped, settled, sendPc, wakePosted, wake,
                       stopPc, holdOff, loop, flushLock, batch, attempt>>
  BY DEF PostFlush, bufferVars, wakeVars
<1>3. c \in Tasks /\ c # Main /\ Main \in Tasks /\ Callers \subseteq Tasks
  BY TasksAssumption DEF Tasks, Callers
<1>4. /\ taskPc'[c] = to
      /\ \A y \in Tasks \ {c} : taskPc'[y] = taskPc[y]
      /\ taskPc' \in [Tasks -> {"off", "gate", "queued", "sending", "backoff", "done", "held"}]
  BY <1>1, <1>2, <1>3 DEF ControlTyped
<1>5. /\ asked' \in [Callers -> 0..MaxEvents] /\ asked'[c] = sent
      /\ \A b \in Callers \ {c} : asked'[b] = asked[b]
  BY <1>1, <1>2 DEF DataTyped
<1>6. Contiguous' /\ Partition' /\ Gone' = Gone /\ DataTyped'
  BY <1>1, <1>2, <1>5, NothingMoves DEF DataTyped
<1>7. Locked' /\ TriesLeft' /\ MainInItsRound' /\ PostsAlone'
  BY <1>1, <1>2, <1>3, <1>4 DEF Locked, TriesLeft, MainInItsRound, PostsAlone
<1>8. ExitTookAll'
  BY <1>1, <1>2, <1>5, <1>6, TasksAssumption DEF ExitTookAll, Callers
<1>9. Promised'
  <2>1. \A b \in Callers : asked'[b] <= sent'
    BY <1>1, <1>2, <1>5 DEF Promised, DataTyped
  <2>2. QED
    BY <1>1, <1>2, <1>3, <1>4, <1>5, <2>1 DEF Promised, FlushMeansSettled
<1>10. wake' \in BOOLEAN /\ holdOff' \in BOOLEAN
  BY <1>1, <1>2 DEF ControlTyped
<1>11. ControlTyped'
  BY <1>1, <1>2, <1>4, <1>10 DEF ControlTyped
<1>12. QED
  BY <1>6, <1>7, <1>8, <1>9, <1>11, TypeParts DEF IInv

\* The exit hook takes over what is still in the buffer, and posts it.
LEMMA ExitIInv ==
  ASSUME IInv, ExitTakes \/ ExitPosts
  PROVE  IInv'
<1> USE SizesAssumption
<1>1. /\ DataTyped /\ Contiguous /\ Partition /\ Locked /\ Promised /\ ControlTyped
      /\ TriesLeft /\ MainInItsRound /\ PostsAlone /\ ExitTookAll
  BY TypeParts DEF IInv
<1>2. /\ UNCHANGED <<sent, evicted, dropped, sendPc, wake, wakePosted, stopPc, holdOff, loop,
                     taskPc, flushLock, batch, attempt, asked>>
      /\ exitPc' \in {"posting", "dead"}
  BY DEF ExitTakes, ExitPosts, bufferVars, wakeVars, taskVars
<1>3. /\ Len(buffer) \in Nat /\ sent \in Nat /\ Gone \in Nat /\ Gone <= sent
      /\ ToSet(buffer) = (Gone + 1)..sent
  BY <1>1, BufferHoldsLatest DEF DataTyped, Gone, Contiguous
<1>4. InFlight' = InFlight
  BY <1>2 DEF InFlight
<1>5. ToSet(<<>>) = {} /\ <<>> \in Seq(Events) /\ Len(<<>>) = 0
  BY EmptySeq DEF ToSet
<1>6. asked[AtExit] \in Nat /\ asked[AtExit] <= sent
  BY <1>1 DEF DataTyped, Promised, Callers
<1>7. wake' \in BOOLEAN /\ holdOff' \in BOOLEAN
  BY <1>1, <1>2 DEF ControlTyped
<1>8. ControlTyped'
  BY <1>1, <1>2, <1>7 DEF ControlTyped
<1>9. Locked' /\ TriesLeft' /\ MainInItsRound'
  BY <1>1, <1>2 DEF Locked, TriesLeft, MainInItsRound
<1>10. CASE ExitTakes
  <2>1. /\ exitBatch = <<>> /\ exitBatch' = buffer /\ buffer' = <<>> /\ settled' = settled
        /\ exitPc' = (IF buffer = <<>> THEN "dead" ELSE "posting")
    BY <1>1, <1>10 DEF ExitTakes, PostsAlone
  <2>2. Gone' = sent
    BY <1>2, <1>3, <1>5, <2>1 DEF Gone
  <2>3. DataTyped'
    BY <1>1, <1>2, <1>5, <2>1 DEF DataTyped
  <2>4. Contiguous'
    BY <1>2, <1>3, <1>5, <2>1, <2>2 DEF Contiguous
  <2>5. Partition'
    <3>1. ToSet(buffer) \cap 1..Gone = {} /\ 1..sent = 1..Gone \cup ToSet(buffer)
      BY <1>3
    <3>2. /\ InFlight \cup settled \cup evicted = 1..Gone
          /\ InFlight \cap (settled \cup evicted) = {}
          /\ settled \cap evicted = {}
      BY <1>1, <1>5, <2>1 DEF Partition
    <3>3. QED
      BY <1>2, <1>4, <2>1, <2>2, <3>1, <3>2 DEF Partition
  <2>6. PostsAlone' /\ ExitTookAll'
    BY <1>2, <1>6, <2>1, <2>2 DEF PostsAlone, ExitTookAll
  <2>7. Promised'
    BY <1>1, <1>2, <1>5, <2>1 DEF Promised, FlushMeansSettled
  <2>8. QED
    BY <1>8, <1>9, <2>3, <2>4, <2>5, <2>6, <2>7, TypeParts DEF IInv
<1>11. CASE ExitPosts
  <2>1. /\ exitPc = "posting" /\ exitPc' = "dead" /\ settled' = settled \cup ToSet(exitBatch)
        /\ exitBatch' = <<>> /\ buffer' = buffer
    BY <1>11 DEF ExitPosts, bufferVars
  <2>2. Gone' = Gone /\ ToSet(exitBatch) \subseteq Events
    BY <1>1, <1>2, <2>1, ToSetOf DEF Gone, DataTyped
  <2>3. DataTyped'
    BY <1>1, <1>2, <1>5, <2>1, <2>2 DEF DataTyped
  <2>4. Contiguous'
    BY <1>1, <1>2, <2>1, <2>2 DEF Contiguous
  <2>5. Partition'
    BY <1>1, <1>2, <1>4, <1>5, <2>1, <2>2 DEF Partition
  <2>6. PostsAlone' /\ ExitTookAll'
    BY <1>1, <1>2, <2>1, <2>2 DEF PostsAlone, ExitTookAll
  <2>7. Promised'
    BY <1>1, <1>2, <1>5, <2>1 DEF Promised, FlushMeansSettled
  <2>8. QED
    BY <1>8, <1>9, <2>3, <2>4, <2>5, <2>6, <2>7, TypeParts DEF IInv
<1>12. QED
  BY <1>10, <1>11

\* The child starts with a new buffer and new locks.
LEMMA ForkIInv ==
  ASSUME IInv, Fork
  PROVE  IInv'
<1> USE SizesAssumption
<1>1. stopPc' \in {"idle", "set", "joining"} /\ exitPc' = "no" /\ exitBatch' = <<>>
  BY DEF IInv, Typed, DataTyped, ControlTyped, PostsAlone, Fork, exitVars
<1> USE DEF Fork
<1>2. <<>> \in Seq(Events) /\ Len(<<>>) = 0 /\ ToSet(<<>>) = {} /\ Cardinality({}) = 0
  BY EmptySeq, FS_EmptySet DEF ToSet
<1>3. InFlight' = {}
  BY <1>2 DEF InFlight
<1>4. DataTyped'
  BY <1>1, <1>2 DEF DataTyped
<1>5. ControlTyped'
  <2>1. wake' \in BOOLEAN /\ holdOff' \in BOOLEAN
    OBVIOUS
  <2>2. QED
    BY <1>1, <2>1 DEF ControlTyped
<1>6. Contiguous' /\ Partition'
  BY <1>1, <1>2, <1>3 DEF Contiguous, Partition, Gone
<1>7. Locked' /\ TriesLeft' /\ MainInItsRound' /\ PostsAlone' /\ ExitTookAll'
  BY <1>1 DEF Locked, TriesLeft, MainInItsRound, PostsAlone, ExitTookAll, Tasks
<1>8. Promised'
  BY DEF Promised, FlushMeansSettled, Callers, Tasks
<1>9. QED
  BY <1>4, <1>5, <1>6, <1>7, <1>8, TypeParts DEF IInv

LEMMA NextIInv == IInv /\ [Next]_vars => IInv'
<1> SUFFICES ASSUME IInv, [Next]_vars PROVE IInv'
  OBVIOUS
<1>1. ASSUME Sending PROVE IInv'
  BY <1>1, SendIInv, SignallingIInv DEF Sending
<1>2. ASSUME Flushing PROVE IInv'
  BY <1>2, GateIInv, DrainIInv, SettlesIInv, RetryIInv DEF Flushing
<1>3. ASSUME Loop PROVE IInv'
  BY <1>3, AfterWaitIInv, SignallingIInv DEF Loop
<1>4. ASSUME Calls PROVE IInv'
  <2>1. ASSUME NEW f \in Flushers, FlushCall(f) PROVE IInv'
    BY <2>1, PostFlushIInv DEF FlushCall, Callers, exitVars
  <2>2. QED
    BY <1>4, <2>1, SignallingIInv DEF Calls
<1>5. ASSUME Exit PROVE IInv'
  <2>1. ASSUME ExitBegins PROVE IInv'
    BY <2>1, PostFlushIInv DEF ExitBegins, Callers
  <2>2. QED
    BY <1>5, <2>1, ExitIInv DEF Exit
<1>6. CASE UNCHANGED vars
  BY <1>6, TypeParts, ControlStep DEF vars, bufferVars, wakeVars, IInv, ControlTyped,
     MainInItsRound, taskVars, exitVars
<1>7. QED
  BY <1>1, <1>2, <1>3, <1>4, <1>5, <1>6, ForkIInv DEF Next

\* No more drops are reported, or were found by stop(), than were counted.
LEMMA CountersKept == IInv /\ Counters /\ [Next]_vars => Counters'
<1> SUFFICES ASSUME IInv, Counters, [Next]_vars PROVE Counters'
  OBVIOUS
<1>1. dropped \in Nat
  <2>1. IsFiniteSet(1..MaxEvents)
    BY SizesAssumption, FS_Interval
  <2>2. IsFiniteSet(evicted)
    BY <2>1, FS_Subset DEF IInv, Typed, DataTyped, Events
  <2>3. QED
    BY <2>2, FS_CardinalityType DEF IInv, Typed, DataTyped
<1>2. \/ /\ dropped' \in {dropped, dropped + 1}
         /\ reported' \in {reported, dropped} /\ owed' \in {owed, dropped}
      \/ dropped' = 0 /\ reported' = 0 /\ owed' = 0
  <2> USE DEF bufferVars
  <2>1. CASE Sending
    BY <2>1 DEF Sending, Send, SendCheck, SendRunning, SendPost, SendStep
  <2>2. CASE Flushing
    BY <2>2 DEF Flushing, Gate, Drain, Answered, Failed, GivesUp, Retry, TakesBatch,
       Finish, TaskUnchanged
  <2>3. CASE Loop
    BY <2>3 DEF Loop, Woken, IntervalElapses, AfterWait, WakeCallback, Teardown, HoldOffEnds
  <2>4. CASE Calls
    BY <2>4 DEF Calls, FlushCall, PostFlush, StopSets, StopWakes
  <2>5. CASE Exit
    BY <2>5 DEF Exit, ExitBegins, PostFlush, ExitTakes, ExitPosts
  <2>6. CASE Fork
    BY <2>6 DEF Fork
  <2>7. CASE UNCHANGED vars
    BY <2>7 DEF vars
  <2>8. QED
    BY <2>1, <2>2, <2>3, <2>4, <2>5, <2>6, <2>7 DEF Next
<1>3. QED
  BY <1>1, <1>2 DEF Counters

\* The inductive invariant holds in every state.
THEOREM MonitorTransportInvariant == SafetySpec => []IInv
BY InitIInv, NextIInv, PTL DEF SafetySpec

\* The buffer never outgrows buffer_size, every drop is counted and none reported
\* twice, and no batch is tried more than MAX_RETRY_ATTEMPTS times.
THEOREM MonitorTransportTyped == SafetySpec => []TypeOK
<1>1. Init => Counters
  BY FS_EmptySet DEF Init, Counters
<1>2. IInv /\ Counters => TypeOK
  BY DEF IInv, Typed, DataTyped, ControlTyped, Counters, TypeOK
<1>3. QED
  BY <1>1, <1>2, CountersKept, MonitorTransportInvariant, PTL DEF SafetySpec

\* Every event send() queued is in exactly one place, through every drain, retry,
\* eviction, exit and fork.
THEOREM MonitorTransportAccounts == SafetySpec => []EventsAccounted
<1>1. IInv => EventsAccounted
  BY IInvImplies
<1>2. QED
  BY <1>1, MonitorTransportInvariant, PTL

\* Whoever drains, one batch leaves at a time and the oldest events first.
THEOREM MonitorTransportOldestFirst == SafetySpec => []OldestFirst
<1>1. IInv => OldestFirst
  BY IInvImplies
<1>2. QED
  BY <1>1, MonitorTransportInvariant, PTL

\* flush() that is done has left none of the events behind it was called after.
THEOREM MonitorTransportFlushes == SafetySpec => []FlushMeansSettled
<1>1. IInv => FlushMeansSettled
  BY IInvImplies
<1>2. QED
  BY <1>1, MonitorTransportInvariant, PTL

\* The atexit hook leaves nothing in the buffer that was there when it began.
THEOREM MonitorTransportExitDrains == SafetySpec => []ExitDrainsBuffer
<1>1. IInv => ExitDrainsBuffer
  BY IInvImplies
<1>2. QED
  BY <1>1, MonitorTransportInvariant, PTL

-----------------------------------------------------------------------------
StaysSignalled ==
  \A e \in Urgent : ~holdOff /\ Answering(e) => Answering(e)'

\* A step that keeps the buffer and every sign of a wake-up.
LEMMA SignKept ==
  ASSUME UNCHANGED buffer, WakeComing => WakeComing'
  PROVE  StaysSignalled
BY DEF StaysSignalled, Answering

\* send(): an error is queued together with the obligation to wake the loop
LEMMA SendSignals ==
  ASSUME IInv, NEW s \in Senders, Send(s)
  PROVE  StaysSignalled
<1> USE SizesAssumption
<1>1. /\ buffer \in Seq(Events) /\ Len(buffer) \in Nat /\ sent + 1 \in Events
      /\ sendPc \in [Senders -> {"idle", "check", "running", "post", "raised"}]
  BY LenProperties DEF IInv, Typed, DataTyped, ControlTyped, Send, Events
<1>2. \A b \in ToSet(buffer') : b = sent + 1 \/ b \in ToSet(buffer)
  <2>1. ASSUME NEW d \in Seq(Events), buffer' = Append(d, sent + 1), ToSet(d) \subseteq ToSet(buffer)
        PROVE  \A b \in ToSet(buffer') : b = sent + 1 \/ b \in ToSet(buffer)
    <3>1. /\ buffer' \in Seq(Events) /\ Len(buffer') = Len(d) + 1 /\ Len(d) \in Nat
          /\ \A i \in 1..Len(d) : buffer'[i] = d[i]
          /\ buffer'[Len(d) + 1] = sent + 1
      BY <1>1, <2>1, AppendProperties, LenProperties
    <3>2. ToSet(d) = {d[i] : i \in 1..Len(d)} /\ ToSet(buffer') = {buffer'[i] : i \in 1..Len(buffer')}
      BY <3>1, ToSetOf
    <3>3. ASSUME NEW i \in 1..Len(buffer')
          PROVE  buffer'[i] = sent + 1 \/ buffer'[i] \in ToSet(d)
      <4>1. i \in 1..Len(d) \/ i = Len(d) + 1
        BY <3>1
      <4>2. QED
        BY <4>1, <3>1, <3>2
    <3>4. QED
      BY <2>1, <3>2, <3>3
  <2>2. CASE Len(buffer) = Capacity
    <3>1. /\ Tail(buffer) \in Seq(Events) /\ Len(Tail(buffer)) = Len(buffer) - 1
          /\ \A i \in 1..(Len(buffer) - 1) : Tail(buffer)[i] = buffer[i + 1]
      <4>1. buffer # <<>>
        BY <1>1, <2>2, EmptySeq
      <4>2. QED
        BY <1>1, <4>1, HeadTailProperties
    <3>2. ToSet(Tail(buffer)) = {Tail(buffer)[i] : i \in 1..(Len(buffer) - 1)}
          /\ ToSet(buffer) = {buffer[i] : i \in 1..Len(buffer)}
      <4>1. ToSet(Tail(buffer)) = {Tail(buffer)[i] : i \in 1..Len(Tail(buffer))}
        BY <3>1, ToSetOf
      <4>2. ToSet(buffer) = {buffer[i] : i \in 1..Len(buffer)}
        BY <1>1, ToSetOf
      <4>3. QED
        BY <3>1, <4>1, <4>2
    <3>3. \A i \in 1..(Len(buffer) - 1) : i + 1 \in 1..Len(buffer)
      BY <1>1
    <3>4. ToSet(Tail(buffer)) \subseteq ToSet(buffer)
      BY <3>1, <3>2, <3>3
    <3>5. buffer' = Append(Tail(buffer), sent + 1)
      BY <2>2 DEF Send
    <3>6. QED
      BY <2>1, <3>1, <3>4, <3>5
  <2>3. CASE Len(buffer) # Capacity
    BY <1>1, <2>1, <2>3 DEF Send
  <2>4. QED
    BY <2>2, <2>3
<1> SUFFICES ASSUME NEW e \in Urgent, Answering(e), e \in ToSet(buffer')
             PROVE  WakeComing'
  BY DEF StaysSignalled, Answering
<1>3. CASE e = sent + 1
  <2>1. sendPc'[s] = "check"
    BY <1>1, <1>3 DEF Send
  <2>2. QED
    BY <2>1 DEF WakeComing
<1>4. CASE e \in ToSet(buffer)
  <2>1. WakeComing
    BY <1>4 DEF Answering
  <2>2. /\ UNCHANGED <<wakePosted, wake, taskPc, loop>>
        /\ sendPc[s] = "idle" /\ \A r \in Senders \ {s} : sendPc'[r] = sendPc[r]
    BY <1>1 DEF Send, wakeVars, taskVars
  <2>3. QED
    BY <2>1, <2>2 DEF WakeComing, Running
<1>5. QED
  BY <1>2, <1>3, <1>4

\* the rest of send(), stop() and the loop's callbacks hand the sign on
LEMMA SignHandedOn ==
  ASSUME IInv,
         \/ \E s \in Senders : SendCheck(s) \/ SendRunning(s) \/ SendPost(s)
         \/ StopSets \/ StopWakes \/ WakeCallback \/ Teardown \/ HoldOffEnds
  PROVE  StaysSignalled
<1>1. /\ sendPc \in [Senders -> {"idle", "check", "running", "post", "raised"}]
      /\ wakePosted \in Nat
  BY DEF IInv, Typed, DataTyped, ControlTyped
<1>2. CASE \E s \in Senders : SendCheck(s) \/ SendRunning(s) \/ SendPost(s)
  <2>1. PICK s \in Senders : SendCheck(s) \/ SendRunning(s) \/ SendPost(s)
    BY <1>2
  <2>2. /\ UNCHANGED <<buffer, wake, taskPc, loop>>
        /\ \A r \in Senders \ {s} : sendPc'[r] = sendPc[r]
        /\ wakePosted' \in {wakePosted, wakePosted + 1}
    BY <1>1, <2>1 DEF SendCheck, SendRunning, SendPost, SendStep, bufferVars, taskVars
  <2>3. Running => sendPc'[s] \in {"running", "post"} \/ wakePosted' = wakePosted + 1
    BY <1>1, <2>1 DEF SendCheck, SendRunning, SendPost, SendStep, Running
  <2>4. WakeComing'
    BY <1>1, <2>2, <2>3 DEF WakeComing, Running
  <2>5. QED
    BY <2>2, <2>4, SignKept
<1>3. CASE StopSets \/ StopWakes
  <2>1. /\ UNCHANGED <<buffer, wake, taskPc, loop, sendPc>>
        /\ wakePosted' \in {wakePosted, wakePosted + 1}
    BY <1>3 DEF StopSets, StopWakes, wakeVars, bufferVars, taskVars
  <2>2. WakeComing => WakeComing'
    BY <1>1, <2>1 DEF WakeComing, Running
  <2>3. QED
    BY <2>1, <2>2, SignKept
<1>4. CASE WakeCallback
  <2>1. buffer' = buffer /\ wake' = TRUE
    BY <1>4 DEF WakeCallback, bufferVars
  <2>2. WakeComing'
    BY <2>1 DEF WakeComing
  <2>3. QED
    BY <2>1, <2>2, SignKept
<1>5. CASE HoldOffEnds
  BY <1>5 DEF HoldOffEnds, StaysSignalled
<1>6. CASE Teardown
  <2>1. buffer' = buffer /\ ~Running'
    BY <1>6 DEF Teardown, Running, bufferVars
  <2>2. QED
    BY <2>1, SignKept DEF WakeComing
<1>7. QED
  BY <1>2, <1>3, <1>4, <1>5, <1>6

\* Main answers a wake-up by draining; the others touch neither.
LEMMA FlushingSignals ==
  ASSUME IInv, NEW x \in Tasks,
         Gate(x) \/ Drain(x) \/ Answered(x) \/ Failed(x) \/ GivesUp(x) \/ Retry(x)
  PROVE  StaysSignalled
<1>1. /\ taskPc \in [Tasks -> {"off", "gate", "queued", "sending", "backoff", "done", "held"}]
      /\ Main \in Tasks
  BY DEF IInv, Typed, DataTyped, ControlTyped, Tasks
<1>2. CASE Drain(x)
  <2>1. ToSet(buffer') = {}
    BY <1>2 DEF Drain, ToSet
  <2>2. QED
    BY <2>1 DEF StaysSignalled, Answering
<1>3. CASE Gate(x) \/ Answered(x) \/ Failed(x) \/ GivesUp(x) \/ Retry(x)
  <2>1. Running /\ UNCHANGED <<buffer, sendPc, wakePosted, wake>>
    BY <1>3 DEF Gate, Answered, Failed, GivesUp, Retry, TaskUnchanged, wakeVars
  <2>2. ASSUME ~holdOff, taskPc[Main] \in {"gate", "queued"}
        PROVE  taskPc'[Main] \in {"gate", "queued"}
    <3>1. CASE x = Main
      BY <1>1, <1>3, <2>2, <3>1 DEF Gate, Answered, Failed, GivesUp, Retry
    <3>2. CASE x # Main
      BY <1>1, <1>3, <2>2, <3>2 DEF Gate, Answered, Failed, GivesUp, Retry, Finish
    <3>3. QED
      BY <3>1, <3>2
  <2>3. ~holdOff /\ WakeComing => WakeComing'
    BY <2>1, <2>2 DEF WakeComing
  <2>4. QED
    BY <2>1, <2>3 DEF StaysSignalled, Answering
<1>4. QED
  BY <1>2, <1>3

\* Outside of an open hold-off window an error that is buffered, or about to be, has
\* its wake-up on the way, and no step takes the sign away before it is answered.
THEOREM MonitorTransportStaysSignalled == SafetySpec => ErrorStaysSignalled
<1>1. ASSUME IInv, [Next]_vars PROVE [StaysSignalled]_vars
  <2>1. CASE Sending
    BY <1>1, <2>1, SendSignals, SignHandedOn DEF Sending
  <2>2. CASE Flushing
    BY <1>1, <2>2, FlushingSignals DEF Flushing
  <2>3. CASE Loop
    <3>1. ASSUME Woken \/ IntervalElapses PROVE StaysSignalled
      <4>1. buffer' = buffer /\ taskPc'[Main] = "gate"
        BY <1>1, <3>1
        DEF Woken, IntervalElapses, AfterWait, bufferVars, IInv, Typed, ControlTyped, Tasks
      <4>2. QED
        BY <4>1, SignKept DEF WakeComing
    <3>2. QED
      BY <1>1, <2>3, <3>1, SignHandedOn DEF Loop
  <2>4. ASSUME NEW c \in Callers, PostFlush(c) PROVE StaysSignalled
    <3>1. /\ UNCHANGED <<buffer, sendPc, wakePosted, wake, loop>>
          /\ taskPc'[Main] = taskPc[Main]
      BY <1>1, <2>4, TasksAssumption
      DEF PostFlush, bufferVars, wakeVars, IInv, Typed, DataTyped, ControlTyped, Tasks, Callers
    <3>2. WakeComing => WakeComing'
      BY <3>1 DEF WakeComing, Running
    <3>3. QED
      BY <3>1, <3>2, SignKept
  <2>5. CASE Calls
    BY <1>1, <2>4, <2>5, SignHandedOn DEF Calls, FlushCall, Callers
  <2>6. CASE Exit
    <3>1. ASSUME ExitTakes PROVE StaysSignalled
      BY <3>1 DEF ExitTakes, StaysSignalled, Answering, ToSet
    <3>2. ASSUME ExitPosts PROVE StaysSignalled
      <4>1. UNCHANGED <<buffer, sendPc, wakePosted, wake, loop, taskPc>>
        BY <3>2 DEF ExitPosts, bufferVars, wakeVars, taskVars
      <4>2. QED
        BY <4>1, SignKept DEF WakeComing, Running
    <3>3. QED
      BY <2>4, <2>6, <3>1, <3>2 DEF Exit, ExitBegins, Callers
  <2>7. CASE Fork
    BY <2>7 DEF Fork, StaysSignalled, Answering, ToSet
  <2>8. QED
    BY <1>1, <2>1, <2>2, <2>3, <2>5, <2>6, <2>7 DEF Next
<1>2. ErrorStaysSignalled <=> [][StaysSignalled]_vars
  BY PTL DEF ErrorStaysSignalled, StaysSignalled
<1>3. QED
  BY <1>1, <1>2, MonitorTransportInvariant, PTL DEF SafetySpec
=============================================================================
