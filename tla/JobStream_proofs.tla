-------------------------- MODULE JobStream_proofs --------------------------
(***************************************************************************)
(* Proofs about JobStream, for queues of any size, any number of            *)
(* detections, lost connections and crashes.  The inductive invariant says  *)
(* where run_job has got to by its status (Staged), that a queue belongs to *)
(* an open EventSource (Attended), and what a queue may hold (Queued).      *)
(***************************************************************************)
EXTENDS JobStream, SequenceTheorems, TLAPS

-----------------------------------------------------------------------------
(* Messages and queues.                                                       *)

LEMMA MessageTypes ==
    ASSUME NEW m \in Message
    PROVE  /\ m.type \in {"state", "detection", "notice", "complete"}
           /\ m.type = "detection" => m.n \in 1..MaxDetections
           /\ m.type = "state" => m.status \in {"queued", "running"} \cup Terminal
<1>1. CASE m \in [type : {"state"}, status : {"queued", "running"} \cup Terminal]
    BY <1>1
<1>2. CASE m \in [type : {"detection"}, n : 1..MaxDetections]
    BY <1>2
<1>3. CASE m \in [type : {"notice", "complete"}]
    BY <1>3
<1> QED
    BY <1>1, <1>2, <1>3 DEF Message

LEMMA Messages ==
    ASSUME TypeOK
    PROVE  /\ State \in Message /\ State.type = "state" /\ State.status = status
           /\ \A t \in {"notice", "complete"} :
                 [type |-> t] \in Message /\ [type |-> t].type = t
           /\ \A k \in 1..MaxDetections :
                 /\ [type |-> "detection", n |-> k] \in Message
                 /\ [type |-> "detection", n |-> k].type = "detection"
                 /\ [type |-> "detection", n |-> k].n = k
<1>1. State \in Message /\ State.type = "state" /\ State.status = status
    BY DEF TypeOK, State, Message
<1>2. \A t \in {"notice", "complete"} : [type |-> t] \in Message /\ [type |-> t].type = t
    BY DEF Message
<1>3. \A k \in 1..MaxDetections :
                 /\ [type |-> "detection", n |-> k] \in Message
                 /\ [type |-> "detection", n |-> k].type = "detection"
                 /\ [type |-> "detection", n |-> k].n = k
    BY DEF Message
<1> QED
    BY <1>1, <1>2, <1>3

\* A queue without messages is in order.
LEMMA EmptyQueue == \A q : q = <<>> => q \in Seq(Message) /\ Len(q) = 0 /\ DOMAIN q = {}
<1> TAKE q
<1> HAVE q = <<>>
<1>1. q \in Seq(Message) /\ Len(q) = 0
    BY EmptySeq
<1> QED
    BY <1>1, EmptySeq

\* A message added behind the others keeps the queue in order, if it is the
\* newest detection or speaks of an end that has come.
LEMMA Added ==
    ASSUME TypeOK, Queued, NEW m \in Message,
           queue' = Append(queue, m), Len(queue) < QueueSize,
           shown' = shown,
           status \in Terminal => status' \in Terminal,
           Ends(m) => status' \in Terminal,
           count' \in 0..MaxDetections, count <= count',
           m.type = "detection" => m.n = count' /\ count < count'
    PROVE  queue' \in Seq(Message) /\ Len(queue') <= QueueSize /\ Queued'
<1>1. /\ queue \in Seq(Message) /\ Len(queue) \in Nat /\ DOMAIN queue = 1..Len(queue)
      /\ QueueSize \in Nat /\ MaxDetections \in Nat
      /\ shown \in Nat /\ count \in Nat /\ count' \in Nat
    BY StreamAssumption, LenProperties DEF TypeOK
<1>2. /\ queue' \in Seq(Message) /\ Len(queue') = Len(queue) + 1
      /\ \A i \in 1..Len(queue) : queue'[i] = queue[i]
      /\ queue'[Len(queue) + 1] = m
      /\ DOMAIN queue' = 1..(Len(queue) + 1)
    BY <1>1, AppendProperties, LenProperties
<1>3. shown' <= count'
    BY <1>1 DEF Queued
<1>4. ASSUME NEW i \in DOMAIN queue'
      PROVE  /\ Ends(queue'[i]) => status' \in Terminal
             /\ queue'[i].type = "detection" => shown' < queue'[i].n /\ queue'[i].n <= count'
  <2>1. CASE i \in 1..Len(queue)
    <3>1. queue'[i] = queue[i] /\ queue[i] \in Message /\ i \in DOMAIN queue
        BY <1>1, <1>2, <2>1, ElementOfSeq
    <3>2. queue[i].type = "detection" => queue[i].n \in Nat
        BY <1>1, <3>1, MessageTypes
    <3> QED
        BY <1>1, <3>1, <3>2 DEF Queued
  <2>2. CASE i = Len(queue) + 1
    <3>1. queue'[i] = m
        BY <1>2, <2>2
    <3> QED
        BY <1>1, <3>1 DEF Queued
  <2> QED
      BY <1>1, <1>2, <2>1, <2>2
<1>5. ASSUME NEW i \in DOMAIN queue', NEW j \in DOMAIN queue', i < j,
             queue'[i].type = "detection", queue'[j].type = "detection"
      PROVE  queue'[i].n < queue'[j].n
  <2>1. i \in 1..Len(queue) /\ queue'[i] = queue[i] /\ queue[i] \in Message
      BY <1>1, <1>2, <1>5, ElementOfSeq
  <2>2. queue[i].n \in Nat /\ queue[i].n <= count
      BY <1>1, <1>5, <2>1, MessageTypes DEF Queued
  <2>3. CASE j \in 1..Len(queue)
    <3>1. queue'[j] = queue[j]
        BY <1>2, <2>3
    <3> QED
        BY <1>1, <1>5, <2>1, <2>3, <3>1 DEF Queued
  <2>4. CASE j = Len(queue) + 1
    <3>1. queue'[j] = m
        BY <1>2, <2>4
    <3> QED
        BY <1>1, <1>5, <2>2, <3>1
  <2> QED
      BY <1>1, <1>2, <2>3, <2>4
<1> QED
    BY <1>1, <1>2, <1>3, <1>4, <1>5 DEF Queued

\* ... and so does a message that is published, or dropped with the queue.
LEMMA Published ==
    ASSUME TypeOK, Attended, Queued, NEW m \in Message, Publish(m),
           UNCHANGED browser,
           status \in Terminal => status' \in Terminal,
           Ends(m) => status' \in Terminal,
           count' \in 0..MaxDetections, count <= count',
           m.type = "detection" => m.n = count' /\ count < count'
    PROVE  /\ queue' \in Seq(Message) /\ Len(queue') <= QueueSize
           /\ listed' \in BOOLEAN /\ Attended' /\ Queued'
<1>1. stream' = stream /\ source' = source /\ panel' = panel /\ shown' = shown
    BY DEF Publish, browser
<1>2. listed' \in BOOLEAN /\ (listed' => listed /\ Len(queue) < QueueSize)
    BY DEF Publish, TypeOK
<1>3. Attended'
  <2>1. CASE listed'
    BY <1>1, <1>2, <2>1 DEF Attended
  <2>2. CASE ~ listed'
    BY <1>1, <2>2 DEF Attended, Publish
  <2> QED
    BY <2>1, <2>2
<1>4. CASE listed'
  <2>1. queue' = Append(queue, m)
      BY <1>4 DEF Publish
  <2> QED
      BY <1>1, <1>2, <1>3, <1>4, <2>1, Added
<1>5. CASE ~ listed'
  <2>1. queue' = queue /\ queue \in Seq(Message) /\ Len(queue) <= QueueSize
      BY <1>5 DEF Publish, TypeOK
  <2>2. \A i \in DOMAIN queue : queue[i].type = "detection" => queue[i].n \in Nat
      BY <2>1, MessageTypes, ElementOfSeq, LenProperties
  <2>3. shown \in Nat /\ count \in Nat /\ count' \in Nat
      BY StreamAssumption DEF TypeOK
  <2>4. Queued'
      BY <1>1, <2>1, <2>2, <2>3 DEF Queued, Ends
  <2> QED
      BY <1>2, <1>3, <2>1, <2>4
<1> QED
    BY <1>4, <1>5

\* A queue that is given up, or has not begun, holds nothing.
LEMMA Emptied ==
    ASSUME TypeOK, Queued, queue' = <<>>, shown' = shown, count' = count
    PROVE  queue' \in Seq(Message) /\ Len(queue') <= QueueSize /\ Queued'
<1>1. queue' \in Seq(Message) /\ Len(queue') = 0 /\ DOMAIN queue' = {}
    BY EmptyQueue
<1> QED
    BY <1>1, StreamAssumption DEF Queued, TypeOK

-----------------------------------------------------------------------------
(* The steps.                                                                 *)

LEMMA InitInv == Init => TypeOK /\ IndInv
<1> HAVE Init
<1>1. queue \in Seq(Message) /\ Len(queue) = 0 /\ DOMAIN queue = {}
    BY EmptyQueue DEF Init
<1>2. TypeOK
  <2>1. /\ count \in 0..MaxDetections /\ shown \in 0..MaxDetections
        /\ losses \in 0..MaxLosses /\ crashes \in 0..MaxCrashes
        /\ Len(queue) <= QueueSize
      BY <1>1, StreamAssumption DEF Init
  <2>2. /\ up \in BOOLEAN /\ known \in BOOLEAN /\ tailing \in BOOLEAN /\ listed \in BOOLEAN
        /\ status \in {"queued", "running"} \cup Terminal
        /\ stage \in {"queued", "started", "scan", "ended", "stated", "rejected", "over"}
        /\ stream \in {"none", "listed", "live", "timedout"}
        /\ source \in {"waiting", "open", "closed"}
        /\ panel \in {"scanning"} \cup Terminal
      BY DEF Init
  <2> QED
      BY <1>1, <2>1, <2>2, Zenon DEF TypeOK
<1>3. IndInv
    BY <1>1 DEF Init, IndInv, Staged, Attended, Queued, NeverEarly
<1> QED
    BY <1>2, <1>3

\* Steps of run_job and its tailer that publish.
LEMMA PublishSteps ==
    ASSUME TypeOK, IndInv,
           \/ PublishDetection \/ PublishNotice \/ PublishRunning \/ SpawnFails
           \/ PublishState \/ PublishComplete \/ PublishError
    PROVE  TypeOK' /\ IndInv'
<1> USE DEF IndInv
<1>0. /\ State \in Message /\ State.type = "state" /\ State.status = status
      /\ \A t \in {"notice", "complete"} :
            [type |-> t] \in Message /\ [type |-> t].type = t
      /\ \A k \in 1..MaxDetections :
            /\ [type |-> "detection", n |-> k] \in Message
            /\ [type |-> "detection", n |-> k].type = "detection"
            /\ [type |-> "detection", n |-> k].n = k
    BY Messages
<1>1. CASE PublishDetection
  <2>1. count + 1 \in 1..MaxDetections /\ count < count + 1
      BY <1>1, StreamAssumption DEF PublishDetection, TypeOK
  <2> DEFINE m == [type |-> "detection", n |-> count + 1]
  <2>2. m \in Message /\ m.type = "detection" /\ m.n = count + 1
      BY <1>0, <2>1
  <2> HIDE DEF m
  <2>3. Publish(m) /\ count' = count + 1 /\ status' = status /\ UNCHANGED browser
      BY <1>1 DEF PublishDetection, m
  <2>4. /\ queue' \in Seq(Message) /\ Len(queue') <= QueueSize
        /\ listed' \in BOOLEAN /\ Attended' /\ Queued'
      BY <2>1, <2>2, <2>3, Published, StreamAssumption DEF Ends, TypeOK
  <2>5. TypeOK'
      BY <1>1, <2>1, <2>3, <2>4 DEF PublishDetection, Publish, TypeOK, browser, bounds
  <2>6. Staged' /\ NeverEarly'
      BY <1>1 DEF PublishDetection, Staged, NeverEarly, browser
  <2> QED
      BY <2>4, <2>5, <2>6
<1>2. ASSUME \/ PublishNotice \/ PublishRunning \/ SpawnFails
             \/ PublishState \/ PublishComplete \/ PublishError
      PROVE  TypeOK' /\ IndInv'
  <2>1. PICK m \in Message : /\ Publish(m) /\ m.type # "detection"
                             /\ Ends(m) => status' \in Terminal
    <3>1. CASE PublishNotice
        BY <1>0, <3>1 DEF PublishNotice, Ends
    <3>2. CASE PublishRunning
        BY <1>0, <3>2 DEF PublishRunning, Ends, Staged
    <3>3. CASE SpawnFails
        BY <1>0, <3>3 DEF SpawnFails, Ends
    <3>4. CASE PublishState
        BY <1>0, <3>4 DEF PublishState, Ends
    <3>5. CASE PublishComplete
        BY <1>0, <3>5 DEF PublishComplete, Ends, Staged
    <3>6. CASE PublishError
        BY <1>0, <3>6 DEF PublishError, Ends
    <3> QED
        BY <1>2, <3>1, <3>2, <3>3, <3>4, <3>5, <3>6
  <2>2. /\ count' = count /\ UNCHANGED browser
        /\ status \in Terminal => status' \in Terminal
        /\ status' \in {status, "failed"}
      BY <1>2 DEF PublishNotice, PublishRunning, SpawnFails, PublishState, PublishComplete,
                  PublishError, job, Terminal
  <2>3. /\ queue' \in Seq(Message) /\ Len(queue') <= QueueSize
        /\ listed' \in BOOLEAN /\ Attended' /\ Queued'
      BY <2>1, <2>2, Published, StreamAssumption DEF TypeOK
  <2>4. TypeOK'
    <3>1. /\ up' \in BOOLEAN /\ known' \in BOOLEAN /\ tailing' \in BOOLEAN
          /\ status' \in {"queued", "running"} \cup Terminal
          /\ stage' \in {"queued", "started", "scan", "ended", "stated", "rejected", "over"}
        BY <1>2, <2>2 DEF PublishNotice, PublishRunning, SpawnFails, PublishState,
           PublishComplete, PublishError, TypeOK, job, Terminal
    <3>2. UNCHANGED <<count, source, panel, shown, stream, losses, crashes>>
        BY <1>2, <2>1, <2>2 DEF PublishNotice, PublishRunning, SpawnFails, PublishState,
           PublishComplete, PublishError, Publish, browser, bounds
    <3>3. /\ count' \in 0..MaxDetections /\ shown' \in 0..MaxDetections
          /\ losses' \in 0..MaxLosses /\ crashes' \in 0..MaxCrashes
          /\ stream' \in {"none", "listed", "live", "timedout"}
          /\ source' \in {"waiting", "open", "closed"}
          /\ panel' \in {"scanning"} \cup Terminal
        BY <3>2 DEF TypeOK
    <3> QED
        BY <2>3, <3>1, <3>3, Zenon DEF TypeOK
  <2>5. Staged'
      BY <1>2 DEF PublishNotice, PublishRunning, SpawnFails, PublishState,
         PublishComplete, PublishError, Staged, job, Terminal
  <2>6. NeverEarly'
      BY <2>2 DEF NeverEarly, browser
  <2> QED
      BY <2>3, <2>4, <2>5, <2>6
<1> QED
    BY <1>1, <1>2

\* Steps of the job and the server that leave the queue alone.
LEMMA QuietSteps ==
    ASSUME TypeOK, IndInv,
           TailerEnds \/ Start \/ EndScan \/ Reject \/ Purge \/ Boot
    PROVE  TypeOK' /\ IndInv'
<1> USE DEF IndInv
<1>1. /\ UNCHANGED <<handler, browser, count>>
      /\ status \in Terminal => status' \in Terminal
    BY DEF TailerEnds, Start, EndScan, Reject, Purge, Boot, job, Staged, Terminal
<1>2. stream' = stream /\ queue' = queue /\ listed' = listed /\ source' = source
      /\ panel' = panel /\ shown' = shown /\ count' = count
    BY <1>1 DEF handler, browser
<1>3. TypeOK'
    BY <1>2 DEF TailerEnds, Start, EndScan, Reject, Purge, Boot, TypeOK, job, bounds, Terminal
<1>4. Staged'
    BY DEF TailerEnds, Start, EndScan, Reject, Purge, Boot, Staged, job, Terminal
<1>5. Attended'
    BY <1>2 DEF Attended
<1>6. Queued' /\ NeverEarly'
    BY <1>1, <1>2 DEF Queued, NeverEarly
<1> QED
    BY <1>3, <1>4, <1>5, <1>6

\* Steps that leave the handler with an empty queue, or without one.
LEMMA ConnectionSteps ==
    ASSUME TypeOK, IndInv,
           Connect \/ ConnectUnknown \/ TimeOut \/ CheckStatus \/ LoseConnection \/ Crash
    PROVE  TypeOK' /\ IndInv'
<1> USE DEF IndInv
<1>1. UNCHANGED <<status, stage, tailing, count, panel, shown>>
    BY DEF Connect, ConnectUnknown, TimeOut, CheckStatus, LoseConnection, Crash, job, browser
<1>2. Staged' /\ NeverEarly'
    BY <1>1 DEF Staged, NeverEarly
<1>3. Attended'
    BY DEF Connect, ConnectUnknown, TimeOut, CheckStatus, LoseConnection, Crash, Attended,
           Hangup, handler, browser, TypeOK
<1>4. queue' \in Seq(Message) /\ Len(queue') <= QueueSize /\ Queued'
  <2>1. CASE queue' = <<>>
      BY <1>1, <2>1, Emptied
  <2>2. CASE queue' = queue
      BY <1>1, <2>2 DEF TypeOK, Queued
  <2>3. queue' = <<>> \/ queue' = queue
      BY DEF Connect, ConnectUnknown, TimeOut, CheckStatus, LoseConnection, Crash, Hangup, handler
  <2> QED
      BY <2>1, <2>2, <2>3
<1>5. TypeOK'
  <2>1. /\ up' \in BOOLEAN /\ known' \in BOOLEAN /\ listed' \in BOOLEAN
        /\ stream' \in {"none", "listed", "live", "timedout"}
        /\ source' \in {"waiting", "open", "closed"}
      BY DEF Connect, ConnectUnknown, TimeOut, CheckStatus, LoseConnection, Crash,
         Hangup, TypeOK, handler, browser
  <2>2. losses' \in 0..MaxLosses /\ crashes' \in 0..MaxCrashes
      BY StreamAssumption DEF Connect, ConnectUnknown, TimeOut, CheckStatus, LoseConnection,
         Crash, TypeOK, bounds
  <2>3. /\ status' \in {"queued", "running"} \cup Terminal
        /\ stage' \in {"queued", "started", "scan", "ended", "stated", "rejected", "over"}
        /\ tailing' \in BOOLEAN
        /\ count' \in 0..MaxDetections /\ shown' \in 0..MaxDetections
        /\ panel' \in {"scanning"} \cup Terminal
      BY <1>1 DEF TypeOK
  <2> QED
      BY <1>4, <2>1, <2>2, <2>3, Zenon DEF TypeOK
<1> QED
    BY <1>2, <1>3, <1>4, <1>5

LEMMA ReplayStep ==
    ASSUME TypeOK, IndInv, Replay
    PROVE  TypeOK' /\ IndInv'
<1> USE DEF IndInv
<1>1. UNCHANGED <<up, known, status, stage, tailing, count, panel, shown, losses, crashes>>
    BY DEF Replay, job, bounds
<1>2. Staged' /\ NeverEarly'
    BY <1>1 DEF Staged, NeverEarly
<1>3. Attended'
    BY DEF Replay, Attended, Hangup
<1>4. queue' \in Seq(Message) /\ Len(queue') <= QueueSize /\ Queued'
  <2>1. CASE queue' = <<>>
      BY <1>1, <2>1, Emptied
  <2>2. CASE queue' = Append(queue, State) /\ Len(queue) < QueueSize
    <3>1. State \in Message /\ State.type = "state" /\ State.status = status
        BY Messages
    <3>2. Ends(State) => status' \in Terminal
        BY <1>1, <3>1 DEF Ends
    <3>3. count' \in 0..MaxDetections /\ count <= count'
        BY <1>1, StreamAssumption DEF TypeOK
    <3>4. shown' = shown /\ (status \in Terminal => status' \in Terminal)
        BY <1>1
    <3> QED
        BY <2>2, <3>1, <3>2, <3>3, <3>4, Added
  <2> QED
      BY <2>1, <2>2 DEF Replay, Hangup
<1>5. TypeOK'
    BY <1>1, <1>4 DEF Replay, Hangup, TypeOK
<1> QED
    BY <1>2, <1>3, <1>4, <1>5

\* The event at the head of the queue becomes the panel: what it says of the end
\* is so, and a detection is the next one.
LEMMA DeliverStep ==
    ASSUME TypeOK, IndInv, Deliver
    PROVE  TypeOK' /\ IndInv' /\ (shown' # shown => shown' > shown)
<1> USE DEF IndInv
<1> DEFINE m == queue[1]
<1>1. /\ queue \in Seq(Message) /\ queue # <<>> /\ Len(queue) \in Nat \ {0}
      /\ DOMAIN queue = 1..Len(queue) /\ m \in Message /\ 1 \in DOMAIN queue
      /\ Head(queue) = m
    BY EmptySeq, LenProperties, ElementOfSeq DEF Deliver, TypeOK
<1>2. /\ m.type \in {"state", "detection", "notice", "complete"}
      /\ m.type = "detection" => m.n \in 1..MaxDetections
      /\ m.type = "state" => m.status \in {"queued", "running"} \cup Terminal
    BY <1>1, MessageTypes
<1>3. /\ Ends(m) => status \in Terminal
      /\ m.type = "detection" => shown < m.n /\ m.n <= count
    BY <1>1 DEF Queued
<1> HIDE DEF m
<1>4. /\ UNCHANGED <<up, known, status, stage, tailing, count, losses, crashes>>
      /\ panel' = Outcome(m)
      /\ shown' = IF m.type = "detection" THEN m.n ELSE shown
      /\ stream = "live"
      /\ IF panel' # "scanning" THEN source' = "closed" /\ Hangup
         ELSE queue' = Tail(queue) /\ UNCHANGED <<source, stream, listed>>
    BY <1>1 DEF Deliver, job, bounds
<1>5. /\ panel' \in {"scanning"} \cup Terminal
      /\ panel' # "scanning" => Ends(m)
    BY <1>2, <1>4 DEF Outcome, Ends, Terminal
<1>6. /\ shown \in Nat /\ count \in Nat /\ shown <= count /\ count <= MaxDetections
      /\ shown' \in Nat /\ shown' <= count
      /\ shown' # shown => shown' > shown
    BY <1>2, <1>3, <1>4, StreamAssumption DEF TypeOK, Queued
<1>7. Staged' /\ NeverEarly'
    BY <1>3, <1>4, <1>5 DEF Staged, NeverEarly
<1>8. Attended'
    BY <1>4 DEF Attended, Hangup
<1>9. queue' \in Seq(Message) /\ Len(queue') <= QueueSize /\ Queued'
  <2>1. CASE panel' # "scanning"
    <3>1. queue' \in Seq(Message) /\ Len(queue') = 0 /\ DOMAIN queue' = {}
        BY <1>4, <2>1, EmptyQueue DEF Hangup
    <3> QED
        BY <1>4, <1>6, <3>1, StreamAssumption DEF Queued
  <2>2. CASE panel' = "scanning"
    <3>1. /\ queue' = Tail(queue) /\ queue' \in Seq(Message)
          /\ Len(queue') = Len(queue) - 1 /\ DOMAIN queue' = 1..(Len(queue) - 1)
          /\ \A i \in 1..(Len(queue) - 1) : queue'[i] = queue[i + 1]
        BY <1>1, <1>4, <2>2, HeadTailProperties, LenProperties
    <3>2. Len(queue') <= QueueSize
        BY <1>1, <3>1, StreamAssumption DEF TypeOK
    <3>3. ASSUME NEW i \in DOMAIN queue'
          PROVE  /\ Ends(queue'[i]) => status' \in Terminal
                 /\ queue'[i].type = "detection" => shown' < queue'[i].n /\ queue'[i].n <= count'
      <4>1. /\ i + 1 \in DOMAIN queue /\ 1 < i + 1 /\ queue'[i] = queue[i + 1]
            /\ queue[i + 1] \in Message
          BY <1>1, <3>1, ElementOfSeq
      <4>2. queue[i + 1].type = "detection" => queue[i + 1].n \in Nat
          BY <4>1, MessageTypes
      <4>3. queue[i + 1].type = "detection" =>
                shown < queue[i + 1].n /\ (m.type = "detection" => m.n < queue[i + 1].n)
          BY <1>1, <4>1 DEF Queued, m
      <4> QED
          BY <1>4, <4>1, <4>2, <4>3 DEF Queued
    <3>4. ASSUME NEW i \in DOMAIN queue', NEW j \in DOMAIN queue', i < j,
                 queue'[i].type = "detection", queue'[j].type = "detection"
          PROVE  queue'[i].n < queue'[j].n
      <4>1. /\ i + 1 \in DOMAIN queue /\ queue'[i] = queue[i + 1]
            /\ j + 1 \in DOMAIN queue /\ queue'[j] = queue[j + 1] /\ i + 1 < j + 1
          BY <1>1, <3>1, <3>4
      <4> QED
          BY <3>4, <4>1 DEF Queued
    <3> QED
        BY <1>4, <1>6, <3>1, <3>2, <3>3, <3>4 DEF Queued
  <2> QED
      BY <2>1, <2>2
<1>10. TypeOK'
  <2>1. /\ up' \in BOOLEAN /\ known' \in BOOLEAN /\ tailing' \in BOOLEAN
        /\ status' \in {"queued", "running"} \cup Terminal
        /\ stage' \in {"queued", "started", "scan", "ended", "stated", "rejected", "over"}
        /\ count' \in 0..MaxDetections
        /\ losses' \in 0..MaxLosses /\ crashes' \in 0..MaxCrashes
      BY <1>4 DEF TypeOK
  <2>2. /\ listed' \in BOOLEAN
        /\ stream' \in {"none", "listed", "live", "timedout"}
        /\ source' \in {"waiting", "open", "closed"}
      BY <1>4 DEF TypeOK, Hangup
  <2>3. shown' \in 0..MaxDetections
      BY <1>6, StreamAssumption
  <2> QED
      BY <1>5, <1>9, <2>1, <2>2, <2>3, Zenon DEF TypeOK
<1> QED
    BY <1>6, <1>7, <1>8, <1>9, <1>10

LEMMA NextInv == TypeOK /\ IndInv /\ [Next]_vars => TypeOK' /\ IndInv'
<1> SUFFICES ASSUME TypeOK, IndInv, [Next]_vars PROVE TypeOK' /\ IndInv'
    OBVIOUS
<1>1. CASE UNCHANGED vars
    BY <1>1 DEF vars, job, handler, browser, bounds, TypeOK, IndInv, Staged, Attended, Queued,
                NeverEarly
<1>2. CASE Next
    BY <1>2, PublishSteps, QuietSteps, ConnectionSteps, ReplayStep, DeliverStep DEF Next
<1> QED
    BY <1>1, <1>2

-----------------------------------------------------------------------------
(* The theorems.                                                              *)

THEOREM Inductive == Spec => [](TypeOK /\ IndInv)
BY InitInv, NextInv, PTL DEF Spec

\* Every variable keeps its type: no queue outgrows its size, no message is
\* made that the page does not know.
THEOREM TypeCorrect == Spec => []TypeOK
BY Inductive, PTL

\* The panel never says that a scan is over before its status does (run_job
\* 756-787, startStream in app.js).
THEOREM NeverEarlyThm == Spec => []NeverEarly
<1>1. IndInv => NeverEarly
    BY DEF IndInv
<1> QED
    BY <1>1, Inductive, PTL

\* Only Deliver changes the panel, and only while the EventSource is open.
LEMMA PanelStep ==
    ASSUME TypeOK, IndInv, [Next]_vars
    PROVE  UNCHANGED <<panel, shown>> \/ Deliver
BY DEF Next, vars, job, handler, browser, bounds, Start, PublishRunning, PublishDetection,
       TailerEnds, PublishNotice, SpawnFails, EndScan, PublishState, PublishComplete, Reject,
       PublishError, Purge, Connect, ConnectUnknown, Replay, TimeOut, CheckStatus,
       LoseConnection, Crash, Boot, Publish, Hangup

\* Whatever is lost and dropped, no detection is shown twice or after a later
\* one, and none that the job has not counted (Job.publish, tail_results).
THEOREM FeedThm == Spec => FeedInOrder
<1>1. ASSUME TypeOK, IndInv, [Next]_vars
      PROVE  /\ shown' # shown => shown' > shown
             /\ shown' <= count'
  <2>1. shown' <= count'
      BY <1>1, NextInv DEF IndInv, Queued
  <2>2. CASE Deliver
      BY <1>1, <2>1, <2>2, DeliverStep
  <2>3. CASE shown' = shown
      BY <2>1, <2>3
  <2> QED
      BY <1>1, <2>2, <2>3, PanelStep
<1>2. TypeOK /\ IndInv /\ [Next]_vars =>
        [/\ shown' # shown => shown' > shown
         /\ shown' <= count']_vars
    BY <1>1
<1> QED
    BY <1>2, Inductive, PTL DEF Spec, FeedInOrder

\* An outcome that the panel shows is never replaced by another.
THEOREM OutcomeThm == Spec => OutcomeStays
<1>1. TypeOK /\ IndInv /\ [Next]_vars => [panel # "scanning" => panel' = panel]_vars
  <2> SUFFICES ASSUME TypeOK, IndInv, [Next]_vars, panel # "scanning" PROVE panel' = panel
      OBVIOUS
  <2>1. stream = "none"
      BY DEF IndInv, Attended
  <2>2. ~ Deliver
      BY <2>1 DEF Deliver
  <2> QED
      BY <2>2, PanelStep
<1> QED
    BY <1>1, Inductive, PTL DEF Spec, OutcomeStays

=============================================================================
