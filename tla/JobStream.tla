----------------------------- MODULE JobStream ------------------------------
(***************************************************************************)
(* The event stream of one job: Job.publish to bounded queues, the handler *)
(* of GET /api/jobs/<id>/stream, and the browser's EventSource with the    *)
(* progress panel it drives.  A queue that is full is dropped without a    *)
(* word; a stream that ends is opened again by the browser.                *)
(***************************************************************************)
EXTENDS Integers, Sequences

CONSTANTS
    QueueSize,      \* maxsize of a subscriber's queue
    MaxDetections,  \* bound: detections of the scan
    MaxLosses,      \* bound: connections lost
    MaxCrashes      \* bound: crashes of the server

ASSUME StreamAssumption ==
    /\ QueueSize \in Nat \ {0}
    /\ MaxDetections \in Nat /\ MaxLosses \in Nat /\ MaxCrashes \in Nat

VARIABLES
    up, known,   \* the server runs; the job is in JOBS
    status,      \* Job.status
    stage,       \* where run_job is with its last events
    tailing,     \* the tailer publishes
    count,       \* Job.detection_count
    stream,      \* the handler of the stream
    queue,       \* its queue
    listed,      \* the queue is in Job.subscribers
    source,      \* the EventSource: waiting to connect, open, or closed for good
    panel,       \* scanning, or the outcome it shows
    shown,       \* the number of detections it shows
    losses, crashes

job     == <<status, stage, tailing, count>>
handler == <<stream, queue, listed>>
browser == <<source, panel, shown>>
bounds  == <<losses, crashes>>
vars    == <<up, known, job, handler, browser, bounds>>

Terminal == {"done", "failed", "cancelled"}

Message ==
    [type : {"state"}, status : {"queued", "running"} \cup Terminal]
      \cup [type : {"detection"}, n : 1..MaxDetections]
      \cup [type : {"notice", "complete"}]

State == [type |-> "state", status |-> status]

TypeOK ==
    /\ up \in BOOLEAN /\ known \in BOOLEAN
    /\ status \in {"queued", "running"} \cup Terminal
    /\ stage \in {"queued", "started", "scan", "ended", "stated", "rejected", "over"}
    /\ tailing \in BOOLEAN
    /\ count \in 0..MaxDetections
    /\ stream \in {"none", "listed", "live", "timedout"}
    /\ queue \in Seq(Message) /\ Len(queue) <= QueueSize
    /\ listed \in BOOLEAN
    /\ source \in {"waiting", "open", "closed"}
    /\ panel \in {"scanning"} \cup Terminal
    /\ shown \in 0..MaxDetections
    /\ losses \in 0..MaxLosses /\ crashes \in 0..MaxCrashes

Init ==
    /\ up = TRUE /\ known = TRUE
    /\ status = "queued" /\ stage = "queued" /\ tailing = FALSE /\ count = 0
    /\ stream = "none" /\ queue = <<>> /\ listed = FALSE
    /\ source = "waiting" /\ panel = "scanning" /\ shown = 0
    /\ losses = 0 /\ crashes = 0

-----------------------------------------------------------------------------
(* The job *)

\* put_nowait on the queue, which is forgotten if it is full.
Publish(message) ==
    /\ listed' = (listed /\ Len(queue) < QueueSize)
    /\ queue' = IF listed' THEN Append(queue, message) ELSE queue
    /\ UNCHANGED stream

\* tail_results; it may still be at it when run_job has stopped waiting for it.
PublishDetection ==
    /\ up /\ tailing /\ count < MaxDetections
    /\ count' = count + 1
    /\ Publish([type |-> "detection", n |-> count + 1])
    /\ UNCHANGED <<up, known, status, stage, tailing, browser, bounds>>

TailerEnds ==
    /\ up /\ tailing
    /\ tailing' = FALSE
    /\ UNCHANGED <<up, known, status, stage, count, handler, browser, bounds>>

\* An event the panel shows without an effect here: meta, progress, error.
PublishNotice ==
    /\ up /\ (stage \in {"queued", "scan", "ended"} \/ tailing)
    /\ Publish([type |-> "notice"])
    /\ UNCHANGED <<up, known, job, browser, bounds>>

\* The arguments are good, the evidence is hashed: the job runs, and says so.
Start ==
    /\ up /\ stage = "queued"
    /\ stage' = "started" /\ status' = "running"
    /\ UNCHANGED <<up, known, tailing, count, handler, browser, bounds>>

PublishRunning ==
    /\ up /\ stage = "started"
    /\ stage' = "scan" /\ tailing' = TRUE
    /\ Publish(State)
    /\ UNCHANGED <<up, known, status, count, browser, bounds>>

\* There is no engine to start: the status is failed at once, the thread goes on.
SpawnFails ==
    /\ up /\ stage = "scan" /\ status = "running"
    /\ status' = "failed"
    /\ Publish([type |-> "notice"])
    /\ UNCHANGED <<up, known, stage, tailing, count, browser, bounds>>

\* run_job sets the status ...
EndScan ==
    /\ up /\ stage = "scan"
    /\ stage' = "ended"
    /\ status' \in IF status = "failed" THEN {"failed", "cancelled"} ELSE Terminal
    /\ UNCHANGED <<up, known, tailing, count, handler, browser, bounds>>

\* ... and publishes it, and then that it is over.
PublishState ==
    /\ up /\ stage = "ended"
    /\ stage' = "stated"
    /\ Publish(State)
    /\ UNCHANGED <<up, known, status, tailing, count, browser, bounds>>

PublishComplete ==
    /\ up /\ stage = "stated"
    /\ stage' = "over"
    /\ Publish([type |-> "complete"])
    /\ UNCHANGED <<up, known, status, tailing, count, browser, bounds>>

\* The arguments are rejected: the status, an error event, and no other.
Reject ==
    /\ up /\ stage = "queued"
    /\ stage' = "rejected" /\ status' = "failed"
    /\ UNCHANGED <<up, known, tailing, count, handler, browser, bounds>>

PublishError ==
    /\ up /\ stage = "rejected"
    /\ stage' = "over"
    /\ Publish([type |-> "notice"])
    /\ UNCHANGED <<up, known, status, tailing, count, browser, bounds>>

\* DELETE or clear, once the status is terminal.
Purge ==
    /\ up /\ known /\ status \in Terminal
    /\ known' = FALSE
    /\ UNCHANGED <<up, job, handler, browser, bounds>>

-----------------------------------------------------------------------------
(* The stream *)

\* Mutant: a late subscriber gets the first detection again.
ConnectReplays ==
    /\ up /\ source = "waiting" /\ known
    /\ source' = "open"
    /\ stream' = "listed" /\ listed' = TRUE
    /\ queue' = IF count > 0 THEN <<[type |-> "detection", n |-> 1]>> ELSE <<>>
    /\ UNCHANGED <<up, known, job, panel, shown, bounds>>

\* The browser connects: the handler finds the job and lists a queue ...
Connect ==
    /\ up /\ source = "waiting" /\ known
    /\ source' = "open"
    /\ stream' = "listed" /\ queue' = <<>> /\ listed' = TRUE
    /\ UNCHANGED <<up, known, job, panel, shown, bounds>>

\* ... or answers 404, after which an EventSource does not try again.
ConnectUnknown ==
    /\ up /\ source = "waiting" /\ ~ known
    /\ source' = "closed"
    /\ UNCHANGED <<up, known, job, handler, panel, shown, bounds>>

\* What the handler leaves behind; its queue stays listed, but nobody reads it.
Hangup == stream' = "none" /\ queue' = <<>> /\ listed' = FALSE

\* subscribe() puts the state in the queue, behind what was published since the
\* queue was listed; if it is full by now the handler dies.
Replay ==
    /\ up /\ stream = "listed"
    /\ \/ /\ Len(queue) < QueueSize
          /\ queue' = Append(queue, State)
          /\ stream' = "live"
          /\ UNCHANGED <<listed, source>>
       \/ /\ Len(queue) = QueueSize
          /\ Hangup /\ source' = "waiting"
    /\ UNCHANGED <<up, known, job, panel, shown, bounds>>

\* What an event makes of the panel.
Outcome(message) ==
    CASE message.type = "complete" -> "done"
      [] message.type = "state"    ->
           IF message.status \in Terminal THEN message.status ELSE "scanning"
      [] OTHER                     -> "scanning"

\* The next event reaches the page.  Its first outcome is final: finishUI closes
\* the EventSource.  After complete the handler returns, too.
Deliver ==
    /\ up /\ stream = "live" /\ queue # <<>>
    /\ LET message == Head(queue) IN
         /\ panel' = Outcome(message)
         /\ shown' = IF message.type = "detection" THEN message.n ELSE shown
         /\ IF panel' # "scanning"
              THEN source' = "closed" /\ Hangup
              ELSE /\ queue' = Tail(queue)
                   /\ UNCHANGED <<source, stream, listed>>
    /\ UNCHANGED <<up, known, job, bounds>>

\* 15 seconds without an event ...
TimeOut ==
    /\ up /\ stream = "live" /\ queue = <<>>
    /\ stream' = "timedout"
    /\ UNCHANGED <<up, known, job, queue, listed, browser, bounds>>

\* Mutant: the handler waits for complete, whatever the status.
CheckNothing ==
    /\ up /\ stream = "timedout"
    /\ stream' = "live"
    /\ UNCHANGED <<up, known, job, queue, listed, browser, bounds>>

\* ... and the handler returns if the job has ended by now, whatever has been
\* put in the queue since.
CheckStatus ==
    /\ up /\ stream = "timedout"
    /\ \/ /\ status \in Terminal
          /\ Hangup /\ source' = "waiting"
       \/ /\ status \notin Terminal
          /\ stream' = "live"
          /\ UNCHANGED <<queue, listed, source>>
    /\ UNCHANGED <<up, known, job, panel, shown, bounds>>

LoseConnection ==
    /\ stream # "none" /\ losses < MaxLosses
    /\ losses' = losses + 1
    /\ Hangup /\ source' = "waiting"
    /\ UNCHANGED <<up, known, job, panel, shown, crashes>>

\* The server dies, and comes back without the job in JOBS.
Crash ==
    /\ up /\ crashes < MaxCrashes
    /\ up' = FALSE /\ known' = FALSE
    /\ crashes' = crashes + 1
    /\ Hangup
    /\ source' = IF source = "open" THEN "waiting" ELSE source
    /\ UNCHANGED <<job, panel, shown, losses>>

Boot ==
    /\ ~ up
    /\ up' = TRUE
    /\ stage' = "over" /\ tailing' = FALSE
    /\ UNCHANGED <<known, status, count, handler, browser, bounds>>

Next ==
    \/ Start \/ PublishRunning \/ PublishDetection \/ TailerEnds \/ PublishNotice
    \/ SpawnFails \/ EndScan \/ PublishState \/ PublishComplete
    \/ Reject \/ PublishError \/ Purge
    \/ Connect \/ ConnectUnknown \/ Replay \/ Deliver \/ TimeOut \/ CheckStatus
    \/ LoseConnection \/ Crash \/ Boot

Spec == Init /\ [][Next]_vars

\* The tailer comes to an end, and browser and handler do what they can.  A queue
\* with something in it never times out.
Fairness ==
    /\ WF_vars(TailerEnds)
    /\ WF_vars(Connect \/ ConnectUnknown) /\ WF_vars(Replay)
    /\ WF_vars(Deliver) /\ WF_vars(TimeOut) /\ WF_vars(CheckStatus)

FairSpec == Spec /\ Fairness

-----------------------------------------------------------------------------
(* Properties *)

\* The panel never says that a scan is over before it is.
NeverEarly == panel # "scanning" => status \in Terminal

\* Through lost connections and dropped queues, no detection is shown twice and
\* none after a later one; the panel is never ahead of the job.
FeedInOrder ==
    [][/\ shown' # shown => shown' > shown
       /\ shown' <= count']_vars

\* An outcome is shown once, and stays.
OutcomeStays == [][panel # "scanning" => panel' = panel]_vars

\* Whatever the queue has dropped and the network lost, the panel comes to show
\* that the scan has ended, as long as the server knows the job.
PanelEnds == stage = "over" ~> (panel # "scanning" \/ ~ known)

-----------------------------------------------------------------------------
(* The inductive invariant behind them. *)

\* Where run_job is says what it has made of the status.
Staged ==
    /\ stage = "queued" => status = "queued"
    /\ stage = "started" => status = "running"
    /\ stage = "scan" => status \in {"running", "failed"}
    /\ stage \in {"ended", "stated", "rejected"} => status \in Terminal

\* A handler serves an open EventSource, and nobody else has a queue.
Attended ==
    /\ stream # "none" <=> source = "open"
    /\ stream = "none" => queue = <<>> /\ ~ listed
    /\ panel # "scanning" => source = "closed"

Ends(message) ==
    \/ message.type = "complete"
    \/ message.type = "state" /\ message.status \in Terminal

\* The queue tells of the end only when it has come, and continues the feed.
Queued ==
    /\ shown <= count
    /\ \A i \in DOMAIN queue :
          /\ Ends(queue[i]) => status \in Terminal
          /\ queue[i].type = "detection" => shown < queue[i].n /\ queue[i].n <= count
    /\ \A i, j \in DOMAIN queue :
          i < j /\ queue[i].type = "detection" /\ queue[j].type = "detection"
            => queue[i].n < queue[j].n

IndInv == Staged /\ Attended /\ Queued /\ NeverEarly

=============================================================================
