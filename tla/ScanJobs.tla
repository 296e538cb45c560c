------------------------------ MODULE ScanJobs ------------------------------
(***************************************************************************)
(* The life of scan jobs in the console server: POST /api/scan handlers,   *)
(* one run_job thread per job, the engine process it spawns, the cancel,   *)
(* delete and clear handlers, and what a restart of the server leaves.     *)
(* Handlers run in threads of their own; only the accesses to JOBS are     *)
(* under JOBS_LOCK.  SQLite holds one row per job, the workspace one       *)
(* directory per job.                                                      *)
(***************************************************************************)
EXTENDS Integers, FiniteSets

CONSTANTS
    Jobs,            \* scan requests; each makes at most one job
    MaxConcurrent,   \* MAX_CONCURRENT_SCANS
    MaxHandlers,     \* POST /api/scan handlers between admission and registration
    MaxFaults,       \* bound: failed database or system calls
    MaxBoots         \* bound: crashes and restarts of the server

ASSUME ScanAssumption ==
    /\ IsFiniteSet(Jobs)
    /\ MaxConcurrent \in Nat \ {0}
    /\ MaxHandlers \in Nat \ {0}
    /\ MaxFaults \in Nat
    /\ MaxBoots \in Nat

VARIABLES
    up,        \* the server process lives
    req,       \* per job: its POST handler
    registry,  \* JOBS
    status,    \* Job.status
    cancelled, \* Job.cancel_requested
    thread,    \* per job: its run_job thread
    engine,    \* per job: the engine process, which may outlive the server
    row,       \* jobs.status in SQLite, or absent
    dir,       \* workspace/jobs/<id>: none, empty, or with a timeline.jsonl
    del,       \* per job: a DELETE handler
    clear,     \* the /api/jobs/clear handler
    purged,    \* history: deleted for good, and whether the job was quiet by then
    faults,    \* failed calls so far
    boots      \* crashes so far

vars == <<up, req, registry, status, cancelled, thread, engine, row, dir, del, clear,
          purged, faults, boots>>

\* The rest of the state in an action of one handler or thread.
files   == <<row, dir>>
jobVars == <<registry, status, cancelled>>
history == <<purged, boots>>

Active == {"queued", "running"}
Terminal == {"done", "failed", "cancelled"}
Status == Active \cup Terminal
Over == {"none", "ended", "died"}

TypeOK ==
    /\ up \in BOOLEAN
    /\ req \in [Jobs -> {"none", "admitted", "made", "registered", "saved",
                         "accepted", "refused", "error"}]
    /\ registry \subseteq Jobs
    /\ status \in [Jobs -> Status]
    /\ cancelled \in [Jobs -> BOOLEAN]
    /\ thread \in [Jobs -> Over \cup {"args", "hash", "spawn", "wait", "finish", "save"}]
    /\ engine \in [Jobs -> {"none", "running", "ok", "bad"}]
    /\ row \in [Jobs -> Status \cup {"absent"}]
    /\ dir \in [Jobs -> {"none", "empty", "timeline"}]
    /\ del \in [Jobs -> {"idle", "checked", "popped", "racing", "quiet"}]
    /\ clear \in {"idle", "checked", "cleared", "removed"}
    /\ purged \in [Jobs -> {"no", "racing", "quiet"}]
    /\ faults \in 0..MaxFaults
    /\ boots \in 0..MaxBoots

Init ==
    /\ up = TRUE
    /\ req = [j \in Jobs |-> "none"]
    /\ registry = {}
    /\ status = [j \in Jobs |-> "queued"]
    /\ cancelled = [j \in Jobs |-> FALSE]
    /\ thread = [j \in Jobs |-> "none"]
    /\ engine = [j \in Jobs |-> "none"]
    /\ row = [j \in Jobs |-> "absent"]
    /\ dir = [j \in Jobs |-> "none"]
    /\ del = [j \in Jobs |-> "idle"]
    /\ clear = "idle"
    /\ purged = [j \in Jobs |-> "no"]
    /\ faults = 0 /\ boots = 0

ActiveJobs == {j \in registry : status[j] \in Active}
InFlight == {j \in Jobs : req[j] \in {"admitted", "made"}}

\* Nobody works for the job any more: neither its POST handler nor its thread.
Quiet(j) == req[j] \notin {"registered", "saved"} /\ thread[j] \in Over

Fault == faults < MaxFaults /\ faults' = faults + 1

-----------------------------------------------------------------------------
(* POST /api/scan *)

\* The cap is read under JOBS_LOCK, and the lock is given up.
Admit(j) ==
    /\ up /\ req[j] = "none"
    /\ Cardinality(InFlight) < MaxHandlers
    /\ Cardinality(ActiveJobs) < MaxConcurrent
    /\ req' = [req EXCEPT ![j] = "admitted"]
    /\ UNCHANGED <<up, jobVars, thread, engine, files, del, clear, faults, history>>

\* 429.
TooBusy(j) ==
    /\ up /\ req[j] = "none"
    /\ Cardinality(ActiveJobs) >= MaxConcurrent
    /\ req' = [req EXCEPT ![j] = "refused"]
    /\ UNCHANGED <<up, jobVars, thread, engine, files, del, clear, faults, history>>

\* The body is no JSON, or the case is invalid: 400.  In the second case the
\* directory made by Job() stays.
BadRequest(j) ==
    /\ up /\ req[j] \in {"admitted", "made"}
    /\ req' = [req EXCEPT ![j] = "refused"]
    /\ UNCHANGED <<up, jobVars, thread, engine, files, del, clear, faults, history>>

\* Job("scan", []) makes the directory; nobody else knows the job yet.
MakeJob(j) ==
    /\ up /\ req[j] = "admitted"
    /\ req' = [req EXCEPT ![j] = "made"]
    /\ dir' = [dir EXCEPT ![j] = "empty"]
    /\ UNCHANGED <<up, jobVars, thread, engine, row, del, clear, faults, history>>

RegisterJob(j) ==
    /\ up /\ req[j] = "made"
    /\ req' = [req EXCEPT ![j] = "registered"]
    /\ registry' = registry \cup {j}
    /\ UNCHANGED <<up, status, cancelled, thread, engine, files, del, clear, faults,
                   history>>

\* job.persist(); a failure of it is only logged.
SaveNew(j) ==
    /\ up /\ req[j] = "registered"
    /\ req' = [req EXCEPT ![j] = "saved"]
    /\ \/ row' = [row EXCEPT ![j] = status[j]] /\ UNCHANGED faults
       \/ Fault /\ UNCHANGED row
    /\ UNCHANGED <<up, jobVars, thread, engine, dir, del, clear, history>>

\* Evidence is linked and the thread started.
StartThread(j) ==
    /\ up /\ req[j] = "saved"
    /\ req' = [req EXCEPT ![j] = "accepted"]
    /\ thread' = [thread EXCEPT ![j] = "args"]
    /\ UNCHANGED <<up, jobVars, engine, files, del, clear, faults, history>>

\* A database call of the handler raises: no thread is ever started for a job
\* that is registered already.
HandlerFails(j) ==
    /\ up /\ req[j] = "saved"
    /\ Fault
    /\ req' = [req EXCEPT ![j] = "error"]
    /\ UNCHANGED <<up, jobVars, thread, engine, files, del, clear, history>>

-----------------------------------------------------------------------------
(* run_job *)

\* Mutant of BuildArgs: the early return forgets to persist.
BuildArgsNoSave(j) ==
    /\ up /\ thread[j] = "args"
    /\ \/ thread' = [thread EXCEPT ![j] = "hash"] /\ UNCHANGED status
       \/ /\ thread' = [thread EXCEPT ![j] = "ended"]
          /\ status' = [status EXCEPT ![j] = "failed"]
    /\ UNCHANGED <<up, req, registry, cancelled, engine, files, del, clear, faults,
                   history>>

BuildArgs(j) ==
    /\ up /\ thread[j] = "args"
    /\ \/ /\ thread' = [thread EXCEPT ![j] = "hash"]
          /\ UNCHANGED status
       \/ \* build_hayabusa_argv rejects the parameters
          /\ thread' = [thread EXCEPT ![j] = "save"]
          /\ status' = [status EXCEPT ![j] = "failed"]
    /\ UNCHANGED <<up, req, registry, cancelled, engine, files, del, clear, faults,
                   history>>

\* Hash the evidence, then status = running and persist().
StartRunning(j) ==
    /\ up /\ thread[j] = "hash"
    /\ thread' = [thread EXCEPT ![j] = "spawn"]
    /\ status' = [status EXCEPT ![j] = "running"]
    /\ \/ row' = [row EXCEPT ![j] = "running"] /\ UNCHANGED faults
       \/ Fault /\ UNCHANGED row
    /\ UNCHANGED <<up, req, registry, cancelled, engine, dir, del, clear, history>>

\* set_job_evidence, or Popen with another error than FileNotFoundError, raises:
\* the thread dies and nobody touches the status again.
ThreadDies(j) ==
    /\ up /\ thread[j] \in {"hash", "spawn"}
    /\ Fault
    /\ thread' = [thread EXCEPT ![j] = "died"]
    /\ UNCHANGED <<up, req, jobVars, engine, files, del, clear, history>>

\* Popen, whatever cancel_requested says by now.
Spawn(j) ==
    /\ up /\ thread[j] = "spawn" /\ dir[j] # "none"
    /\ thread' = [thread EXCEPT ![j] = "wait"]
    /\ engine' = [engine EXCEPT ![j] = "running"]
    /\ dir' = [dir EXCEPT ![j] = "timeline"]
    /\ UNCHANGED <<up, req, jobVars, row, del, clear, faults, history>>

\* FileNotFoundError: the binary, or the job directory for the two logs.
SpawnFails(j) ==
    /\ up /\ thread[j] = "spawn"
    /\ thread' = [thread EXCEPT ![j] = "finish"]
    /\ status' = [status EXCEPT ![j] = "failed"]
    /\ UNCHANGED <<up, req, registry, cancelled, engine, files, del, clear, faults,
                   history>>

\* The engine ends by itself (also after the server has died).
EngineExit(j) ==
    /\ engine[j] = "running"
    /\ \E code \in {"ok", "bad"} : engine' = [engine EXCEPT ![j] = code]
    /\ UNCHANGED <<up, req, jobVars, thread, files, del, clear, faults, history>>

\* Mutant of Reap: only a clean exit is noticed.
ReapOnlyOk(j) ==
    /\ up /\ thread[j] = "wait" /\ engine[j] = "ok"
    /\ thread' = [thread EXCEPT ![j] = "finish"]
    /\ UNCHANGED <<up, req, jobVars, engine, files, del, clear, faults, history>>

\* proc.wait() returns; the tailer is stopped and joined.
Reap(j) ==
    /\ up /\ thread[j] = "wait" /\ engine[j] # "running"
    /\ thread' = [thread EXCEPT ![j] = "finish"]
    /\ UNCHANGED <<up, req, jobVars, engine, files, del, clear, faults, history>>

Outcome(j) ==
    IF cancelled[j] THEN "cancelled"
    ELSE IF status[j] = "failed" \/ engine[j] # "ok" THEN "failed" ELSE "done"

Finish(j) ==
    /\ up /\ thread[j] = "finish"
    /\ thread' = [thread EXCEPT ![j] = "save"]
    /\ status' = [status EXCEPT ![j] = Outcome(j)]
    /\ UNCHANGED <<up, req, registry, cancelled, engine, files, del, clear, faults,
                   history>>

\* The last persist(): an upsert, which makes the row if it is not there.
SaveEnd(j) ==
    /\ up /\ thread[j] = "save"
    /\ thread' = [thread EXCEPT ![j] = "ended"]
    /\ \/ row' = [row EXCEPT ![j] = status[j]] /\ UNCHANGED faults
       \/ Fault /\ UNCHANGED row
    /\ UNCHANGED <<up, req, jobVars, engine, dir, del, clear, history>>

-----------------------------------------------------------------------------
(* The other handlers *)

\* Mutant of Cancel: the handler settles the job itself.
CancelSettles(j) ==
    /\ up /\ j \in registry /\ status[j] \in Active
    /\ cancelled' = [cancelled EXCEPT ![j] = TRUE]
    /\ status' = [status EXCEPT ![j] = "cancelled"]
    /\ UNCHANGED <<up, req, registry, thread, engine, files, del, clear, faults, history>>

\* Job.cancel(): a flag, and a signal if the process is known and alive.
Cancel(j) ==
    /\ up /\ j \in registry /\ status[j] \in Active
    /\ cancelled' = [cancelled EXCEPT ![j] = TRUE]
    /\ IF thread[j] = "wait" /\ engine[j] = "running"
         THEN engine' = [engine EXCEPT ![j] = "bad"]
         ELSE UNCHANGED engine
    /\ UNCHANGED <<up, req, registry, status, thread, files, del, clear, faults, history>>

\* DELETE /api/jobs/<id>: refused for a live job, then purge_job.
DeleteCheck(j) ==
    /\ up /\ del[j] = "idle"
    /\ j \in registry => status[j] \notin Active
    /\ j \in registry \/ row[j] # "absent"
    /\ del' = [del EXCEPT ![j] = "checked"]
    /\ UNCHANGED <<up, req, jobVars, thread, engine, files, clear, faults, history>>

DeletePop(j) ==
    /\ up /\ del[j] = "checked"
    /\ del' = [del EXCEPT ![j] = "popped"]
    /\ registry' = registry \ {j}
    /\ UNCHANGED <<up, req, status, cancelled, thread, engine, files, clear, faults,
                   history>>

\* The row, and a note for purged: whether the job was quiet by then.
DeleteRow(j) ==
    /\ up /\ del[j] = "popped"
    /\ del' = [del EXCEPT ![j] = IF Quiet(j) THEN "quiet" ELSE "racing"]
    /\ row' = [row EXCEPT ![j] = "absent"]
    /\ UNCHANGED <<up, req, jobVars, thread, engine, dir, clear, faults, history>>

\* Mutant of DeleteDir: the directory is left to the boot-time reindexer.
DeleteDirKeeps(j) ==
    /\ up /\ del[j] \in {"quiet", "racing"}
    /\ del' = [del EXCEPT ![j] = "idle"]
    /\ purged' = [purged EXCEPT ![j] = del[j]]
    /\ UNCHANGED <<up, req, jobVars, thread, engine, files, clear, faults, boots>>

DeleteDir(j) ==
    /\ up /\ del[j] \in {"quiet", "racing"}
    /\ del' = [del EXCEPT ![j] = "idle"]
    /\ dir' = [dir EXCEPT ![j] = "none"]
    /\ purged' = [purged EXCEPT ![j] = del[j]]
    /\ UNCHANGED <<up, req, jobVars, thread, engine, row, clear, faults, boots>>

\* POST /api/jobs/clear: refused while a registered job is live, then the rows,
\* every directory, and JOBS.
ClearCheck ==
    /\ up /\ clear = "idle" /\ ActiveJobs = {}
    /\ clear' = "checked"
    /\ UNCHANGED <<up, req, jobVars, thread, engine, files, del, faults, history>>

ClearRows ==
    /\ up /\ clear = "checked"
    /\ clear' = "cleared"
    /\ row' = [j \in Jobs |-> "absent"]
    /\ UNCHANGED <<up, req, jobVars, thread, engine, dir, del, faults, history>>

ClearDirs ==
    /\ up /\ clear = "cleared"
    /\ clear' = "removed"
    /\ dir' = [j \in Jobs |-> "none"]
    /\ UNCHANGED <<up, req, jobVars, thread, engine, row, del, faults, history>>

ClearPop ==
    /\ up /\ clear = "removed"
    /\ clear' = "idle"
    /\ registry' = {}
    /\ UNCHANGED <<up, req, status, cancelled, thread, engine, files, del, faults,
                   history>>

-----------------------------------------------------------------------------
(* Crash and restart: engines, rows and directories remain. *)

Crash ==
    /\ up /\ boots < MaxBoots
    /\ up' = FALSE /\ boots' = boots + 1
    /\ registry' = {}
    /\ req' = [j \in Jobs |-> IF req[j] = "none" THEN "none" ELSE "refused"]
    /\ thread' = [j \in Jobs |-> "none"]
    /\ del' = [j \in Jobs |-> "idle"]
    /\ clear' = "idle"
    /\ UNCHANGED <<status, cancelled, engine, files, purged, faults>>

\* boot_reindex mints a done row for every timeline.jsonl without a row; rows
\* left at queued or running are not touched.
Boot ==
    /\ ~ up
    /\ up' = TRUE
    /\ row' = [j \in Jobs |-> IF dir[j] = "timeline" /\ row[j] = "absent"
                                THEN "done" ELSE row[j]]
    /\ UNCHANGED <<req, jobVars, thread, engine, dir, del, clear, faults, history>>

RunJob(j) ==
    \/ BuildArgs(j) \/ StartRunning(j) \/ Spawn(j) \/ Reap(j) \/ Finish(j) \/ SaveEnd(j)

Next ==
    \/ \E j \in Jobs :
         \/ Admit(j) \/ TooBusy(j) \/ BadRequest(j) \/ MakeJob(j)
         \/ RegisterJob(j) \/ SaveNew(j) \/ StartThread(j) \/ HandlerFails(j)
         \/ BuildArgs(j) \/ StartRunning(j) \/ ThreadDies(j) \/ Spawn(j)
         \/ SpawnFails(j) \/ EngineExit(j) \/ Reap(j) \/ Finish(j) \/ SaveEnd(j)
         \/ Cancel(j)
         \/ DeleteCheck(j) \/ DeletePop(j) \/ DeleteRow(j) \/ DeleteDir(j)
    \/ ClearCheck \/ ClearRows \/ ClearDirs \/ ClearPop
    \/ Crash \/ Boot

Spec == Init /\ [][Next]_vars

\* run_job threads get to run, an engine ends in the end, and a handler that has
\* registered a job goes on.  Nobody has to send a request.
Fairness ==
    \A j \in Jobs : /\ WF_vars(RunJob(j) \/ SpawnFails(j))
                    /\ WF_vars(EngineExit(j))
                    /\ WF_vars(SaveNew(j)) /\ WF_vars(StartThread(j))

FairSpec == Spec /\ Fairness

-----------------------------------------------------------------------------
(* Properties *)

\* A terminal status is never seen while the job's own thread or engine could
\* still be writing: that is what the delete and clear handlers test.
TerminalMeansEngineGone ==
    \A j \in registry : status[j] \in Terminal => engine[j] # "running"

\* The check in /api/scan and the registration are two critical sections: the
\* cap can be overrun, by no more than the handlers that were between the two.
OverrunBounded ==
    Cardinality(ActiveJobs \cup InFlight) <= MaxConcurrent + MaxHandlers - 1

\* A delete of a job nobody works for any more is final: no late persist, no
\* clear and no reindex at a later boot brings the row or the directory back.
QuietDeleteIsFinal ==
    \A j \in Jobs : purged[j] = "quiet" => row[j] = "absent" /\ dir[j] = "none"

\* Whatever ended a job, once its thread is over the row agrees with memory, if
\* no write failed and nobody is deleting it or clearing.
RowFollowsStatus ==
    faults = 0 /\ clear = "idle" =>
        \A j \in registry : thread[j] = "ended" /\ del[j] = "idle" => row[j] = status[j]

\* A job in the registry holds a slot of the cap only for a while: it reaches a
\* terminal status or leaves the registry, unless a failed call has killed its
\* handler or its thread.
SlotsComeBack ==
    \A j \in Jobs :
        (j \in ActiveJobs) ~> (j \notin ActiveJobs \/ thread[j] = "died" \/ req[j] = "error")

-----------------------------------------------------------------------------
(* The inductive invariant: what makes the safety properties stay true. *)

\* Before its thread starts a job is queued and has no process ...
Unstarted ==
    \A j \in Jobs : req[j] \in {"none", "admitted", "made", "registered", "saved"} =>
        status[j] = "queued" /\ thread[j] = "none" /\ engine[j] = "none"

\* ... and before it is registered nobody can have seen it.
Unseen ==
    \A j \in Jobs : req[j] \in {"none", "admitted", "made"} =>
        /\ j \notin registry /\ row[j] = "absent" /\ dir[j] # "timeline"
        /\ del[j] = "idle" /\ purged[j] = "no"

\* Where the thread is tells the status, and a known engine has its thread.
Running ==
    \A j \in Jobs :
        /\ thread[j] \in {"args", "hash"} => status[j] = "queued"
        /\ thread[j] \in {"spawn", "wait"} => status[j] = "running"
        /\ j \in registry /\ engine[j] = "running" => thread[j] = "wait"

Down == ~ up => registry = {} /\ \A j \in Jobs : del[j] = "idle"

Deleting ==
    \A j \in Jobs :
        /\ del[j] \in {"popped", "racing", "quiet"} => j \notin registry
        /\ del[j] = "quiet" => Quiet(j) /\ row[j] = "absent"

Purged ==
    \A j \in Jobs : purged[j] = "quiet" =>
        Quiet(j) /\ row[j] = "absent" /\ dir[j] = "none"

Settled ==
    faults = 0 /\ clear \notin {"cleared", "removed"} =>
        \A j \in registry :
            thread[j] = "ended" /\ del[j] \notin {"quiet", "racing"} => row[j] = status[j]

IndInv ==
    /\ TypeOK /\ OverrunBounded /\ Unstarted /\ Unseen /\ Running
    /\ Down /\ Deleting /\ Purged /\ Settled

=============================================================================
