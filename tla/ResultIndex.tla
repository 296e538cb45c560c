---------------------------- MODULE ResultIndex ----------------------------
(***************************************************************************)
(* How the detections of one scan get from the engine's timeline.jsonl     *)
(* into the SQLite detections table.                                       *)
(*                                                                         *)
(*   - the engine (a child process) appends lines through a block buffer,  *)
(*     so what is on disk may end anywhere inside a line;                  *)
(*   - while the server lives, tail_results polls the file and run_job     *)
(*     waits for the engine, stops the tailer and saves the job;           *)
(*   - at the next boot reindex_jobs_dir reads the file again from the     *)
(*     line number jobs.indexed_lines.                                     *)
(*                                                                         *)
(* The file is a number of units.  A line takes three: the text up to some *)
(* point inside it, the rest of its text, its newline.                     *)
(***************************************************************************)
EXTENDS Integers, FiniteSets

CONSTANTS
    NumLines,    \* detections the engine will write, at most
    Separators,  \* lines whose text has a character str.splitlines breaks at
    BatchSize,   \* rows per INSERT transaction of the reindexer (500)
    MaxBoots     \* bound: restarts of the server

ASSUME ConstantsAssumption ==
    /\ NumLines \in Nat \ {0}
    /\ Separators \subseteq 1..NumLines
    /\ BatchSize \in Nat \ {0}
    /\ MaxBoots \in Nat

VARIABLES
    written,   \* units of timeline.jsonl on disk
    engine,    \* the engine process
    phase,     \* the server process
    run,       \* run_job: waits for the engine, has stopped the tailer, is over
    pc,        \* the indexer: the tailer while live, the reindexer at boot
    pos,       \* units of the file the indexer has read, or will read
    lineNo,    \* its local line_no
    batch,     \* the rows it is about to insert
    ins,       \* rows its last INSERT added, not yet added to the counters
    found,     \* job.detection_count in memory
    rows,      \* the detections rows of the job
    indexed,   \* jobs.indexed_lines
    dbCount,   \* jobs.detection_count
    boots,     \* restarts so far
    settled,   \* history: lines a completed reindex has gone through
    mishaps    \* history: what has gone wrong so far

fileVars == <<written, engine>>
tailVars == <<pc, pos, lineNo, batch, ins, found>>
dbVars   == <<rows, indexed, dbCount>>
vars     == <<written, engine, phase, run, pc, pos, lineNo, batch, ins, found,
              rows, indexed, dbCount, boots, settled, mishaps>>

Line == 1..NumLines
Row  == [no : Nat \ {0}, line : Line]

\* Lines whose whole text lies in the first w units.
Complete(w) == (w + 1) \div 3

\* Mutant: a line counts as parsed once its beginning is there.
ParsedPartial(p, w) ==
    {l \in Line \ Separators : p <= 3 * (l - 1) /\ 3 * l - 2 <= w}

\* What splitlines and json.loads make of the units after p, up to w: a line
\* is found only if its whole text is in the chunk, in one piece.
Parsed(p, w) == {l \in Line \ Separators : p <= 3 * (l - 1) /\ 3 * l - 1 <= w}

\* Lines with some text in the chunk.
Touched(p, w) == {l \in Line : p < 3 * l - 1 /\ 3 * l - 2 <= w}

\* Mutant: lines numbered from zero.
RankFromZero(l, P) == Cardinality({k \in P : k < l})

\* The tailer numbers the lines it parses one after the other.
Rank(l, P) == Cardinality({k \in P : k <= l})
Numbered(P, from) == {[no |-> from + Rank(l, P), line |-> l] : l \in P}

\* INSERT OR IGNORE with primary key (job_id, line_no).
Fresh(B) == {r \in B : \A q \in rows : q.no # r.no}

TypeOK ==
    /\ written \in 0..(3 * NumLines)
    /\ engine \in {"running", "exited"}
    /\ phase \in {"live", "down", "reindex", "serving"}
    /\ run \in {"wait", "stopped", "over"}
    /\ pc \in {"read", "insert", "bump", "exited"}
    /\ pos \in 0..(3 * NumLines)
    /\ lineNo \in Nat
    /\ batch \subseteq Row
    /\ ins \in Nat
    /\ found \in Nat
    /\ rows \subseteq Row
    /\ indexed \in Nat
    /\ dbCount \in Nat
    /\ boots \in 0..MaxBoots
    /\ settled \in 0..NumLines
    /\ mishaps \subseteq {"torn", "insert", "bump", "late"}

\* run_job has started the engine and the tailer.
Init ==
    /\ written = 0 /\ engine = "running"
    /\ phase = "live" /\ run = "wait"
    /\ pc = "read" /\ pos = 0 /\ lineNo = 0
    /\ batch = {} /\ ins = 0 /\ found = 0
    /\ rows = {} /\ indexed = 0 /\ dbCount = 0
    /\ boots = 0 /\ settled = 0 /\ mishaps = {}

-----------------------------------------------------------------------------
(* The engine.  It outlives the server; it may be killed at any point. *)

EngineWrite ==
    /\ engine = "running"
    /\ \E w \in (written + 1)..(3 * NumLines) : written' = w
    /\ UNCHANGED <<engine, phase, run, tailVars, dbVars, boots, settled, mishaps>>

EngineExit ==
    /\ engine = "running"
    /\ engine' = "exited"
    /\ UNCHANGED <<written, phase, run, tailVars, dbVars, boots, settled, mishaps>>

-----------------------------------------------------------------------------
(* tail_results: one poll reads a chunk, numbers what parses, inserts it and *)
(* adds the number of new rows to the counters.  An exception drops the rest *)
(* of the poll.                                                              *)

TailRead ==
    LET P == Parsed(pos, written) IN
    /\ phase = "live" /\ pc = "read"
    /\ pos < written
    /\ pos' = written
    /\ lineNo' = lineNo + Cardinality(P)
    /\ found' = found + Cardinality(P)
    /\ batch' = Numbered(P, lineNo)
    /\ pc' = IF P = {} THEN "read" ELSE "insert"
    /\ mishaps' = IF Touched(pos, written) \subseteq P
                    THEN mishaps ELSE mishaps \cup {"torn"}
    /\ UNCHANGED <<fileVars, phase, run, ins, dbVars, boots, settled>>

TailExit ==
    /\ phase = "live" /\ pc = "read"
    /\ run # "wait"
    /\ pc' = "exited"
    /\ UNCHANGED <<fileVars, phase, run, pos, lineNo, batch, ins, found, dbVars,
                   boots, settled, mishaps>>

\* insert_detections: one transaction for the whole batch.
Insert ==
    /\ phase \in {"live", "reindex"} /\ pc = "insert"
    /\ rows' = rows \cup Fresh(batch)
    /\ ins' = Cardinality(Fresh(batch))
    /\ batch' = {}
    /\ pc' = "bump"
    /\ UNCHANGED <<fileVars, phase, run, pos, lineNo, found, indexed, dbCount,
                   boots, settled, mishaps>>

\* Mutant: only one of the two counters moves.
BumpOne ==
    /\ phase \in {"live", "reindex"} /\ pc = "bump"
    /\ indexed' = indexed + ins
    /\ ins' = 0 /\ pc' = "read"
    /\ UNCHANGED <<fileVars, phase, run, pos, lineNo, batch, found, rows, dbCount,
                   boots, settled, mishaps>>

\* bump_indexed_lines adds the same number to both counters.
Bump ==
    /\ phase \in {"live", "reindex"} /\ pc = "bump"
    /\ indexed' = indexed + ins
    /\ dbCount' = dbCount + ins
    /\ ins' = 0
    /\ pc' = "read"
    /\ UNCHANGED <<fileVars, phase, run, pos, lineNo, batch, found, rows,
                   boots, settled, mishaps>>

\* The database is busy or full: the tailer reports it and polls on.
TailInsertFails ==
    /\ phase = "live" /\ pc = "insert"
    /\ batch' = {} /\ pc' = "read"
    /\ mishaps' = mishaps \cup {"insert"}
    /\ UNCHANGED <<fileVars, phase, run, pos, lineNo, ins, found, dbVars, boots,
                   settled>>

TailBumpFails ==
    /\ phase = "live" /\ pc = "bump"
    /\ ins' = 0 /\ pc' = "read"
    /\ mishaps' = mishaps \cup {"bump"}
    /\ UNCHANGED <<fileVars, phase, run, pos, lineNo, batch, found, dbVars, boots,
                   settled>>

-----------------------------------------------------------------------------
(* run_job. *)

\* The engine is gone and 0.6 s have passed: stop_event.set().
StopTailer ==
    /\ phase = "live" /\ run = "wait"
    /\ engine = "exited"
    /\ run' = "stopped"
    /\ UNCHANGED <<fileVars, phase, tailVars, dbVars, boots, settled, mishaps>>

\* Mutant: run_job waits until the database has caught up.
FinishJobInSync ==
    /\ phase = "live" /\ run = "stopped" /\ found = dbCount
    /\ run' = "over"
    /\ UNCHANGED <<fileVars, phase, tailVars, dbVars, boots, settled, mishaps>>

\* tailer.join(timeout=2) returns whether or not the tailer has ended; persist
\* then writes the in-memory count over the column (or fails and is logged).
FinishJob ==
    /\ phase = "live" /\ run = "stopped"
    /\ run' = "over"
    /\ dbCount' \in {found, dbCount}
    /\ mishaps' = IF pc = "exited" THEN mishaps ELSE mishaps \cup {"late"}
    /\ UNCHANGED <<fileVars, phase, tailVars, rows, indexed, boots, settled>>

-----------------------------------------------------------------------------
(* The server dies and is started again.  Memory is lost; a batch that was  *)
(* inserted but not counted stays inserted.                                 *)

Crash ==
    /\ phase # "down"
    /\ boots < MaxBoots
    /\ phase' = "down"
    /\ run' = "over" /\ pc' = "exited"
    /\ pos' = 0 /\ lineNo' = 0 /\ batch' = {} /\ ins' = 0 /\ found' = 0
    /\ mishaps' = IF pc = "bump" THEN mishaps \cup {"bump"} ELSE mishaps
    /\ UNCHANGED <<fileVars, dbVars, boots, settled>>

\* reindex_jobs_dir opens the file and skips the first indexed_lines lines.
Boot ==
    /\ phase = "down"
    /\ phase' = "reindex" /\ boots' = boots + 1
    /\ pc' = "read" /\ pos' = written /\ lineNo' = indexed
    /\ UNCHANGED <<fileVars, run, batch, ins, found, dbVars, settled, mishaps>>

\* The next batch: physical line numbers, blank or torn lines left out.
ReindexRead ==
    LET last == IF lineNo + BatchSize < Complete(pos)
                  THEN lineNo + BatchSize ELSE Complete(pos)
    IN
    /\ phase = "reindex" /\ pc = "read"
    /\ lineNo < Complete(pos)
    /\ batch' = {[no |-> l, line |-> l] : l \in (lineNo + 1)..last}
    /\ lineNo' = last
    /\ pc' = "insert"
    /\ UNCHANGED <<fileVars, phase, run, pos, ins, found, dbVars, boots, settled,
                   mishaps>>

\* Mutant: the last, short batch is forgotten.
ReindexDoneEarly ==
    /\ phase = "reindex" /\ pc = "read"
    /\ lineNo + BatchSize > Complete(pos)
    /\ phase' = "serving" /\ pc' = "exited"
    /\ settled' = Complete(pos)
    /\ UNCHANGED <<fileVars, run, pos, lineNo, batch, ins, found, dbVars, boots,
                   mishaps>>

ReindexDone ==
    /\ phase = "reindex" /\ pc = "read"
    /\ lineNo >= Complete(pos)
    /\ phase' = "serving"
    /\ pc' = "exited"
    /\ settled' = Complete(pos)
    /\ UNCHANGED <<fileVars, run, pos, lineNo, batch, ins, found, dbVars, boots,
                   mishaps>>

Next ==
    \/ EngineWrite \/ EngineExit
    \/ TailRead \/ TailExit \/ Insert \/ Bump
    \/ TailInsertFails \/ TailBumpFails
    \/ StopTailer \/ FinishJob
    \/ Crash \/ Boot \/ ReindexRead \/ ReindexDone

Spec == Init /\ [][Next]_vars

\* Threads of a live process get to run; nothing obliges a process to die, a
\* dead server to be restarted, or the engine to exit.
Fairness ==
    /\ WF_vars(StopTailer) /\ WF_vars(FinishJob)
    /\ WF_vars(TailRead) /\ WF_vars(TailExit) /\ WF_vars(Insert) /\ WF_vars(Bump)
    /\ WF_vars(ReindexRead) /\ WF_vars(ReindexDone)

FairSpec == Spec /\ Fairness

-----------------------------------------------------------------------------
(* Properties *)

Lockstep == mishaps \cap {"torn", "insert"} = {}

\* Only text that is on disk in full ever becomes a row, whatever tears,
\* failures, crashes and restarts happen (tail_results and reindex_jobs_dir
\* skip what json.loads refuses), and no two rows share a line number.
RowsAreReal ==
    /\ \A r \in rows : r.line <= Complete(written)
    /\ \A r, q \in rows : r.no = q.no => r = q

\* Until the first restart the rows are in the order of the file and no line
\* is stored twice, even when the tailer has torn lines or lost batches.
LiveRowsInFileOrder ==
    boots = 0 => \A r, q \in rows : r.no < q.no => r.line < q.line

\* As long as no poll ended inside a line and no insert failed, line_no is the
\* physical line number, and jobs.indexed_lines never runs ahead of the rows:
\* every line it says is indexed has its row (the lockstep that tail_results
\* keeps so that the reindexer may skip indexed_lines lines).
LockstepNumbering ==
    Lockstep =>
        /\ \A r \in rows : r.no = r.line
        /\ \A n \in 1..indexed : [no |-> n, line |-> n] \in rows

\* Under the same condition, once a boot has reindexed, every line that was on
\* disk has exactly one row: crashes between read, insert and bump, a tailer
\* stopped before it drained the file and failed bumps are all repaired.
RecoveredAfterBoot ==
    Lockstep /\ phase = "serving" =>
        \A n \in 1..Complete(pos) : [no |-> n, line |-> n] \in rows

\* jobs.detection_count is the number of rows (counting the rows of a bump that
\* is still to come) unless an insert or bump was lost or the tailer outlived
\* run_job's two-second join; tears do not matter.
CountExact ==
    mishaps \cap {"insert", "bump", "late"} = {} =>
        Cardinality(rows) = dbCount + ins

\* A line that a completed reindex went through is never given a new row by a
\* later one: the second boot finds nothing to add, even after lost bumps.
ReindexIdempotent ==
    [][\A r \in rows' \ rows : phase = "reindex" => r.no > settled]_vars

\* Once the engine has gone, run_job ends, however busy the tailer is.
JobFinishes == engine = "exited" ~> run = "over"

-----------------------------------------------------------------------------
(* The inductive invariant behind them. *)

\* What is in flight belongs to the step the indexer is at.
InFlight ==
    /\ IsFiniteSet(rows) /\ IsFiniteSet(batch)
    /\ pc # "insert" => batch = {}
    /\ pc # "bump" => ins = 0
    /\ phase \in {"down", "serving"} => pc = "exited"
    /\ phase = "live" => boots = 0 /\ settled = 0
    /\ phase = "down" => boots < MaxBoots
    /\ phase \in {"reindex", "serving"} => boots > 0
    /\ pos <= written

\* The batch holds the newest line numbers; the counter, and while live the
\* rows, stay behind it.
Window ==
    /\ phase \in {"live", "reindex"} => indexed + ins + Cardinality(batch) <= lineNo
    /\ \A r \in batch : /\ lineNo - Cardinality(batch) < r.no
                         /\ r.no <= lineNo
                         /\ r.line <= Complete(pos)
    /\ \A r, q \in batch : r.no = q.no => r = q
    /\ phase = "live" =>
         /\ \A r \in rows : r.no <= lineNo - Cardinality(batch)
         /\ \A r \in rows \cup batch : 3 * r.line - 1 <= pos
         /\ \A r, q \in rows \cup batch : r.no < q.no => r.line < q.line

\* In lockstep the lines up to line_no are exactly the numbered rows.
Covered ==
    Lockstep =>
        /\ \A r \in batch : r.no = r.line
        /\ phase \in {"live", "reindex"} =>
             \A n \in 1..lineNo : [no |-> n, line |-> n] \in rows \cup batch
        /\ phase = "live" => lineNo = Complete(pos) /\ pos % 3 # 1

\* The in-memory count is what the rows will be once the batch is in.
FoundExact ==
    mishaps \cap {"insert", "bump", "late"} = {} /\ phase = "live" =>
        found = dbCount + ins + Cardinality(batch)

\* Above the counter, what a reindex has gone through has rows.
SettledStored ==
    /\ \A n \in 1..settled : indexed < n => \E r \in rows : r.no = n
    /\ phase = "reindex" =>
         \A n \in 1..lineNo : indexed < n => \E r \in rows \cup batch : r.no = n

IndInv ==
    /\ InFlight /\ Window /\ Covered /\ FoundExact /\ SettledStored
    /\ RowsAreReal /\ LiveRowsInFileOrder /\ LockstepNumbering
    /\ RecoveredAfterBoot /\ CountExact

=============================================================================
