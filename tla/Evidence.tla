------------------------------ MODULE Evidence ------------------------------
(***************************************************************************)
(* The custody ledger: uploads store files, or unpack archives, and record *)
(* an evidence row with the hash of what was sent; scans bind the rows     *)
(* below their target to the job and the case, hash the target, and have   *)
(* the engine read it.  Uploads and scans are requests with threads of     *)
(* their own; a file name is used again by the next upload of that name.   *)
(***************************************************************************)
EXTENDS Integers, Sequences

CONSTANTS
    Uploads,     \* upload requests, each with contents of its own
    Scans,       \* scan requests
    Names,       \* file names below uploads/
    Zips,        \* the names that are archives
    CaseNames,   \* names of cases
    Root,        \* the directory uploads/ as the target of a scan
    NoCase, NoJob, Missing,
    MaxFaults    \* bound: failed database calls

Requests == Uploads \cup Scans

ASSUME EvidenceAssumption ==
    /\ Uploads \cap Scans = {}
    /\ Zips \subseteq Names /\ Names \cap Uploads = {}
    /\ Root \notin Names \cup Uploads
    /\ NoCase \notin Requests \cup CaseNames /\ NoJob \notin Scans
    /\ Missing \notin Uploads \cup Names
    /\ MaxFaults \in Nat

VARIABLES
    pc,        \* where a request is
    target,    \* the name of an upload, the path of a scan
    wants,     \* the case a request names
    caseOf,    \* the case it got
    stored,    \* what a path holds: the contents of an upload, or nothing
    cases,     \* the table of open cases: who made it, and its name
    recorded,  \* the uploads with an evidence row ...
    rowCase,   \* ... its case_id ...
    rowJob,    \* ... and its job_id
    hashed,    \* what a scan was hashed from, by path
    read,      \* what its engine read
    touched,   \* history: the target was written to between the two
    faults

ledger  == <<recorded, rowCase, rowJob>>
params  == <<target, wants>>
results == <<hashed, read>>
vars    == <<pc, params, caseOf, stored, cases, ledger, results, touched, faults>>

\* The folder an archive is unpacked to is fresh: it is named by its upload.
Paths   == Names \cup Uploads
Targets == Paths \cup {Root}

\* rel_path = target, or rel_path LIKE target/%
Under(path, t) == t \in {path, Root}

\* The rel_path of an evidence row.
RelPath(u) == IF target[u] \in Zips THEN u ELSE target[u]

\* What is below a target, by path.
Contents(t) ==
    [p \in Paths |-> IF Under(p, t) /\ p \notin Zips THEN stored[p] ELSE Missing]

Held == [Paths -> Uploads \cup {Missing}]

TypeOK ==
    /\ pc \in [Requests -> {"new", "written", "extracted", "case", "insert", "record",
                            "adopt", "link", "hash", "read", "done", "failed"}]
    /\ target \in [Requests -> Targets]
    /\ wants \in [Requests -> CaseNames \cup {NoCase}]
    /\ caseOf \in [Requests -> Requests \cup {NoCase}]
    /\ stored \in Held
    /\ cases \in Seq([id : Requests, name : CaseNames])
    /\ recorded \subseteq Uploads
    /\ rowCase \in [Uploads -> Requests \cup {NoCase}]
    /\ rowJob \in [Uploads -> Scans \cup {NoJob}]
    /\ hashed \in [Scans -> Held] /\ read \in [Scans -> Held]
    /\ touched \subseteq Scans
    /\ faults \in 0..MaxFaults

Nothing == [p \in Paths |-> Missing]

Init ==
    /\ pc = [r \in Requests |-> "new"]
    /\ target = [r \in Requests |-> Root]
    /\ wants = [r \in Requests |-> NoCase]
    /\ caseOf = [r \in Requests |-> NoCase]
    /\ stored = Nothing
    /\ cases = <<>>
    /\ recorded = {}
    /\ rowCase = [u \in Uploads |-> NoCase]
    /\ rowJob = [u \in Uploads |-> NoJob]
    /\ hashed = [s \in Scans |-> Nothing] /\ read = [s \in Scans |-> Nothing]
    /\ touched = {} /\ faults = 0

Goto(r, label) == pc' = [pc EXCEPT ![r] = label]

Fault == faults < MaxFaults /\ faults' = faults + 1

\* Scans whose target has been hashed and not yet read, when path p is written.
Touch(p) == touched' = touched \cup {s \in Scans : pc[s] = "read" /\ Under(p, target[s])}

-----------------------------------------------------------------------------
(* get_or_create_case *)

\* Where a request goes on that has its case, or does without.
AfterCase(r) == IF r \in Uploads THEN "record" ELSE "adopt"

\* The newest open case of that name ...
SelectCase(r) ==
    /\ pc[r] = "case"
    /\ LET named == {i \in DOMAIN cases : cases[i].name = wants[r]} IN
         \/ /\ named = {}
            /\ Goto(r, "insert") /\ UNCHANGED <<caseOf, wants>>
         \/ \E i \in named :
              /\ \A k \in named : k <= i
              /\ caseOf' = [caseOf EXCEPT ![r] = cases[i].id]
              /\ wants' = [wants EXCEPT ![r] = NoCase]
              /\ Goto(r, AfterCase(r))
    /\ UNCHANGED <<target, stored, cases, ledger, results, touched, faults>>

\* ... or, in a transaction of its own, a new one.
InsertCase(r) ==
    /\ pc[r] = "insert"
    /\ cases' = Append(cases, [id |-> r, name |-> wants[r]])
    /\ caseOf' = [caseOf EXCEPT ![r] = r]
    /\ wants' = [wants EXCEPT ![r] = NoCase]
    /\ Goto(r, AfterCase(r))
    /\ UNCHANGED <<target, stored, ledger, results, touched, faults>>

\* A database error: an upload does without a case, a scan is not made.
CaseFails(r) ==
    /\ pc[r] \in {"case", "insert"} /\ Fault
    /\ Goto(r, IF r \in Uploads THEN "record" ELSE "failed")
    /\ wants' = [wants EXCEPT ![r] = NoCase]
    /\ UNCHANGED <<target, caseOf, stored, cases, ledger, results, touched>>

\* case_name, or the case_id of a case there is, or neither.
NameCase(r) ==
    \/ \E n \in CaseNames :
         /\ wants' = [wants EXCEPT ![r] = n]
         /\ Goto(r, "case") /\ UNCHANGED caseOf
    \/ \E i \in DOMAIN cases :
         /\ caseOf' = [caseOf EXCEPT ![r] = cases[i].id]
         /\ Goto(r, AfterCase(r)) /\ UNCHANGED wants
    \/ Goto(r, AfterCase(r)) /\ UNCHANGED <<wants, caseOf>>

-----------------------------------------------------------------------------
(* _handle_upload *)

\* The file is written under its name, whatever is there; an archive is opened
\* again, any other file is ready.
WriteFile(u) ==
    /\ pc[u] = "new"
    /\ \E name \in Names :
         /\ target' = [target EXCEPT ![u] = name]
         /\ stored' = [stored EXCEPT ![name] = u]
         /\ Touch(name)
         /\ IF name \in Zips THEN Goto(u, "written") /\ UNCHANGED <<wants, caseOf>>
                            ELSE NameCase(u)
    /\ UNCHANGED <<cases, ledger, results, faults>>

\* An archive is unpacked from there; an upload of the same name may have
\* overwritten or removed it, or may be making the same folder.
Extract(u) ==
    /\ pc[u] = "written" /\ target[u] \in Zips
    /\ \/ /\ stored[target[u]] # Missing
          /\ stored' = [stored EXCEPT ![u] = stored[target[u]]]
          /\ Touch(u)
          /\ Goto(u, "extracted")
       \/ /\ \/ stored[target[u]] = Missing
             \/ \E v \in Uploads \ {u} : pc[v] = "written" /\ target[v] = target[u]
          /\ stored' = [stored EXCEPT ![target[u]] = Missing]
          /\ Goto(u, "failed") /\ UNCHANGED touched
    /\ UNCHANGED <<params, caseOf, cases, ledger, results, faults>>

\* The archive is removed, whoever wrote it last.
Unlink(u) ==
    /\ pc[u] = "extracted"
    /\ stored' = [stored EXCEPT ![target[u]] = Missing]
    /\ NameCase(u)
    /\ UNCHANGED <<target, cases, ledger, results, touched, faults>>

\* add_evidence; a failure of it is only logged.
Record(u) ==
    /\ pc[u] = "record"
    /\ \/ /\ recorded' = recorded \cup {u}
          /\ rowCase' = [rowCase EXCEPT ![u] = caseOf[u]]
          /\ UNCHANGED <<rowJob, faults>>
       \/ Fault /\ UNCHANGED ledger
    /\ Goto(u, "done")
    /\ UNCHANGED <<params, caseOf, stored, cases, results, touched>>

-----------------------------------------------------------------------------
(* POST /api/scan and run_job *)

\* The page offers what uploads have stored, and uploads/ itself.
StartScan(s) ==
    /\ pc[s] = "new"
    /\ \E t \in Targets \ Zips :
         /\ t # Root => stored[t] # Missing
         /\ target' = [target EXCEPT ![s] = t]
    /\ NameCase(s)
    /\ UNCHANGED <<stored, cases, ledger, results, touched, faults>>

\* The rows below the target of a scan.
Rows(s) == {u \in recorded : Under(RelPath(u), target[s])}

\* register_job and set_job_case, then link_unassigned_evidence; a scan without a
\* case leaves the rows without one.
Adopt(s) ==
    /\ pc[s] = "adopt"
    /\ rowCase' = [u \in Uploads |->
                     IF u \in Rows(s) /\ rowCase[u] = NoCase THEN caseOf[s] ELSE rowCase[u]]
    /\ Goto(s, "link")
    /\ UNCHANGED <<params, caseOf, stored, cases, recorded, rowJob, results, touched, faults>>

\* Mutant: whatever their case.
LinkableAny(s) == Rows(s)

\* The rows a scan may be bound to: of its case or of none; of any, if it has none.
Linkable(s) == {u \in Rows(s) : caseOf[s] = NoCase \/ rowCase[u] \in {NoCase, caseOf[s]}}

\* link_evidence_to_job
Link(s) ==
    /\ pc[s] = "link"
    /\ rowJob' = [u \in Uploads |-> IF u \in Linkable(s) THEN s ELSE rowJob[u]]
    /\ rowCase' = [u \in Uploads |->
                     IF u \in Linkable(s) /\ rowCase[u] = NoCase THEN caseOf[s]
                     ELSE rowCase[u]]
    /\ Goto(s, "hash")
    /\ UNCHANGED <<params, caseOf, stored, cases, recorded, results, touched, faults>>

\* A database error in one of the calls: there is a job, but no thread for it.
ScanFails(s) ==
    /\ pc[s] \in {"adopt", "link"} /\ Fault
    /\ Goto(s, "failed")
    /\ UNCHANGED <<params, caseOf, stored, cases, ledger, results, touched>>

\* Mutant: only the file of that name, not what is below.
HashFlat(s) ==
    /\ pc[s] = "hash"
    /\ hashed' = [hashed EXCEPT ![s] =
                    [p \in Paths |-> IF p = target[s] THEN stored[p] ELSE Missing]]
    /\ Goto(s, "read")
    /\ UNCHANGED <<params, caseOf, stored, cases, ledger, read, touched, faults>>

\* hash_scan_target
Hash(s) ==
    /\ pc[s] = "hash"
    /\ hashed' = [hashed EXCEPT ![s] = Contents(target[s])]
    /\ Goto(s, "read")
    /\ UNCHANGED <<params, caseOf, stored, cases, ledger, read, touched, faults>>

\* The engine reads the target.
Read(s) ==
    /\ pc[s] = "read"
    /\ read' = [read EXCEPT ![s] = Contents(target[s])]
    /\ Goto(s, "done")
    /\ UNCHANGED <<params, caseOf, stored, cases, ledger, hashed, touched, faults>>

\* Rows stay, without the job.
Unbind(jobs) ==
    /\ rowJob' = [u \in Uploads |-> IF rowJob[u] \in jobs THEN NoJob ELSE rowJob[u]]
    /\ UNCHANGED <<pc, params, caseOf, stored, cases, recorded, rowCase, results,
                   touched, faults>>

\* delete_job, for a job that has ended.
DeleteJob(s) == pc[s] = "done" /\ Unbind({s})

\* clear_all; its check that no job is active may be long past.
ClearAll == Unbind(Scans)

CaseSteps(r) == SelectCase(r) \/ InsertCase(r) \/ CaseFails(r)

Next ==
    \/ \E r \in Requests : CaseSteps(r)
    \/ \E u \in Uploads :
         WriteFile(u) \/ Extract(u) \/ Unlink(u) \/ Record(u)
    \/ \E s \in Scans :
         \/ StartScan(s) \/ Adopt(s) \/ Link(s) \/ ScanFails(s)
         \/ Hash(s) \/ Read(s) \/ DeleteJob(s)
    \/ ClearAll

Spec == Init /\ [][Next]_vars

-----------------------------------------------------------------------------
(* Properties *)

\* A row bound to a job is below the target of its scan and not of another case
\* than the scan's, whatever was linked, deleted or cleared in between.
LinkAgrees ==
    \A u \in Uploads, s \in Scans :
      rowJob[u] = s => /\ u \in recorded /\ Under(RelPath(u), target[s])
                       /\ caseOf[s] \in {NoCase, rowCase[u]}

\* Rows are never removed, and a case once chosen is never overwritten
\* ("without overwriting a case that was explicitly chosen earlier").
CaseStays ==
    [][\A u \in recorded : u \in recorded' /\ rowCase[u] \in {NoCase, rowCase'[u]}]_vars

\* The custody hash of a job is that of what its engine read, unless an upload
\* wrote below the target in between.
HashIsOfWhatWasRead ==
    \A s \in Scans : pc[s] = "done" /\ s \notin touched => read[s] = hashed[s]

-----------------------------------------------------------------------------
(* The inductive invariant *)

\* An upload is answered when its row is there, and keeps its name.
RowsSettled == \A u \in recorded : pc[u] = "done"

\* A request looks for a case by its name.
Named == \A r \in Requests : pc[r] \in {"case", "insert"} => wants[r] \in CaseNames

\* A row is bound to a scan that has its target and its case.
BoundLate ==
    \A u \in Uploads, s \in Scans : rowJob[u] = s => pc[s] \in {"hash", "read", "done"}

\* An upload that is unpacked is an archive.
Unpacking == \A u \in Uploads : pc[u] \in {"written", "extracted"} => target[u] \in Zips

\* What a scan was hashed from is still there when its engine is about to read,
\* unless it was written to.
HashStands ==
    \A s \in Scans : pc[s] = "read" /\ s \notin touched => hashed[s] = Contents(target[s])

IndInv ==
    /\ TypeOK /\ Named
    /\ RowsSettled /\ BoundLate /\ LinkAgrees
    /\ Unpacking /\ HashStands /\ HashIsOfWhatWasRead

=============================================================================
