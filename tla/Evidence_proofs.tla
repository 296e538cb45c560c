--------------------------- MODULE Evidence_proofs ---------------------------
(***************************************************************************)
(* The custody ledger, for any uploads and scans: types, LinkAgrees,       *)
(* HashIsOfWhatWasRead and CaseStays.  IndInv adds to LinkAgrees when a row *)
(* or a binding can be there at all, so that nothing it speaks of changes  *)
(* any more; and to HashIsOfWhatWasRead that the hash stands while the     *)
(* engine has yet to read.                                                 *)
(***************************************************************************)
EXTENDS Evidence, TLAPS

USE DEF Goto

\* What a scan hashes or reads is of the type.
LEMMA ContentsType ==
    ASSUME TypeOK, NEW t PROVE Contents(t) \in Held
<1>1. stored \in [Paths -> Uploads \cup {Missing}]
    BY DEF TypeOK, Held
<1> QED
    BY <1>1 DEF Contents, Held

\* A case was made by a request.
LEMMA MadeBy ==
    ASSUME TypeOK, NEW i \in DOMAIN cases PROVE cases[i].id \in Requests
<1> DEFINE Row == [id : Requests, name : CaseNames]
<1>1. cases \in Seq(Row)
    BY DEF TypeOK
<1>2. cases[i] \in Row
  <2> HIDE DEF Row
  <2> QED
      BY <1>1
<1> QED
    BY <1>2

\* Naming a case gives the request one that is there, or a name, or nothing.
LEMMA NameCaseType ==
    ASSUME TypeOK, NEW r \in Requests, NameCase(r)
    PROVE  /\ wants' \in [Requests -> CaseNames \cup {NoCase}]
           /\ caseOf' \in [Requests -> Requests \cup {NoCase}]
           /\ pc' \in [Requests -> {"new", "written", "extracted", "case", "insert",
                        "record", "adopt", "link", "hash", "read", "done", "failed"}]
<1> USE DEF AfterCase
<1>1. CASE \E n \in CaseNames : /\ wants' = [wants EXCEPT ![r] = n]
                                /\ Goto(r, "case") /\ UNCHANGED caseOf
    BY <1>1 DEF TypeOK
<1>2. CASE \E i \in DOMAIN cases : /\ caseOf' = [caseOf EXCEPT ![r] = cases[i].id]
                                   /\ Goto(r, AfterCase(r)) /\ UNCHANGED wants
  <2>1. PICK i \in DOMAIN cases : /\ caseOf' = [caseOf EXCEPT ![r] = cases[i].id]
                                  /\ Goto(r, AfterCase(r)) /\ UNCHANGED wants
      BY <1>2
  <2>2. cases[i].id \in Requests
      BY MadeBy
  <2> QED
      BY <2>1, <2>2 DEF TypeOK
<1>3. CASE Goto(r, AfterCase(r)) /\ UNCHANGED <<wants, caseOf>>
    BY <1>3 DEF TypeOK
<1> QED
    BY <1>1, <1>2, <1>3 DEF NameCase

LEMMA TypeStep == TypeOK /\ Named /\ [Next]_vars => TypeOK'
<1> SUFFICES ASSUME TypeOK, Named, [Next]_vars PROVE TypeOK'
    OBVIOUS
<1> USE EvidenceAssumption DEF params, ledger, results, Paths, Targets, Fault
<1>1. ASSUME NEW r \in Requests, SelectCase(r) PROVE TypeOK'
  <2>1. CASE Goto(r, "insert") /\ UNCHANGED <<caseOf, wants>>
      BY <1>1, <2>1 DEF SelectCase, TypeOK
  <2>2. CASE \E i \in DOMAIN cases : /\ caseOf' = [caseOf EXCEPT ![r] = cases[i].id]
                                     /\ wants' = [wants EXCEPT ![r] = NoCase]
                                     /\ Goto(r, AfterCase(r))
    <3>1. PICK i \in DOMAIN cases : /\ caseOf' = [caseOf EXCEPT ![r] = cases[i].id]
                                    /\ wants' = [wants EXCEPT ![r] = NoCase]
                                    /\ Goto(r, AfterCase(r))
        BY <2>2
    <3>2. cases[i].id \in Requests
        BY MadeBy
    <3> QED
        BY <1>1, <3>1, <3>2 DEF SelectCase, TypeOK, AfterCase
  <2> QED
      BY <1>1, <2>1, <2>2 DEF SelectCase
<1>2. ASSUME NEW r \in Requests, InsertCase(r) PROVE TypeOK'
  <2>1. wants[r] \in CaseNames
      BY <1>2 DEF InsertCase, Named
  <2>2. [id |-> r, name |-> wants[r]] \in [id : Requests, name : CaseNames]
      BY <2>1
  <2>3. cases' \in Seq([id : Requests, name : CaseNames])
      BY <1>2, <2>2 DEF InsertCase, TypeOK
  <2> QED
      BY <1>2, <2>3 DEF InsertCase, TypeOK, AfterCase
<1>3. ASSUME NEW r \in Requests, CaseFails(r) PROVE TypeOK'
    BY <1>3 DEF CaseFails, TypeOK
<1>4. ASSUME NEW u \in Uploads, WriteFile(u) PROVE TypeOK'
  <2>1. u \in Requests
      BY DEF Requests
  <2>2. PICK name \in Names :
           /\ target' = [target EXCEPT ![u] = name]
           /\ stored' = [stored EXCEPT ![name] = u]
           /\ Touch(name)
           /\ IF name \in Zips THEN Goto(u, "written") /\ UNCHANGED <<wants, caseOf>>
                              ELSE NameCase(u)
      BY <1>4 DEF WriteFile
  <2>3. stored' \in Held
      BY <2>2 DEF TypeOK, Held
  <2>4. touched' \subseteq Scans
      BY <2>2 DEF TypeOK, Touch
  <2>5. CASE name \in Zips
      BY <1>4, <2>1, <2>2, <2>3, <2>4, <2>5 DEF WriteFile, TypeOK
  <2>6. CASE name \notin Zips
      BY <1>4, <2>1, <2>2, <2>3, <2>4, <2>6, NameCaseType DEF WriteFile, TypeOK
  <2> QED
      BY <2>5, <2>6
<1>5. ASSUME NEW u \in Uploads, Extract(u) PROVE TypeOK'
  <2>1. u \in Requests /\ target[u] \in Paths
      BY <1>5 DEF Extract, Requests
  <2>2. stored[target[u]] \in Uploads \cup {Missing}
      BY <2>1 DEF TypeOK, Held
  <2>3. stored' \in Held /\ touched' \subseteq Scans
      BY <1>5, <2>2 DEF Extract, TypeOK, Touch, Held
  <2> QED
      BY <1>5, <2>1, <2>3 DEF Extract, TypeOK
<1>6. ASSUME NEW u \in Uploads, Unlink(u) PROVE TypeOK'
  <2>1. u \in Requests
      BY DEF Requests
  <2>2. stored' \in Held
      BY <1>6 DEF Unlink, TypeOK, Held
  <2> QED
      BY <1>6, <2>1, <2>2, NameCaseType DEF Unlink, TypeOK
<1>7. ASSUME NEW u \in Uploads, Record(u) PROVE TypeOK'
  <2>1. u \in Requests
      BY DEF Requests
  <2> QED
      BY <1>7, <2>1 DEF Record, TypeOK
<1>8. ASSUME NEW s \in Scans, StartScan(s) PROVE TypeOK'
  <2>1. s \in Requests
      BY DEF Requests
  <2>2. target' \in [Requests -> Targets]
      BY <1>8, <2>1 DEF StartScan, TypeOK
  <2> QED
      BY <1>8, <2>1, <2>2, NameCaseType DEF StartScan, TypeOK
<1>9. ASSUME NEW s \in Scans, Adopt(s) PROVE TypeOK'
  <2>1. s \in Requests
      BY DEF Requests
  <2>2. rowCase' \in [Uploads -> Requests \cup {NoCase}]
      BY <1>9, <2>1 DEF Adopt, TypeOK
  <2> QED
      BY <1>9, <2>1, <2>2 DEF Adopt, TypeOK
<1>10. ASSUME NEW s \in Scans, Link(s) PROVE TypeOK'
  <2>1. s \in Requests
      BY DEF Requests
  <2>2. rowCase' \in [Uploads -> Requests \cup {NoCase}]
      BY <1>10, <2>1 DEF Link, TypeOK
  <2>3. rowJob' \in [Uploads -> Scans \cup {NoJob}]
      BY <1>10 DEF Link, TypeOK
  <2> QED
      BY <1>10, <2>1, <2>2, <2>3 DEF Link, TypeOK
<1>11. ASSUME NEW s \in Scans, ScanFails(s) PROVE TypeOK'
  <2>1. s \in Requests
      BY DEF Requests
  <2> QED
      BY <1>11, <2>1 DEF ScanFails, TypeOK
<1>12. ASSUME NEW s \in Scans, Hash(s) \/ Read(s) PROVE TypeOK'
  <2>1. s \in Requests
      BY DEF Requests
  <2>2. Contents(target[s]) \in Held
      BY ContentsType
  <2> QED
      BY <1>12, <2>1, <2>2 DEF Hash, Read, TypeOK
<1>13. ASSUME NEW jobs, Unbind(jobs) PROVE TypeOK'
  <2>1. rowJob' \in [Uploads -> Scans \cup {NoJob}]
      BY <1>13 DEF Unbind, TypeOK
  <2> QED
      BY <1>13, <2>1 DEF Unbind, TypeOK
<1>14. CASE UNCHANGED vars
    BY <1>14 DEF vars, TypeOK
<1> QED
    BY <1>1, <1>2, <1>3, <1>4, <1>5, <1>6, <1>7, <1>8, <1>9, <1>10, <1>11, <1>12,
       <1>13, <1>14 DEF Next, CaseSteps, DeleteJob, ClearAll

\* A request that works keeps its name for the case, and one that starts to look
\* for a case has a name for it.
LEMMA NamedStep == TypeOK /\ Named /\ [Next]_vars => Named'
<1> SUFFICES ASSUME TypeOK, Named, [Next]_vars PROVE Named'
    OBVIOUS
<1> USE EvidenceAssumption DEF params, ledger, results
<1>1. ASSUME NEW r \in Requests, NameCase(r) PROVE Named'
    BY <1>1 DEF NameCase, Named, TypeOK, AfterCase
<1>2. ASSUME NEW r \in Requests, CaseSteps(r) PROVE Named'
    BY <1>2 DEF CaseSteps, SelectCase, InsertCase, CaseFails, Named, TypeOK, AfterCase
<1>3. ASSUME NEW u \in Uploads, WriteFile(u) \/ Extract(u) \/ Unlink(u) \/ Record(u)
      PROVE  Named'
  <2>1. u \in Requests
      BY DEF Requests
  <2>2. CASE NameCase(u)
      BY <2>1, <2>2, <1>1
  <2>3. CASE WriteFile(u) /\ ~NameCase(u)
      BY <2>1, <2>3 DEF WriteFile, Named, TypeOK
  <2>4. CASE Extract(u) \/ Record(u)
      BY <2>1, <2>4 DEF Extract, Record, Named, TypeOK
  <2> QED
      BY <1>3, <2>2, <2>3, <2>4 DEF Unlink
<1>4. ASSUME NEW s \in Scans, StartScan(s) PROVE Named'
    BY <1>4, <1>1 DEF StartScan, Requests
<1>5. ASSUME NEW s \in Scans,
             Adopt(s) \/ Link(s) \/ ScanFails(s) \/ Hash(s) \/ Read(s)
      PROVE  Named'
  <2>1. s \in Requests
      BY DEF Requests
  <2> QED
      BY <2>1, <1>5 DEF Adopt, Link, ScanFails, Hash, Read, Named, TypeOK
<1>6. CASE (\E jobs : Unbind(jobs)) \/ UNCHANGED vars
    BY <1>6 DEF Unbind, vars, Named
<1> QED
    BY <1>2, <1>3, <1>4, <1>5, <1>6 DEF Next, DeleteJob, ClearAll

\* Once an upload is answered, or a scan has bound its rows, its target and its
\* case are settled.
LEMMA Settled ==
    ASSUME TypeOK, [Next]_vars, NEW r \in Requests, pc[r] \in {"hash", "read", "done"}
    PROVE  /\ target'[r] = target[r] /\ caseOf'[r] = caseOf[r]
           /\ pc'[r] \in {"hash", "read", "done"}
           /\ pc[r] = "done" => pc'[r] = "done"
<1> DEFINE Kept(x) == /\ target'[x] = target[x] /\ caseOf'[x] = caseOf[x]
                      /\ pc'[x] \in {"hash", "read", "done"}
                      /\ pc[x] = "done" => pc'[x] = "done"
<1> SUFFICES Kept(r)
    OBVIOUS
<1> USE EvidenceAssumption DEF params, ledger, results
<1>1. ASSUME NEW q \in Requests, CaseSteps(q) PROVE Kept(r)
    BY <1>1 DEF CaseSteps, SelectCase, InsertCase, CaseFails, TypeOK
<1>2. ASSUME NEW q \in Requests, q # r, NameCase(q)
      PROVE  caseOf'[r] = caseOf[r] /\ pc'[r] = pc[r]
    BY <1>2 DEF NameCase, TypeOK
<1>3. ASSUME NEW u \in Uploads, WriteFile(u) \/ Extract(u) \/ Unlink(u) \/ Record(u)
      PROVE  Kept(r)
  <2>1. u \in Requests /\ u # r
      BY <1>3 DEF Requests, WriteFile, Extract, Unlink, Record
  <2>2. CASE WriteFile(u)
      BY <1>2, <2>1, <2>2 DEF WriteFile, TypeOK
  <2>3. CASE Unlink(u)
      BY <1>2, <2>1, <2>3 DEF Unlink
  <2>4. CASE Extract(u) \/ Record(u)
      BY <2>1, <2>4 DEF Extract, Record, TypeOK
  <2> QED
      BY <1>3, <2>2, <2>3, <2>4
<1>4. ASSUME NEW s \in Scans, StartScan(s) PROVE Kept(r)
    BY <1>4, <1>2 DEF StartScan, TypeOK, Requests
<1>5. ASSUME NEW s \in Scans,
             Adopt(s) \/ Link(s) \/ ScanFails(s) \/ Hash(s) \/ Read(s)
      PROVE  Kept(r)
    BY <1>5 DEF Adopt, Link, ScanFails, Hash, Read, TypeOK, Requests
<1>6. CASE (\E jobs : Unbind(jobs)) \/ UNCHANGED vars
    BY <1>6 DEF Unbind, vars
<1> QED
    BY <1>1, <1>3, <1>4, <1>5, <1>6 DEF Next, DeleteJob, ClearAll

\* All but four kinds of steps leave the ledger alone.
LEMMA LedgerSteps ==
    [Next]_vars => \/ \E u \in Uploads : Record(u)
                   \/ \E s \in Scans : Adopt(s) \/ Link(s)
                   \/ \E jobs : Unbind(jobs)
                   \/ UNCHANGED ledger
    BY DEF Next, CaseSteps, SelectCase, InsertCase, CaseFails, WriteFile, Extract, Unlink,
           StartScan, ScanFails, Hash, Read, DeleteJob, ClearAll, vars

\* Rows are those of answered uploads, also after a step.
LEMMA RowsStep == IndInv /\ [Next]_vars => RowsSettled'
<1> SUFFICES ASSUME IndInv, [Next]_vars, NEW u \in recorded' PROVE pc'[u] = "done"
    BY DEF RowsSettled
<1> USE EvidenceAssumption DEF Requests, ledger
<1>1. CASE u \in recorded
    BY <1>1, Settled DEF IndInv, RowsSettled, TypeOK
<1>2. CASE u \notin recorded
  <2>1. PICK v \in Uploads : Record(v)
      BY <1>2, LedgerSteps DEF Adopt, Link, Unbind
  <2> QED
      BY <1>2, <2>1 DEF Record, IndInv, TypeOK
<1> QED
    BY <1>1, <1>2

\* What LinkAgrees and BoundLate say of one row and one scan.
Bound(u, s) == /\ pc[s] \in {"hash", "read", "done"}
               /\ u \in recorded /\ Under(RelPath(u), target[s])
               /\ caseOf[s] \in {NoCase, rowCase[u]}

\* A row that was bound properly still is, if its place in the ledger, but for a
\* case it did not have, is as before.
LEMMA StaysBound ==
    ASSUME IndInv, [Next]_vars, NEW u \in Uploads, NEW s \in Scans, Bound(u, s),
           recorded \subseteq recorded', rowCase[u] \in {NoCase, rowCase'[u]}
    PROVE  Bound(u, s)'
<1> USE EvidenceAssumption DEF Requests
<1>1. pc[u] = "done"
    BY DEF IndInv, RowsSettled, Bound
<1>2. target'[u] = target[u]
    BY <1>1, Settled DEF IndInv
<1>3. target'[s] = target[s] /\ caseOf'[s] = caseOf[s] /\ pc'[s] \in {"hash", "read", "done"}
    BY Settled DEF IndInv, Bound
<1>4. Under(RelPath(u), target[s])'
    BY <1>2, <1>3 DEF Bound, Under, RelPath
<1> QED
    BY <1>3, <1>4 DEF Bound

\* A step that binds a row binds it to a scan of its target and of its case.
LEMMA BoundStep == IndInv /\ [Next]_vars => (BoundLate /\ LinkAgrees)'
<1> SUFFICES ASSUME IndInv, [Next]_vars, NEW u \in Uploads, NEW s \in Scans, rowJob'[u] = s
             PROVE  Bound(u, s)'
    BY DEF BoundLate, LinkAgrees, Bound
<1> USE EvidenceAssumption DEF Requests
<1>0. TypeOK /\ (rowJob[u] = s => Bound(u, s))
    BY DEF IndInv, BoundLate, LinkAgrees, Bound
<1>1. CASE UNCHANGED ledger
    BY <1>0, <1>1, StaysBound DEF ledger
<1>2. ASSUME NEW v \in Uploads, Record(v) PROVE Bound(u, s)'
  <2>1. rowJob[u] = s /\ u \in recorded /\ recorded \subseteq recorded'
      BY <1>0, <1>2 DEF Record, ledger, Bound
  <2>2. u # v
      BY <1>2, <2>1 DEF Record, IndInv, RowsSettled
  <2>3. rowCase'[u] = rowCase[u]
      BY <1>0, <1>2, <2>2 DEF Record, ledger, TypeOK
  <2> QED
      BY <1>0, <2>1, <2>3, StaysBound
<1>3. ASSUME NEW q \in Scans, Adopt(q) PROVE Bound(u, s)'
    BY <1>0, <1>3, StaysBound DEF Adopt
<1>4. ASSUME NEW q \in Scans, Link(q) PROVE Bound(u, s)'
  <2>1. CASE u \notin Linkable(q)
      BY <1>0, <1>4, <2>1, StaysBound DEF Link
  <2>2. CASE u \in Linkable(q)
    <3>1. q = s
        BY <1>4, <2>2 DEF Link
    <3>2. UNCHANGED <<params, caseOf, recorded>>
        BY <1>4 DEF Link
    <3>3. pc'[s] = "hash"
        BY <1>0, <1>4, <3>1 DEF Link, TypeOK
    <3>4. u \in recorded' /\ Under(RelPath(u), target[s])'
        BY <2>2, <3>1, <3>2 DEF Linkable, Rows, Under, RelPath, params
    <3>5. caseOf'[s] \in {NoCase, rowCase'[u]}
        BY <1>4, <2>2, <3>1, <3>2 DEF Link, Linkable
    <3> QED
        BY <3>3, <3>4, <3>5 DEF Bound
  <2> QED
      BY <2>1, <2>2
<1>5. ASSUME NEW jobs, Unbind(jobs) PROVE Bound(u, s)'
  <2>1. rowJob[u] = s
      BY <1>5 DEF Unbind
  <2> QED
      BY <1>0, <1>5, <2>1, StaysBound DEF Unbind
<1> QED
    BY <1>1, <1>2, <1>3, <1>4, <1>5, LedgerSteps

\* The steps that write a file, make a hash or read: all the others leave files,
\* hashes and what is touched alone.
LEMMA FileSteps ==
    [Next]_vars => \/ \E u \in Uploads : WriteFile(u) \/ Extract(u) \/ Unlink(u)
                   \/ \E s \in Scans : Hash(s) \/ Read(s)
                   \/ UNCHANGED <<stored, hashed, read, touched>>
    BY DEF Next, CaseSteps, SelectCase, InsertCase, CaseFails, Record, StartScan, Adopt,
           Link, ScanFails, DeleteJob, ClearAll, Unbind, vars, results

\* Only an archive is unpacked, and it keeps its name until then.
LEMMA UnpackingStep == IndInv /\ [Next]_vars => Unpacking'
<1> SUFFICES ASSUME IndInv, [Next]_vars, NEW v \in Uploads, pc'[v] \in {"written", "extracted"}
             PROVE  target'[v] \in Zips
    BY DEF Unpacking
<1> USE EvidenceAssumption DEF params, Requests
<1>0. TypeOK /\ (pc[v] \in {"written", "extracted"} => target[v] \in Zips)
    BY DEF IndInv, Unpacking
<1>1. ASSUME NEW r \in Requests, NameCase(r), pc'[r] \in {"written", "extracted"} PROVE FALSE
    BY <1>0, <1>1 DEF NameCase, AfterCase, TypeOK
<1>2. ASSUME NEW r \in Requests, NameCase(r), r # v PROVE pc'[v] = pc[v]
    BY <1>0, <1>2 DEF NameCase, AfterCase, TypeOK
<1>3. ASSUME NEW r \in Requests, CaseSteps(r) PROVE target'[v] \in Zips
    BY <1>0, <1>3 DEF CaseSteps, SelectCase, InsertCase, CaseFails, AfterCase, TypeOK
<1>4. ASSUME NEW u \in Uploads, WriteFile(u) PROVE target'[v] \in Zips
  <2>1. PICK name \in Names :
           /\ target' = [target EXCEPT ![u] = name]
           /\ IF name \in Zips THEN Goto(u, "written") /\ UNCHANGED <<wants, caseOf>>
                              ELSE NameCase(u)
      BY <1>4 DEF WriteFile
  <2>2. CASE name \in Zips
      BY <1>0, <2>1, <2>2 DEF TypeOK
  <2>3. CASE name \notin Zips
      BY <1>0, <1>1, <1>2, <2>1, <2>3 DEF TypeOK
  <2> QED
      BY <2>2, <2>3
<1>5. ASSUME NEW u \in Uploads, Extract(u) \/ Record(u) PROVE target'[v] \in Zips
    BY <1>0, <1>5 DEF Extract, Record, TypeOK
<1>6. ASSUME NEW u \in Uploads, Unlink(u) PROVE target'[v] \in Zips
    BY <1>0, <1>1, <1>2, <1>6 DEF Unlink
<1>7. ASSUME NEW s \in Scans, StartScan(s) PROVE target'[v] \in Zips
  <2>1. s # v /\ target'[v] = target[v]
      BY <1>0, <1>7 DEF StartScan, TypeOK
  <2> QED
      BY <1>0, <1>2, <1>7, <2>1 DEF StartScan
<1>8. ASSUME NEW s \in Scans,
             Adopt(s) \/ Link(s) \/ ScanFails(s) \/ Hash(s) \/ Read(s)
      PROVE  target'[v] \in Zips
    BY <1>0, <1>8 DEF Adopt, Link, ScanFails, Hash, Read, TypeOK
<1>9. CASE (\E jobs : Unbind(jobs)) \/ UNCHANGED vars
    BY <1>0, <1>9 DEF Unbind, vars
<1> QED
    BY <1>3, <1>4, <1>5, <1>6, <1>7, <1>8, <1>9 DEF Next, DeleteJob, ClearAll

\* Whoever writes below the target of a scan between hash and read touches it:
\* what else is written, or removed, are archives, which are not hashed.
LEMMA ContentsStand ==
    ASSUME IndInv, [Next]_vars, NEW s \in Scans, pc[s] = "read", s \notin touched'
    PROVE  Contents(target[s])' = Contents(target[s])
<1> USE EvidenceAssumption DEF Paths
<1>0. TypeOK /\ target'[s] = target[s]
    BY Settled DEF IndInv, Requests
<1> SUFFICES ASSUME NEW p \in Paths, Under(p, target[s]), p \notin Zips
             PROVE  stored'[p] = stored[p]
    BY <1>0 DEF Contents, Under
<1>1. ASSUME NEW u \in Uploads, WriteFile(u) PROVE stored'[p] = stored[p]
  <2>1. PICK name \in Names : stored' = [stored EXCEPT ![name] = u] /\ Touch(name)
      BY <1>1 DEF WriteFile
  <2>2. p # name
      BY <2>1 DEF Touch
  <2> QED
      BY <1>0, <2>1, <2>2 DEF TypeOK, Held
<1>2. ASSUME NEW u \in Uploads, Extract(u) PROVE stored'[p] = stored[p]
  <2>1. CASE stored' = [stored EXCEPT ![u] = stored[target[u]]] /\ Touch(u)
    <3>1. p # u
        BY <2>1 DEF Touch
    <3> QED
        BY <1>0, <2>1, <3>1 DEF TypeOK, Held
  <2>2. CASE stored' = [stored EXCEPT ![target[u]] = Missing]
      BY <1>0, <1>2, <2>2 DEF Extract, TypeOK, Held
  <2> QED
      BY <1>2, <2>1, <2>2 DEF Extract
<1>3. ASSUME NEW u \in Uploads, Unlink(u) PROVE stored'[p] = stored[p]
  <2>1. target[u] \in Zips
      BY <1>3 DEF IndInv, Unpacking, Unlink
  <2> QED
      BY <1>0, <1>3, <2>1 DEF Unlink, TypeOK, Held
<1>4. CASE (\E q \in Scans : Hash(q) \/ Read(q)) \/ UNCHANGED stored
    BY <1>4 DEF Hash, Read
<1> QED
    BY <1>1, <1>2, <1>3, <1>4, FileSteps

\* Only a hash brings a scan to where its engine reads, and only the read ends it.
LEMMA NewRead ==
    ASSUME IndInv, [Next]_vars, NEW s \in Scans, ~Hash(s), ~Read(s)
    PROVE  pc'[s] \in {"read", "done"} => pc'[s] = pc[s]
<1> USE EvidenceAssumption DEF Requests
<1>0. TypeOK
    BY DEF IndInv
<1>1. ASSUME NEW r \in Requests, NameCase(r) PROVE pc'[s] \in {"read", "done"} => pc'[s] = pc[s]
    BY <1>0, <1>1 DEF NameCase, AfterCase, TypeOK
<1>2. ASSUME NEW r \in Requests, CaseSteps(r)
      PROVE  pc'[s] \in {"read", "done"} => pc'[s] = pc[s]
    BY <1>0, <1>2 DEF CaseSteps, SelectCase, InsertCase, CaseFails, AfterCase, TypeOK
<1>3. ASSUME NEW u \in Uploads, WriteFile(u) \/ Extract(u) \/ Unlink(u) \/ Record(u)
      PROVE  pc'[s] \in {"read", "done"} => pc'[s] = pc[s]
  <2>1. CASE NameCase(u)
      BY <2>1, <1>1
  <2>2. CASE ~NameCase(u)
      BY <1>0, <1>3, <2>2 DEF WriteFile, Extract, Unlink, Record, TypeOK
  <2> QED
      BY <2>1, <2>2
<1>4. ASSUME NEW q \in Scans, StartScan(q) PROVE pc'[s] \in {"read", "done"} => pc'[s] = pc[s]
    BY <1>1, <1>4 DEF StartScan
<1>5. ASSUME NEW q \in Scans,
             Adopt(q) \/ Link(q) \/ ScanFails(q) \/ Hash(q) \/ Read(q)
      PROVE  pc'[s] \in {"read", "done"} => pc'[s] = pc[s]
    BY <1>0, <1>5 DEF Adopt, Link, ScanFails, Hash, Read, TypeOK
<1>6. CASE (\E jobs : Unbind(jobs)) \/ UNCHANGED vars
    BY <1>6 DEF Unbind, vars
<1> QED
    BY <1>2, <1>3, <1>4, <1>5, <1>6 DEF Next, DeleteJob, ClearAll

\* A scan that has been hashed stays so until it reads, and then reads the same.
LEMMA HashStep == IndInv /\ [Next]_vars => (HashStands /\ HashIsOfWhatWasRead)'
<1> SUFFICES ASSUME IndInv, [Next]_vars, NEW s \in Scans, s \notin touched'
             PROVE  /\ pc'[s] = "read" => hashed'[s] = Contents(target[s])'
                    /\ pc'[s] = "done" => read'[s] = hashed'[s]
    BY DEF HashStands, HashIsOfWhatWasRead
<1> USE EvidenceAssumption DEF Requests
<1>0. /\ TypeOK
      /\ pc[s] = "read" /\ s \notin touched => hashed[s] = Contents(target[s])
      /\ pc[s] = "done" /\ s \notin touched => read[s] = hashed[s]
    BY DEF IndInv, HashStands, HashIsOfWhatWasRead
<1>1. touched \subseteq touched'
    BY FileSteps DEF WriteFile, Extract, Unlink, Hash, Read, Touch
<1>2. ASSUME Hash(s)
      PROVE  pc'[s] = "read" /\ hashed'[s] = Contents(target[s])'
    BY <1>0, <1>2 DEF Hash, params, Contents, TypeOK
<1>3. ASSUME Read(s)
      PROVE  pc'[s] = "done" /\ read'[s] = hashed'[s]
  <2>1. pc[s] = "read" /\ hashed[s] = Contents(target[s])
      BY <1>0, <1>1, <1>3 DEF Read
  <2> QED
      BY <1>0, <1>3, <2>1 DEF Read, TypeOK
<1>4. CASE ~Hash(s) /\ ~Read(s)
  <2>1. hashed'[s] = hashed[s] /\ read'[s] = read[s]
      BY <1>0, <1>4, FileSteps DEF WriteFile, Extract, Unlink, Hash, Read, results, TypeOK
  <2>2. pc'[s] = "read" => pc[s] = "read"
      BY <1>4, NewRead
  <2>3. pc'[s] = "done" => pc[s] = "done"
      BY <1>4, NewRead
  <2> QED
      BY <1>0, <1>1, <2>1, <2>2, <2>3, ContentsStand
<1> QED
    BY <1>2, <1>3, <1>4

\* The initial state is one of the invariant.
LEMMA InitInv == Init => IndInv
<1> SUFFICES ASSUME Init PROVE IndInv
    OBVIOUS
<1> USE EvidenceAssumption DEF Init
<1>1. TypeOK
  <2>1. Nothing \in Held
      BY DEF Nothing, Held
  <2>2. cases \in Seq([id : Requests, name : CaseNames])
      OBVIOUS
  <2> QED
      BY <2>1, <2>2 DEF TypeOK, Targets
<1>2. Named /\ RowsSettled
    BY DEF Named, RowsSettled
<1>3. BoundLate /\ LinkAgrees
    BY DEF BoundLate, LinkAgrees
<1>4. Unpacking /\ HashStands /\ HashIsOfWhatWasRead
    BY DEF Unpacking, HashStands, HashIsOfWhatWasRead, Requests
<1> QED
    BY <1>1, <1>2, <1>3, <1>4 DEF IndInv

\* The invariant is inductive.
THEOREM Invariance == Spec => []IndInv
<1>1. IndInv /\ [Next]_vars => IndInv'
    BY TypeStep, NamedStep, RowsStep, BoundStep, UnpackingStep, HashStep DEF IndInv
<1> QED
    BY InitInv, <1>1, PTL DEF Spec

\* Every variable keeps its type, whatever uploads and scans there are.
THEOREM TypeCorrect == Spec => []TypeOK
<1>1. IndInv => TypeOK
    BY DEF IndInv
<1> QED
    BY Invariance, <1>1, PTL

\* A row bound to a job is below the target of its scan and not of another case
\* (link_evidence_to_job against adoption, deletes and clears).
THEOREM LinkThm == Spec => []LinkAgrees
<1>1. IndInv => LinkAgrees
    BY DEF IndInv
<1> QED
    BY Invariance, <1>1, PTL

\* The hash in the custody record of a scan is that of what its engine read, unless
\* an upload wrote below the target in between (hash_scan_target against uploads
\* that reuse a name, unpack or fail to).
THEOREM HashThm == Spec => []HashIsOfWhatWasRead
<1>1. IndInv => HashIsOfWhatWasRead
    BY DEF IndInv
<1> QED
    BY Invariance, <1>1, PTL

\* Evidence rows stay, and no step overwrites a case a row has
\* (add_evidence, link_unassigned_evidence, link_evidence_to_job).
THEOREM CaseThm == Spec => CaseStays
<1> DEFINE Keeps == \A u \in recorded : u \in recorded' /\ rowCase[u] \in {NoCase, rowCase'[u]}
<1>1. IndInv /\ [Next]_vars => [Keeps]_vars
  <2> SUFFICES ASSUME IndInv, [Next]_vars, NEW u \in recorded
               PROVE  u \in recorded' /\ rowCase[u] \in {NoCase, rowCase'[u]}
      OBVIOUS
  <2>0. u \in Uploads /\ TypeOK
      BY DEF IndInv, TypeOK
  <2>1. ASSUME NEW v \in Uploads, Record(v)
        PROVE  u \in recorded' /\ rowCase[u] \in {NoCase, rowCase'[u]}
    <3>1. u # v
        BY <2>1 DEF Record, IndInv, RowsSettled
    <3> QED
        BY <2>0, <2>1, <3>1 DEF Record, ledger, TypeOK
  <2>2. ASSUME NEW q \in Scans, Adopt(q) \/ Link(q)
        PROVE  u \in recorded' /\ rowCase[u] \in {NoCase, rowCase'[u]}
    <3>1. CASE Adopt(q)
        BY <2>0, <3>1 DEF Adopt
    <3>2. CASE Link(q)
        BY <2>0, <3>2 DEF Link
    <3> QED
        BY <2>2, <3>1, <3>2
  <2>3. CASE (\E jobs : Unbind(jobs)) \/ UNCHANGED ledger
      BY <2>3 DEF Unbind, ledger
  <2> QED
      BY <2>1, <2>2, <2>3, LedgerSteps
<1> QED
    BY Invariance, <1>1, PTL DEF Spec, CaseStays
=============================================================================
