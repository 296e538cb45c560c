----------------------------- MODULE Scan_proofs -----------------------------
(***************************************************************************)
(* Proofs about a scan: the job that runs it (ScanJobs) and the engine that *)
(* does it (EngineScan).                                                    *)
(*                                                                          *)
(* ScanJobs, for every set of requests, every cap and every number of       *)
(* faults and crashes.  The inductive invariant is IndInv; its conjuncts    *)
(* are preserved by three lemmas: the types, the bound on the slots (which  *)
(* needs cardinalities) and the relations between a job's thread, engine,   *)
(* row and directory (which do not).                                        *)
(*                                                                          *)
(* EngineScan, for every set of rules, logs and options and every size of   *)
(* batch.  The inductive invariant is ScanInv, of five parts: Shape, where  *)
(* the scan is; Apart, no record in two places; Progress, what has been     *)
(* read; Tasks, what each rule has found so far; and Reports, that what is  *)
(* collected is exactly what the records seen so far owe.  Totals adds the  *)
(* numbers.  Before them come the lemmas about lists, and about the         *)
(* operators of Afterfact that go through lists, one member after another.  *)
(***************************************************************************)
EXTENDS ScanJobs, EngineScan, FiniteSetTheorems, SequenceTheorems, WellFoundedInduction, TLAPS

\* The jobs that hold a slot of the cap, or will when their handler goes on.
Slots == ActiveJobs \cup InFlight

USE DEF Status, Active, Terminal, Over

-----------------------------------------------------------------------------

LEMMA TypeStep == TypeOK /\ [Next]_vars => TypeOK'
<1> SUFFICES ASSUME TypeOK, [Next]_vars PROVE TypeOK'
    OBVIOUS
<1> USE ScanAssumption DEF TypeOK, jobVars, files, history
<1>1. ASSUME NEW j \in Jobs, Admit(j) PROVE TypeOK'
    BY <1>1 DEF Admit
<1>2. ASSUME NEW j \in Jobs, TooBusy(j) PROVE TypeOK'
    BY <1>2 DEF TooBusy
<1>3. ASSUME NEW j \in Jobs, BadRequest(j) PROVE TypeOK'
    BY <1>3 DEF BadRequest
<1>4. ASSUME NEW j \in Jobs, MakeJob(j) PROVE TypeOK'
    BY <1>4 DEF MakeJob
<1>5. ASSUME NEW j \in Jobs, RegisterJob(j) PROVE TypeOK'
    BY <1>5 DEF RegisterJob
<1>6. ASSUME NEW j \in Jobs, SaveNew(j) PROVE TypeOK'
    BY <1>6 DEF SaveNew, Fault
<1>7. ASSUME NEW j \in Jobs, StartThread(j) PROVE TypeOK'
    BY <1>7 DEF StartThread
<1>8. ASSUME NEW j \in Jobs, HandlerFails(j) PROVE TypeOK'
    BY <1>8 DEF HandlerFails, Fault
<1>9. ASSUME NEW j \in Jobs, BuildArgs(j) PROVE TypeOK'
    BY <1>9 DEF BuildArgs
<1>10. ASSUME NEW j \in Jobs, StartRunning(j) PROVE TypeOK'
    BY <1>10 DEF StartRunning, Fault
<1>11. ASSUME NEW j \in Jobs, ThreadDies(j) PROVE TypeOK'
    BY <1>11 DEF ThreadDies, Fault
<1>12. ASSUME NEW j \in Jobs, Spawn(j) PROVE TypeOK'
    BY <1>12 DEF Spawn
<1>13. ASSUME NEW j \in Jobs, SpawnFails(j) PROVE TypeOK'
    BY <1>13 DEF SpawnFails
<1>14. ASSUME NEW j \in Jobs, EngineExit(j) PROVE TypeOK'
    BY <1>14 DEF EngineExit
<1>15. ASSUME NEW j \in Jobs, Reap(j) PROVE TypeOK'
    BY <1>15 DEF Reap
<1>16. ASSUME NEW j \in Jobs, Finish(j) PROVE TypeOK'
    BY <1>16 DEF Finish, Outcome
<1>17. ASSUME NEW j \in Jobs, SaveEnd(j) PROVE TypeOK'
    BY <1>17 DEF SaveEnd, Fault
<1>18. ASSUME NEW j \in Jobs, Cancel(j) PROVE TypeOK'
    BY <1>18 DEF Cancel
<1>19. ASSUME NEW j \in Jobs, DeleteCheck(j) PROVE TypeOK'
    BY <1>19 DEF DeleteCheck
<1>20. ASSUME NEW j \in Jobs, DeletePop(j) PROVE TypeOK'
    BY <1>20 DEF DeletePop
<1>21. ASSUME NEW j \in Jobs, DeleteRow(j) PROVE TypeOK'
    BY <1>21 DEF DeleteRow, Quiet
<1>22. ASSUME NEW j \in Jobs, DeleteDir(j) PROVE TypeOK'
    BY <1>22 DEF DeleteDir
<1>23. ASSUME ClearCheck PROVE TypeOK'
    BY <1>23 DEF ClearCheck
<1>24. ASSUME ClearRows PROVE TypeOK'
    BY <1>24 DEF ClearRows
<1>25. ASSUME ClearDirs PROVE TypeOK'
    BY <1>25 DEF ClearDirs
<1>26. ASSUME ClearPop PROVE TypeOK'
    BY <1>26 DEF ClearPop
<1>27. ASSUME Crash PROVE TypeOK'
    <2>1. /\ req' \in [Jobs -> {"none", "admitted", "made", "registered", "saved",
                               "accepted", "refused", "error"}]
          /\ thread' \in [Jobs -> Over \cup {"args", "hash", "spawn", "wait",
                                            "finish", "save"}]
          /\ del' \in [Jobs -> {"idle", "checked", "popped", "racing", "quiet"}]
        BY <1>27 DEF Crash
    <2>2. boots' \in 0..MaxBoots
        BY <1>27 DEF Crash
    <2> QED
        BY <1>27, <2>1, <2>2 DEF Crash
<1>28. ASSUME Boot PROVE TypeOK'
    BY <1>28 DEF Boot
<1>29. ASSUME UNCHANGED vars PROVE TypeOK'
    BY <1>29 DEF vars
<1> QED
    BY <1>1, <1>2, <1>3, <1>4, <1>5, <1>6, <1>7, <1>8, <1>9, <1>10, <1>11, <1>12, <1>13, <1>14, <1>15, <1>16, <1>17, <1>18, <1>19, <1>20, <1>21, <1>22, <1>23, <1>24, <1>25, <1>26, <1>27, <1>28, <1>29 DEF Next

-----------------------------------------------------------------------------
(* The bound on the slots.  Only Admit can take a new slot, and it does so    *)
(* with both of the parts of Slots below their caps.                          *)

LEMMA SlotsFinite ==
    ASSUME TypeOK
    PROVE  /\ IsFiniteSet(ActiveJobs) /\ IsFiniteSet(InFlight) /\ IsFiniteSet(Slots)
           /\ Cardinality(ActiveJobs) \in Nat
           /\ Cardinality(InFlight) \in Nat
           /\ Cardinality(Slots) \in Nat
           /\ Cardinality(Slots) <= Cardinality(ActiveJobs) + Cardinality(InFlight)
<1>1. ActiveJobs \subseteq Jobs /\ InFlight \subseteq Jobs
    BY DEF TypeOK, ActiveJobs, InFlight
<1>2. IsFiniteSet(ActiveJobs) /\ IsFiniteSet(InFlight)
    BY <1>1, ScanAssumption, FS_Subset
<1>3. /\ IsFiniteSet(Slots)
      /\ Cardinality(Slots) = Cardinality(ActiveJobs) + Cardinality(InFlight)
                                - Cardinality(ActiveJobs \cap InFlight)
    BY <1>2, FS_Union DEF Slots
<1>4. IsFiniteSet(ActiveJobs \cap InFlight)
    <2>1. ActiveJobs \cap InFlight \in SUBSET ActiveJobs
        OBVIOUS
    <2> QED
        BY <2>1, <1>2, FS_Subset
<1>5. /\ Cardinality(ActiveJobs) \in Nat /\ Cardinality(InFlight) \in Nat
      /\ Cardinality(Slots) \in Nat
      /\ Cardinality(ActiveJobs \cap InFlight) \in Nat
    BY <1>2, <1>3, <1>4, FS_CardinalityType
<1> QED
    BY <1>2, <1>3, <1>5

\* A step that takes no new slot keeps the bound.
LEMMA NoNewSlot ==
    ASSUME TypeOK, OverrunBounded, Slots' \subseteq Slots
    PROVE  OverrunBounded'
<1>1. IsFiniteSet(Slots) /\ Cardinality(Slots) \in Nat
    BY SlotsFinite
<1>2. IsFiniteSet(Slots') /\ Cardinality(Slots') <= Cardinality(Slots)
    BY <1>1, FS_Subset
<1>3. Cardinality(Slots') \in Nat
    BY <1>2, FS_CardinalityType
<1> QED
    BY <1>1, <1>2, <1>3, ScanAssumption DEF OverrunBounded, Slots

LEMMA AdmitBound ==
    ASSUME TypeOK, OverrunBounded, NEW j \in Jobs, Admit(j)
    PROVE  OverrunBounded'
<1>1. /\ IsFiniteSet(Slots) /\ Cardinality(Slots) \in Nat
      /\ Cardinality(Slots) <= Cardinality(ActiveJobs) + Cardinality(InFlight)
      /\ Cardinality(ActiveJobs) \in Nat /\ Cardinality(InFlight) \in Nat
    BY SlotsFinite
<1>2. Slots' \subseteq Slots \cup {j}
    BY DEF TypeOK, Admit, Slots, ActiveJobs, InFlight, jobVars
<1>3. IsFiniteSet(Slots \cup {j}) /\ Cardinality(Slots \cup {j}) <= Cardinality(Slots) + 1
    BY <1>1, FS_AddElement
<1>4. IsFiniteSet(Slots') /\ Cardinality(Slots') <= Cardinality(Slots \cup {j})
    BY <1>2, <1>3, FS_Subset
<1>5. Cardinality(Slots') \in Nat /\ Cardinality(Slots \cup {j}) \in Nat
    BY <1>3, <1>4, FS_CardinalityType
<1>6. /\ Cardinality(ActiveJobs) <= MaxConcurrent - 1
      /\ Cardinality(InFlight) <= MaxHandlers - 1
    BY <1>1, ScanAssumption DEF Admit
<1> QED
    BY <1>1, <1>3, <1>4, <1>5, <1>6, ScanAssumption DEF OverrunBounded, Slots

LEMMA SlotStep == IndInv /\ [Next]_vars => OverrunBounded'
<1> SUFFICES ASSUME IndInv, [Next]_vars PROVE OverrunBounded'
    OBVIOUS
<1>0. TypeOK /\ OverrunBounded
    BY DEF IndInv
<1> USE DEF IndInv, TypeOK, Unstarted, Running, Slots, ActiveJobs, InFlight, jobVars
<1>1. ASSUME NEW j \in Jobs, Admit(j) PROVE OverrunBounded'
    BY <1>0, <1>1, AdmitBound
<1>2. ASSUME ~ \E j \in Jobs : Admit(j) PROVE Slots' \subseteq Slots
  <2>1. ASSUME NEW j \in Jobs, TooBusy(j) PROVE Slots' \subseteq Slots
      BY <2>1 DEF TooBusy
  <2>2. ASSUME NEW j \in Jobs, BadRequest(j) PROVE Slots' \subseteq Slots
      BY <2>2 DEF BadRequest
  <2>3. ASSUME NEW j \in Jobs, MakeJob(j) PROVE Slots' \subseteq Slots
      BY <2>3 DEF MakeJob
  <2>4. ASSUME NEW j \in Jobs, RegisterJob(j) PROVE Slots' \subseteq Slots
      BY <2>4 DEF RegisterJob
  <2>5. ASSUME NEW j \in Jobs, SaveNew(j) PROVE Slots' \subseteq Slots
      BY <2>5 DEF SaveNew, Fault
  <2>6. ASSUME NEW j \in Jobs, StartThread(j) PROVE Slots' \subseteq Slots
      BY <2>6 DEF StartThread
  <2>7. ASSUME NEW j \in Jobs, HandlerFails(j) PROVE Slots' \subseteq Slots
      BY <2>7 DEF HandlerFails, Fault
  <2>8. ASSUME NEW j \in Jobs, BuildArgs(j) PROVE Slots' \subseteq Slots
      BY <2>8 DEF BuildArgs
  <2>9. ASSUME NEW j \in Jobs, StartRunning(j) PROVE Slots' \subseteq Slots
      BY <2>9 DEF StartRunning, Fault
  <2>10. ASSUME NEW j \in Jobs, ThreadDies(j) PROVE Slots' \subseteq Slots
      BY <2>10 DEF ThreadDies, Fault
  <2>11. ASSUME NEW j \in Jobs, Spawn(j) PROVE Slots' \subseteq Slots
      BY <2>11 DEF Spawn
  <2>12. ASSUME NEW j \in Jobs, SpawnFails(j) PROVE Slots' \subseteq Slots
      BY <2>12 DEF SpawnFails
  <2>13. ASSUME NEW j \in Jobs, EngineExit(j) PROVE Slots' \subseteq Slots
      BY <2>13 DEF EngineExit
  <2>14. ASSUME NEW j \in Jobs, Reap(j) PROVE Slots' \subseteq Slots
      BY <2>14 DEF Reap
  <2>15. ASSUME NEW j \in Jobs, Finish(j) PROVE Slots' \subseteq Slots
      BY <2>15 DEF Finish, Outcome
  <2>16. ASSUME NEW j \in Jobs, SaveEnd(j) PROVE Slots' \subseteq Slots
      BY <2>16 DEF SaveEnd, Fault
  <2>17. ASSUME NEW j \in Jobs, Cancel(j) PROVE Slots' \subseteq Slots
      BY <2>17 DEF Cancel
  <2>18. ASSUME NEW j \in Jobs, DeleteCheck(j) PROVE Slots' \subseteq Slots
      BY <2>18 DEF DeleteCheck
  <2>19. ASSUME NEW j \in Jobs, DeletePop(j) PROVE Slots' \subseteq Slots
      BY <2>19 DEF DeletePop
  <2>20. ASSUME NEW j \in Jobs, DeleteRow(j) PROVE Slots' \subseteq Slots
      BY <2>20 DEF DeleteRow
  <2>21. ASSUME NEW j \in Jobs, DeleteDir(j) PROVE Slots' \subseteq Slots
      BY <2>21 DEF DeleteDir
  <2>22. ASSUME ClearCheck PROVE Slots' \subseteq Slots
      BY <2>22 DEF ClearCheck
  <2>23. ASSUME ClearRows PROVE Slots' \subseteq Slots
      BY <2>23 DEF ClearRows
  <2>24. ASSUME ClearDirs PROVE Slots' \subseteq Slots
      BY <2>24 DEF ClearDirs
  <2>25. ASSUME ClearPop PROVE Slots' \subseteq Slots
      BY <2>25 DEF ClearPop
  <2>26. ASSUME Crash PROVE Slots' \subseteq Slots
      BY <2>26 DEF Crash
  <2>27. ASSUME Boot PROVE Slots' \subseteq Slots
      BY <2>27 DEF Boot
  <2>28. ASSUME UNCHANGED vars PROVE Slots' \subseteq Slots
      BY <2>28 DEF vars
  <2> QED
      BY <1>2, <2>1, <2>2, <2>3, <2>4, <2>5, <2>6, <2>7, <2>8, <2>9, <2>10, <2>11, <2>12, <2>13, <2>14, <2>15, <2>16, <2>17, <2>18, <2>19, <2>20, <2>21, <2>22, <2>23, <2>24, <2>25, <2>26, <2>27, <2>28 DEF Next
<1>3. CASE ~ \E j \in Jobs : Admit(j)
    BY <1>0, <1>2, <1>3, NoNewSlot
<1> QED
    BY <1>1, <1>3

-----------------------------------------------------------------------------
(* What relates a job's handler, thread, engine, row and directory.           *)

Related ==
    Unstarted /\ Unseen /\ Running /\ Down /\ Deleting /\ Purged /\ Settled

LEMMA RelatedStep == IndInv /\ [Next]_vars => Related'
<1> SUFFICES ASSUME IndInv, [Next]_vars PROVE Related'
    OBVIOUS
<1> USE DEF IndInv, TypeOK, Related, Unstarted, Unseen, Running, Down, Deleting, Purged,
            Settled, Quiet, jobVars, files, history
<1>1. ASSUME NEW j \in Jobs, Admit(j) PROVE Related'
    BY <1>1 DEF Admit
<1>2. ASSUME NEW j \in Jobs, TooBusy(j) PROVE Related'
    BY <1>2 DEF TooBusy
<1>3. ASSUME NEW j \in Jobs, BadRequest(j) PROVE Related'
    BY <1>3 DEF BadRequest
<1>4. ASSUME NEW j \in Jobs, MakeJob(j) PROVE Related'
    BY <1>4 DEF MakeJob
<1>5. ASSUME NEW j \in Jobs, RegisterJob(j) PROVE Related'
    BY <1>5 DEF RegisterJob
<1>6. ASSUME NEW j \in Jobs, SaveNew(j) PROVE Related'
  <2>1. Unstarted' /\ Unseen' /\ Running' /\ Down'
      BY <1>6 DEF SaveNew, Fault
  <2>2. Deleting' /\ Purged'
      BY <1>6 DEF SaveNew, Fault
  <2>3. thread[j] = "none" /\ UNCHANGED thread
      BY <1>6 DEF SaveNew
  <2>4. Settled'
      BY <1>6, <2>3 DEF SaveNew, Fault
  <2> QED
      BY <2>1, <2>2, <2>4
<1>7. ASSUME NEW j \in Jobs, StartThread(j) PROVE Related'
    BY <1>7 DEF StartThread
<1>8. ASSUME NEW j \in Jobs, HandlerFails(j) PROVE Related'
    BY <1>8 DEF HandlerFails, Fault
<1>9. ASSUME NEW j \in Jobs, BuildArgs(j) PROVE Related'
    BY <1>9 DEF BuildArgs
<1>10. ASSUME NEW j \in Jobs, StartRunning(j) PROVE Related'
  <2>1. Unstarted' /\ Unseen'
      BY <1>10 DEF StartRunning, Fault
  <2>2. Running' /\ Down'
      BY <1>10 DEF StartRunning, Fault
  <2>3. Deleting' /\ Purged'
      BY <1>10 DEF StartRunning, Fault
  <2>4. thread'[j] = "spawn"
      BY <1>10 DEF StartRunning
  <2>5. Settled'
      BY <1>10, <2>4 DEF StartRunning, Fault
  <2> QED
      BY <2>1, <2>2, <2>3, <2>5
<1>11. ASSUME NEW j \in Jobs, ThreadDies(j) PROVE Related'
    BY <1>11 DEF ThreadDies, Fault
<1>12. ASSUME NEW j \in Jobs, Spawn(j) PROVE Related'
    BY <1>12 DEF Spawn
<1>13. ASSUME NEW j \in Jobs, SpawnFails(j) PROVE Related'
    BY <1>13 DEF SpawnFails
<1>14. ASSUME NEW j \in Jobs, EngineExit(j) PROVE Related'
    BY <1>14 DEF EngineExit
<1>15. ASSUME NEW j \in Jobs, Reap(j) PROVE Related'
    BY <1>15 DEF Reap
<1>16. ASSUME NEW j \in Jobs, Finish(j) PROVE Related'
    BY <1>16 DEF Finish, Outcome
<1>17. ASSUME NEW j \in Jobs, SaveEnd(j) PROVE Related'
    BY <1>17 DEF SaveEnd, Fault
<1>18. ASSUME NEW j \in Jobs, Cancel(j) PROVE Related'
    BY <1>18 DEF Cancel
<1>19. ASSUME NEW j \in Jobs, DeleteCheck(j) PROVE Related'
    BY <1>19 DEF DeleteCheck
<1>20. ASSUME NEW j \in Jobs, DeletePop(j) PROVE Related'
    BY <1>20 DEF DeletePop
<1>21. ASSUME NEW j \in Jobs, DeleteRow(j) PROVE Related'
    BY <1>21 DEF DeleteRow
<1>22. ASSUME NEW j \in Jobs, DeleteDir(j) PROVE Related'
    BY <1>22 DEF DeleteDir
<1>23. ASSUME ClearCheck PROVE Related'
    BY <1>23 DEF ClearCheck
<1>24. ASSUME ClearRows PROVE Related'
    BY <1>24 DEF ClearRows
<1>25. ASSUME ClearDirs PROVE Related'
    BY <1>25 DEF ClearDirs
<1>26. ASSUME ClearPop PROVE Related'
    BY <1>26 DEF ClearPop
<1>27. ASSUME Crash PROVE Related'
    BY <1>27 DEF Crash
<1>28. ASSUME Boot PROVE Related'
    BY <1>28 DEF Boot
<1>29. ASSUME UNCHANGED vars PROVE Related'
    BY <1>29 DEF vars
<1> QED
    BY <1>1, <1>2, <1>3, <1>4, <1>5, <1>6, <1>7, <1>8, <1>9, <1>10, <1>11, <1>12, <1>13, <1>14, <1>15, <1>16, <1>17, <1>18, <1>19, <1>20, <1>21, <1>22, <1>23, <1>24, <1>25, <1>26, <1>27, <1>28, <1>29 DEF Next

-----------------------------------------------------------------------------
(* The theorems.                                                              *)

\* IndInv holds in every reachable state, so its parts are true at every
\* moment of the console's life, for any number of requests.
THEOREM Inductive == Spec => []IndInv
<1>1. Init => TypeOK
    BY ScanAssumption DEF Init, TypeOK, Status, Active
<1>2. Init => OverrunBounded
  <2> SUFFICES ASSUME Init PROVE OverrunBounded
      OBVIOUS
  <2>1. ActiveJobs \cup InFlight = {}
      BY DEF Init, ActiveJobs, InFlight
  <2>2. Cardinality({}) = 0
      BY FS_EmptySet
  <2> QED
      BY <2>1, <2>2, ScanAssumption DEF OverrunBounded
<1>3. Init => Related
    BY DEF Init, Related, Unstarted, Unseen, Running, Down, Deleting, Purged, Settled
<1>4. IndInv /\ [Next]_vars => IndInv'
    BY TypeStep, SlotStep, RelatedStep DEF IndInv, Related
<1> QED
    BY <1>1, <1>2, <1>3, <1>4, PTL DEF Spec, IndInv, Related

\* Every variable keeps its type.
THEOREM TypeCorrect == Spec => []TypeOK
    BY Inductive, PTL DEF IndInv

\* The cap of concurrent scans is overrun by less than the handlers that can be
\* between the check and the registration.
THEOREM OverrunThm == Spec => []OverrunBounded
    BY Inductive, PTL DEF IndInv

\* A registered job with a terminal status has no live engine: what the
\* handlers that delete and clear rely on when they test the status.
THEOREM TerminalThm == Spec => []TerminalMeansEngineGone
<1>1. IndInv => TerminalMeansEngineGone
    BY DEF IndInv, TypeOK, Running, TerminalMeansEngineGone
<1> QED
    BY <1>1, Inductive, PTL

\* A delete of a quiet job is final: its row and its directory never return.
THEOREM FinalThm == Spec => []QuietDeleteIsFinal
<1>1. IndInv => QuietDeleteIsFinal
    BY DEF IndInv, Purged, QuietDeleteIsFinal
<1> QED
    BY <1>1, Inductive, PTL

\* Once run_job is over the row in SQLite agrees with the job in memory, unless
\* a call has failed.
THEOREM RowThm == Spec => []RowFollowsStatus
<1>1. IndInv => RowFollowsStatus
    BY DEF IndInv, TypeOK, Settled, RowFollowsStatus
<1> QED
    BY <1>1, Inductive, PTL

-----------------------------------------------------------------------------
(* Sequences of sequences.                                                    *)

\* What holds of 0 and of the successor holds of every number.
LEMMA Induction ==
    ASSUME NEW G, 0 \in G, \A n \in Nat : n \in G => n + 1 \in G
    PROVE  Nat \subseteq G
<1> DEFINE R == {ss \in Nat \X Nat : ss[1] < ss[2]}
           T == Nat \ G
<1> SUFFICES ASSUME T # {} PROVE FALSE
    OBVIOUS
<1>1. IsWellFoundedOn(R, Nat)
    BY NatLessThanWellFounded DEF OpToRel
<1>2. \A x, y \in Nat : <<y, x>> \in R <=> y < x
    OBVIOUS
<1>3. \E x \in T : \A y \in T : ~ (<<y, x>> \in R)
  <2> HIDE DEF R
  <2> QED
      BY <1>1, WFMin
<1>4. PICK x \in T : \A y \in T : ~ (y < x)
    BY <1>2, <1>3
<1>5. x # 0 /\ x - 1 \in Nat /\ x - 1 < x /\ (x - 1) + 1 = x
    BY <1>4
<1> QED
    BY <1>4, <1>5

\* The function inside FlattenSeq, for the first n members of s.
IsFlat(f, s, n) ==
    f = [i \in 1..n |-> IF i = 1 THEN s[i] ELSE f[i - 1] \o s[i]]

LEMMA FlatExists ==
    ASSUME NEW s
    PROVE  \A n \in Nat : \E f : IsFlat(f, s, n)
<1> DEFINE G == {n \in Nat : \E f : IsFlat(f, s, n)}
<1>1. 0 \in G
  <2>1. IsFlat([i \in 1..0 |-> 0], s, 0)
      BY DEF IsFlat
  <2> QED
      BY <2>1
<1>2. ASSUME NEW n \in Nat, n \in G PROVE n + 1 \in G
  <2>1. PICK f : IsFlat(f, s, n)
      BY <1>2
  <2> DEFINE g == [i \in 1..(n + 1) |->
                      IF i = n + 1 THEN IF i = 1 THEN s[i] ELSE f[i - 1] \o s[i]
                      ELSE f[i]]
             h == [i \in 1..(n + 1) |-> IF i = 1 THEN s[i] ELSE g[i - 1] \o s[i]]
  <2>2. ASSUME NEW i \in 1..(n + 1) PROVE g[i] = h[i]
    <3>1. CASE i = n + 1
      <4>1. i # 1 => i - 1 \in 1..(n + 1) /\ i - 1 # n + 1
          BY <3>1
      <4> QED
          BY <3>1, <4>1
    <3>2. CASE i # n + 1
      <4>1. i \in 1..n /\ (i # 1 => i - 1 \in 1..(n + 1) /\ i - 1 # n + 1)
          BY <3>2
      <4>2. f[i] = IF i = 1 THEN s[i] ELSE f[i - 1] \o s[i]
          BY <2>1, <4>1 DEF IsFlat
      <4> QED
          BY <3>2, <4>1, <4>2
    <3> QED
        BY <3>1, <3>2
  <2>3. g = h
      BY <2>2
  <2>4. IsFlat(g, s, n + 1)
      BY <2>3 DEF IsFlat
  <2> HIDE DEF g
  <2> QED
      BY <2>4
<1> HIDE DEF G
<1>3. Nat \subseteq G
    BY <1>1, <1>2, Induction
<1> QED
    BY <1>3 DEF G

LEMMA FlatValue ==
    ASSUME NEW s, Len(s) \in Nat \ {0}
    PROVE  \E f : IsFlat(f, s, Len(s)) /\ FlattenSeq(s) = f[Len(s)]
<1> DEFINE F == CHOOSE f : f = [i \in 1..Len(s) |->
                                   IF i = 1 THEN s[i] ELSE f[i - 1] \o s[i]]
<1>1. \E f : f = [i \in 1..Len(s) |-> IF i = 1 THEN s[i] ELSE f[i - 1] \o s[i]]
    BY FlatExists DEF IsFlat
<1>2. IsFlat(F, s, Len(s))
    BY <1>1, Zenon DEF IsFlat
<1>3. FlattenSeq(s) = F[Len(s)]
    BY Zenon DEF FlattenSeq
<1> QED
    BY <1>2, <1>3

\* The first members decide what comes of them.
LEMMA FlatUnique ==
    ASSUME NEW s, NEW t, NEW m \in Nat, NEW n \in Nat, n <= m,
           \A i \in 1..n : s[i] = t[i],
           NEW f, IsFlat(f, s, m), NEW g, IsFlat(g, t, n)
    PROVE  \A i \in 1..n : f[i] = g[i]
<1> DEFINE G == {k \in Nat : k \in 1..n => f[k] = g[k]}
<1>1. 0 \in G
    OBVIOUS
<1>2. ASSUME NEW k \in Nat, k \in G, k + 1 \in 1..n PROVE f[k + 1] = g[k + 1]
  <2>0. k + 1 \in 1..m
      BY <1>2
  <2>1. /\ f[k + 1] = IF k + 1 = 1 THEN s[k + 1] ELSE f[(k + 1) - 1] \o s[k + 1]
        /\ g[k + 1] = IF k + 1 = 1 THEN t[k + 1] ELSE g[(k + 1) - 1] \o t[k + 1]
      BY <1>2, <2>0, Zenon DEF IsFlat
  <2>2. k + 1 # 1 => k \in 1..n /\ (k + 1) - 1 = k
      BY <1>2
  <2> QED
      BY <1>2, <2>1, <2>2
<1>3. \A k \in Nat : k \in G => k + 1 \in G
    BY <1>2
<1>4. Nat \subseteq G
  <2> HIDE DEF G
  <2> QED
      BY <1>1, <1>3, Induction
<1> QED
    BY <1>4

\* The first n parts, one behind the other.
Flat(P, n) == FlattenSeq([i \in 1..n |-> P[i]])

AreParts(P, n, C) == \A i \in 1..n : P[i] \in Seq(C)

LEMMA FlatEmpty == ASSUME NEW P PROVE Flat(P, 0) = <<>>
<1>1. [i \in 1..0 |-> P[i]] = <<>>
    OBVIOUS
<1> QED
    BY <1>1, EmptySeq DEF Flat, FlattenSeq

LEMMA FlatFunction ==
    ASSUME NEW P, NEW n \in Nat \ {0}
    PROVE  \E f : IsFlat(f, P, n) /\ Flat(P, n) = f[n]
<1> DEFINE s == [i \in 1..n |-> P[i]]
<1>1. Len(s) = n
    OBVIOUS
<1>2. Flat(P, n) = FlattenSeq(s)
    BY DEF Flat
<1>3. \A i \in 1..n : s[i] = P[i]
    OBVIOUS
<1> HIDE DEF s
<1>4. PICK f : IsFlat(f, s, n) /\ FlattenSeq(s) = f[n]
    BY <1>1, FlatValue
<1>5. IsFlat(f, P, n)
    BY <1>3, <1>4 DEF IsFlat
<1> QED
    BY <1>2, <1>4, <1>5

LEMMA FlatGrows ==
    ASSUME NEW C, NEW P, NEW n \in Nat, P[n + 1] \in Seq(C)
    PROVE  Flat(P, n + 1) = IF n = 0 THEN P[1] ELSE Flat(P, n) \o P[n + 1]
<1>1. n + 1 \in Nat \ {0} /\ n <= n + 1 /\ (n + 1) - 1 = n /\ n + 1 \in 1..(n + 1)
    OBVIOUS
<1>2. PICK f : IsFlat(f, P, n + 1) /\ Flat(P, n + 1) = f[n + 1]
    BY <1>1, FlatFunction
<1>3. f[n + 1] = IF n + 1 = 1 THEN P[n + 1] ELSE f[(n + 1) - 1] \o P[n + 1]
    BY <1>1, <1>2, Zenon DEF IsFlat
<1>4. ASSUME n # 0 PROVE f[n] = Flat(P, n)
  <2>1. PICK g : IsFlat(g, P, n) /\ Flat(P, n) = g[n]
      BY <1>4, FlatFunction
  <2>2. \A i \in 1..n : f[i] = g[i]
      BY <1>1, <1>2, <2>1, FlatUnique
  <2> QED
      BY <1>4, <2>1, <2>2
<1> QED
    BY <1>1, <1>2, <1>3, <1>4

LEMMA FlatType ==
    ASSUME NEW C, NEW P, NEW n \in Nat, AreParts(P, n, C)
    PROVE  Flat(P, n) \in Seq(C)
<1> DEFINE G == {k \in Nat : k <= n => Flat(P, k) \in Seq(C)}
<1>1. 0 \in G
    BY FlatEmpty, EmptySeq
<1>2. ASSUME NEW k \in Nat, k \in G, k + 1 <= n PROVE Flat(P, k + 1) \in Seq(C)
  <2>1. P[k + 1] \in Seq(C) /\ Flat(P, k) \in Seq(C)
      BY <1>2 DEF AreParts
  <2>2. Flat(P, k) \o P[k + 1] \in Seq(C)
      BY <2>1, ConcatProperties
  <2>3. Flat(P, k + 1) = IF k = 0 THEN P[1] ELSE Flat(P, k) \o P[k + 1]
      BY <2>1, FlatGrows
  <2>4. k = 0 => P[1] = P[k + 1]
      OBVIOUS
  <2> QED
      BY <2>1, <2>2, <2>3, <2>4, Zenon
<1>3. \A k \in Nat : k \in G => k + 1 \in G
    BY <1>2
<1>4. Nat \subseteq G
  <2> HIDE DEF G
  <2> QED
      BY <1>1, <1>3, Induction
<1> QED
    BY <1>4

\* One more part.
LEMMA FlatStep ==
    ASSUME NEW C, NEW P, NEW n \in Nat, AreParts(P, n + 1, C)
    PROVE  /\ Flat(P, n) \in Seq(C) /\ P[n + 1] \in Seq(C)
           /\ Flat(P, n + 1) \in Seq(C)
           /\ Flat(P, n + 1) = Flat(P, n) \o P[n + 1]
<1>1. AreParts(P, n, C) /\ P[n + 1] \in Seq(C)
    BY DEF AreParts
<1>2. Flat(P, n) \in Seq(C) /\ Flat(P, n + 1) \in Seq(C)
    BY <1>1, FlatType
<1>3. n = 0 => Flat(P, n) \o P[n + 1] = P[1]
    BY <1>1, FlatEmpty, ConcatEmptySeq
<1> QED
    BY <1>1, <1>2, <1>3, FlatGrows

-----------------------------------------------------------------------------
(* Lists.                                                                    *)
IsList(s) == s \in Seq(ToSet(s))

LEMMA ListOf ==
    ASSUME NEW T, NEW s \in Seq(T)
    PROVE  IsList(s) /\ ToSet(s) \subseteq T
<1>1. DOMAIN s = 1..Len(s) /\ Len(s) \in Nat /\ \A i \in 1..Len(s) : s[i] \in T
    OBVIOUS
<1>2. s \in [1..Len(s) -> ToSet(s)]
    BY <1>1 DEF ToSet
<1> QED
    BY <1>1, <1>2 DEF IsList, ToSet

LEMMA ListFacts ==
    ASSUME NEW s, IsList(s)
    PROVE  /\ Len(s) \in Nat /\ DOMAIN s = 1..Len(s)
           /\ \A i \in DOMAIN s : s[i] \in ToSet(s)
           /\ \A x \in ToSet(s) : \E i \in DOMAIN s : s[i] = x
    BY DEF IsList, ToSet

LEMMA EmptyList == IsList(<<>>) /\ ToSet(<<>>) = {}
    BY DEF IsList, ToSet

LEMMA ListAppend ==
    ASSUME NEW s, IsList(s), NEW x
    PROVE  IsList(Append(s, x)) /\ ToSet(Append(s, x)) = ToSet(s) \cup {x}
<1> DEFINE T == ToSet(s) \cup {x}
<1>1. s \in Seq(T) /\ x \in T
    BY DEF IsList, ToSet
<1> HIDE DEF T
<1>2. Append(s, x) \in Seq(T) /\ Len(Append(s, x)) = Len(s) + 1 /\ Append(s, x)[Len(s) + 1] = x
      /\ \A i \in 1..Len(s) : Append(s, x)[i] = s[i]
    BY <1>1
<1>3. DOMAIN Append(s, x) = 1..(Len(s) + 1) /\ DOMAIN s = 1..Len(s) /\ Len(s) \in Nat
    BY <1>1, <1>2
<1>4. ToSet(Append(s, x)) = ToSet(s) \cup {x}
    BY <1>2, <1>3 DEF ToSet
<1> QED
    BY <1>2, <1>4, ListOf

LEMMA ListJoin ==
    ASSUME NEW s, IsList(s), NEW t, IsList(t)
    PROVE  IsList(s \o t) /\ ToSet(s \o t) = ToSet(s) \cup ToSet(t)
<1> DEFINE T == ToSet(s) \cup ToSet(t)
<1>1. s \in Seq(T) /\ t \in Seq(T)
    BY DEF IsList, ToSet
<1> HIDE DEF T
<1>2. /\ s \o t \in Seq(T) /\ Len(s \o t) = Len(s) + Len(t)
      /\ \A i \in 1..Len(s) : (s \o t)[i] = s[i]
      /\ \A i \in 1..Len(t) : (s \o t)[Len(s) + i] = t[i]
    BY <1>1, ConcatProperties
<1>3. DOMAIN (s \o t) = 1..(Len(s) + Len(t)) /\ DOMAIN s = 1..Len(s) /\ DOMAIN t = 1..Len(t)
      /\ Len(s) \in Nat /\ Len(t) \in Nat
    BY <1>1, <1>2
<1>4. ToSet(s) \subseteq ToSet(s \o t)
    BY <1>2, <1>3 DEF ToSet
<1>5. ToSet(t) \subseteq ToSet(s \o t)
  <2> SUFFICES ASSUME NEW i \in 1..Len(t) PROVE t[i] \in ToSet(s \o t)
      BY <1>3 DEF ToSet
  <2>1. Len(s) + i \in DOMAIN (s \o t)
      BY <1>3
  <2>2. (s \o t)[Len(s) + i] = t[i]
      BY <1>2
  <2> QED
      BY <2>1, <2>2 DEF ToSet
<1>6. ToSet(s \o t) \subseteq ToSet(s) \cup ToSet(t)
  <2> SUFFICES ASSUME NEW i \in 1..(Len(s) + Len(t)) PROVE (s \o t)[i] \in ToSet(s) \cup ToSet(t)
      BY <1>3 DEF ToSet
  <2>1. i \in 1..Len(s) \/ (i - Len(s) \in 1..Len(t) /\ Len(s) + (i - Len(s)) = i)
      BY <1>3
  <2> QED
      BY <1>2, <1>3, <2>1 DEF ToSet
<1> QED
    BY <1>2, <1>4, <1>5, <1>6, ListOf

LEMMA ListTail ==
    ASSUME NEW s, IsList(s), s # <<>>
    PROVE  /\ Head(s) = s[1] /\ 1 \in DOMAIN s /\ Head(s) \in ToSet(s)
           /\ IsList(Tail(s)) /\ ToSet(Tail(s)) \subseteq ToSet(s)
           /\ \A i \in DOMAIN Tail(s) : i + 1 \in DOMAIN s /\ Tail(s)[i] = s[i + 1] /\ i \in Nat
<1>1. /\ Len(s) \in Nat \ {0} /\ DOMAIN s = 1..Len(s) /\ Head(s) = s[1]
      /\ Tail(s) \in Seq(ToSet(s)) /\ Len(Tail(s)) = Len(s) - 1
      /\ \A i \in 1..Len(Tail(s)) : Tail(s)[i] = s[i + 1]
    BY HeadTailProperties DEF IsList
<1>2. DOMAIN Tail(s) = 1..(Len(s) - 1)
    BY <1>1
<1>3. Head(s) \in ToSet(s)
    BY <1>1 DEF ToSet
<1>4. \A i \in DOMAIN Tail(s) : i + 1 \in DOMAIN s /\ Tail(s)[i] = s[i + 1] /\ i \in Nat
    BY <1>1, <1>2
<1>5. 1 \in DOMAIN s
    BY <1>1
<1>6. IsList(Tail(s)) /\ ToSet(Tail(s)) \subseteq ToSet(s)
  <2> DEFINE T == ToSet(s)
  <2> HIDE DEF T
  <2>1. Tail(s) \in Seq(T)
      BY <1>1 DEF T
  <2> QED
      BY <2>1, ListOf DEF T
<1> QED
    BY <1>1, <1>3, <1>4, <1>5, <1>6

LEMMA FlatRange ==
    ASSUME NEW P, NEW m \in Nat, \A i \in 1..m : IsList(P[i])
    PROVE  IsList(Flat(P, m)) /\ ToSet(Flat(P, m)) = UNION {ToSet(P[i]) : i \in 1..m}
<1> DEFINE C == UNION {ToSet(P[i]) : i \in 1..m}
           G == {n \in Nat : n <= m => ToSet(Flat(P, n)) = UNION {ToSet(P[i]) : i \in 1..n}}
<1>1. AreParts(P, m, C)
  <2> SUFFICES ASSUME NEW i \in 1..m PROVE P[i] \in Seq(C)
      BY Zenon DEF AreParts
  <2>1. P[i] \in Seq(ToSet(P[i])) /\ ToSet(P[i]) \subseteq C
      BY DEF IsList
  <2> QED
      BY <2>1
<1>2. 0 \in G
  <2>1. Flat(P, 0) = <<>> /\ {ToSet(P[i]) : i \in 1..0} = {}
      BY FlatEmpty
  <2> QED
      BY <2>1, EmptyList
<1>3. ASSUME NEW n \in Nat, n \in G, n + 1 <= m
      PROVE  ToSet(Flat(P, n + 1)) = UNION {ToSet(P[i]) : i \in 1..(n + 1)}
  <2> HIDE DEF C
  <2>1. AreParts(P, n + 1, C)
      BY <1>1, <1>3 DEF AreParts
  <2>2. Flat(P, n) \in Seq(C) /\ P[n + 1] \in Seq(C) /\ Flat(P, n + 1) = Flat(P, n) \o P[n + 1]
      BY <2>1, FlatStep
  <2>3. ToSet(Flat(P, n + 1)) = ToSet(Flat(P, n)) \cup ToSet(P[n + 1])
    <3>1. IsList(Flat(P, n))
        BY <2>2, ListOf
    <3>2. IsList(P[n + 1])
        BY <1>3
    <3> QED
        BY <2>2, <3>1, <3>2, ListJoin
  <2>4. 1..(n + 1) = 1..n \cup {n + 1}
      OBVIOUS
  <2>5. UNION {ToSet(P[i]) : i \in 1..(n + 1)} = (UNION {ToSet(P[i]) : i \in 1..n}) \cup ToSet(P[n + 1])
      BY <2>4, Zenon
  <2> QED
      BY <1>3, <2>3, <2>5
<1>4. \A n \in Nat : n \in G => n + 1 \in G
  <2> SUFFICES ASSUME NEW n \in Nat, n \in G, n + 1 <= m PROVE n + 1 \in G
      OBVIOUS
  <2> QED
      BY <1>3
<1>5. Nat \subseteq G
  <2> HIDE DEF G
  <2> QED
      BY <1>2, <1>4, Induction
<1>6. ToSet(Flat(P, m)) = UNION {ToSet(P[i]) : i \in 1..m}
    BY <1>5
<1>7. Flat(P, m) \in Seq(C)
  <2> HIDE DEF C
  <2> QED
      BY <1>1, FlatType
<1> HIDE DEF C
<1> QED
    BY <1>6, <1>7, ListOf

-----------------------------------------------------------------------------
(* What Without leaves.                                                       *)

\* The function inside Without, for the first m members of s.
IsUpto(f, s, D, m) ==
    f = [n \in 0..m |-> IF n = 0 THEN <<>> ELSE IF n \in D THEN f[n - 1] ELSE Append(f[n - 1], s[n])]

LEMMA UptoExists ==
    ASSUME NEW s, NEW D
    PROVE  \A m \in Nat : \E f : IsUpto(f, s, D, m)
<1> DEFINE G == {m \in Nat : \E f : IsUpto(f, s, D, m)}
<1>1. 0 \in G
  <2>1. IsUpto([n \in 0..0 |-> <<>>], s, D, 0)
      BY DEF IsUpto
  <2> QED
      BY <2>1
<1>2. ASSUME NEW m \in Nat, m \in G PROVE m + 1 \in G
  <2>1. PICK f : IsUpto(f, s, D, m)
      BY <1>2
  <2> DEFINE e == IF m + 1 \in D THEN f[m] ELSE Append(f[m], s[m + 1])
             g == [n \in 0..(m + 1) |-> IF n = m + 1 THEN e ELSE f[n]]
             h == [n \in 0..(m + 1) |-> IF n = 0 THEN <<>>
                                        ELSE IF n \in D THEN g[n - 1] ELSE Append(g[n - 1], s[n])]
  <2> HIDE DEF e
  <2>2. ASSUME NEW n \in 0..(m + 1) PROVE g[n] = h[n]
    <3>1. CASE n = m + 1
      <4>1. n # 0 /\ n - 1 = m /\ m \in 0..(m + 1) /\ m # m + 1
          BY <3>1
      <4>2. g[n] = e /\ g[m] = f[m]
          BY <3>1, <4>1
      <4>3. h[n] = IF n \in D THEN g[m] ELSE Append(g[m], s[n])
          BY <4>1
      <4> QED
          BY <3>1, <4>2, <4>3 DEF e
    <3>2. CASE n # m + 1
      <4>1. n \in 0..m /\ (n # 0 => n - 1 \in 0..(m + 1) /\ n - 1 # m + 1)
          BY <3>2
      <4>2. f[n] = IF n = 0 THEN <<>> ELSE IF n \in D THEN f[n - 1] ELSE Append(f[n - 1], s[n])
          BY <2>1, <4>1 DEF IsUpto
      <4> QED
          BY <3>2, <4>1, <4>2
    <3> QED
        BY <3>1, <3>2
  <2>3. g = h
      BY <2>2
  <2>4. IsUpto(g, s, D, m + 1)
      BY <2>3 DEF IsUpto
  <2> HIDE DEF g
  <2> QED
      BY <2>4
<1> HIDE DEF G
<1>3. Nat \subseteq G
    BY <1>1, <1>2, Induction
<1> QED
    BY <1>3 DEF G

LEMMA WithoutValue ==
    ASSUME NEW s, Len(s) \in Nat, NEW D
    PROVE  \E f : IsUpto(f, s, D, Len(s)) /\ Without(s, D) = f[Len(s)]
<1> DEFINE F == CHOOSE f : f = [n \in 0..Len(s) |->
                    IF n = 0 THEN <<>> ELSE IF n \in D THEN f[n - 1] ELSE Append(f[n - 1], s[n])]
<1>1. \E f : f = [n \in 0..Len(s) |->
                    IF n = 0 THEN <<>> ELSE IF n \in D THEN f[n - 1] ELSE Append(f[n - 1], s[n])]
  <2>1. \E f : IsUpto(f, s, D, Len(s))
      BY UptoExists
  <2> QED
      BY <2>1, Zenon DEF IsUpto
<1>2. IsUpto(F, s, D, Len(s))
    BY <1>1, Zenon DEF IsUpto
<1>3. Without(s, D) = F[Len(s)]
    BY Zenon DEF Without
<1> QED
    BY <1>2, <1>3

\* p tells for each place of t its place among the first n of s.
Places(p, t, s, D, n) ==
    /\ p \in [1..Len(t) -> 1..n]
    /\ \A i \in 1..Len(t) : t[i] = s[p[i]] /\ p[i] \notin D
    /\ \A i, j \in 1..Len(t) : i < j => p[i] < p[j]
    /\ \A j \in 1..n : j \notin D => \E i \in 1..Len(t) : p[i] = j

LEMMA UptoPlaces ==
    ASSUME NEW T, NEW s \in Seq(T), NEW D, NEW f, IsUpto(f, s, D, Len(s))
    PROVE  \A n \in Nat : n <= Len(s) => f[n] \in Seq(T) /\ \E p : Places(p, f[n], s, D, n)
<1> DEFINE Good(n) == f[n] \in Seq(T) /\ \E p : Places(p, f[n], s, D, n)
           G == {n \in Nat : n <= Len(s) => Good(n)}
<1>0. \A n \in 0..Len(s) : f[n] = IF n = 0 THEN <<>> ELSE IF n \in D THEN f[n - 1]
                                                         ELSE Append(f[n - 1], s[n])
    BY Zenon DEF IsUpto
<1>1. 0 \in G
  <2>0. 0 \in 0..Len(s) /\ <<>> \in Seq(T) /\ Len(<<>>) = 0
      OBVIOUS
  <2>1. f[0] = <<>> /\ Len(f[0]) = 0 /\ f[0] \in Seq(T)
      BY <1>0, <2>0, Zenon
  <2>2. Places([i \in 1..0 |-> 0], f[0], s, D, 0)
      BY <2>1 DEF Places
  <2> QED
      BY <2>1, <2>2
<1>2. ASSUME NEW n \in Nat, n \in G, n + 1 <= Len(s) PROVE Good(n + 1)
  <2>1. PICK p : Places(p, f[n], s, D, n)
      BY <1>2
  <2> DEFINE u == f[n]
             v == f[n + 1]
             m == Len(u)
  <2>2. n + 1 \in 0..Len(s) /\ n + 1 # 0 /\ (n + 1) - 1 = n /\ s[n + 1] \in T
      BY <1>2
  <2>3. v = IF n + 1 \in D THEN u ELSE Append(u, s[n + 1])
      BY <1>0, <2>2
  <2>4. u \in Seq(T)
      BY <1>2
  <2> HIDE DEF u, v
  <2>5. Places(p, u, s, D, n) /\ m \in Nat
      BY <2>1, <2>4 DEF u
  <2>6. CASE n + 1 \in D
    <3>1. Places(p, v, s, D, n + 1)
        BY <1>2, <2>3, <2>5, <2>6 DEF Places
    <3> QED
        BY <2>3, <2>4, <2>6, <3>1 DEF v
  <2>7. CASE n + 1 \notin D
    <3> DEFINE g == [i \in 1..(m + 1) |-> IF i = m + 1 THEN n + 1 ELSE p[i]]
    <3>1. Len(v) = m + 1 /\ v[m + 1] = s[n + 1] /\ v \in Seq(T) /\ \A i \in 1..m : v[i] = u[i]
        BY <2>2, <2>3, <2>4, <2>7
    <3>2. /\ p \in [1..m -> 1..n]
          /\ \A i \in 1..m : u[i] = s[p[i]] /\ p[i] \notin D
          /\ \A i, j \in 1..m : i < j => p[i] < p[j]
          /\ \A j \in 1..n : j \notin D => \E i \in 1..m : p[i] = j
        BY <2>5 DEF Places
    <3> HIDE DEF m
    <3>3. g \in [1..(m + 1) -> 1..(n + 1)]
        BY <2>5, <3>2
    <3>4. \A i \in 1..(m + 1) : v[i] = s[g[i]] /\ g[i] \notin D
        BY <2>5, <2>7, <3>1, <3>2
    <3>5. \A i, j \in 1..(m + 1) : i < j => g[i] < g[j]
        BY <2>5, <3>2
    <3>6. ASSUME NEW j \in 1..(n + 1), j \notin D PROVE \E i \in 1..(m + 1) : g[i] = j
      <4>1. CASE j = n + 1
          BY <2>5, <4>1
      <4>2. CASE j # n + 1
        <5>1. PICK i \in 1..m : p[i] = j
            BY <3>2, <3>6, <4>2
        <5> QED
            BY <2>5, <5>1
      <4> QED
          BY <4>1, <4>2
    <3> HIDE DEF g
    <3>7. Places(g, v, s, D, n + 1)
        BY <3>1, <3>3, <3>4, <3>5, <3>6 DEF Places
    <3> QED
        BY <3>1, <3>7 DEF v
  <2> QED
      BY <2>6, <2>7
<1>3. \A n \in Nat : n \in G => n + 1 \in G
  <2> SUFFICES ASSUME NEW n \in Nat, n \in G PROVE n + 1 \in G
      OBVIOUS
  <2>1. n + 1 <= Len(s) => Good(n + 1)
      BY <1>2
  <2> HIDE DEF Good
  <2> QED
      BY <2>1
<1>4. Nat \subseteq G
  <2> HIDE DEF G
  <2> QED
      BY <1>1, <1>3, Induction
<1> QED
    BY <1>4

LEMMA WithoutPlaces ==
    ASSUME NEW s, IsList(s), NEW D
    PROVE  /\ IsList(Without(s, D))
           /\ \E p : Places(p, Without(s, D), s, D, Len(s))
<1> DEFINE T == ToSet(s)
<1>1. s \in Seq(T) /\ Len(s) \in Nat
    BY DEF IsList
<1> HIDE DEF T
<1>2. PICK f : IsUpto(f, s, D, Len(s)) /\ Without(s, D) = f[Len(s)]
    BY <1>1, WithoutValue
<1>3. f[Len(s)] \in Seq(T) /\ \E p : Places(p, f[Len(s)], s, D, Len(s))
    BY <1>1, <1>2, UptoPlaces
<1> QED
    BY <1>2, <1>3, ListOf

LEMMA WithoutRange ==
    ASSUME NEW s, IsList(s), NEW D
    PROVE  /\ IsList(Without(s, D))
           /\ ToSet(Without(s, D)) = {s[i] : i \in DOMAIN s \ D}
           /\ Len(Without(s, D)) <= Len(s)
<1> DEFINE t == Without(s, D)
<1>1. PICK p : Places(p, t, s, D, Len(s))
    BY WithoutPlaces
<1>2. IsList(t)
    BY WithoutPlaces
<1> HIDE DEF t
<1>3. DOMAIN t = 1..Len(t) /\ DOMAIN s = 1..Len(s) /\ Len(t) \in Nat /\ Len(s) \in Nat
    BY <1>2, ListFacts
<1>4. ToSet(t) = {s[i] : i \in DOMAIN s \ D}
  <2>1. ToSet(t) = {t[i] : i \in DOMAIN t}
      BY DEF ToSet
  <2>2. ASSUME NEW x \in ToSet(t) PROVE \E i \in DOMAIN s \ D : x = s[i]
    <3>1. PICK i \in 1..Len(t) : x = t[i]
        BY <1>3, <2>1
    <3> QED
        BY <1>1, <1>3, <3>1 DEF Places
  <2>3. ASSUME NEW i \in DOMAIN s \ D PROVE s[i] \in ToSet(t)
    <3>1. PICK j \in 1..Len(t) : p[j] = i
        BY <1>1, <1>3 DEF Places
    <3>2. t[j] = s[i]
        BY <1>1, <3>1 DEF Places
    <3> QED
        BY <1>3, <2>1, <3>2
  <2> QED
      BY <2>2, <2>3
<1>5. Len(t) <= Len(s)
  <2>1. \A i, j \in 1..Len(t) : p[i] = p[j] => i = j
    <3> SUFFICES ASSUME NEW i \in 1..Len(t), NEW j \in 1..Len(t), p[i] = p[j], i # j PROVE FALSE
        OBVIOUS
    <3>1. p[i] \in 1..Len(s) /\ p[j] \in 1..Len(s) /\ (i < j \/ j < i)
        BY <1>1, <1>3 DEF Places
    <3> QED
        BY <1>1, <3>1 DEF Places
  <2>2. p \in Injection(1..Len(t), 1..Len(s))
      BY <1>1, <2>1 DEF Places, Injection, IsInjective
  <2>3. IsFiniteSet(1..Len(s)) /\ Cardinality(1..Len(s)) = Len(s)
      /\ IsFiniteSet(1..Len(t)) /\ Cardinality(1..Len(t)) = Len(t)
    <3>1. \A n \in Nat : IsFiniteSet(1..n) /\ Cardinality(1..n) = n
      <4> TAKE n \in Nat
      <4>1. 1 \in Int /\ n \in Int /\ (IF 1 > n THEN 0 ELSE n - 1 + 1) = n
          OBVIOUS
      <4> QED
          BY <4>1, FS_Interval
    <3> QED
        BY <1>3, <3>1
  <2>4. Cardinality(1..Len(t)) <= Cardinality(1..Len(s))
      BY <2>2, <2>3, FS_Injection
  <2> QED
      BY <2>3, <2>4
<1> QED
    BY <1>2, <1>4, <1>5 DEF t

-----------------------------------------------------------------------------
(* How many a list holds.                                                     *)

LEMMA ListCardinality ==
    ASSUME NEW s, IsList(s)
    PROVE  /\ IsFiniteSet(ToSet(s)) /\ Cardinality(ToSet(s)) \in Nat
           /\ Cardinality(ToSet(s)) <= Len(s)
           /\ Cardinality(ToSet(s)) = Len(s) <=> \A i, j \in DOMAIN s : s[i] = s[j] => i = j
<1>1. Len(s) \in Nat /\ DOMAIN s = 1..Len(s) /\ s \in [1..Len(s) -> ToSet(s)]
    BY DEF IsList
<1>2. \A x \in ToSet(s) : \E i \in 1..Len(s) : s[i] = x
    BY <1>1 DEF ToSet
<1>3. s \in Surjection(1..Len(s), ToSet(s))
    BY <1>1, <1>2 DEF Surjection
<1>4. IsFiniteSet(1..Len(s)) /\ Cardinality(1..Len(s)) = Len(s)
  <2>1. 1 \in Int /\ Len(s) \in Int /\ (IF 1 > Len(s) THEN 0 ELSE Len(s) - 1 + 1) = Len(s)
      BY <1>1
  <2> QED
      BY <2>1, FS_Interval
<1> DEFINE S == ToSet(s)
           I == 1..Len(s)
<1> HIDE DEF S, I
<1>5. /\ IsFiniteSet(S) /\ Cardinality(S) <= Cardinality(I)
      /\ Cardinality(S) = Cardinality(I) <=> s \in Injection(I, S)
    BY <1>3, <1>4, FS_Surjection DEF S, I
<1>6. Cardinality(S) \in Nat
    BY <1>5, FS_CardinalityType
<1>7. s \in Injection(I, S) <=> \A i, j \in I : s[i] = s[j] => i = j
    BY <1>1 DEF Injection, IsInjective, S, I
<1> QED
    BY <1>1, <1>4, <1>5, <1>6, <1>7 DEF S, I

LEMMA SeqOfSet ==
    ASSUME NEW S, IsFiniteSet(S)
    PROVE  /\ IsList(SetToSeq(S)) /\ ToSet(SetToSeq(S)) = S /\ Len(SetToSeq(S)) = Cardinality(S)
           /\ \A i, j \in DOMAIN SetToSeq(S) : SetToSeq(S)[i] = SetToSeq(S)[j] => i = j
<1> DEFINE n == Cardinality(S)
           s == SetToSeq(S)
<1>1. n \in Nat /\ ExistsBijection(1..n, S)
    BY FS_CardinalityType
<1>2. PICK f : f \in [1..n -> S] /\ IsInjective(f)
    BY <1>1 DEF ExistsBijection, Bijection, Injection
<1>3. s \in [1..n -> S] /\ IsInjective(s)
    BY <1>2 DEF SetToSeq
<1> HIDE DEF s, n
<1>4. DOMAIN s = 1..n /\ s \in Seq(S) /\ Len(s) = n
    BY <1>1, <1>3
<1>5. s \in Injection(1..n, S)
    BY <1>3, <1>4 DEF Injection
<1>6. IsFiniteSet(1..n) /\ Cardinality(1..n) = n
  <2>1. 1 \in Int /\ n \in Int /\ (IF 1 > n THEN 0 ELSE n - 1 + 1) = n
      BY <1>1
  <2> QED
      BY <2>1, FS_Interval
<1>7. s \in Surjection(1..n, S)
    BY <1>5, <1>6, FS_Injection DEF n
<1>8. ToSet(s) = S
    BY <1>3, <1>4, <1>7 DEF Surjection, ToSet
<1>9. \A i, j \in DOMAIN s : s[i] = s[j] => i = j
    BY <1>3 DEF IsInjective
<1> QED
    BY <1>4, <1>8, <1>9, ListOf DEF s, n

\* Two sets of lists that are in step have the same number of members.
LEMMA ListsAlike ==
    ASSUME NEW s, IsList(s), \A i, j \in DOMAIN s : s[i] = s[j] => i = j,
           NEW t, IsList(t), \A i, j \in DOMAIN t : t[i] = t[j] => i = j,
           ToSet(s) = ToSet(t)
    PROVE  Len(s) = Len(t)
    BY ListCardinality

\* A list of numbers has a least one.
LEMMA LeastOfList ==
    ASSUME NEW m \in Nat \ {0}, NEW f \in [1..m -> Int]
    PROVE  \E i \in 1..m : \A j \in 1..m : f[i] <= f[j]
<1> DEFINE Good(n) == \E i \in 1..n : \A j \in 1..n : f[i] <= f[j]
           G == {n \in Nat : 1 <= n /\ n <= m => Good(n)}
<1>1. 0 \in G
    OBVIOUS
<1>2. ASSUME NEW n \in Nat, n \in G, n + 1 <= m PROVE Good(n + 1)
  <2>1. CASE n = 0
    <3>1. \A j \in 1..(n + 1) : f[1] <= f[j]
      <4>1. \A j \in 1..(n + 1) : j = 1 /\ f[1] \in Int
          BY <2>1
      <4> QED
          BY <4>1
    <3> QED
        BY <2>1, <3>1
  <2>2. CASE n # 0
    <3>1. PICK i \in 1..n : \A j \in 1..n : f[i] <= f[j]
        BY <1>2, <2>2
    <3>2. \A j \in 1..(n + 1) : (j \in 1..n \/ j = n + 1) /\ f[j] \in Int
        BY <1>2
    <3>3. i \in 1..(n + 1) /\ n + 1 \in 1..(n + 1)
        OBVIOUS
    <3>4. CASE f[i] <= f[n + 1]
      <4>1. \A j \in 1..(n + 1) : f[i] <= f[j]
          BY <3>1, <3>2, <3>4
      <4> QED
          BY <3>3, <4>1
    <3>5. CASE ~(f[i] <= f[n + 1])
      <4>1. \A j \in 1..(n + 1) : f[n + 1] <= f[j]
        <5> TAKE j \in 1..(n + 1)
        <5>1. f[i] \in Int /\ f[j] \in Int /\ f[n + 1] \in Int
            BY <3>2, <3>3
        <5>2. j \in 1..n => f[i] <= f[j]
            BY <3>1
        <5> QED
            BY <3>2, <3>5, <5>1, <5>2
      <4> QED
          BY <3>3, <4>1
    <3> QED
        BY <3>4, <3>5
  <2> QED
      BY <2>1, <2>2
<1>3. \A n \in Nat : n \in G => n + 1 \in G
  <2> SUFFICES ASSUME NEW n \in Nat, n \in G PROVE n + 1 \in G
      OBVIOUS
  <2>1. n + 1 <= m => Good(n + 1)
      BY <1>2
  <2> HIDE DEF Good
  <2> QED
      BY <2>1
<1>4. Nat \subseteq G
  <2> HIDE DEF G
  <2> QED
      BY <1>1, <1>3, Induction
<1>5. m \in Nat /\ 1 <= m /\ m <= m
    OBVIOUS
<1>6. m \in G
  <2> HIDE DEF G
  <2> QED
      BY <1>4, <1>5
<1> HIDE DEF Good
<1> QED
    BY <1>5, <1>6 DEF Good

LEMMA MinOfList ==
    ASSUME NEW m \in Nat \ {0}, NEW f \in [1..m -> Int]
    PROVE  Min({f[i] : i \in 1..m}) \in {f[i] : i \in 1..m}
<1>1. PICK i \in 1..m : \A j \in 1..m : f[i] <= f[j]
    BY LeastOfList
<1> QED
    BY <1>1 DEF Min

-----------------------------------------------------------------------------
(* Lists of detections, each of them once.                                    *)
Distinct(s) == \A i, j \in DOMAIN s : Id(s[i]) = Id(s[j]) => i = j
IdsOf(S) == {Id(d) : d \in S}

LEMMA JoinDistinct ==
    ASSUME NEW s, IsList(s), Distinct(s), NEW t, IsList(t), Distinct(t),
           IdsOf(ToSet(s)) \cap IdsOf(ToSet(t)) = {}
    PROVE  Distinct(s \o t)
<1> DEFINE T == ToSet(s) \cup ToSet(t)
           u == s \o t
<1>1. s \in Seq(T) /\ t \in Seq(T)
    BY DEF IsList
<1>2. /\ DOMAIN s = 1..Len(s) /\ DOMAIN t = 1..Len(t) /\ Len(s) \in Nat /\ Len(t) \in Nat
      /\ \A i \in DOMAIN s : s[i] \in ToSet(s)
      /\ \A i \in DOMAIN t : t[i] \in ToSet(t)
    BY ListFacts
<1> HIDE DEF T
<1>3. /\ u \in Seq(T) /\ Len(u) = Len(s) + Len(t)
      /\ \A i \in 1..Len(s) : u[i] = s[i]
      /\ \A i \in 1..Len(t) : u[Len(s) + i] = t[i]
    BY <1>1, ConcatProperties
<1>4. DOMAIN u = 1..(Len(s) + Len(t))
    BY <1>3
<1> HIDE DEF u
<1>5. ASSUME NEW i \in DOMAIN u
      PROVE  \/ i \in DOMAIN s /\ u[i] = s[i]
             \/ i - Len(s) \in DOMAIN t /\ u[i] = t[i - Len(s)]
  <2>1. CASE i \in 1..Len(s)
      BY <1>2, <1>3, <2>1
  <2>2. CASE i \notin 1..Len(s)
    <3>1. i - Len(s) \in 1..Len(t) /\ Len(s) + (i - Len(s)) = i
        BY <1>2, <1>4, <2>2
    <3> QED
        BY <1>2, <1>3, <3>1
  <2> QED
      BY <2>1, <2>2
<1>6. ASSUME NEW i \in DOMAIN s, NEW j \in DOMAIN t PROVE Id(s[i]) # Id(t[j])
  <2>1. Id(s[i]) \in IdsOf(ToSet(s)) /\ Id(t[j]) \in IdsOf(ToSet(t))
      BY <1>2 DEF IdsOf
  <2> QED
      BY <2>1
<1>7. ASSUME NEW i \in DOMAIN u, NEW j \in DOMAIN u, Id(u[i]) = Id(u[j]) PROVE i = j
  <2>1. i \in Int /\ j \in Int
      BY <1>2, <1>4
  <2>2. CASE i \in DOMAIN s /\ u[i] = s[i]
    <3>1. ~(j - Len(s) \in DOMAIN t /\ u[j] = t[j - Len(s)])
        BY <1>6, <1>7, <2>2
    <3>2. j \in DOMAIN s /\ u[j] = s[j]
        BY <1>5, <3>1
    <3> QED
        BY <1>7, <2>2, <3>2 DEF Distinct
  <2>3. CASE i - Len(s) \in DOMAIN t /\ u[i] = t[i - Len(s)]
    <3>1. ~(j \in DOMAIN s /\ u[j] = s[j])
        BY <1>6, <1>7, <2>3
    <3>2. j - Len(s) \in DOMAIN t /\ u[j] = t[j - Len(s)]
        BY <1>5, <3>1
    <3>3. i - Len(s) = j - Len(s)
        BY <1>7, <2>3, <3>2 DEF Distinct
    <3> QED
        BY <1>2, <2>1, <3>3
  <2> QED
      BY <1>5, <2>2, <2>3
<1> QED
    BY <1>7 DEF Distinct, u

LEMMA FlatDistinct ==
    ASSUME NEW P, NEW m \in Nat, \A i \in 1..m : IsList(P[i]) /\ Distinct(P[i]),
           \A i, j \in 1..m : i # j => IdsOf(ToSet(P[i])) \cap IdsOf(ToSet(P[j])) = {}
    PROVE  Distinct(Flat(P, m))
<1> DEFINE G == {n \in Nat : n <= m => Distinct(Flat(P, n))}
<1>1. 0 \in G
  <2>1. Flat(P, 0) = <<>>
      BY FlatEmpty
  <2>2. Distinct(<<>>)
      BY DEF Distinct
  <2> QED
      BY <2>1, <2>2
<1>2. ASSUME NEW n \in Nat, n \in G, n + 1 <= m PROVE Distinct(Flat(P, n + 1))
  <2>1. \A i \in 1..n : i \in 1..m /\ IsList(P[i]) /\ i # n + 1
      BY <1>2
  <2>2. n + 1 \in 1..m /\ IsList(P[n + 1]) /\ Distinct(P[n + 1])
      BY <1>2
  <2>3. IsList(Flat(P, n)) /\ ToSet(Flat(P, n)) = UNION {ToSet(P[i]) : i \in 1..n}
      BY <2>1, FlatRange
  <2> DEFINE C == UNION {ToSet(P[i]) : i \in 1..(n + 1)}
  <2>4. AreParts(P, n + 1, C)
    <3> SUFFICES ASSUME NEW i \in 1..(n + 1) PROVE P[i] \in Seq(C)
        BY Zenon DEF AreParts
    <3>1. i \in 1..m
        BY <1>2
    <3>2. P[i] \in Seq(ToSet(P[i])) /\ ToSet(P[i]) \subseteq C
        BY <3>1 DEF IsList
    <3> QED
        BY <3>2
  <2> HIDE DEF C
  <2>5. Flat(P, n + 1) = Flat(P, n) \o P[n + 1]
      BY <2>4, FlatStep
  <2>6. IdsOf(ToSet(Flat(P, n))) \cap IdsOf(ToSet(P[n + 1])) = {}
    <3> SUFFICES ASSUME NEW k \in IdsOf(ToSet(Flat(P, n))), k \in IdsOf(ToSet(P[n + 1])) PROVE FALSE
        OBVIOUS
    <3>1. PICK d \in ToSet(Flat(P, n)) : k = Id(d)
        BY DEF IdsOf
    <3>2. PICK i \in 1..n : d \in ToSet(P[i])
        BY <2>3, <3>1
    <3>3. k \in IdsOf(ToSet(P[i]))
        BY <3>1, <3>2 DEF IdsOf
    <3> QED
        BY <2>1, <2>2, <3>3
  <2>7. Distinct(Flat(P, n))
      BY <1>2
  <2> QED
      BY <2>2, <2>3, <2>5, <2>6, <2>7, JoinDistinct
<1>3. \A n \in Nat : n \in G => n + 1 \in G
  <2> SUFFICES ASSUME NEW n \in Nat, n \in G, n + 1 <= m PROVE n + 1 \in G
      OBVIOUS
  <2> QED
      BY <1>2
<1>4. Nat \subseteq G
  <2> HIDE DEF G
  <2> QED
      BY <1>1, <1>3, Induction
<1> QED
    BY <1>4

-----------------------------------------------------------------------------
(* While the options stay, so does what is read off them.                     *)

LEMMA SteadyRecords ==
    ASSUME opt' = opt
    PROVE  /\ Columns' = Columns
           /\ \A rule, r : create_log_record(rule, r)' = create_log_record(rule, r)
<1>1. Columns' = Columns
    BY DEF Columns
<1>2. FieldDataMap' = FieldDataMap
    BY Zenon DEF FieldDataMap
<1>3. \A r, f, v : convert_field_data(r, f, v)' = convert_field_data(r, f, v)
    BY <1>2 DEF convert_field_data
<1>4. \A r : create_recordinfos(r)' = create_recordinfos(r)
    BY <1>3, Zenon DEF create_recordinfos
<1>5. \A r, f : AliasValue(r, f)' = AliasValue(r, f)
    BY <1>3 DEF AliasValue
<1>6. \A r, t : Message(r, t)' = Message(r, t)
    BY <1>5, Zenon DEF Message
<1>7. \A r, t : DetailsList(r, t)' = DetailsList(r, t)
    BY <1>5, Zenon DEF DetailsList
<1>8. \A r, ds : ExtraFields(r, ds)' = ExtraFields(r, ds)
    BY <1>4 DEF ExtraFields
<1>9. \A r, c : Geo(r, c)' = Geo(r, c)
    BY DEF Geo
<1>10. \A rule, cs : LevelOf(rule, cs)' = LevelOf(rule, cs)
    BY <1>1 DEF LevelOf
<1>11. \A rule, r, c : LogColumn(rule, r, c)' = LogColumn(rule, r, c)
    BY <1>9, <1>10, Zenon DEF LogColumn
<1>12. \A rule, r : DetailsTemplate(rule, r)' = DetailsTemplate(rule, r)
    BY <1>4, Zenon DEF DetailsTemplate
<1>13. \A rule, r, c : DetailCell(rule, r, c)' = DetailCell(rule, r, c)
    BY <1>4, <1>6, <1>7, <1>8, <1>12, Zenon DEF DetailCell
<1>14. \A rule, r : DetailLists(rule, r)' = DetailLists(rule, r)
    BY <1>1, <1>4, <1>7, <1>8, <1>12, Zenon DEF DetailLists
<1>15. \A rule, r : create_log_record(rule, r)' = create_log_record(rule, r)
    BY <1>1, <1>10, <1>11, <1>13, <1>14, Zenon DEF create_log_record
<1> QED
    BY <1>1, <1>15

LEMMA SteadyResults ==
    ASSUME opt' = opt
    PROVE  /\ \A rule, x : create_agg_log_record(rule, x)' = create_agg_log_record(rule, x)
           /\ \A rule, s : judged(rule, s)' = judged(rule, s)
<1>1. Columns' = Columns
    BY DEF Columns
<1>2. \A c, d : IsBefore(c, d)' = IsBefore(c, d)
    BY DEF IsBefore
<1>3. \A rule, cs : LevelOf(rule, cs)' = LevelOf(rule, cs)
    BY <1>1 DEF LevelOf
<1>4. \A rule, x, c : AggColumn(rule, x, c)' = AggColumn(rule, x, c)
    BY <1>3, Zenon DEF AggColumn
<1>5. \A rule, x, c : AggDetailCell(rule, x, c)' = AggDetailCell(rule, x, c)
    BY <1>2, Zenon DEF AggDetailCell
<1>6. \A rule, x : AggDetailLists(rule, x)' = AggDetailLists(rule, x)
    BY <1>1, <1>2, Zenon DEF AggDetailLists
<1>7. \A rule, x : create_agg_log_record(rule, x)' = create_agg_log_record(rule, x)
    BY <1>1, <1>3, <1>4, <1>5, <1>6, Zenon DEF create_agg_log_record
<1>8. \A rule, s : judged(rule, s)' = judged(rule, s)
    BY <1>7, Zenon DEF judged
<1> QED
    BY <1>7, <1>8

LEMMA SteadyPromise ==
    ASSUME opt' = opt
    PROVE  /\ \A r : Kept(r)' = Kept(r)
           /\ Filtering' = Filtering /\ Analysed' = Analysed /\ InForce' = InForce
           /\ \A R, S : Detections(R, S)' = Detections(R, S)
           /\ \A d : Look(d)' = Look(d)
           /\ Due' = Due /\ Owed' = Owed /\ Foreseen' = Foreseen
<1>1. \A r : Kept(r)' = Kept(r)
    BY DEF Kept, is_filtered_by_eid, is_target
<1>2. Filtering' = Filtering
    BY DEF Filtering
<1>3. \A f : Readable(f)' = Readable(f)
    BY <1>2 DEF Readable
<1>4. Analysed' = Analysed
    BY <1>1, <1>3, Zenon DEF Analysed
<1>5. InForce' = InForce
    BY <1>2, Zenon DEF InForce
<1>6. \A R, S : Detections(R, S)' = Detections(R, S)
  <2> TAKE R, S
  <2>1. ASSUME NEW d PROVE d \in Detections(R, S)' <=> d \in Detections(R, S)
      BY SteadyRecords DEF Detections
  <2> QED
      BY <2>1
<1>7. \A d : Look(d)' = Look(d)
    BY SteadyRecords, Zenon DEF Look
<1>8. Due' = Due
  <2>1. Detections(InForce, Analysed)' = Detections(InForce, Analysed)
      BY <1>4, <1>5, <1>6
  <2>2. {ToSet(judged(rule, SetToSeq(Hits(rule, Analysed)))) : rule \in InForce}'
        = {ToSet(judged(rule, SetToSeq(Hits(rule, Analysed)))) : rule \in InForce}
      BY <1>4, <1>5, SteadyResults
  <2> QED
      BY <2>1, <2>2, Zenon DEF Due
<1>9. Owed' = Owed
    BY <1>7, <1>8, Zenon DEF Owed
<1>10. Foreseen' = Foreseen
    BY <1>1, <1>2, <1>3, <1>5, Zenon DEF Foreseen
<1> QED
    BY <1>1, <1>2, <1>4, <1>5, <1>6, <1>7, <1>8, <1>9, <1>10

-----------------------------------------------------------------------------
(* Rows and counts, one detection after the other.                            *)

\* The functions inside Each, for the first m members of s.
IsWriting(f, a, s, m) ==
    f = [n \in 0..m |-> IF n = 0 THEN a
                        ELSE CHOOSE b \in {Written(x, s[n]) : x \in {f[n - 1]}} : TRUE]
IsCounting(f, a, s, m) ==
    f = [n \in 0..m |-> IF n = 0 THEN a
                        ELSE CHOOSE b \in {CountedIn(x, s[n]) : x \in {f[n - 1]}} : TRUE]

LEMMA WritingExists ==
    ASSUME NEW a, NEW s
    PROVE  \A m \in Nat : \E f : IsWriting(f, a, s, m)
<1> DEFINE G == {m \in Nat : \E f : IsWriting(f, a, s, m)}
<1>1. 0 \in G
  <2>1. IsWriting([n \in 0..0 |-> a], a, s, 0)
      BY DEF IsWriting
  <2> QED
      BY <2>1
<1>2. ASSUME NEW m \in Nat, m \in G PROVE m + 1 \in G
  <2>1. PICK f : IsWriting(f, a, s, m)
      BY <1>2
  <2> DEFINE step(x, n) == CHOOSE b \in {Written(y, s[n]) : y \in {x}} : TRUE
             g == [n \in 0..(m + 1) |-> IF n = m + 1 THEN step(f[m], n) ELSE f[n]]
             h == [n \in 0..(m + 1) |-> IF n = 0 THEN a ELSE step(g[n - 1], n)]
  <2>0. f = [n \in 0..m |-> IF n = 0 THEN a ELSE step(f[n - 1], n)]
      BY <2>1 DEF IsWriting
  <2> HIDE DEF step
  <2>2. ASSUME NEW n \in 0..(m + 1) PROVE g[n] = h[n]
    <3>1. CASE n = m + 1
      <4>1. n # 0 /\ n - 1 = m /\ m \in 0..(m + 1) /\ m # m + 1
          BY <3>1
      <4> QED
          BY <3>1, <4>1
    <3>2. CASE n # m + 1
      <4>1. n \in 0..m /\ (n # 0 => n - 1 \in 0..(m + 1) /\ n - 1 # m + 1)
          BY <3>2
      <4> QED
          BY <2>0, <3>2, <4>1
    <3> QED
        BY <3>1, <3>2
  <2>3. g = h
      BY <2>2
  <2>4. IsWriting(g, a, s, m + 1)
      BY <2>3 DEF IsWriting, step
  <2> HIDE DEF g
  <2> QED
      BY <2>4
<1> HIDE DEF G
<1>3. Nat \subseteq G
    BY <1>1, <1>2, Induction
<1> QED
    BY <1>3 DEF G

\* What comes of a when all of s are written, and when all are counted.
AllWritten(a, s) == Each(Written, a, s)
AllCounted(a, s) == Each(CountedIn, a, s)

LEMMA WritingValue ==
    ASSUME NEW a, NEW s, Len(s) \in Nat
    PROVE  \E f : /\ AllWritten(a, s) = f[Len(s)] /\ f[0] = a
                  /\ \A n \in 1..Len(s) : f[n] = Written(f[n - 1], s[n])
<1> DEFINE F == CHOOSE f : f = [n \in 0..Len(s) |-> IF n = 0 THEN a
                    ELSE CHOOSE b \in {Written(x, s[n]) : x \in {f[n - 1]}} : TRUE]
<1>1. \E f : IsWriting(f, a, s, Len(s))
    BY WritingExists
<1>2. IsWriting(F, a, s, Len(s))
    BY <1>1, Zenon DEF IsWriting
<1>3. AllWritten(a, s) = F[Len(s)]
    BY Zenon DEF AllWritten, Each
<1> HIDE DEF F
<1>4. F[0] = a
    BY <1>2 DEF IsWriting
<1>5. ASSUME NEW n \in 1..Len(s) PROVE F[n] = Written(F[n - 1], s[n])
  <2>1. n \in 0..Len(s) /\ n # 0
      OBVIOUS
  <2>2. F[n] = CHOOSE b \in {Written(x, s[n]) : x \in {F[n - 1]}} : TRUE
      BY <1>2, <2>1, Zenon DEF IsWriting
  <2> QED
      BY <2>2
<1> QED
    BY <1>3, <1>4, <1>5

LEMMA CountingExists ==
    ASSUME NEW a, NEW s
    PROVE  \A m \in Nat : \E f : IsCounting(f, a, s, m)
<1> DEFINE G == {m \in Nat : \E f : IsCounting(f, a, s, m)}
<1>1. 0 \in G
  <2>1. IsCounting([n \in 0..0 |-> a], a, s, 0)
      BY DEF IsCounting
  <2> QED
      BY <2>1
<1>2. ASSUME NEW m \in Nat, m \in G PROVE m + 1 \in G
  <2>1. PICK f : IsCounting(f, a, s, m)
      BY <1>2
  <2> DEFINE step(x, n) == CHOOSE b \in {CountedIn(y, s[n]) : y \in {x}} : TRUE
             g == [n \in 0..(m + 1) |-> IF n = m + 1 THEN step(f[m], n) ELSE f[n]]
             h == [n \in 0..(m + 1) |-> IF n = 0 THEN a ELSE step(g[n - 1], n)]
  <2>0. f = [n \in 0..m |-> IF n = 0 THEN a ELSE step(f[n - 1], n)]
      BY <2>1 DEF IsCounting
  <2> HIDE DEF step
  <2>2. ASSUME NEW n \in 0..(m + 1) PROVE g[n] = h[n]
    <3>1. CASE n = m + 1
      <4>1. n # 0 /\ n - 1 = m /\ m \in 0..(m + 1) /\ m # m + 1
          BY <3>1
      <4> QED
          BY <3>1, <4>1
    <3>2. CASE n # m + 1
      <4>1. n \in 0..m /\ (n # 0 => n - 1 \in 0..(m + 1) /\ n - 1 # m + 1)
          BY <3>2
      <4> QED
          BY <2>0, <3>2, <4>1
    <3> QED
        BY <3>1, <3>2
  <2>3. g = h
      BY <2>2
  <2>4. IsCounting(g, a, s, m + 1)
      BY <2>3 DEF IsCounting, step
  <2> HIDE DEF g
  <2> QED
      BY <2>4
<1> HIDE DEF G
<1>3. Nat \subseteq G
    BY <1>1, <1>2, Induction
<1> QED
    BY <1>3 DEF G

LEMMA CountingValue ==
    ASSUME NEW a, NEW s, Len(s) \in Nat
    PROVE  \E f : /\ AllCounted(a, s) = f[Len(s)] /\ f[0] = a
                  /\ \A n \in 1..Len(s) : f[n] = CountedIn(f[n - 1], s[n])
<1> DEFINE F == CHOOSE f : f = [n \in 0..Len(s) |-> IF n = 0 THEN a
                    ELSE CHOOSE b \in {CountedIn(x, s[n]) : x \in {f[n - 1]}} : TRUE]
<1>1. \E f : IsCounting(f, a, s, Len(s))
    BY CountingExists
<1>2. IsCounting(F, a, s, Len(s))
    BY <1>1, Zenon DEF IsCounting
<1>3. AllCounted(a, s) = F[Len(s)]
    BY Zenon DEF AllCounted, Each
<1> HIDE DEF F
<1>4. F[0] = a
    BY <1>2 DEF IsCounting
<1>5. ASSUME NEW n \in 1..Len(s) PROVE F[n] = CountedIn(F[n - 1], s[n])
  <2>1. n \in 0..Len(s) /\ n # 0
      OBVIOUS
  <2>2. F[n] = CHOOSE b \in {CountedIn(x, s[n]) : x \in {F[n - 1]}} : TRUE
      BY <1>2, <2>1, Zenon DEF IsCounting
  <2> QED
      BY <2>2
<1> QED
    BY <1>3, <1>4, <1>5

-----------------------------------------------------------------------------
(* What the options of a scan are, and the files and rules the filter keeps.  *)

GoodItems(list) ==
    /\ IsList(list)
    /\ \A i \in DOMAIN list :
        /\ IsList(list[i].records)
        /\ \A r \in ToSet(list[i].records) : r.time \in Int /\ r.eid \in Int
    /\ \A i, j \in DOMAIN list :
        \A k \in DOMAIN list[i].records, l \in DOMAIN list[j].records :
            list[i].records[k].at = list[j].records[l].at => i = j /\ k = l

LEMMA OptionsAre ==
    ASSUME opt \in Options
    PROVE  /\ IsList(opt.rules) /\ IsList(opt.files)
           /\ \A i, j \in DOMAIN opt.rules : opt.rules[i].id = opt.rules[j].id => i = j
           /\ \A rule \in ToSet(opt.rules) : rule.level \in Levels /\ rule.agg.num \in Nat
           /\ \A f \in ToSet(opt.files) : GoodItems(f.items)
           /\ \A i, j \in DOMAIN opt.files :
                i # j => Ats(opt.files[i].items) \cap Ats(opt.files[j].items) = {}
    BY OptionsAssumption, Zenon DEF IsList, GoodItems

LEMMA AtsOf ==
    ASSUME NEW list, NEW i \in DOMAIN list, NEW r \in ToSet(list[i].records)
    PROVE  r.at \in Ats(list)
    BY DEF Ats

LEMMA AtsHave ==
    ASSUME NEW list, NEW a \in Ats(list)
    PROVE  \E i \in DOMAIN list : \E r \in ToSet(list[i].records) : r.at = a
    BY DEF Ats

LEMMA RecordsHave ==
    ASSUME NEW list, NEW r
    PROVE  r \in RecordsOf(list) <=> \E i \in DOMAIN list : list[i].ok /\ r \in ToSet(list[i].records)
    BY DEF RecordsOf

LEMMA RecordsAts ==
    ASSUME NEW list, NEW r \in RecordsOf(list)
    PROVE  r.at \in Ats(list)
    BY RecordsHave, AtsOf

LEMMA RecordsAreRecords ==
    ASSUME NEW list, GoodItems(list), NEW r \in RecordsOf(list)
    PROVE  r.time \in Int /\ r.eid \in Int
    BY RecordsHave DEF GoodItems

\* No two records of a file are at one place.
LEMMA OneAt ==
    ASSUME NEW list, GoodItems(list), NEW r \in RecordsOf(list), NEW s \in RecordsOf(list),
           r.at = s.at
    PROVE  r = s
<1>1. PICK i \in DOMAIN list : r \in ToSet(list[i].records)
    BY RecordsHave
<1>2. PICK j \in DOMAIN list : s \in ToSet(list[j].records)
    BY RecordsHave
<1>3. PICK k \in DOMAIN list[i].records : list[i].records[k] = r
    BY <1>1, ListFacts DEF GoodItems
<1>4. PICK l \in DOMAIN list[j].records : list[j].records[l] = s
    BY <1>2, ListFacts DEF GoodItems
<1>5. i = j /\ k = l
    BY <1>3, <1>4 DEF GoodItems
<1> QED
    BY <1>3, <1>4, <1>5

Opened == {f \in ToSet(opt.files) : f.opens /\ f.items # <<>> /\ f.items[1].ok}
OpenedChannels == {PeekedChannel(f) : f \in Opened}
FilesKept == IF Filtering THEN {f \in Opened : PeekedChannel(f) \in NamedBy(opt.rules) \cap OpenedChannels}
             ELSE ToSet(opt.files)
RulesKept == IF Filtering
             THEN {rule \in ToSet(opt.rules) : rule.named \cap OpenedChannels # {} \/ rule.correlation}
             ELSE ToSet(opt.rules)

\* The records of some files that are looked at, and those of the scan.
RecordsIn(fs) == {r \in UNION {RecordsOf(f.items) : f \in {g \in fs : g.opens}} : Kept(r)}
KeptOf(list) == {r \in RecordsOf(list) : Kept(r)}
Scanned == RecordsIn(FilesKept)

LEMMA RecordsInHas ==
    ASSUME NEW fs, NEW r
    PROVE  r \in RecordsIn(fs) <=> Kept(r) /\ \E f \in fs : f.opens /\ r \in RecordsOf(f.items)
    BY Zenon DEF RecordsIn

LEMMA RulesKeptAre == RulesKept \subseteq ToSet(opt.rules)
    BY DEF RulesKept

LEMMA FilesKeptAre == FilesKept \subseteq ToSet(opt.files)
    BY DEF FilesKept, Opened

LEMMA ScannedAnalysed == Scanned \subseteq Analysed
<1> SUFFICES ASSUME NEW r \in Scanned PROVE r \in Analysed
    OBVIOUS
<1>1. PICK f \in FilesKept : f.opens /\ r \in RecordsOf(f.items) /\ Kept(r)
    BY RecordsInHas DEF Scanned
<1>2. f \in ToSet(opt.files) /\ Readable(f)
    BY <1>1 DEF FilesKept, Opened, Readable
<1> QED
    BY <1>1, <1>2, Zenon DEF Analysed

LEMMA AnalysedAre ==
    ASSUME opt \in Options
    PROVE  /\ \A r \in Analysed : Kept(r) /\ r.time \in Int /\ r.eid \in Int
           /\ \A r, s \in Analysed : r.at = s.at => r = s
<1>1. \A r \in Analysed : Kept(r) /\ \E f \in ToSet(opt.files) : r \in RecordsOf(f.items)
    BY Zenon DEF Analysed
<1>2. \A r \in Analysed : r.time \in Int /\ r.eid \in Int
    BY <1>1, OptionsAre, RecordsAreRecords
<1>3. ASSUME NEW r \in Analysed, NEW s \in Analysed, r.at = s.at PROVE r = s
  <2>1. PICK f \in ToSet(opt.files) : r \in RecordsOf(f.items)
      BY <1>1
  <2>2. PICK g \in ToSet(opt.files) : s \in RecordsOf(g.items)
      BY <1>1
  <2>3. PICK i \in DOMAIN opt.files : opt.files[i] = f
      BY OptionsAre, ListFacts
  <2>4. PICK j \in DOMAIN opt.files : opt.files[j] = g
      BY OptionsAre, ListFacts
  <2>5. r.at \in Ats(f.items) /\ s.at \in Ats(g.items)
      BY <2>1, <2>2, RecordsAts
  <2>6. i = j
      BY <1>3, <2>3, <2>4, <2>5, OptionsAre
  <2>7. f = g /\ GoodItems(f.items)
      BY <2>3, <2>4, <2>6, OptionsAre
  <2> QED
      BY <1>3, <2>1, <2>2, <2>7, OneAt
<1> QED
    BY <1>1, <1>2, <1>3

LEMMA ItemsFinite ==
    ASSUME NEW list, GoodItems(list)
    PROVE  IsFiniteSet(RecordsOf(list))
<1> DEFINE I == {j \in DOMAIN list : list[j].ok}
           SS == {ToSet(list[i].records) : i \in I}
<1>1. Len(list) \in Nat /\ DOMAIN list = 1..Len(list)
    BY ListFacts DEF GoodItems
<1>2. IsFiniteSet(I)
  <2>1. IsFiniteSet(1..Len(list))
      BY <1>1, FS_Interval
  <2> QED
      BY <1>1, <2>1, FS_Subset
<1>3. \A i \in I : IsFiniteSet(ToSet(list[i].records))
    BY ListCardinality DEF GoodItems
<1> HIDE DEF I
<1>4. IsFiniteSet(SS)
  <2>1. [i \in I |-> ToSet(list[i].records)] \in Surjection(I, SS)
      BY DEF Surjection
  <2> HIDE DEF SS
  <2> QED
      BY <1>2, <2>1, FS_Surjection
<1>5. IsFiniteSet(UNION SS)
  <2>1. \A T \in SS : IsFiniteSet(T)
      BY <1>3
  <2> HIDE DEF SS
  <2> QED
      BY <1>4, <2>1, FS_UNION
<1> QED
    BY <1>5 DEF RecordsOf, I

LEMMA ScannedFinite ==
    ASSUME opt \in Options
    PROVE  IsFiniteSet(Analysed) /\ IsFiniteSet(Scanned)
<1> DEFINE F == {g \in ToSet(opt.files) : Readable(g)}
           SS == {RecordsOf(f.items) : f \in F}
<1>1. IsFiniteSet(F)
  <2>1. IsFiniteSet(ToSet(opt.files))
      BY OptionsAre, ListCardinality
  <2> QED
      BY <2>1, FS_Subset
<1>2. \A f \in F : IsFiniteSet(RecordsOf(f.items))
    BY OptionsAre, ItemsFinite
<1> HIDE DEF F
<1>3. IsFiniteSet(SS)
  <2>1. [f \in F |-> RecordsOf(f.items)] \in Surjection(F, SS)
      BY DEF Surjection
  <2> HIDE DEF SS
  <2> QED
      BY <1>1, <2>1, FS_Surjection
<1>4. IsFiniteSet(UNION SS)
  <2>1. \A T \in SS : IsFiniteSet(T)
      BY <1>2
  <2> HIDE DEF SS
  <2> QED
      BY <1>3, <2>1, FS_UNION
<1>5. Analysed \subseteq UNION SS
    BY Zenon DEF Analysed, F
<1>6. IsFiniteSet(Analysed)
    BY <1>4, <1>5, FS_Subset
<1> QED
    BY <1>6, ScannedAnalysed, FS_Subset

\* Under the guess of the filter whatever selects is kept.
LEMMA KeptMeans ==
    ASSUME Foreseen, NEW rule \in InForce, NEW r \in Analysed, selects(rule, r)
    PROVE  rule \in RulesKept /\ r \in Scanned
<1>1. rule \in ToSet(opt.rules) /\ (Filtering => rule.named # {})
    BY DEF InForce
<1>2. PICK f \in ToSet(opt.files) : Readable(f) /\ r \in RecordsOf(f.items) /\ Kept(r)
    BY Zenon DEF Analysed
<1>3. CASE ~Filtering
  <2>1. rule \in RulesKept /\ f \in FilesKept /\ f.opens
      BY <1>1, <1>2, <1>3 DEF RulesKept, FilesKept, Readable
  <2> QED
      BY <1>2, <2>1, RecordsInHas DEF Scanned
<1>4. CASE Filtering
  <2>1. /\ r.channel = PeekedChannel(f)
        /\ rule.channels # {} /\ rule.channels \subseteq rule.named
      BY <1>2, <1>4 DEF Foreseen, PeekedChannel
  <2>2. r.channel \in rule.named
      BY <2>1 DEF selects
  <2>3. f \in Opened /\ f.opens
      BY <1>2, <1>4 DEF Opened, Readable
  <2>4. PeekedChannel(f) \in OpenedChannels
      BY <2>3 DEF OpenedChannels
  <2>5. PeekedChannel(f) \in NamedBy(opt.rules)
    <3>1. PICK i \in DOMAIN opt.rules : opt.rules[i] = rule
        BY <1>1 DEF ToSet
    <3> QED
        BY <2>1, <2>2, <3>1 DEF NamedBy
  <2>6. f \in FilesKept
      BY <1>4, <2>3, <2>4, <2>5 DEF FilesKept
  <2>7. rule \in RulesKept
      BY <1>1, <1>4, <2>1, <2>2, <2>4 DEF RulesKept
  <2> QED
      BY <1>2, <2>3, <2>6, <2>7, RecordsInHas DEF Scanned
<1> QED
    BY <1>3, <1>4

LEMMA RulesInForce ==
    ASSUME Foreseen
    PROVE  RulesKept \subseteq InForce
<1> SUFFICES ASSUME NEW rule \in RulesKept PROVE rule \in InForce
    OBVIOUS
<1> QED
    BY DEF RulesKept, InForce, Foreseen

-----------------------------------------------------------------------------
(* Detections.                                                                *)

Key(i, A) == <<i, A>>

LEMMA KeyIs ==
    ASSUME NEW i, NEW j, NEW A, NEW B, Key(i, A) = Key(j, B)
    PROVE  i = j /\ A = B
    BY DEF Key

LEMMA KeyFirst == ASSUME NEW i, NEW A PROVE Key(i, A)[1] = i
    BY DEF Key

\* The detections of a rule by their records.
RecordKey(rule, r) == Key(rule.id, {r.at})

LEMMA RecordKeyIs ==
    ASSUME NEW rule, NEW other, NEW r, NEW s, RecordKey(rule, r) = RecordKey(other, s)
    PROVE  rule.id = other.id /\ r.at = s.at
<1> DEFINE A == {r.at} 
           B == {s.at}
<1>0. Key(rule.id, A) = Key(other.id, B)
    BY DEF RecordKey
<1> HIDE DEF A, B
<1>1. rule.id = other.id /\ A = B
    BY <1>0, KeyIs
<1> QED
    BY <1>1 DEF A, B

LEMMA RecordKeyFirst == ASSUME NEW rule, NEW r PROVE RecordKey(rule, r)[1] = rule.id
    BY KeyFirst DEF RecordKey

LEMMA DetectionId ==
    ASSUME NEW rule, NEW r
    PROVE  Id(create_log_record(rule, r)) = RecordKey(rule, r)
    BY DEF create_log_record, Id, Key, RecordKey

LEMMA InDetections ==
    ASSUME NEW R, NEW S, NEW d
    PROVE  d \in Detections(R, S) <=>
           \E rule \in R : \E r \in S : /\ ~HasAgg(rule) /\ selects(rule, r)
                                        /\ d = create_log_record(rule, r)
<1> DEFINE X == {y \in R \X S : ~HasAgg(y[1]) /\ selects(y[1], y[2])}
<1>1. d \in Detections(R, S) <=> \E x \in X : d = create_log_record(x[1], x[2])
    BY Zenon DEF Detections
<1>2. ASSUME NEW x \in X
      PROVE  x[1] \in R /\ x[2] \in S /\ ~HasAgg(x[1]) /\ selects(x[1], x[2])
    OBVIOUS
<1>3. ASSUME NEW rule \in R, NEW r \in S, ~HasAgg(rule), selects(rule, r)
      PROVE  <<rule, r>> \in X /\ <<rule, r>>[1] = rule /\ <<rule, r>>[2] = r
    BY <1>3
<1> HIDE DEF X
<1>4. ASSUME NEW x \in X, d = create_log_record(x[1], x[2])
      PROVE  \E rule \in R : \E r \in S : /\ ~HasAgg(rule) /\ selects(rule, r)
                                        /\ d = create_log_record(rule, r)
    BY <1>2, <1>4, Zenon
<1>5. ASSUME NEW rule \in R, NEW r \in S, ~HasAgg(rule), selects(rule, r),
             d = create_log_record(rule, r)
      PROVE  \E x \in X : d = create_log_record(x[1], x[2])
  <2>1. <<rule, r>> \in X /\ d = create_log_record(<<rule, r>>[1], <<rule, r>>[2])
      BY <1>3, <1>5
  <2> QED
      BY <2>1, Zenon
<1> QED
    BY <1>1, <1>4, <1>5, Zenon

LEMMA DetectionsGrow ==
    ASSUME NEW R, NEW S, NEW T
    PROVE  /\ Detections(R, S \cup T) = Detections(R, S) \cup Detections(R, T)
           /\ Detections(R, {}) = {}
           /\ S \subseteq T => Detections(R, S) \subseteq Detections(R, T)
    BY InDetections

LEMMA DetectionsOfRules ==
    ASSUME NEW R, NEW S
    PROVE  Detections(R, S) = UNION {Detections({rule}, S) : rule \in R}
<1>1. ASSUME NEW d
      PROVE  d \in Detections(R, S) <=> \E rule \in R : d \in Detections({rule}, S)
  <2>1. ASSUME NEW rule \in R
        PROVE  d \in Detections({rule}, S) <=>
               \E r \in S : ~HasAgg(rule) /\ selects(rule, r) /\ d = create_log_record(rule, r)
      BY InDetections
  <2>2. d \in Detections(R, S) <=>
        \E rule \in R : \E r \in S : ~HasAgg(rule) /\ selects(rule, r) /\ d = create_log_record(rule, r)
      BY InDetections
  <2> QED
      BY <2>1, <2>2, Zenon
<1> QED
    BY <1>1, Zenon

LEMMA HitsGrow ==
    ASSUME NEW rule, NEW S, NEW T
    PROVE  /\ Hits(rule, S \cup T) = Hits(rule, S) \cup Hits(rule, T)
           /\ S \subseteq T => Hits(rule, S) \subseteq Hits(rule, T)
    BY DEF Hits

LEMMA HitsOf ==
    ASSUME NEW rule, NEW S, NEW h \in Hits(rule, S)
    PROVE  \E r \in S : selects(rule, r) /\ h = AggRecordTimeInfo(r) /\ h.at = r.at
    BY DEF Hits, AggRecordTimeInfo

\* What comes of the records that a rule has counted.
Judgement(d, rule, s) ==
    /\ HasAgg(rule) /\ ~(Len(s) < rule.agg.num)
    /\ d = create_agg_log_record(rule,
            [data |-> Len(s), key |-> "_", field_values |-> <<>>, infos |-> s,
             start |-> Min({s[i].time : i \in DOMAIN s})])

LEMMA JudgedIs ==
    ASSUME NEW rule, NEW s
    PROVE  /\ judged(rule, s) = <<>> \/ \E d : judged(rule, s) = <<d>>
           /\ IsList(judged(rule, s)) /\ Distinct(judged(rule, s))
           /\ \A d : d \in ToSet(judged(rule, s)) <=> Judgement(d, rule, s)
<1> DEFINE e == create_agg_log_record(rule,
            [data |-> Len(s), key |-> "_", field_values |-> <<>>, infos |-> s,
             start |-> Min({s[i].time : i \in DOMAIN s})])
<1>1. judged(rule, s) = IF ~HasAgg(rule) \/ Len(s) < rule.agg.num THEN <<>> ELSE <<e>>
    BY DEF judged
<1>2. \A d : Judgement(d, rule, s) <=> HasAgg(rule) /\ ~(Len(s) < rule.agg.num) /\ d = e
    BY DEF Judgement
<1> HIDE DEF e
<1>3. IsList(<<e>>) /\ ToSet(<<e>>) = {e} /\ Distinct(<<e>>)
    BY DEF IsList, ToSet, Distinct
<1>4. Distinct(<<>>)
    BY DEF Distinct
<1>5. CASE ~HasAgg(rule) \/ Len(s) < rule.agg.num
    BY <1>1, <1>2, <1>4, <1>5, EmptyList
<1>6. CASE ~(~HasAgg(rule) \/ Len(s) < rule.agg.num)
  <2>1. judged(rule, s) = <<e>>
      BY <1>1, <1>6
  <2> QED
      BY <1>2, <1>3, <1>6, <2>1
<1> QED
    BY <1>5, <1>6

LEMMA JudgementId ==
    ASSUME NEW rule, NEW s, NEW d, Judgement(d, rule, s)
    PROVE  Id(d)[1] = rule.id
    BY DEF Judgement, create_agg_log_record, Id

\* The order in which records are counted does not show in the result.
LEMMA JudgedAlike ==
    ASSUME NEW s, IsList(s), IsInjective(s), NEW t, IsList(t), IsInjective(t), ToSet(s) = ToSet(t),
           NEW rule, NEW d, Judgement(d, rule, s)
    PROVE  \E e : /\ Judgement(e, rule, t) /\ Id(e) = Id(d) /\ e.time = d.time
                  /\ e.cells = d.cells
<1> DEFINE x == [data |-> Len(s), key |-> "_", field_values |-> <<>>, infos |-> s,
                 start |-> Min({s[i].time : i \in DOMAIN s})]
           y == [data |-> Len(t), key |-> "_", field_values |-> <<>>, infos |-> t,
                 start |-> Min({t[i].time : i \in DOMAIN t})]
           e == create_agg_log_record(rule, y)
<1>1. Len(s) = Len(t)
    BY ListsAlike DEF IsInjective
<1>2. \A f : Joined(s, f) = Joined(t, f)
  <2> TAKE f
  <2>1. Joined(s, f) = {z[f] : z \in ToSet(s)}
      BY DEF Joined, ToSet
  <2>2. Joined(t, f) = {z[f] : z \in ToSet(t)}
      BY DEF Joined, ToSet
  <2> QED
      BY <2>1, <2>2
<1>3. {s[i].time : i \in DOMAIN s} = {t[i].time : i \in DOMAIN t}
  <2>1. {s[i].time : i \in DOMAIN s} = Joined(s, "time") /\ {t[i].time : i \in DOMAIN t} = Joined(t, "time")
      BY DEF Joined
  <2> QED
      BY <1>2, <2>1
<1>4. /\ x.data = y.data /\ x.key = y.key /\ x.field_values = y.field_values /\ x.start = y.start
      /\ \A f : Joined(x.infos, f) = Joined(y.infos, f)
      /\ x.infos = s /\ y.infos = t
    BY <1>1, <1>2, <1>3
<1>5. d = create_agg_log_record(rule, x) /\ HasAgg(rule) /\ ~(Len(s) < rule.agg.num)
    BY DEF Judgement
<1>6. Judgement(e, rule, t)
    BY <1>1, <1>5 DEF Judgement
<1> HIDE DEF x, y
<1>7. /\ e.time = y.start /\ d.time = x.start /\ e.rule = rule /\ d.rule = rule
      /\ e.of = Joined(y.infos, "at") /\ d.of = Joined(x.infos, "at")
      /\ e.cells = [c \in Columns |-> IF c \in DetailColumns THEN AggDetailCell(rule, y, c)
                                  ELSE AggColumn(rule, y, c)]
      /\ d.cells = [c \in Columns |-> IF c \in DetailColumns THEN AggDetailCell(rule, x, c)
                                  ELSE AggColumn(rule, x, c)]
    BY <1>5, Zenon DEF create_agg_log_record
<1> HIDE DEF e
<1>8. Id(e) = Id(d) /\ e.time = d.time
    BY <1>4, <1>7 DEF Id
<1>9. \A c : AggColumn(rule, x, c) = AggColumn(rule, y, c)
  <2>1. /\ Joined(x.infos, "computer") = Joined(y.infos, "computer")
        /\ Joined(x.infos, "channel") = Joined(y.infos, "channel")
        /\ Joined(x.infos, "eid") = Joined(y.infos, "eid")
        /\ Joined(x.infos, "file") = Joined(y.infos, "file")
        /\ x.start = y.start
      BY <1>4
  <2> TAKE c
  <2> HIDE DEF x, y
  <2> QED
      BY <2>1 DEF AggColumn
<1>10. create_count_output(rule, x) = create_count_output(rule, y)
    BY <1>4, Zenon DEF create_count_output
<1>11. \A c : AggDetailCell(rule, x, c) = AggDetailCell(rule, y, c)
    BY <1>10, Zenon DEF AggDetailCell
<1>12. e.cells = d.cells
    BY <1>7, <1>9, <1>11
<1> QED
    BY <1>6, <1>8, <1>12

\* The members of a set in some order.
LEMMA SetListed ==
    ASSUME NEW S, IsFiniteSet(S)
    PROVE  /\ IsList(SetToSeq(S)) /\ IsInjective(SetToSeq(S)) /\ ToSet(SetToSeq(S)) = S
           /\ Len(SetToSeq(S)) = Cardinality(S)
    BY SeqOfSet DEF IsInjective

LEMMA HitsFinite ==
    ASSUME NEW rule, NEW S, IsFiniteSet(S)
    PROVE  IsFiniteSet(Hits(rule, S))
<1> DEFINE T == {s \in S : selects(rule, s)}
<1>1. IsFiniteSet(T)
    BY FS_Subset
<1>2. [r \in T |-> AggRecordTimeInfo(r)] \in Surjection(T, Hits(rule, S))
    BY DEF Surjection, Hits
<1> QED
    BY <1>1, <1>2, FS_Surjection

\* The level of a detection is one of them.
LEMMA LevelIs ==
    ASSUME NEW rule, rule.level \in Levels, NEW cs
    PROVE  LevelOf(rule, cs) \in Levels
    BY DEF LevelOf, Converted, Levels

-----------------------------------------------------------------------------
(* What is due goes by its rule and its records.                              *)

\* A rule is known by its id, a record by its place.
LEMMA DetectionKnown ==
    ASSUME opt \in Options,
           NEW rule \in ToSet(opt.rules), NEW other \in ToSet(opt.rules),
           NEW r \in Analysed, NEW s \in Analysed,
           Id(create_log_record(rule, r)) = Id(create_log_record(other, s))
    PROVE  rule = other /\ r = s
<1>1. rule.id = other.id /\ r.at = s.at
  <2>1. /\ Id(create_log_record(rule, r)) = RecordKey(rule, r)
        /\ Id(create_log_record(other, s)) = RecordKey(other, s)
      BY DetectionId
  <2>2. RecordKey(rule, r) = RecordKey(other, s)
      BY <2>1
  <2> QED
      BY <2>2, RecordKeyIs
<1>3. PICK i \in DOMAIN opt.rules : opt.rules[i] = rule
    BY DEF ToSet
<1>4. PICK j \in DOMAIN opt.rules : opt.rules[j] = other
    BY DEF ToSet
<1> QED
    BY <1>1, <1>3, <1>4, OptionsAre, AnalysedAre

LEMMA RuleKnown ==
    ASSUME opt \in Options, NEW rule \in ToSet(opt.rules), NEW other \in ToSet(opt.rules),
           rule.id = other.id
    PROVE  rule = other
<1>3. PICK i \in DOMAIN opt.rules : opt.rules[i] = rule
    BY DEF ToSet
<1>4. PICK j \in DOMAIN opt.rules : opt.rules[j] = other
    BY DEF ToSet
<1> QED
    BY <1>3, <1>4, OptionsAre

\* What a rule counts, once the scan is over.
JudgedOf(rules_, S) == UNION {ToSet(judged(rule, SetToSeq(Hits(rule, S)))) : rule \in rules_}

LEMMA InJudgedOf ==
    ASSUME NEW R, NEW S, NEW d
    PROVE  d \in JudgedOf(R, S) <=> \E rule \in R : Judgement(d, rule, SetToSeq(Hits(rule, S)))
<1>1. d \in JudgedOf(R, S) <=> \E rule \in R : d \in ToSet(judged(rule, SetToSeq(Hits(rule, S))))
    BY Zenon DEF JudgedOf
<1> QED
    BY <1>1, JudgedIs

LEMMA DueKnown ==
    ASSUME opt \in Options, NEW d \in Due, NEW e \in Due, Id(d) = Id(e)
    PROVE  d = e
<1>1. opt.action # "pivot" /\ Due = Detections(InForce, Analysed) \cup JudgedOf(InForce, Analysed)
    BY Zenon DEF Due, JudgedOf
<1>2. InForce \subseteq ToSet(opt.rules)
    BY DEF InForce
<1>3. ASSUME NEW x \in Detections(InForce, Analysed)
      PROVE  \E rule \in ToSet(opt.rules) : \E r \in Analysed :
                ~HasAgg(rule) /\ x = create_log_record(rule, r) /\ Id(x)[1] = rule.id
  <2>1. PICK rule \in InForce, r \in Analysed : ~HasAgg(rule) /\ x = create_log_record(rule, r)
      BY InDetections
  <2>2. Id(x) = RecordKey(rule, r)
      BY <2>1, DetectionId
  <2>3. Id(x)[1] = rule.id
      BY <2>2, RecordKeyFirst
  <2> QED
      BY <1>2, <2>1, <2>3
<1>4. ASSUME NEW x \in JudgedOf(InForce, Analysed)
      PROVE  \E rule \in ToSet(opt.rules) :
                /\ HasAgg(rule) /\ Judgement(x, rule, SetToSeq(Hits(rule, Analysed)))
                /\ Id(x)[1] = rule.id
  <2>1. PICK rule \in InForce : Judgement(x, rule, SetToSeq(Hits(rule, Analysed)))
      BY InJudgedOf
  <2>2. HasAgg(rule)
      BY <2>1 DEF Judgement
  <2>4. Id(x)[1] = rule.id
      BY <2>1, JudgementId
  <2> QED
      BY <1>2, <2>1, <2>2, <2>4
<1>5. CASE d \in Detections(InForce, Analysed)
  <2>1. PICK rule \in ToSet(opt.rules), r \in Analysed :
            ~HasAgg(rule) /\ d = create_log_record(rule, r) /\ Id(d)[1] = rule.id
      BY <1>3, <1>5
  <2>2. CASE e \in Detections(InForce, Analysed)
    <3>1. PICK other \in ToSet(opt.rules), s \in Analysed : e = create_log_record(other, s)
        BY <1>3, <2>2
    <3> QED
        BY <2>1, <3>1, DetectionKnown
  <2>3. CASE e \in JudgedOf(InForce, Analysed)
    <3>1. PICK other \in ToSet(opt.rules) : HasAgg(other) /\ Id(e)[1] = other.id
        BY <1>4, <2>3
    <3>2. Id(d)[1] = rule.id
        BY <2>1
    <3> QED
        BY <2>1, <3>1, <3>2, RuleKnown
  <2> QED
      BY <1>1, <2>2, <2>3
<1>6. CASE d \in JudgedOf(InForce, Analysed)
  <2>1. PICK rule \in ToSet(opt.rules) :
            /\ HasAgg(rule) /\ Judgement(d, rule, SetToSeq(Hits(rule, Analysed)))
            /\ Id(d)[1] = rule.id
      BY <1>4, <1>6
  <2>2. CASE e \in Detections(InForce, Analysed)
    <3>1. PICK other \in ToSet(opt.rules), s \in Analysed :
            ~HasAgg(other) /\ Id(e)[1] = other.id
        BY <1>3, <2>2
    <3>2. Id(e)[1] = other.id
        BY <3>1
    <3> QED
        BY <2>1, <3>1, <3>2, RuleKnown
  <2>3. CASE e \in JudgedOf(InForce, Analysed)
    <3>1. PICK other \in ToSet(opt.rules) :
            Id(e)[1] = other.id /\ Judgement(e, other, SetToSeq(Hits(other, Analysed)))
        BY <1>4, <2>3
    <3>2. rule = other
        BY <2>1, <3>1, RuleKnown
    <3> QED
        BY <2>1, <3>1, <3>2 DEF Judgement
  <2> QED
      BY <1>1, <2>2, <2>3
<1> QED
    BY <1>1, <1>5, <1>6

LEMMA OwedIs ==
    ASSUME opt \in Options, NEW d \in Due
    PROVE  Id(d) \in DOMAIN Owed /\ Owed[Id(d)] = [time |-> d.time, look |-> Look(d)]
<1>1. DOMAIN Owed = {Id(e) : e \in Due}
    BY Zenon DEF Owed
<1>2. Id(d) \in DOMAIN Owed
    BY <1>1
<1> DEFINE e == CHOOSE x \in Due : Id(x) = Id(d)
<1>3. Owed[Id(d)] = [time |-> e.time, look |-> Look(e)]
    BY <1>1, <1>2, Zenon DEF Owed
<1>4. e \in Due /\ Id(e) = Id(d)
    OBVIOUS
<1> HIDE DEF e
<1>5. e = d
    BY <1>4, DueKnown
<1> QED
    BY <1>2, <1>3, <1>5

\* The filter loses nothing.
LEMMA DueMeans ==
    ASSUME opt \in Options, Foreseen, opt.action # "pivot"
    PROVE  Due = Detections(RulesKept, Scanned) \cup JudgedOf(RulesKept, Scanned)
<1>1. Due = Detections(InForce, Analysed) \cup JudgedOf(InForce, Analysed)
    BY Zenon DEF Due, JudgedOf
<1>2. Detections(InForce, Analysed) = Detections(RulesKept, Scanned)
  <2>1. \A d : d \in Detections(InForce, Analysed) => d \in Detections(RulesKept, Scanned)
      BY InDetections, KeptMeans
  <2>2. \A d : d \in Detections(RulesKept, Scanned) => d \in Detections(InForce, Analysed)
      BY InDetections, RulesInForce, ScannedAnalysed
  <2> QED
      BY <2>1, <2>2
<1>3. \A rule \in InForce : Hits(rule, Analysed) = Hits(rule, Scanned)
  <2> TAKE rule \in InForce
  <2>1. {r \in Analysed : selects(rule, r)} = {r \in Scanned : selects(rule, r)}
      BY KeptMeans, ScannedAnalysed
  <2> QED
      BY <2>1 DEF Hits
<1>4. ASSUME NEW rule \in InForce, NEW d, Judgement(d, rule, SetToSeq(Hits(rule, Analysed)))
      PROVE  rule \in RulesKept
  <2> SUFFICES ASSUME rule \notin RulesKept PROVE FALSE
      OBVIOUS
  <2>1. \A r \in Analysed : ~selects(rule, r)
      BY KeptMeans
  <2>2. Hits(rule, Analysed) = {}
      BY <2>1 DEF Hits
  <2>3. Len(SetToSeq(Hits(rule, Analysed))) = 0
      BY <2>2, SetListed, FS_EmptySet
  <2>4. rule \in ToSet(opt.rules)
      BY DEF InForce
  <2>5. rule.agg.num \in Nat
      BY <2>4, OptionsAre
  <2> QED
      BY <1>4, <2>3, <2>5 DEF Judgement, HasAgg
<1>5. JudgedOf(InForce, Analysed) = JudgedOf(RulesKept, Scanned)
  <2>1. \A d : d \in JudgedOf(InForce, Analysed) => d \in JudgedOf(RulesKept, Scanned)
      BY <1>3, <1>4, InJudgedOf
  <2>2. \A d : d \in JudgedOf(RulesKept, Scanned) => d \in JudgedOf(InForce, Analysed)
      BY <1>3, RulesInForce, InJudgedOf
  <2> QED
      BY <2>1, <2>2
<1> QED
    BY <1>1, <1>2, <1>5

-----------------------------------------------------------------------------
(* What is written and counted.                                               *)

AfFields == DOMAIN AfterfactInfo

LEMMA FieldsAre ==
    {"rows", "header", "has_displayed_header", "detect_time", "record_cnt", "recover_record_cnt",
     "detected_record_idset", "total_by_level", "unique_by_level", "by_date", "by_computer",
     "by_rule", "authors_of", "path_of", "rule_author_counter", "timestamps", "rule_files",
     "rule_ids", "computer_rules", "prev_message", "prev_lists"} = AfFields
    BY DEF AfFields, AfterfactInfo

\* The row of a detection, after what a knows of the last one.
RowOf(a, d) ==
    [id |-> Id(d), cells |-> IF opt.json THEN JsonRow(a, d)
                             ELSE IF opt.to_screen THEN ScreenRow(d) ELSE CsvRow(a, d)]

LEMMA RowId == ASSUME NEW a, NEW d PROVE RowOf(a, d).id = Id(d)
    BY DEF RowOf

LEMMA WrittenIs ==
    ASSUME NEW a, DOMAIN a = AfFields, NEW d
    PROVE  /\ DOMAIN Written(a, d) = AfFields
           /\ Written(a, d).rows = Append(a.rows, RowOf(a, d))
           /\ Written(a, d).record_cnt = a.record_cnt
           /\ Written(a, d).detected_record_idset = a.detected_record_idset
           /\ Written(a, d).total_by_level = a.total_by_level
           /\ Written(a, d).unique_by_level = a.unique_by_level
           /\ Written(a, d).rule_ids = a.rule_ids
    BY FieldsAre, Zenon DEF Written, RowOf

\* The counts of a and of what follows it.
Same(b, a) ==
    /\ b.record_cnt = a.record_cnt /\ b.detected_record_idset = a.detected_record_idset
    /\ b.total_by_level = a.total_by_level /\ b.unique_by_level = a.unique_by_level
    /\ b.rule_ids = a.rule_ids

\* The rows of b are those of a and one for each of the first n of t.
Extended(b, a, t, n) ==
    /\ DOMAIN b = AfFields /\ IsList(b.rows) /\ Len(b.rows) = Len(a.rows) + n
    /\ \A i \in 1..Len(a.rows) : b.rows[i] = a.rows[i]
    /\ \A i \in 1..n : b.rows[Len(a.rows) + i].id = Id(t[i])

LEMMA AppendIs ==
    ASSUME NEW s, IsList(s), NEW x
    PROVE  /\ IsList(Append(s, x)) /\ Len(Append(s, x)) = Len(s) + 1
           /\ Append(s, x)[Len(s) + 1] = x /\ \A i \in 1..Len(s) : Append(s, x)[i] = s[i]
<1> DEFINE T == ToSet(s) \cup {x}
<1>1. s \in Seq(T) /\ x \in T
    BY DEF IsList
<1> HIDE DEF T
<1>2. IsList(Append(s, x))
    BY ListAppend
<1> QED
    BY <1>1, <1>2

LEMMA OneMore ==
    ASSUME NEW a, IsList(a.rows), NEW b, NEW c, NEW t, NEW n \in Nat,
           Extended(b, a, t, n), NEW x, x.id = Id(t[n + 1]),
           DOMAIN c = AfFields, c.rows = Append(b.rows, x)
    PROVE  Extended(c, a, t, n + 1)
<1> DEFINE m == Len(a.rows)
<1>1. m \in Nat
    BY ListFacts
<1>2. /\ IsList(b.rows) /\ Len(b.rows) = m + n
      /\ \A i \in 1..m : b.rows[i] = a.rows[i]
      /\ \A i \in 1..n : b.rows[m + i].id = Id(t[i])
    BY DEF Extended
<1> HIDE DEF m
<1>3. /\ IsList(c.rows) /\ Len(c.rows) = (m + n) + 1 /\ c.rows[(m + n) + 1] = x
      /\ \A i \in 1..(m + n) : c.rows[i] = b.rows[i]
    BY <1>2, AppendIs
<1>4. \A i \in 1..m : c.rows[i] = a.rows[i]
    BY <1>1, <1>2, <1>3
<1>5. ASSUME NEW i \in 1..(n + 1) PROVE c.rows[m + i].id = Id(t[i])
  <2>1. CASE i = n + 1
      BY <1>1, <1>3, <2>1
  <2>2. CASE i \in 1..n
    <3>1. m + i \in 1..(m + n)
        BY <1>1, <2>2
    <3> QED
        BY <1>2, <1>3, <2>2, <3>1
  <2>3. i = n + 1 \/ i \in 1..n
      OBVIOUS
  <2> QED
      BY <2>1, <2>2, <2>3
<1>6. Len(c.rows) = m + (n + 1)
    BY <1>1, <1>3
<1> QED
    BY <1>3, <1>4, <1>5, <1>6 DEF Extended, m

LEMMA WritingRows ==
    ASSUME NEW a, DOMAIN a = AfFields, IsList(a.rows), NEW t, Len(t) \in Nat
    PROVE  Extended(AllWritten(a, t), a, t, Len(t)) /\ Same(AllWritten(a, t), a)
<1>1. PICK f : /\ AllWritten(a, t) = f[Len(t)] /\ f[0] = a
               /\ \A n \in 1..Len(t) : f[n] = Written(f[n - 1], t[n])
    BY WritingValue
<1> DEFINE Good(n) == Extended(f[n], a, t, n) /\ Same(f[n], a)
           G == {n \in Nat : n <= Len(t) => Good(n)}
<1>2. 0 \in G
  <2>1. Extended(a, a, t, 0) /\ Same(a, a)
      BY ListFacts DEF Extended, Same
  <2> QED
      BY <1>1, <2>1
<1>3. ASSUME NEW n \in Nat, n \in G, n + 1 <= Len(t) PROVE Good(n + 1)
  <2>1. Extended(f[n], a, t, n) /\ Same(f[n], a)
      BY <1>3
  <2>2. n + 1 \in 1..Len(t) /\ (n + 1) - 1 = n
      BY <1>3
  <2>3. f[n + 1] = Written(f[n], t[n + 1])
      BY <1>1, <2>2
  <2>4. DOMAIN f[n] = AfFields
      BY <2>1 DEF Extended
  <2>5. Extended(f[n + 1], a, t, n + 1)
    <3>1. DOMAIN f[n + 1] = AfFields /\ f[n + 1].rows = Append(f[n].rows, RowOf(f[n], t[n + 1]))
        BY <2>3, <2>4, WrittenIs
    <3>2. RowOf(f[n], t[n + 1]).id = Id(t[n + 1])
        BY RowId
    <3> QED
        BY <2>1, <3>1, <3>2, OneMore
  <2>6. Same(f[n + 1], a)
      BY <2>1, <2>3, <2>4, WrittenIs DEF Same
  <2> QED
      BY <2>5, <2>6
<1>4. \A n \in Nat : n \in G => n + 1 \in G
  <2> SUFFICES ASSUME NEW n \in Nat, n \in G PROVE n + 1 \in G
      OBVIOUS
  <2>1. n + 1 <= Len(t) => Good(n + 1)
      BY <1>3
  <2> HIDE DEF Good
  <2> QED
      BY <2>1
<1>5. Nat \subseteq G
  <2> HIDE DEF G
  <2> QED
      BY <1>2, <1>4, Induction
<1>6. Good(Len(t))
  <2> HIDE DEF Good
  <2> QED
      BY <1>5
<1> QED
    BY <1>1, <1>6

LEMMA SumStep ==
    ASSUME NEW c \in [Levels -> Nat], NEW l \in Levels
    PROVE  /\ Incremented(c, l) \in [Levels -> Nat]
           /\ SumOf(Incremented(c, l)) = SumOf(c) + 1 /\ SumOf(c) \in Nat
<1> DEFINE e == Incremented(c, l)
<1>1. \A k \in Levels : c[k] \in Nat /\ e[k] = IF k = l THEN c[k] + 1 ELSE c[k]
    BY DEF Incremented
<1>2. e \in [Levels -> Nat]
    BY DEF Incremented
<1>3. {0, 1, 2, 3, 4, 5, 6} \subseteq Levels /\ l \in {0, 1, 2, 3, 4, 5, 6}
    BY DEF Levels
<1> HIDE DEF e
<1>4. /\ c[0] \in Nat /\ c[1] \in Nat /\ c[2] \in Nat /\ c[3] \in Nat /\ c[4] \in Nat
      /\ c[5] \in Nat /\ c[6] \in Nat
    BY <1>1, <1>3
<1>5. /\ e[0] = IF 0 = l THEN c[0] + 1 ELSE c[0]
      /\ e[1] = IF 1 = l THEN c[1] + 1 ELSE c[1]
      /\ e[2] = IF 2 = l THEN c[2] + 1 ELSE c[2]
      /\ e[3] = IF 3 = l THEN c[3] + 1 ELSE c[3]
      /\ e[4] = IF 4 = l THEN c[4] + 1 ELSE c[4]
      /\ e[5] = IF 5 = l THEN c[5] + 1 ELSE c[5]
      /\ e[6] = IF 6 = l THEN c[6] + 1 ELSE c[6]
    BY <1>1, <1>3
<1>6. SumOf(e) = SumOf(c) + 1 /\ SumOf(c) \in Nat
    BY <1>3, <1>4, <1>5 DEF SumOf
<1> QED
    BY <1>2, <1>6 DEF e

LEMMA CountedIs ==
    ASSUME NEW a, DOMAIN a = AfFields, NEW d
    PROVE  /\ DOMAIN CountedIn(a, d) = AfFields
           /\ CountedIn(a, d).rows = a.rows /\ CountedIn(a, d).record_cnt = a.record_cnt
           /\ CountedIn(a, d).detected_record_idset = a.detected_record_idset \cup RecordIds(d)
<1> DEFINE seen == [a EXCEPT !.timestamps = Append(@, d.time),
                             !.detected_record_idset = @ \cup RecordIds(d)]
<1>1. /\ DOMAIN seen = AfFields /\ seen.rows = a.rows /\ seen.record_cnt = a.record_cnt
      /\ seen.detected_record_idset = a.detected_record_idset \cup RecordIds(d)
    BY FieldsAre
<1>2. CountedIn(a, d) = IF opt.no_summary THEN seen ELSE Summed(seen, d)
    BY DEF CountedIn
<1> HIDE DEF seen
<1>3. /\ DOMAIN Summed(seen, d) = AfFields
      /\ Summed(seen, d).rows = seen.rows /\ Summed(seen, d).record_cnt = seen.record_cnt
      /\ Summed(seen, d).detected_record_idset = seen.detected_record_idset
    BY <1>1, FieldsAre, Zenon DEF Summed
<1> QED
    BY <1>1, <1>2, <1>3

LEMMA CountedSum ==
    ASSUME NEW a, DOMAIN a = AfFields, NEW d, ~opt.no_summary
    PROVE  /\ CountedIn(a, d).rule_ids = a.rule_ids \cup {d.rule.id}
           /\ CountedIn(a, d).total_by_level = Incremented(a.total_by_level, d.level)
           /\ CountedIn(a, d).unique_by_level =
                IF d.rule.id \notin a.rule_ids
                THEN Incremented(a.unique_by_level, d.level) ELSE a.unique_by_level
<1> DEFINE seen == [a EXCEPT !.timestamps = Append(@, d.time),
                             !.detected_record_idset = @ \cup RecordIds(d)]
<1>1. /\ DOMAIN seen = AfFields /\ seen.rule_ids = a.rule_ids
      /\ seen.total_by_level = a.total_by_level /\ seen.unique_by_level = a.unique_by_level
    BY FieldsAre
<1>2. CountedIn(a, d) = Summed(seen, d)
    BY DEF CountedIn
<1> HIDE DEF seen
<1>3. /\ Summed(seen, d).rule_ids = seen.rule_ids \cup {d.rule.id}
      /\ Summed(seen, d).total_by_level = Incremented(seen.total_by_level, d.level)
      /\ Summed(seen, d).unique_by_level =
            IF d.rule.id \notin seen.rule_ids
            THEN Incremented(seen.unique_by_level, d.level) ELSE seen.unique_by_level
  <2>1. "rule_ids" \in DOMAIN seen /\ "total_by_level" \in DOMAIN seen /\ "unique_by_level" \in DOMAIN seen
      BY <1>1, FieldsAre
  <2>2. Summed(seen, d).rule_ids = seen.rule_ids \cup {d.rule.id}
      BY <2>1, Zenon DEF Summed
  <2>3. Summed(seen, d).total_by_level = Incremented(seen.total_by_level, d.level)
      BY <2>1, Zenon DEF Summed
  <2>4. Summed(seen, d).unique_by_level =
            IF d.rule.id \notin seen.rule_ids
            THEN Incremented(seen.unique_by_level, d.level) ELSE seen.unique_by_level
      BY <2>1, Zenon DEF Summed
  <2> QED
      BY <2>2, <2>3, <2>4
<1> QED
    BY <1>1, <1>2, <1>3

\* The records behind the first n of t.
IdsetOf(t, n) == UNION {RecordIds(t[i]) : i \in 1..n}
RuleIdsOf(t, n) == {t[i].rule.id : i \in 1..n}

LEMMA IdsetStep ==
    ASSUME NEW t, NEW n \in Nat
    PROVE  /\ IdsetOf(t, n + 1) = IdsetOf(t, n) \cup RecordIds(t[n + 1]) /\ IdsetOf(t, 0) = {}
           /\ RuleIdsOf(t, n + 1) = RuleIdsOf(t, n) \cup {t[n + 1].rule.id} /\ RuleIdsOf(t, 0) = {}
<1>1. 1..(n + 1) = 1..n \cup {n + 1} /\ 1..0 = {}
    OBVIOUS
<1>2. IdsetOf(t, n + 1) = IdsetOf(t, n) \cup RecordIds(t[n + 1])
    BY <1>1, Zenon DEF IdsetOf
<1>3. RuleIdsOf(t, n + 1) = RuleIdsOf(t, n) \cup {t[n + 1].rule.id}
    BY <1>1, Zenon DEF RuleIdsOf
<1>4. IdsetOf(t, 0) = {} /\ RuleIdsOf(t, 0) = {}
    BY <1>1 DEF IdsetOf, RuleIdsOf
<1> QED
    BY <1>2, <1>3, <1>4

CountedThem(b, a, t, n) ==
    /\ DOMAIN b = AfFields /\ b.rows = a.rows /\ b.record_cnt = a.record_cnt
    /\ b.detected_record_idset = a.detected_record_idset \cup IdsetOf(t, n)

\* The counts by level are those of the rules and of the detections.
Tally(a) ==
    /\ a.total_by_level \in [Levels -> Nat] /\ a.unique_by_level \in [Levels -> Nat]
    /\ IsFiniteSet(a.rule_ids) /\ SumOf(a.unique_by_level) = Cardinality(a.rule_ids)

SummedThem(b, a, t, n) ==
    /\ Tally(b) /\ SumOf(b.total_by_level) = SumOf(a.total_by_level) + n
    /\ b.rule_ids = a.rule_ids \cup RuleIdsOf(t, n)

LEMMA TallyStep ==
    ASSUME NEW a, DOMAIN a = AfFields, Tally(a), NEW d, d.level \in Levels, ~opt.no_summary
    PROVE  /\ Tally(CountedIn(a, d))
           /\ SumOf(CountedIn(a, d).total_by_level) = SumOf(a.total_by_level) + 1
           /\ CountedIn(a, d).rule_ids = a.rule_ids \cup {d.rule.id}
<1> DEFINE b == CountedIn(a, d)
<1>1. /\ b.rule_ids = a.rule_ids \cup {d.rule.id}
      /\ b.total_by_level = Incremented(a.total_by_level, d.level)
      /\ b.unique_by_level = IF d.rule.id \notin a.rule_ids
                             THEN Incremented(a.unique_by_level, d.level) ELSE a.unique_by_level
    BY CountedSum
<1> HIDE DEF b
<1>2. /\ a.total_by_level \in [Levels -> Nat] /\ a.unique_by_level \in [Levels -> Nat]
      /\ IsFiniteSet(a.rule_ids) /\ SumOf(a.unique_by_level) = Cardinality(a.rule_ids)
    BY DEF Tally
<1>3. b.total_by_level \in [Levels -> Nat] /\ SumOf(b.total_by_level) = SumOf(a.total_by_level) + 1
    BY <1>1, <1>2, SumStep
<1>4. IsFiniteSet(b.rule_ids)
      /\ Cardinality(b.rule_ids) = IF d.rule.id \in a.rule_ids THEN Cardinality(a.rule_ids)
                                   ELSE Cardinality(a.rule_ids) + 1
    BY <1>1, <1>2, FS_AddElement
<1>5. b.unique_by_level \in [Levels -> Nat] /\ SumOf(b.unique_by_level) = Cardinality(b.rule_ids)
    BY <1>1, <1>2, <1>4, SumStep
<1> QED
    BY <1>1, <1>3, <1>4, <1>5 DEF Tally, b

LEMMA CountingIdset ==
    ASSUME NEW a, DOMAIN a = AfFields, NEW t, Len(t) \in Nat
    PROVE  CountedThem(AllCounted(a, t), a, t, Len(t))
<1>1. PICK f : /\ AllCounted(a, t) = f[Len(t)] /\ f[0] = a
               /\ \A n \in 1..Len(t) : f[n] = CountedIn(f[n - 1], t[n])
    BY CountingValue
<1> DEFINE Good(n) == CountedThem(f[n], a, t, n)
           G == {n \in Nat : n <= Len(t) => Good(n)}
<1>2. 0 \in G
  <2>1. CountedThem(a, a, t, 0)
      BY IdsetStep DEF CountedThem
  <2> QED
      BY <1>1, <2>1
<1>3. ASSUME NEW n \in Nat, n \in G, n + 1 <= Len(t) PROVE Good(n + 1)
  <2>1. CountedThem(f[n], a, t, n)
      BY <1>3
  <2>2. n + 1 \in 1..Len(t) /\ (n + 1) - 1 = n
      BY <1>3
  <2>3. f[n + 1] = CountedIn(f[n], t[n + 1])
      BY <1>1, <2>2
  <2>4. IdsetOf(t, n + 1) = IdsetOf(t, n) \cup RecordIds(t[n + 1])
      BY IdsetStep
  <2>5. /\ DOMAIN f[n + 1] = AfFields
        /\ f[n + 1].rows = f[n].rows /\ f[n + 1].record_cnt = f[n].record_cnt
        /\ f[n + 1].detected_record_idset = f[n].detected_record_idset \cup RecordIds(t[n + 1])
      BY <2>1, <2>3, CountedIs DEF CountedThem
  <2>6. CountedThem(f[n + 1], a, t, n + 1)
      BY <2>1, <2>4, <2>5 DEF CountedThem
  <2> QED
      BY <2>6
<1>4. \A n \in Nat : n \in G => n + 1 \in G
  <2> SUFFICES ASSUME NEW n \in Nat, n \in G PROVE n + 1 \in G
      OBVIOUS
  <2>1. n + 1 <= Len(t) => Good(n + 1)
      BY <1>3
  <2> HIDE DEF Good
  <2> QED
      BY <2>1
<1>5. Nat \subseteq G
  <2> HIDE DEF G
  <2> QED
      BY <1>2, <1>4, Induction
<1>6. Good(Len(t))
  <2> HIDE DEF Good
  <2> QED
      BY <1>5
<1> QED
    BY <1>1, <1>6

LEMMA CountingSum ==
    ASSUME NEW a, DOMAIN a = AfFields, NEW t, Len(t) \in Nat, ~opt.no_summary, Tally(a),
           \A i \in 1..Len(t) : t[i].level \in Levels
    PROVE  SummedThem(AllCounted(a, t), a, t, Len(t))
<1>1. PICK f : /\ AllCounted(a, t) = f[Len(t)] /\ f[0] = a
               /\ \A n \in 1..Len(t) : f[n] = CountedIn(f[n - 1], t[n])
    BY CountingValue
<1>0. SumOf(a.total_by_level) \in Nat
  <2>1. 0 \in Levels /\ a.total_by_level \in [Levels -> Nat]
      BY DEF Levels, Tally
  <2> QED
      BY <2>1, SumStep
<1> DEFINE Good(n) == DOMAIN f[n] = AfFields /\ SummedThem(f[n], a, t, n)
           G == {n \in Nat : n <= Len(t) => Good(n)}
<1>2. 0 \in G
  <2>1. SummedThem(a, a, t, 0)
      BY <1>0, IdsetStep DEF SummedThem
  <2> QED
      BY <1>1, <2>1
<1>3. ASSUME NEW n \in Nat, n \in G, n + 1 <= Len(t) PROVE Good(n + 1)
  <2>1. DOMAIN f[n] = AfFields /\ SummedThem(f[n], a, t, n)
      BY <1>3
  <2>2. n + 1 \in 1..Len(t) /\ (n + 1) - 1 = n
      BY <1>3
  <2>3. f[n + 1] = CountedIn(f[n], t[n + 1])
      BY <1>1, <2>2
  <2>4. RuleIdsOf(t, n + 1) = RuleIdsOf(t, n) \cup {t[n + 1].rule.id}
      BY IdsetStep
  <2>5. /\ Tally(f[n + 1])
        /\ SumOf(f[n + 1].total_by_level) = SumOf(f[n].total_by_level) + 1
        /\ f[n + 1].rule_ids = f[n].rule_ids \cup {t[n + 1].rule.id}
      BY <2>1, <2>2, <2>3, TallyStep DEF SummedThem
  <2>6. SummedThem(f[n + 1], a, t, n + 1)
      BY <1>0, <2>1, <2>4, <2>5 DEF SummedThem
  <2>7. DOMAIN f[n + 1] = AfFields
      BY <2>1, <2>3, CountedIs
  <2> QED
      BY <2>6, <2>7
<1>4. \A n \in Nat : n \in G => n + 1 \in G
  <2> SUFFICES ASSUME NEW n \in Nat, n \in G PROVE n + 1 \in G
      OBVIOUS
  <2>1. n + 1 <= Len(t) => Good(n + 1)
      BY <1>3
  <2> HIDE DEF Good
  <2> QED
      BY <2>1
<1>5. Nat \subseteq G
  <2> HIDE DEF G
  <2> QED
      BY <1>2, <1>4, Induction
<1>6. Good(Len(t))
  <2> HIDE DEF Good
  <2> QED
      BY <1>5
<1> QED
    BY <1>1, <1>6

\* emit_csv.
LEMMA Emitting ==
    ASSUME NEW a, DOMAIN a = AfFields, IsList(a.rows), NEW s, IsList(s), NEW D
    PROVE  LET t == Without(s, D)
               b == emit_csv(a, s, D)
           IN  /\ Extended(b, a, t, Len(t)) /\ b.record_cnt = a.record_cnt
               /\ b.detected_record_idset = a.detected_record_idset \cup IdsetOf(t, Len(t))
               /\ ~opt.no_summary /\ Tally(a) /\ (\A i \in 1..Len(t) : t[i].level \in Levels)
                  => SummedThem(b, a, t, Len(t))
<1> DEFINE t == Without(s, D)
           c == AllWritten(a, t)
           b == emit_csv(a, s, D)
<1>1. b = AllCounted(c, t)
    BY DEF emit_csv, AllCounted, AllWritten
<1>2. IsList(t) /\ Len(t) \in Nat
    BY WithoutRange, ListFacts
<1> HIDE DEF t, b
<1>3. Extended(c, a, t, Len(t)) /\ Same(c, a)
    BY <1>2, WritingRows
<1> HIDE DEF c
<1>4. DOMAIN c = AfFields
    BY <1>3 DEF Extended
<1>5. CountedThem(b, c, t, Len(t))
    BY <1>1, <1>2, <1>4, CountingIdset
<1>6. /\ Extended(b, a, t, Len(t)) /\ b.record_cnt = a.record_cnt
      /\ b.detected_record_idset = a.detected_record_idset \cup IdsetOf(t, Len(t))
    BY <1>3, <1>5 DEF Extended, Same, CountedThem
<1>7. ASSUME ~opt.no_summary, Tally(a), \A i \in 1..Len(t) : t[i].level \in Levels
      PROVE  SummedThem(b, a, t, Len(t))
  <2>1. Tally(c)
      BY <1>3, <1>7 DEF Tally, Same
  <2>2. SummedThem(b, c, t, Len(t))
      BY <1>1, <1>2, <1>4, <1>7, <2>1, CountingSum
  <2> QED
      BY <1>3, <2>2 DEF SummedThem, Same
<1> QED
    BY <1>6, <1>7 DEF t, b

LEMMA WithoutDistinct ==
    ASSUME NEW s, IsList(s), Distinct(s), NEW D
    PROVE  Distinct(Without(s, D))
<1> DEFINE t == Without(s, D)
<1>1. PICK p : Places(p, t, s, D, Len(s))
    BY WithoutPlaces
<1>2. DOMAIN t = 1..Len(t) /\ DOMAIN s = 1..Len(s) /\ Len(t) \in Nat /\ Len(s) \in Nat
    BY WithoutPlaces, ListFacts
<1> HIDE DEF t
<1>3. ASSUME NEW i \in DOMAIN t, NEW j \in DOMAIN t, Id(t[i]) = Id(t[j]) PROVE i = j
  <2>1. t[i] = s[p[i]] /\ t[j] = s[p[j]] /\ p[i] \in DOMAIN s /\ p[j] \in DOMAIN s
      BY <1>1, <1>2 DEF Places
  <2>2. p[i] = p[j]
      BY <1>3, <2>1 DEF Distinct
  <2>3. ~(i < j) /\ ~(j < i)
      BY <1>1, <1>2, <2>1, <2>2 DEF Places
  <2> QED
      BY <1>2, <2>3
<1> QED
    BY <1>3 DEF Distinct, t

-----------------------------------------------------------------------------
(* The order of the report.                                                   *)

\* The function inside sort_detect_info, for the first m places.
Least(infos, S) == {i \in S : \A j \in S : NotAfter(infos[i], infos[j])}
IsSorting(f, infos, m) ==
    f = [n \in 0..m |-> IF n = 0 THEN {<<>>}
            ELSE UNION {{Append(p, i) : i \in Least(infos, DOMAIN infos \ ToSet(p))} : p \in f[n - 1]}]

LEMMA SortingExists ==
    ASSUME NEW infos
    PROVE  \A m \in Nat : \E f : IsSorting(f, infos, m)
<1> DEFINE G == {m \in Nat : \E f : IsSorting(f, infos, m)}
           step(x) == UNION {{Append(p, i) : i \in Least(infos, DOMAIN infos \ ToSet(p))} : p \in x}
<1>1. 0 \in G
  <2>1. IsSorting([n \in 0..0 |-> {<<>>}], infos, 0)
      BY DEF IsSorting
  <2> QED
      BY <2>1
<1>2. ASSUME NEW m \in Nat, m \in G PROVE m + 1 \in G
  <2>1. PICK f : IsSorting(f, infos, m)
      BY <1>2
  <2> DEFINE g == [n \in 0..(m + 1) |-> IF n = m + 1 THEN step(f[m]) ELSE f[n]]
             h == [n \in 0..(m + 1) |-> IF n = 0 THEN {<<>>} ELSE step(g[n - 1])]
  <2>0. f = [n \in 0..m |-> IF n = 0 THEN {<<>>} ELSE step(f[n - 1])]
      BY <2>1 DEF IsSorting
  <2> HIDE DEF step
  <2>2. ASSUME NEW n \in 0..(m + 1) PROVE g[n] = h[n]
    <3>1. CASE n = m + 1
      <4>1. n # 0 /\ n - 1 = m /\ m \in 0..(m + 1) /\ m # m + 1
          BY <3>1
      <4> QED
          BY <3>1, <4>1
    <3>2. CASE n # m + 1
      <4>1. n \in 0..m /\ (n # 0 => n - 1 \in 0..(m + 1) /\ n - 1 # m + 1)
          BY <3>2
      <4> QED
          BY <2>0, <3>2, <4>1
    <3> QED
        BY <3>1, <3>2
  <2>3. g = h
      BY <2>2
  <2>4. IsSorting(g, infos, m + 1)
      BY <2>3 DEF IsSorting, step
  <2> HIDE DEF g
  <2> QED
      BY <2>4
<1> HIDE DEF G
<1>3. Nat \subseteq G
    BY <1>1, <1>2, Induction
<1> QED
    BY <1>3 DEF G

LEMMA SortValue ==
    ASSUME NEW infos, Len(infos) \in Nat
    PROVE  \E f : /\ IsSorting(f, infos, Len(infos))
                  /\ sort_detect_info(infos) =
                        {[i \in DOMAIN p |-> infos[p[i]]] : p \in f[Len(infos)]}
<1> DEFINE F == CHOOSE f : f = [n \in 0..Len(infos) |-> IF n = 0 THEN {<<>>}
            ELSE UNION {{Append(p, i) : i \in {k \in DOMAIN infos \ ToSet(p) :
                            \A j \in DOMAIN infos \ ToSet(p) : NotAfter(infos[k], infos[j])}} :
                        p \in f[n - 1]}]
<1>1. \E f : IsSorting(f, infos, Len(infos))
    BY SortingExists
<1>2. IsSorting(F, infos, Len(infos))
    BY <1>1, Zenon DEF IsSorting, Least
<1>3. sort_detect_info(infos) = {[i \in DOMAIN p |-> infos[p[i]]] : p \in F[Len(infos)]}
    BY Zenon DEF sort_detect_info
<1> QED
    BY <1>2, <1>3

\* p takes some of the places, each once, those first that are not after others.
Taken(p, infos, n) ==
    /\ p \in [1..n -> DOMAIN infos] /\ IsList(p) /\ Len(p) = n
    /\ \A i, j \in 1..n : i < j => p[i] # p[j] /\ NotAfter(infos[p[i]], infos[p[j]])
    /\ \A i \in 1..n : \A k \in DOMAIN infos : k \notin ToSet(p) => NotAfter(infos[p[i]], infos[k])

LEMMA TakenStep ==
    ASSUME NEW infos, NEW n \in Nat, NEW p, Taken(p, infos, n),
           NEW i \in Least(infos, DOMAIN infos \ ToSet(p))
    PROVE  Taken(Append(p, i), infos, n + 1)
<1> DEFINE q == Append(p, i)
<1>1. /\ p \in [1..n -> DOMAIN infos] /\ IsList(p) /\ Len(p) = n
      /\ \A k, j \in 1..n : k < j => p[k] # p[j] /\ NotAfter(infos[p[k]], infos[p[j]])
      /\ \A j \in 1..n : \A k \in DOMAIN infos : k \notin ToSet(p) => NotAfter(infos[p[j]], infos[k])
    BY DEF Taken
<1>2. /\ i \in DOMAIN infos /\ i \notin ToSet(p)
      /\ \A k \in DOMAIN infos : k \notin ToSet(p) => NotAfter(infos[i], infos[k])
    BY DEF Least
<1>3. IsList(q) /\ Len(q) = n + 1 /\ q[n + 1] = i /\ \A j \in 1..n : q[j] = p[j]
    BY <1>1, AppendIs
<1>4. ToSet(q) = ToSet(p) \cup {i} /\ \A j \in 1..n : p[j] \in ToSet(p)
    BY <1>1, ListAppend, ListFacts
<1>5. DOMAIN q = 1..(n + 1) /\ q \in Seq(ToSet(q))
    BY <1>3 DEF IsList
<1> HIDE DEF q
<1>6. q \in [1..(n + 1) -> DOMAIN infos]
  <2>1. \A j \in 1..(n + 1) : q[j] \in DOMAIN infos
      BY <1>1, <1>2, <1>3
  <2>2. q = [j \in 1..(n + 1) |-> q[j]]
      BY <1>5
  <2> QED
      BY <2>1, <2>2
<1>7. ASSUME NEW k \in 1..(n + 1), NEW j \in 1..(n + 1), k < j
      PROVE  q[k] # q[j] /\ NotAfter(infos[q[k]], infos[q[j]])
  <2>1. k \in 1..n /\ (j \in 1..n \/ j = n + 1)
      BY <1>7
  <2> QED
      BY <1>1, <1>2, <1>3, <1>4, <1>7, <2>1
<1>8. ASSUME NEW j \in 1..(n + 1), NEW k \in DOMAIN infos, k \notin ToSet(q)
      PROVE  NotAfter(infos[q[j]], infos[k])
  <2>1. k \notin ToSet(p) /\ (j \in 1..n \/ j = n + 1)
      BY <1>4, <1>8
  <2> QED
      BY <1>1, <1>2, <1>3, <2>1
<1> QED
    BY <1>3, <1>6, <1>7, <1>8 DEF Taken, q

LEMMA SortTaken ==
    ASSUME NEW infos, IsList(infos), NEW s \in sort_detect_info(infos)
    PROVE  \E p : Taken(p, infos, Len(infos)) /\ s = [i \in 1..Len(infos) |-> infos[p[i]]]
<1>0. Len(infos) \in Nat
    BY ListFacts
<1>1. PICK f : /\ IsSorting(f, infos, Len(infos))
               /\ sort_detect_info(infos) =
                    {[i \in DOMAIN p |-> infos[p[i]]] : p \in f[Len(infos)]}
    BY <1>0, SortValue
<1> DEFINE Good(n) == \A p \in f[n] : Taken(p, infos, n)
           G == {n \in Nat : n <= Len(infos) => Good(n)}
           step(x) == UNION {{Append(p, i) : i \in Least(infos, DOMAIN infos \ ToSet(p))} : p \in x}
<1>2. \A n \in 0..Len(infos) : f[n] = IF n = 0 THEN {<<>>} ELSE step(f[n - 1])
    BY <1>1 DEF IsSorting
<1>3. 0 \in G
  <2>1. f[0] = {<<>>}
    <3>1. 0 \in 0..Len(infos)
        BY <1>0
    <3> HIDE DEF step
    <3> QED
        BY <1>2, <3>1, Zenon
  <2>2. <<>> \in [1..0 -> DOMAIN infos] /\ Len(<<>>) = 0
      OBVIOUS
  <2>3. Taken(<<>>, infos, 0)
      BY <2>2, EmptyList DEF Taken
  <2> QED
      BY <2>1, <2>3
<1>4. ASSUME NEW n \in Nat, n \in G, n + 1 <= Len(infos) PROVE Good(n + 1)
  <2>1. \A p \in f[n] : Taken(p, infos, n)
      BY <1>0, <1>4
  <2>2. n + 1 \in 0..Len(infos) /\ n + 1 # 0 /\ (n + 1) - 1 = n
      BY <1>0, <1>4
  <2>3. f[n + 1] = step(f[n])
      BY <1>2, <2>2
  <2>4. ASSUME NEW q \in step(f[n]) PROVE Taken(q, infos, n + 1)
    <3>1. PICK p \in f[n] : \E i \in Least(infos, DOMAIN infos \ ToSet(p)) : q = Append(p, i)
        BY <2>4, Zenon
    <3> QED
        BY <2>1, <3>1, TakenStep
  <2> QED
      BY <2>3, <2>4
<1> HIDE DEF step
<1>5. \A n \in Nat : n \in G => n + 1 \in G
  <2> SUFFICES ASSUME NEW n \in Nat, n \in G PROVE n + 1 \in G
      OBVIOUS
  <2>1. n + 1 <= Len(infos) => Good(n + 1)
      BY <1>4
  <2> HIDE DEF Good
  <2> QED
      BY <2>1
<1>6. Nat \subseteq G
  <2> HIDE DEF G
  <2> QED
      BY <1>3, <1>5, Induction
<1>7. Good(Len(infos))
  <2> HIDE DEF Good
  <2> QED
      BY <1>0, <1>6
<1>8. PICK p \in f[Len(infos)] : s = [i \in DOMAIN p |-> infos[p[i]]]
    BY <1>1, Zenon
<1>9. Taken(p, infos, Len(infos))
    BY <1>7
<1>10. DOMAIN p = 1..Len(infos)
    BY <1>9 DEF Taken
<1> QED
    BY <1>8, <1>9, <1>10

LEMMA NotAfterTime ==
    ASSUME NEW a, NEW b, a.time \in Int, b.time \in Int, NotAfter(a, b)
    PROVE  a.time <= b.time
<1>1. SortKey(a)[1] = a.time /\ SortKey(b)[1] = b.time
    BY DEF SortKey
<1>2. CASE SortKey(a) = SortKey(b)
    BY <1>1, <1>2
<1>3. CASE \E i \in 1..6 : /\ SortKey(a)[i] < SortKey(b)[i]
                           /\ \A j \in 1..(i - 1) : SortKey(a)[j] = SortKey(b)[j]
  <2>1. PICK i \in 1..6 : /\ SortKey(a)[i] < SortKey(b)[i]
                          /\ \A j \in 1..(i - 1) : SortKey(a)[j] = SortKey(b)[j]
      BY <1>3
  <2> HIDE <1>3
  <2>2. CASE i = 1
      BY <1>1, <2>1, <2>2
  <2>3. CASE i # 1
    <3>1. 1 \in 1..(i - 1)
        BY <2>3
    <3>2. SortKey(a)[1] = SortKey(b)[1]
        BY <2>1, <3>1
    <3> QED
        BY <1>1, <3>2
  <2> QED
      BY <2>2, <2>3
<1> QED
    BY <1>2, <1>3, Zenon DEF NotAfter

\* What comes out of the sort is what went in, in the order of time.
LEMMA Sorting ==
    ASSUME NEW infos, IsList(infos), Distinct(infos), \A d \in ToSet(infos) : d.time \in Int,
           NEW s \in sort_detect_info(infos)
    PROVE  /\ IsList(s) /\ Len(s) = Len(infos) /\ ToSet(s) = ToSet(infos) /\ Distinct(s)
           /\ \A i, j \in DOMAIN s : i < j => s[i].time <= s[j].time
<1> DEFINE n == Len(infos)
<1>1. n \in Nat /\ DOMAIN infos = 1..n /\ \A i \in DOMAIN infos : infos[i] \in ToSet(infos)
    BY ListFacts
<1>2. PICK p : Taken(p, infos, n) /\ s = [i \in 1..n |-> infos[p[i]]]
    BY SortTaken
<1> HIDE DEF n
<1>3. /\ p \in [1..n -> 1..n]
      /\ \A i, j \in 1..n : i < j => p[i] # p[j] /\ NotAfter(infos[p[i]], infos[p[j]])
    BY <1>1, <1>2 DEF Taken
<1>4. \A i, j \in 1..n : p[i] = p[j] => i = j
  <2> SUFFICES ASSUME NEW i \in 1..n, NEW j \in 1..n, p[i] = p[j], i # j PROVE FALSE
      OBVIOUS
  <2>1. i < j \/ j < i
      BY <1>1
  <2> QED
      BY <1>3, <2>1
<1>5. IsFiniteSet(1..n) /\ Cardinality(1..n) = n
  <2>1. 1 \in Int /\ n \in Int /\ (IF 1 > n THEN 0 ELSE n - 1 + 1) = n
      BY <1>1
  <2> QED
      BY <2>1, FS_Interval
<1>6. p \in Injection(1..n, 1..n)
    BY <1>3, <1>4 DEF Injection, IsInjective
<1>7. p \in Surjection(1..n, 1..n)
    BY <1>5, <1>6, FS_Injection
<1>8. \A k \in 1..n : \E i \in 1..n : p[i] = k
    BY <1>7 DEF Surjection
<1>9. \A i \in 1..n : s[i] = infos[p[i]] /\ s[i] \in ToSet(infos) /\ p[i] \in 1..n
    BY <1>1, <1>2, <1>3
<1>10. s \in [1..n -> ToSet(infos)] /\ DOMAIN s = 1..n
    BY <1>2, <1>9
<1>11. s \in Seq(ToSet(infos)) /\ Len(s) = n
    BY <1>1, <1>10
<1>12. IsList(s)
    BY <1>11, ListOf
<1>13. ToSet(s) = ToSet(infos)
  <2>1. ToSet(s) \subseteq ToSet(infos)
      BY <1>11, ListOf
  <2>2. ASSUME NEW d \in ToSet(infos) PROVE d \in ToSet(s)
    <3>1. PICK k \in 1..n : infos[k] = d
        BY <1>1 DEF ToSet
    <3>2. PICK i \in 1..n : p[i] = k
        BY <1>8
    <3>3. s[i] = d
        BY <1>9, <3>1, <3>2
    <3> QED
        BY <1>10, <3>3 DEF ToSet
  <2> QED
      BY <2>1, <2>2
<1>14. Distinct(s)
    BY <1>1, <1>4, <1>9, <1>10 DEF Distinct
<1>15. ASSUME NEW i \in DOMAIN s, NEW j \in DOMAIN s, i < j PROVE s[i].time <= s[j].time
  <2>1. NotAfter(s[i], s[j]) /\ s[i].time \in Int /\ s[j].time \in Int
      BY <1>3, <1>9, <1>10, <1>15
  <2> QED
      BY <2>1, NotAfterTime
<1> QED
    BY <1>11, <1>12, <1>13, <1>14, <1>15 DEF n

\* A list of numbers has a first member of a kind.
LEMMA FirstOne ==
    ASSUME NEW T, T \subseteq Nat, T # {}
    PROVE  \E x \in T : \A y \in T : ~(y < x)
<1> DEFINE R == {ss \in Nat \X Nat : ss[1] < ss[2]}
<1>1. IsWellFoundedOn(R, Nat)
    BY NatLessThanWellFounded DEF OpToRel
<1>2. \A x, y \in Nat : <<y, x>> \in R <=> y < x
    OBVIOUS
<1>3. \E x \in T : \A y \in T : ~ (<<y, x>> \in R)
  <2> HIDE DEF R
  <2> QED
      BY <1>1, WFMin
<1> QED
    BY <1>2, <1>3

\* What is left out reads like something that is not.
LEMMA DuplicatesShown ==
    ASSUME NEW s, IsList(s), NEW i \in Duplicates(s)
    PROVE  i \in DOMAIN s /\ \E j \in DOMAIN s \ Duplicates(s) : Look(s[j]) = Look(s[i])
<1> DEFINE follows(k) == k > 1 /\ s[k].time = s[k - 1].time
           Like(k, j) == follows(j) /\ s[j].time = s[k].time /\ Look(s[j]) = Look(s[k])
           T == {j \in DOMAIN s : Like(i, j)}
<1>1. Duplicates(s) = {k \in DOMAIN s : follows(k) /\ \E j \in 1..(k - 1) : Like(k, j)}
    BY Zenon DEF Duplicates, get_duplicate_idxes, Look
<1>2. DOMAIN s = 1..Len(s) /\ Len(s) \in Nat
    BY ListFacts
<1> HIDE DEF follows
<1>3. i \in DOMAIN s /\ follows(i) /\ \E j \in 1..(i - 1) : Like(i, j)
    BY <1>1
<1>4. T # {} /\ T \subseteq Nat
    BY <1>2, <1>3
<1>5. PICK j \in T : \A k \in T : ~(k < j)
  <2> HIDE DEF T
  <2> QED
      BY <1>4, FirstOne
<1>6. j \notin Duplicates(s)
  <2> SUFFICES ASSUME j \in Duplicates(s) PROVE FALSE
      OBVIOUS
  <2>1. PICK k \in 1..(j - 1) : Like(j, k)
      BY <1>1
  <2>2. k \in DOMAIN s /\ k < j /\ Like(i, k)
      BY <1>2, <1>5, <2>1
  <2> QED
      BY <1>5, <2>2
<1> QED
    BY <1>3, <1>5, <1>6

-----------------------------------------------------------------------------
(* The shape of a state.                                                      *)

LEMMA SteadyKept ==
    ASSUME opt' = opt
    PROVE  /\ RulesKept' = RulesKept /\ FilesKept' = FilesKept /\ Scanned' = Scanned
           /\ \A fs : RecordsIn(fs)' = RecordsIn(fs)
           /\ \A list : KeptOf(list)' = KeptOf(list)
<1>1. Filtering' = Filtering /\ \A r : Kept(r)' = Kept(r)
    BY SteadyPromise
<1>2. Opened' = Opened /\ NamedBy(opt.rules)' = NamedBy(opt.rules)
    BY DEF Opened, NamedBy
<1>3. OpenedChannels' = OpenedChannels
    BY <1>2, Zenon DEF OpenedChannels
<1>4. RulesKept' = RulesKept
    BY <1>1, <1>3, Zenon DEF RulesKept
<1>5. FilesKept' = FilesKept
    BY <1>1, <1>2, <1>3, Zenon DEF FilesKept
<1>6. \A fs : RecordsIn(fs)' = RecordsIn(fs)
    BY <1>1, Zenon DEF RecordsIn
<1>7. Scanned' = Scanned
    BY <1>5, <1>6, Zenon DEF Scanned
<1>8. \A list : KeptOf(list)' = KeptOf(list)
    BY <1>1, Zenon DEF KeptOf
<1> QED
    BY <1>4, <1>5, <1>6, <1>7, <1>8

Phases == {"filter", "file", "read", "tasks", "output", "done"}
OneEach(rs) == \A i, j \in DOMAIN rs : rs[i].id = rs[j].id => i = j

\* The rules are those of the scan, and once it is through those the filter
\* keeps; outside of a file nothing of one waits.
Shape ==
    /\ opt \in Options /\ phase \in Phases
    /\ IsList(rules) /\ OneEach(rules) /\ ToSet(rules) \subseteq ToSet(opt.rules)
    /\ IsList(evtx_files) /\ ToSet(evtx_files) \subseteq ToSet(opt.files)
    /\ GoodItems(items) /\ IsList(records_per_detect)
    /\ phase = "filter" => rules = opt.rules /\ evtx_files = opt.files
    /\ phase # "filter" => ToSet(rules) = RulesKept
    /\ phase \notin {"read", "tasks"} => items = <<>> /\ records_per_detect = <<>>
    /\ phase \in {"output", "done"} => evtx_files = <<>>

LEMMA NoItems == GoodItems(<<>>)
    BY EmptyList DEF GoodItems

LEMMA TailSet ==
    ASSUME NEW s, IsList(s), s # <<>>
    PROVE  /\ Head(s) \in ToSet(s) /\ IsList(Tail(s)) /\ ToSet(Tail(s)) \subseteq ToSet(s)
           /\ ToSet(s) = {Head(s)} \cup ToSet(Tail(s))
<1>1. /\ Head(s) = s[1] /\ Head(s) \in ToSet(s)
      /\ IsList(Tail(s)) /\ ToSet(Tail(s)) \subseteq ToSet(s)
    BY ListTail
<1>2. /\ Len(s) \in Nat \ {0} /\ DOMAIN s = 1..Len(s) /\ Len(Tail(s)) = Len(s) - 1
      /\ \A i \in 1..Len(Tail(s)) : Tail(s)[i] = s[i + 1]
    BY HeadTailProperties DEF IsList
<1>3. DOMAIN Tail(s) = 1..(Len(s) - 1)
    BY <1>1, <1>2, ListFacts
<1>4. ASSUME NEW x \in ToSet(s), x # Head(s) PROVE x \in ToSet(Tail(s))
  <2>1. PICK i \in 1..Len(s) : s[i] = x
      BY <1>2 DEF ToSet
  <2>2. i # 1
      BY <1>1, <1>4, <2>1
  <2>3. i - 1 \in 1..(Len(s) - 1) /\ (i - 1) + 1 = i
      BY <1>2, <2>2
  <2>4. Tail(s)[i - 1] = x
      BY <1>2, <2>1, <2>3
  <2> QED
      BY <1>3, <2>3, <2>4 DEF ToSet
<1> QED
    BY <1>1, <1>4

LEMMA TailItems ==
    ASSUME NEW list, GoodItems(list), list # <<>>
    PROVE  /\ GoodItems(Tail(list)) /\ IsList(Head(list).records)
           /\ \A r \in ToSet(Head(list).records) : r.time \in Int /\ r.eid \in Int
           /\ \A i, j \in DOMAIN Head(list).records :
                Head(list).records[i].at = Head(list).records[j].at => i = j
           /\ Ats(list) = {r.at : r \in ToSet(Head(list).records)} \cup Ats(Tail(list))
           /\ {r.at : r \in ToSet(Head(list).records)} \cap Ats(Tail(list)) = {}
<1> DEFINE t == Tail(list)
           h == Head(list)
<1>1. IsList(list)
    BY DEF GoodItems
<1>2. /\ h = list[1] /\ 1 \in DOMAIN list /\ IsList(t) /\ ToSet(t) \subseteq ToSet(list)
      /\ \A i \in DOMAIN t : i + 1 \in DOMAIN list /\ t[i] = list[i + 1] /\ i \in Nat
    BY <1>1, ListTail
<1>3. DOMAIN t = 1..Len(t) /\ Len(t) \in Nat /\ DOMAIN list = 1..Len(list) /\ Len(list) \in Nat
      /\ ToSet(list) = {h} \cup ToSet(t)
    BY <1>1, <1>2, ListFacts, TailSet
<1> HIDE DEF t, h
<1>4. GoodItems(t)
  <2>1. ASSUME NEW i \in DOMAIN t
        PROVE  IsList(t[i].records) /\ \A r \in ToSet(t[i].records) : r.time \in Int /\ r.eid \in Int
      BY <1>2 DEF GoodItems
  <2>2. ASSUME NEW i \in DOMAIN t, NEW j \in DOMAIN t,
               NEW k \in DOMAIN t[i].records, NEW l \in DOMAIN t[j].records,
               t[i].records[k].at = t[j].records[l].at
        PROVE  i = j /\ k = l
    <3>1. i + 1 = j + 1 /\ k = l
        BY <1>2, <2>2 DEF GoodItems
    <3> QED
        BY <1>3, <3>1
  <2> QED
      BY <1>2, <2>1, <2>2 DEF GoodItems
<1>5. IsList(h.records) /\ \A r \in ToSet(h.records) : r.time \in Int /\ r.eid \in Int
    BY <1>2 DEF GoodItems
<1>6. \A i, j \in DOMAIN h.records : h.records[i].at = h.records[j].at => i = j
    BY <1>2 DEF GoodItems
<1>7. ASSUME NEW a
      PROVE  a \in Ats(list) <=> \E i \in DOMAIN list : \E r \in ToSet(list[i].records) : r.at = a
    BY AtsOf, AtsHave
<1>8. ASSUME NEW a
      PROVE  a \in Ats(t) <=> \E i \in DOMAIN t : \E r \in ToSet(t[i].records) : r.at = a
    BY AtsOf, AtsHave
<1>9. ASSUME NEW a
      PROVE  a \in Ats(list) <=> (\E r \in ToSet(h.records) : r.at = a) \/ a \in Ats(t)
  <2>1. (\E r \in ToSet(h.records) : r.at = a) => a \in Ats(list)
      BY <1>2, <1>7
  <2>2. a \in Ats(t) => a \in Ats(list)
      BY <1>2, <1>7, <1>8
  <2>3. ASSUME a \in Ats(list) PROVE (\E r \in ToSet(h.records) : r.at = a) \/ a \in Ats(t)
    <3>1. PICK i \in DOMAIN list : \E r \in ToSet(list[i].records) : r.at = a
        BY <1>7, <2>3
    <3>2. list[i] = h \/ list[i] \in ToSet(t)
        BY <1>1, <1>3, ListFacts
    <3>3. CASE list[i] \in ToSet(t)
      <4>1. PICK j \in DOMAIN t : t[j] = list[i]
          BY <1>2, <3>3, ListFacts
      <4> QED
          BY <1>8, <3>1, <4>1
    <3> QED
        BY <3>1, <3>2, <3>3
  <2> QED
      BY <2>1, <2>2, <2>3
<1>10. ASSUME NEW r \in ToSet(h.records), r.at \in Ats(t) PROVE FALSE
  <2>1. PICK i \in DOMAIN t : \E s \in ToSet(t[i].records) : s.at = r.at
      BY <1>8, <1>10
  <2>2. PICK s \in ToSet(t[i].records) : s.at = r.at
      BY <2>1
  <2>3. PICK k \in DOMAIN h.records : h.records[k] = r
      BY <1>5, ListFacts
  <2>4. PICK l \in DOMAIN t[i].records : t[i].records[l] = s
      BY <1>4, <2>2, ListFacts DEF GoodItems
  <2>5. 1 = i + 1
      BY <1>2, <2>2, <2>3, <2>4 DEF GoodItems
  <2> QED
      BY <1>3, <2>5
<1>11. Ats(list) = {r.at : r \in ToSet(h.records)} \cup Ats(t)
    BY <1>9
<1>12. {r.at : r \in ToSet(h.records)} \cap Ats(t) = {}
    BY <1>10
<1> QED
    BY <1>4, <1>5, <1>6, <1>11, <1>12 DEF t, h

\* What the filter keeps.
LEMMA FilterKeeps ==
    ASSUME Shape, ApplyChannelFilter
    PROVE  /\ IsList(evtx_files') /\ ToSet(evtx_files') = FilesKept
           /\ IsList(rules') /\ ToSet(rules') = RulesKept /\ OneEach(rules')
           /\ evtx_files' = evtx_files
              \/ \E D : evtx_files' = Without(evtx_files, D)
<1>1. /\ IsList(rules) /\ OneEach(rules) /\ IsList(evtx_files)
      /\ rules = opt.rules /\ evtx_files = opt.files
    BY DEF Shape, ApplyChannelFilter
<1>2. CASE ~Filtering
  <2>1. evtx_files' = evtx_files /\ rules' = rules
      BY <1>2 DEF ApplyChannelFilter
  <2> QED
      BY <1>1, <1>2, <2>1 DEF FilesKept, RulesKept
<1>3. CASE Filtering
  <2> DEFINE intersec == NamedBy(rules) \cap PeekedChannels
             scanable(f) == f \in Peeked /\ PeekedChannel(f) \in intersec
             useful(rule) == rule.named \cap PeekedChannels # {} \/ rule.correlation
             D == {i \in DOMAIN evtx_files : ~scanable(evtx_files[i])}
             E == {i \in DOMAIN rules : ~useful(rules[i])}
  <2>1. evtx_files' = Without(evtx_files, D) /\ rules' = Without(rules, E)
      BY <1>3, Zenon DEF ApplyChannelFilter
  <2>2. Peeked = Opened /\ PeekedChannels = OpenedChannels /\ intersec = NamedBy(opt.rules) \cap OpenedChannels
    <3>1. Peeked = Opened
        BY <1>1 DEF Peeked, Opened
    <3>2. PeekedChannels = OpenedChannels
        BY <3>1 DEF PeekedChannels, OpenedChannels
    <3> QED
        BY <1>1, <3>1, <3>2
  <2>3. \A f : scanable(f) <=> f \in Opened /\ PeekedChannel(f) \in NamedBy(opt.rules) \cap OpenedChannels
      BY <2>2
  <2>4. \A rule : useful(rule) <=> rule.named \cap OpenedChannels # {} \/ rule.correlation
      BY <2>2
  <2> HIDE DEF intersec, scanable, useful
  <2>5. /\ IsList(evtx_files') /\ ToSet(evtx_files') = {evtx_files[i] : i \in DOMAIN evtx_files \ D}
        /\ IsList(rules') /\ ToSet(rules') = {rules[i] : i \in DOMAIN rules \ E}
      BY <1>1, <2>1, WithoutRange
  <2>6. ToSet(evtx_files') = FilesKept
    <3>1. \A f \in FilesKept : f \in ToSet(evtx_files) /\ scanable(f)
        BY <1>1, <1>3, <2>3 DEF FilesKept, Opened
    <3>2. \A i \in DOMAIN evtx_files : scanable(evtx_files[i]) => evtx_files[i] \in FilesKept
        BY <1>3, <2>3 DEF FilesKept
    <3>3. \A f \in ToSet(evtx_files) : \E i \in DOMAIN evtx_files : evtx_files[i] = f
        BY <1>1, ListFacts
    <3> QED
        BY <2>5, <3>1, <3>2, <3>3
  <2>7. ToSet(rules') = RulesKept
    <3>1. \A rule \in RulesKept : rule \in ToSet(rules) /\ useful(rule)
        BY <1>1, <1>3, <2>4 DEF RulesKept
    <3>2. \A i \in DOMAIN rules : useful(rules[i]) => rules[i] \in RulesKept
      <4>1. \A i \in DOMAIN rules : rules[i] \in ToSet(opt.rules)
          BY <1>1, ListFacts
      <4> QED
          BY <1>3, <2>4, <4>1 DEF RulesKept
    <3>3. \A rule \in ToSet(rules) : \E i \in DOMAIN rules : rules[i] = rule
        BY <1>1, ListFacts
    <3> QED
        BY <2>5, <3>1, <3>2, <3>3
  <2>8. OneEach(rules')
    <3> DEFINE t == Without(rules, E)
    <3>1. PICK p : Places(p, t, rules, E, Len(rules))
        BY <1>1, WithoutPlaces
    <3>2. DOMAIN t = 1..Len(t) /\ DOMAIN rules = 1..Len(rules) /\ Len(t) \in Nat /\ Len(rules) \in Nat
        BY <1>1, WithoutPlaces, ListFacts
    <3> HIDE DEF t
    <3>3. ASSUME NEW i \in DOMAIN t, NEW j \in DOMAIN t, t[i].id = t[j].id PROVE i = j
      <4>1. t[i] = rules[p[i]] /\ t[j] = rules[p[j]] /\ p[i] \in DOMAIN rules /\ p[j] \in DOMAIN rules
          BY <3>1, <3>2 DEF Places
      <4>2. p[i] = p[j]
          BY <1>1, <3>3, <4>1 DEF OneEach
      <4>3. ~(i < j) /\ ~(j < i)
          BY <3>1, <3>2, <4>1, <4>2 DEF Places
      <4> QED
          BY <3>2, <4>3
    <3>4. OneEach(t)
        BY <3>3 DEF OneEach
    <3> QED
        BY <2>1, <3>4 DEF t
  <2> QED
      BY <2>1, <2>5, <2>6, <2>7, <2>8
<1> QED
    BY <1>2, <1>3

LEMMA ShapeInit == ScanInit => Shape
<1> SUFFICES ASSUME ScanInit PROVE Shape
    OBVIOUS
<1>1. /\ opt \in Options /\ phase = "filter" /\ rules = opt.rules /\ evtx_files = opt.files
      /\ items = <<>> /\ records_per_detect = <<>>
    BY DEF ScanInit
<1>2. IsList(rules) /\ OneEach(rules) /\ IsList(evtx_files)
    BY <1>1, OptionsAre DEF OneEach
<1>3. GoodItems(items) /\ IsList(records_per_detect)
    BY <1>1, NoItems, EmptyList
<1> QED
    BY <1>1, <1>2, <1>3 DEF Shape, Phases

LEMMA ShapeFilter ==
    ASSUME Shape, ApplyChannelFilter
    PROVE  Shape'
<1>1. /\ phase = "filter" /\ phase' = "file" /\ opt' = opt /\ items' = items
      /\ records_per_detect' = records_per_detect
    BY DEF ApplyChannelFilter, tasks
<1>2. /\ RulesKept' = RulesKept /\ RulesKept \subseteq ToSet(opt.rules)
      /\ FilesKept \subseteq ToSet(opt.files)
    BY <1>1, SteadyKept, RulesKeptAre, FilesKeptAre
<1> QED
    BY <1>1, <1>2, FilterKeeps DEF Shape, Phases

LEMMA ShapeOpen ==
    ASSUME Shape, OpenFile
    PROVE  Shape'
<1>1. /\ phase = "file" /\ evtx_files # <<>> /\ evtx_files' = Tail(evtx_files)
      /\ phase' \in {"file", "read"} /\ items' \in {Head(evtx_files).items, <<>>}
      /\ phase' = "file" => items' = <<>>
      /\ opt' = opt /\ rules' = rules /\ records_per_detect' = records_per_detect
    BY DEF OpenFile, tasks
<1>2. RulesKept' = RulesKept
    BY <1>1, SteadyKept
<1>3. IsList(Tail(evtx_files)) /\ ToSet(Tail(evtx_files)) \subseteq ToSet(evtx_files)
      /\ Head(evtx_files) \in ToSet(evtx_files)
    BY <1>1, TailSet DEF Shape
<1>4. GoodItems(items')
    BY <1>1, <1>3, OptionsAre, NoItems DEF Shape
<1> QED
    BY <1>1, <1>2, <1>3, <1>4 DEF Shape, Phases

\* What a record adds to the batch.
NewlyRead == IF Head(items).ok
          THEN Without(Head(items).records, {i \in DOMAIN Head(items).records : ~Kept(Head(items).records[i])})
          ELSE <<>>

LEMMA ReadAdds ==
    ASSUME Shape, ReadRecord
    PROVE  /\ phase = "read" /\ items # <<>> /\ items' = Tail(items)
           /\ IsList(NewlyRead)
           /\ ToSet(NewlyRead) = IF Head(items).ok THEN {r \in ToSet(Head(items).records) : Kept(r)} ELSE {}
           /\ Len(NewlyRead) <= (IF Head(items).ok THEN Len(Head(items).records) ELSE 1)
           /\ records_per_detect' = records_per_detect \o NewlyRead
           /\ IsList(records_per_detect')
           /\ ToSet(records_per_detect') = ToSet(records_per_detect) \cup ToSet(NewlyRead)
           /\ opt' = opt /\ phase' = phase /\ rules' = rules /\ evtx_files' = evtx_files
<1> DEFINE rs == Head(items).records
           D == {i \in DOMAIN rs : ~Kept(rs[i])}
<1>1. /\ phase = "read" /\ items # <<>> /\ items' = Tail(items)
      /\ records_per_detect' = IF Head(items).ok THEN records_per_detect \o Without(rs, D)
                               ELSE records_per_detect
      /\ opt' = opt /\ phase' = phase /\ rules' = rules /\ evtx_files' = evtx_files
    BY DEF ReadRecord
<1>2. IsList(rs) /\ IsList(records_per_detect)
    BY <1>1, TailItems DEF Shape
<1>3. IsList(Without(rs, D)) /\ ToSet(Without(rs, D)) = {rs[i] : i \in DOMAIN rs \ D}
      /\ Len(Without(rs, D)) <= Len(rs)
    BY <1>2, WithoutRange
<1>4. {rs[i] : i \in DOMAIN rs \ D} = {r \in ToSet(rs) : Kept(r)}
    BY <1>2, ListFacts
<1>5. CASE Head(items).ok
  <2>1. NewlyRead = Without(rs, D)
      BY <1>5 DEF NewlyRead
  <2> HIDE DEF rs, D
  <2>2. records_per_detect' = records_per_detect \o NewlyRead
      BY <1>1, <1>5, <2>1
  <2>3. IsList(NewlyRead)
      BY <1>3, <2>1
  <2>4. IsList(records_per_detect')
        /\ ToSet(records_per_detect') = ToSet(records_per_detect) \cup ToSet(NewlyRead)
      BY <1>2, <2>2, <2>3, ListJoin
  <2>5. ToSet(NewlyRead) = {r \in ToSet(rs) : Kept(r)} /\ Len(NewlyRead) <= Len(rs)
      BY <1>3, <1>4, <2>1
  <2> QED
      BY <1>1, <1>5, <2>2, <2>3, <2>4, <2>5 DEF rs
<1>6. CASE ~Head(items).ok
  <2>1. NewlyRead = <<>> /\ Len(NewlyRead) = 0
      BY <1>6 DEF NewlyRead
  <2>2. records_per_detect' = records_per_detect
      BY <1>1, <1>6
  <2>3. records_per_detect \o <<>> = records_per_detect
      BY <1>2, ConcatEmptySeq DEF IsList
  <2> QED
      BY <1>1, <1>2, <1>6, <2>1, <2>2, <2>3, EmptyList
<1> QED
    BY <1>5, <1>6

LEMMA ShapeRead ==
    ASSUME Shape, ReadRecord
    PROVE  Shape'
<1>1. /\ phase = "read" /\ items # <<>> /\ items' = Tail(items)
      /\ IsList(records_per_detect')
      /\ opt' = opt /\ phase' = phase /\ rules' = rules /\ evtx_files' = evtx_files
    BY ReadAdds
<1>2. RulesKept' = RulesKept
    BY <1>1, SteadyKept
<1>3. GoodItems(items')
    BY <1>1, TailItems DEF Shape
<1> QED
    BY <1>1, <1>2, <1>3 DEF Shape, Phases

LEMMA EmptyBatch ==
    ASSUME Shape, BatchIsFull, records_per_detect = <<>>
    PROVE  items = <<>>
    BY OptionsAssumption DEF BatchIsFull, Shape

LEMMA ShapeStep ==
    ASSUME Shape, ScanNext
    PROVE  Shape' /\ opt' = opt /\ Options' = Options
<1>1. CASE ApplyChannelFilter
    BY <1>1, ShapeFilter DEF ApplyChannelFilter
<1>2. CASE OpenFile
    BY <1>2, ShapeOpen DEF OpenFile
<1>3. CASE ReadRecord
    BY <1>3, ShapeRead DEF ReadRecord
<1>4. CASE StartTasks
  <2>1. /\ phase = "read" /\ phase' = "tasks" /\ opt' = opt /\ rules' = rules
        /\ evtx_files' = evtx_files /\ items' = items /\ records_per_detect' = records_per_detect
      BY <1>4 DEF StartTasks, reading
  <2>2. RulesKept' = RulesKept
      BY <2>1, SteadyKept
  <2> QED
      BY <2>1, <2>2 DEF Shape, Phases
<1>5. CASE EndFile
  <2>1. /\ phase = "read" /\ phase' = "file" /\ opt' = opt /\ rules' = rules
        /\ evtx_files' = evtx_files /\ items' = items /\ records_per_detect' = records_per_detect
        /\ records_per_detect = <<>> /\ BatchIsFull
      BY <1>5 DEF EndFile, reading, tasks
  <2>2. RulesKept' = RulesKept /\ items = <<>>
      BY <2>1, SteadyKept, EmptyBatch
  <2> QED
      BY <2>1, <2>2 DEF Shape, Phases
<1>6. CASE Task
  <2>1. /\ phase = "tasks" /\ phase' = phase /\ opt' = opt /\ rules' = rules
        /\ evtx_files' = evtx_files /\ items' = items /\ records_per_detect' = records_per_detect
      BY <1>6 DEF Task, TaskStep, reading
  <2>2. RulesKept' = RulesKept
      BY <2>1, SteadyKept
  <2> QED
      BY <2>1, <2>2 DEF Shape, Phases
<1>7. CASE JoinTasks
  <2>1. /\ phase = "tasks" /\ phase' = "read" /\ opt' = opt /\ rules' = rules
        /\ evtx_files' = evtx_files /\ items' = items /\ records_per_detect' = <<>>
      BY <1>7 DEF JoinTasks, reading
  <2>2. RulesKept' = RulesKept
      BY <2>1, SteadyKept
  <2> QED
      BY <2>1, <2>2, EmptyList DEF Shape, Phases
<1>8. CASE Aggregate
  <2>1. /\ phase = "file" /\ phase' \in {"done", "output"} /\ opt' = opt /\ rules' = rules
        /\ evtx_files = <<>>
        /\ evtx_files' = evtx_files /\ items' = items /\ records_per_detect' = records_per_detect
      BY <1>8 DEF Aggregate, reading, tasks
  <2>2. RulesKept' = RulesKept
      BY <2>1, SteadyKept
  <2> QED
      BY <2>1, <2>2 DEF Shape, Phases
<1>9. CASE Output
  <2>1. /\ phase = "output" /\ phase' = "done" /\ opt' = opt /\ rules' = rules
        /\ evtx_files' = evtx_files /\ items' = items /\ records_per_detect' = records_per_detect
      BY <1>9 DEF Output, reading, tasks
  <2>2. RulesKept' = RulesKept
      BY <2>1, SteadyKept
  <2> QED
      BY <2>1, <2>2 DEF Shape, Phases
<1> QED
    BY <1>1, <1>2, <1>3, <1>4, <1>5, <1>6, <1>7, <1>8, <1>9 DEF ScanNext

-----------------------------------------------------------------------------
(* What is left to read, and what has been seen.                              *)

\* Records are at places of their own: in the batch, in what is left of the
\* file, and in the files not yet read.
ApartOf(fs, is, b) ==
    /\ \A i, j \in DOMAIN fs : i # j => Ats(fs[i].items) \cap Ats(fs[j].items) = {}
    /\ \A i \in DOMAIN fs : Ats(is) \cap Ats(fs[i].items) = {}
    /\ \A i, j \in DOMAIN b : b[i].at = b[j].at => i = j
    /\ \A r \in ToSet(b) :
        r.at \notin Ats(is) /\ \A i \in DOMAIN fs : r.at \notin Ats(fs[i].items)
Apart == ApartOf(evtx_files, items, records_per_detect)

LEMMA ApartInit == ScanInit => Apart
<1> SUFFICES ASSUME ScanInit PROVE Apart
    OBVIOUS
<1>1. opt \in Options /\ evtx_files = opt.files /\ items = <<>> /\ records_per_detect = <<>>
    BY DEF ScanInit
<1>2. Ats(<<>>) = {} /\ ToSet(<<>>) = {}
    BY EmptyList DEF Ats
<1> QED
    BY <1>1, <1>2, OptionsAre DEF Apart, ApartOf

LEMMA SameApart ==
    ASSUME Apart, evtx_files' = evtx_files, items' = items,
           records_per_detect' = records_per_detect \/ records_per_detect' = <<>>
    PROVE  Apart'
<1>1. CASE records_per_detect' = records_per_detect
    BY <1>1, Zenon DEF Apart, ApartOf
<1>2. CASE records_per_detect' = <<>>
  <2>1. ToSet(<<>>) = {}
      BY EmptyList
  <2> QED
      BY <1>2, <2>1 DEF Apart, ApartOf
<1> QED
    BY <1>1, <1>2

LEMMA ApartFilter ==
    ASSUME Shape, Apart, ApplyChannelFilter
    PROVE  Apart'
<1>1. /\ phase = "filter" /\ items' = items /\ records_per_detect' = records_per_detect
      /\ items = <<>> /\ records_per_detect = <<>>
    BY DEF ApplyChannelFilter, tasks, Shape
<1>2. CASE evtx_files' = evtx_files
    BY <1>1, <1>2, SameApart
<1>3. CASE \E D : evtx_files' = Without(evtx_files, D)
  <2> DEFINE t == evtx_files'
  <2>1. PICK D : t = Without(evtx_files, D)
      BY <1>3
  <2>2. IsList(evtx_files)
      BY DEF Shape
  <2>3. PICK p : Places(p, t, evtx_files, D, Len(evtx_files))
      BY <2>1, <2>2, WithoutPlaces
  <2>4. DOMAIN t = 1..Len(t) /\ DOMAIN evtx_files = 1..Len(evtx_files) /\ Len(t) \in Nat
      BY <2>1, <2>2, WithoutPlaces, ListFacts
  <2> HIDE DEF t
  <2>5. ASSUME NEW i \in DOMAIN t, NEW j \in DOMAIN t, i # j
        PROVE  Ats(t[i].items) \cap Ats(t[j].items) = {}
    <3>1. p[i] \in DOMAIN evtx_files /\ p[j] \in DOMAIN evtx_files
          /\ t[i] = evtx_files[p[i]] /\ t[j] = evtx_files[p[j]]
        BY <2>3, <2>4 DEF Places
    <3>2. i < j \/ j < i
        BY <2>4, <2>5
    <3>3. p[i] # p[j]
        BY <2>3, <2>4, <3>1, <3>2 DEF Places
    <3> QED
        BY <3>1, <3>3 DEF Apart, ApartOf
  <2>6. Ats(<<>>) = {} /\ ToSet(<<>>) = {}
      BY EmptyList DEF Ats
  <2> QED
      BY <1>1, <2>5, <2>6 DEF Apart, ApartOf, t
<1> QED
    BY <1>2, <1>3, FilterKeeps

LEMMA ApartOpen ==
    ASSUME Shape, Apart, OpenFile
    PROVE  Apart'
<1> DEFINE t == Tail(evtx_files)
<1>1. /\ phase = "file" /\ evtx_files # <<>> /\ evtx_files' = t
      /\ items' = Head(evtx_files).items \/ items' = <<>>
      /\ records_per_detect' = records_per_detect /\ records_per_detect = <<>>
    BY DEF OpenFile, tasks, Shape
<1>2. /\ Head(evtx_files) = evtx_files[1] /\ 1 \in DOMAIN evtx_files
      /\ \A i \in DOMAIN t : i + 1 \in DOMAIN evtx_files /\ t[i] = evtx_files[i + 1] /\ i \in Nat
      /\ DOMAIN t = 1..Len(t) /\ Len(t) \in Nat
    BY <1>1, ListTail, ListFacts DEF Shape
<1> HIDE DEF t
<1>3. ASSUME NEW i \in DOMAIN t, NEW j \in DOMAIN t, i # j
      PROVE  Ats(t[i].items) \cap Ats(t[j].items) = {}
  <2>1. i + 1 # j + 1
      BY <1>2, <1>3
  <2> QED
      BY <1>2, <2>1 DEF Apart, ApartOf
<1>4. ASSUME NEW i \in DOMAIN t PROVE Ats(items') \cap Ats(t[i].items) = {}
  <2>1. 1 # i + 1
      BY <1>2
  <2>2. Ats(<<>>) = {}
      BY DEF Ats
  <2> QED
      BY <1>1, <1>2, <2>1, <2>2 DEF Apart, ApartOf
<1>5. ToSet(<<>>) = {}
    BY EmptyList
<1> QED
    BY <1>1, <1>3, <1>4, <1>5 DEF Apart, ApartOf

LEMMA ApartRead ==
    ASSUME Shape, Apart, ReadRecord
    PROVE  Apart'
<1> DEFINE b == records_per_detect
           h == Head(items).records
<1>1. /\ items # <<>> /\ items' = Tail(items) /\ IsList(NewlyRead) /\ IsList(b)
      /\ ToSet(NewlyRead) \subseteq ToSet(h)
      /\ b' = b \o NewlyRead
      /\ ToSet(b') = ToSet(b) \cup ToSet(NewlyRead)
      /\ evtx_files' = evtx_files
    BY ReadAdds DEF Shape
<1>2. /\ IsList(h)
      /\ \A i, j \in DOMAIN h : h[i].at = h[j].at => i = j
      /\ \A r \in ToSet(h) : r.at \in Ats(items) /\ r.at \notin Ats(Tail(items))
      /\ Ats(Tail(items)) \subseteq Ats(items)
  <2>1. GoodItems(items)
      BY DEF Shape
  <2>2. /\ IsList(h) /\ \A i, j \in DOMAIN h : h[i].at = h[j].at => i = j
        /\ Ats(items) = {r.at : r \in ToSet(h)} \cup Ats(Tail(items))
        /\ {r.at : r \in ToSet(h)} \cap Ats(Tail(items)) = {}
      BY <1>1, <2>1, TailItems
  <2> HIDE DEF h
  <2>3. \A r \in ToSet(h) : r.at \in {s.at : s \in ToSet(h)}
      OBVIOUS
  <2> DEFINE H == {s.at : s \in ToSet(h)}
  <2> HIDE DEF H
  <2> QED
      BY <2>2, <2>3 DEF H
<1>3. \A i, j \in DOMAIN NewlyRead : NewlyRead[i].at = NewlyRead[j].at => i = j
  <2>1. CASE Head(items).ok
    <3> DEFINE D == {i \in DOMAIN h : ~Kept(h[i])}
    <3>1. NewlyRead = Without(h, D)
        BY <2>1 DEF NewlyRead
    <3> HIDE DEF D, h
    <3>2. PICK p : Places(p, NewlyRead, h, D, Len(h))
        BY <1>2, <3>1, WithoutPlaces
    <3>3. DOMAIN NewlyRead = 1..Len(NewlyRead) /\ DOMAIN h = 1..Len(h) /\ Len(NewlyRead) \in Nat /\ Len(h) \in Nat
        BY <1>1, <1>2, ListFacts
    <3> SUFFICES ASSUME NEW i \in DOMAIN NewlyRead, NEW j \in DOMAIN NewlyRead, NewlyRead[i].at = NewlyRead[j].at
                 PROVE  i = j
        OBVIOUS
    <3>4. NewlyRead[i] = h[p[i]] /\ NewlyRead[j] = h[p[j]] /\ p[i] \in DOMAIN h /\ p[j] \in DOMAIN h
        BY <3>2, <3>3 DEF Places
    <3>5. p[i] = p[j]
        BY <1>2, <3>4
    <3>6. ~(i < j) /\ ~(j < i)
        BY <3>2, <3>3, <3>4, <3>5 DEF Places
    <3> QED
        BY <3>3, <3>6
  <2>2. CASE ~Head(items).ok
      BY <2>2 DEF NewlyRead
  <2> QED
      BY <2>1, <2>2
<1> DEFINE A == NewlyRead
<1>4. /\ DOMAIN b = 1..Len(b) /\ DOMAIN A = 1..Len(A) /\ Len(b) \in Nat /\ Len(A) \in Nat
      /\ \A i \in DOMAIN b : b[i] \in ToSet(b)
      /\ \A i \in DOMAIN A : A[i] \in ToSet(A)
    BY <1>1, ListFacts
<1>5. /\ Len(b') = Len(b) + Len(A) /\ \A i \in 1..Len(b) : b'[i] = b[i]
      /\ \A i \in 1..Len(A) : b'[Len(b) + i] = A[i]
      /\ DOMAIN b' = 1..Len(b')
  <2> DEFINE T == ToSet(b) \cup ToSet(A)
  <2>1. b \in Seq(T) /\ A \in Seq(T)
      BY <1>1 DEF IsList
  <2> HIDE DEF T, A
  <2>2. /\ b \o A \in Seq(T) /\ Len(b \o A) = Len(b) + Len(A)
        /\ \A i \in 1..Len(b) : (b \o A)[i] = b[i]
        /\ \A i \in 1..Len(A) : (b \o A)[Len(b) + i] = A[i]
      BY <2>1, ConcatProperties
  <2>3. DOMAIN (b \o A) = 1..Len(b \o A)
      BY <2>2
  <2>4. b' = b \o A
      BY <1>1 DEF A
  <2> HIDE DEF b
  <2> QED
      BY <2>2, <2>3, <2>4
<1>6. /\ \A r \in ToSet(b) : r.at \notin Ats(items)
      /\ \A i, j \in DOMAIN b : b[i].at = b[j].at => i = j
    BY DEF Apart, ApartOf
<1>7. ASSUME NEW i \in DOMAIN b, NEW j \in DOMAIN A PROVE b[i].at # A[j].at
    BY <1>1, <1>2, <1>4, <1>6
<1>8. ASSUME NEW i \in DOMAIN b'
      PROVE  \/ i \in DOMAIN b /\ b'[i] = b[i]
             \/ i - Len(b) \in DOMAIN A /\ b'[i] = A[i - Len(b)]
  <2> HIDE DEF A, b
  <2>1. CASE i \in 1..Len(b)
      BY <1>4, <1>5, <2>1
  <2>2. CASE i \notin 1..Len(b)
    <3>1. i - Len(b) \in 1..Len(A) /\ Len(b) + (i - Len(b)) = i
        BY <1>4, <1>5, <2>2
    <3> QED
        BY <1>4, <1>5, <3>1
  <2> QED
      BY <2>1, <2>2
<1>9. ASSUME NEW i \in DOMAIN b', NEW j \in DOMAIN b', b'[i].at = b'[j].at PROVE i = j
  <2> HIDE DEF A, b
  <2>1. i \in Int /\ j \in Int
      BY <1>4, <1>5
  <2>2. CASE i \in DOMAIN b /\ b'[i] = b[i]
    <3>1. ~(j - Len(b) \in DOMAIN A /\ b'[j] = A[j - Len(b)])
        BY <1>7, <1>9, <2>2
    <3>2. j \in DOMAIN b /\ b'[j] = b[j]
        BY <1>8, <3>1
    <3> QED
        BY <1>6, <1>9, <2>2, <3>2
  <2>3. CASE i - Len(b) \in DOMAIN A /\ b'[i] = A[i - Len(b)]
    <3>1. ~(j \in DOMAIN b /\ b'[j] = b[j])
        BY <1>7, <1>9, <2>3
    <3>2. j - Len(b) \in DOMAIN A /\ b'[j] = A[j - Len(b)]
        BY <1>8, <3>1
    <3>3. i - Len(b) = j - Len(b)
        BY <1>3, <1>9, <2>3, <3>2 DEF A
    <3> QED
        BY <1>4, <2>1, <3>3
  <2> QED
      BY <1>8, <2>2, <2>3
<1>10. ASSUME NEW r \in ToSet(b')
       PROVE  r.at \notin Ats(items')
              /\ \A i \in DOMAIN evtx_files' : r.at \notin Ats(evtx_files'[i].items)
  <2>1. CASE r \in ToSet(b)
      BY <1>1, <1>2, <1>6, <2>1 DEF Apart, ApartOf
  <2>2. CASE r \in ToSet(NewlyRead)
      BY <1>1, <1>2, <2>2 DEF Apart, ApartOf
  <2> QED
      BY <1>1, <2>1, <2>2
<1>11. \A i \in DOMAIN evtx_files' : Ats(items') \cap Ats(evtx_files'[i].items) = {}
    BY <1>1, <1>2 DEF Apart, ApartOf
<1>12. \A i, j \in DOMAIN evtx_files' :
        i # j => Ats(evtx_files'[i].items) \cap Ats(evtx_files'[j].items) = {}
    BY <1>1 DEF Apart, ApartOf
<1> QED
    BY <1>9, <1>10, <1>11, <1>12, Zenon DEF Apart, ApartOf

LEMMA ApartStep ==
    ASSUME Shape, Apart, ScanNext
    PROVE  Apart'
<1>1. CASE ApplyChannelFilter
    BY <1>1, ApartFilter
<1>2. CASE OpenFile
    BY <1>2, ApartOpen
<1>3. CASE ReadRecord
    BY <1>3, ApartRead
<1>4. CASE StartTasks \/ EndFile \/ Task \/ JoinTasks \/ Aggregate \/ Output
  <2>1. /\ evtx_files' = evtx_files /\ items' = items
        /\ records_per_detect' = records_per_detect \/ records_per_detect' = <<>>
      BY <1>4 DEF StartTasks, EndFile, Task, TaskStep, JoinTasks, Aggregate, Output, reading, tasks
  <2> QED
      BY <2>1, SameApart
<1> QED
    BY <1>1, <1>2, <1>3, <1>4 DEF ScanNext

\* What has not been read, what waits for the tasks, and what is done with.
UnreadOf(fs, is) == RecordsIn(ToSet(fs)) \cup KeptOf(is)
Unread == UnreadOf(evtx_files, items)
Batch == ToSet(records_per_detect)
ReadSoFar == Scanned \ Unread
Seen == ReadSoFar \ Batch

Progress ==
    /\ phase # "filter" => Unread \subseteq Scanned
    /\ Batch \subseteq Scanned

LEMMA BatchApart ==
    ASSUME NEW fs, IsList(fs), NEW is, NEW b, ApartOf(fs, is, b)
    PROVE  ToSet(b) \cap UnreadOf(fs, is) = {}
<1> SUFFICES ASSUME NEW r \in ToSet(b), r \in UnreadOf(fs, is) PROVE FALSE
    OBVIOUS
<1>1. r.at \notin Ats(is) /\ \A i \in DOMAIN fs : r.at \notin Ats(fs[i].items)
    BY DEF ApartOf
<1>2. CASE r \in KeptOf(is)
    BY <1>1, <1>2, RecordsAts DEF KeptOf
<1>3. CASE r \in RecordsIn(ToSet(fs))
  <2>1. PICK f \in ToSet(fs) : r \in RecordsOf(f.items)
      BY <1>3, RecordsInHas
  <2>2. PICK i \in DOMAIN fs : fs[i] = f
      BY ListFacts
  <2> QED
      BY <1>1, <2>1, <2>2, RecordsAts
<1> QED
    BY <1>2, <1>3 DEF UnreadOf

LEMMA ScannedOpted == Scanned \subseteq RecordsIn(ToSet(opt.files))
<1> SUFFICES ASSUME NEW r \in Scanned PROVE r \in RecordsIn(ToSet(opt.files))
    OBVIOUS
<1>1. Kept(r) /\ \E f \in FilesKept : f.opens /\ r \in RecordsOf(f.items)
    BY RecordsInHas DEF Scanned
<1> QED
    BY <1>1, FilesKeptAre, RecordsInHas

LEMMA NothingKept == KeptOf(<<>>) = {}
    BY DEF KeptOf, RecordsOf

LEMMA RecordsInJoin ==
    ASSUME NEW f, NEW fs
    PROVE  RecordsIn({f} \cup fs) = (IF f.opens THEN KeptOf(f.items) ELSE {}) \cup RecordsIn(fs)
<1>1. ASSUME NEW r
      PROVE  r \in RecordsIn({f} \cup fs) <=>
             r \in (IF f.opens THEN KeptOf(f.items) ELSE {}) \cup RecordsIn(fs)
  <2>1. /\ r \in RecordsIn({f} \cup fs) <=>
             Kept(r) /\ \E g \in {f} \cup fs : g.opens /\ r \in RecordsOf(g.items)
        /\ r \in RecordsIn(fs) <=> Kept(r) /\ \E g \in fs : g.opens /\ r \in RecordsOf(g.items)
      BY RecordsInHas
  <2>2. r \in KeptOf(f.items) <=> Kept(r) /\ r \in RecordsOf(f.items)
      BY DEF KeptOf
  <2> QED
      BY <2>1, <2>2
<1> QED
    BY <1>1

LEMMA KeptSplit ==
    ASSUME NEW list, IsList(list), list # <<>>
    PROVE  KeptOf(list) =
            (IF Head(list).ok THEN {r \in ToSet(Head(list).records) : Kept(r)} ELSE {})
            \cup KeptOf(Tail(list))
<1>1. /\ Head(list) \in ToSet(list) /\ IsList(Tail(list))
      /\ ToSet(list) = {Head(list)} \cup ToSet(Tail(list))
    BY TailSet
<1>2. ASSUME NEW r, NEW l, IsList(l)
      PROVE  r \in KeptOf(l) <=> Kept(r) /\ \E it \in ToSet(l) : it.ok /\ r \in ToSet(it.records)
  <2>1. r \in KeptOf(l) <=> Kept(r) /\ \E i \in DOMAIN l : l[i].ok /\ r \in ToSet(l[i].records)
      BY RecordsHave DEF KeptOf
  <2>2. (\E i \in DOMAIN l : l[i].ok /\ r \in ToSet(l[i].records)) <=>
        \E it \in ToSet(l) : it.ok /\ r \in ToSet(it.records)
      BY <1>2, ListFacts
  <2> QED
      BY <2>1, <2>2
<1>3. ASSUME NEW r
      PROVE  r \in KeptOf(list) <=>
             r \in (IF Head(list).ok THEN {s \in ToSet(Head(list).records) : Kept(s)} ELSE {})
                   \cup KeptOf(Tail(list))
    BY <1>1, <1>2
<1> QED
    BY <1>3

LEMMA UnreadInit ==
    ASSUME ScanInit
    PROVE  Progress /\ ReadSoFar = {} /\ Batch = {}
<1>1. /\ phase = "filter" /\ evtx_files = opt.files /\ records_per_detect = <<>>
    BY DEF ScanInit
<1> QED
    BY <1>1, ScannedOpted, EmptyList DEF Progress, ReadSoFar, Unread, UnreadOf, Batch

LEMMA UnreadStep ==
    ASSUME Shape, Apart, Progress, ScanNext
    PROVE  /\ Progress' /\ Scanned' = Scanned
           /\ ReadRecord => /\ ReadSoFar' = ReadSoFar \cup ToSet(NewlyRead)
                            /\ Batch' = Batch \cup ToSet(NewlyRead)
                            /\ ToSet(NewlyRead) \cap ReadSoFar = {}
           /\ JoinTasks => ReadSoFar' = ReadSoFar /\ Batch' = {}
           /\ ReadRecord \/ JoinTasks \/ (ReadSoFar' = ReadSoFar /\ Batch' = Batch)
<1>1. Shape' /\ Apart' /\ opt' = opt
    BY ShapeStep, ApartStep
<1>2. /\ Scanned' = Scanned /\ FilesKept' = FilesKept
      /\ \A fs : RecordsIn(fs)' = RecordsIn(fs)
      /\ \A list : KeptOf(list)' = KeptOf(list)
    BY <1>1, SteadyKept
<1>3. Unread' = RecordsIn(ToSet(evtx_files')) \cup KeptOf(items')
    BY <1>2 DEF Unread, UnreadOf
<1>4. Unread = RecordsIn(ToSet(evtx_files)) \cup KeptOf(items)
    BY DEF Unread, UnreadOf
<1>5. CASE ApplyChannelFilter
  <2>1. /\ phase = "filter" /\ items' = items /\ items = <<>>
        /\ records_per_detect' = records_per_detect /\ records_per_detect = <<>>
        /\ evtx_files = opt.files
      BY <1>5 DEF ApplyChannelFilter, tasks, Shape
  <2>2. ToSet(evtx_files') = FilesKept
      BY <1>5, FilterKeeps
  <2>3. Unread' = Scanned /\ Batch' = {} /\ Batch = {}
      BY <1>3, <2>1, <2>2, NothingKept, EmptyList DEF Scanned, Batch
  <2>4. ReadSoFar = {}
      BY <1>4, <2>1, ScannedOpted DEF ReadSoFar
  <2>5. ReadSoFar' = {}
      BY <1>2, <2>3 DEF ReadSoFar
  <2>6. ~ReadRecord /\ ~JoinTasks
      BY <2>1 DEF ReadRecord, JoinTasks
  <2> QED
      BY <1>2, <2>3, <2>4, <2>5, <2>6 DEF Progress
<1>6. CASE OpenFile
  <2> DEFINE f == Head(evtx_files)
  <2>1. /\ phase = "file" /\ evtx_files # <<>> /\ evtx_files' = Tail(evtx_files)
        /\ items' = IF f.opens THEN f.items ELSE <<>>
        /\ records_per_detect' = records_per_detect /\ items = <<>>
      BY <1>6 DEF OpenFile, tasks, Shape
  <2>2. ToSet(evtx_files) = {f} \cup ToSet(Tail(evtx_files))
      BY <2>1, TailSet DEF Shape
  <2> HIDE DEF f
  <2>3. RecordsIn(ToSet(evtx_files)) =
            (IF f.opens THEN KeptOf(f.items) ELSE {}) \cup RecordsIn(ToSet(Tail(evtx_files)))
      BY <2>2, RecordsInJoin
  <2>4. Unread' = Unread
      BY <1>3, <1>4, <2>1, <2>3, NothingKept
  <2>5. Batch' = Batch /\ ReadSoFar' = ReadSoFar
      BY <1>2, <2>1, <2>4 DEF Batch, ReadSoFar
  <2>6. ~ReadRecord /\ ~JoinTasks
      BY <2>1 DEF ReadRecord, JoinTasks
  <2> QED
      BY <1>2, <2>1, <2>4, <2>5, <2>6 DEF Progress
<1>7. CASE ReadRecord
  <2> DEFINE A == ToSet(NewlyRead)
  <2>1. /\ phase = "read" /\ items # <<>> /\ items' = Tail(items)
        /\ A = IF Head(items).ok THEN {r \in ToSet(Head(items).records) : Kept(r)} ELSE {}
        /\ evtx_files' = evtx_files /\ Batch' = Batch \cup A
      BY <1>7, ReadAdds DEF Batch
  <2>2. KeptOf(items) = (IF Head(items).ok THEN {r \in ToSet(Head(items).records) : Kept(r)} ELSE {})
                        \cup KeptOf(Tail(items))
    <3>1. IsList(items)
        BY DEF Shape, GoodItems
    <3> QED
        BY <2>1, <3>1, KeptSplit
  <2> DEFINE K == IF Head(items).ok THEN {r \in ToSet(Head(items).records) : Kept(r)} ELSE {}
  <2> HIDE DEF K
  <2>3. A = K /\ KeptOf(items) = K \cup KeptOf(Tail(items))
      BY <2>1, <2>2 DEF K
  <2> HIDE DEF A
  <2>4. Unread = A \cup Unread'
      BY <1>3, <1>4, <2>1, <2>3
  <2>5. Batch' \cap Unread' = {}
    <3>1. IsList(evtx_files') /\ ApartOf(evtx_files', items', records_per_detect')
        BY <1>1 DEF Shape, Apart
    <3>2. ToSet(records_per_detect') \cap UnreadOf(evtx_files', items') = {}
        BY <3>1, BatchApart
    <3>3. Unread' = UnreadOf(evtx_files', items')
        BY <1>3 DEF UnreadOf
    <3> QED
        BY <3>2, <3>3 DEF Batch
  <2>6. Unread \subseteq Scanned /\ Batch \subseteq Scanned /\ phase' # "filter"
      BY <1>7, <2>1 DEF Progress, ReadRecord
  <2>7. Progress'
      BY <1>2, <2>1, <2>4, <2>6 DEF Progress
  <2>8. ReadSoFar' = ReadSoFar \cup A
    <3>1. ReadSoFar' = Scanned \ Unread'
        BY <1>2 DEF ReadSoFar
    <3> QED
        BY <2>1, <2>4, <2>5, <2>6, <3>1 DEF ReadSoFar
  <2>9. A \cap ReadSoFar = {}
      BY <2>4 DEF ReadSoFar
  <2>10. ~JoinTasks
      BY <2>1 DEF JoinTasks
  <2> QED
      BY <1>2, <1>7, <2>1, <2>7, <2>8, <2>9, <2>10 DEF A
<1>8. CASE JoinTasks
  <2>1. /\ evtx_files' = evtx_files /\ items' = items /\ records_per_detect' = <<>>
        /\ phase = "tasks" /\ phase' # "filter"
      BY <1>8 DEF JoinTasks, reading
  <2>2. Unread' = Unread /\ Batch' = {}
      BY <1>3, <1>4, <2>1, EmptyList DEF Batch
  <2>3. ReadSoFar' = ReadSoFar
      BY <1>2, <2>2 DEF ReadSoFar
  <2>4. ~ReadRecord
      BY <2>1 DEF ReadRecord
  <2> QED
      BY <1>2, <1>8, <2>1, <2>2, <2>3, <2>4 DEF Progress
<1>9. CASE StartTasks \/ EndFile \/ Task \/ Aggregate \/ Output
  <2>1. /\ evtx_files' = evtx_files /\ items' = items /\ records_per_detect' = records_per_detect
        /\ phase # "filter"
      BY <1>9 DEF StartTasks, EndFile, Task, TaskStep, Aggregate, Output, reading, tasks
  <2>2. Unread' = Unread /\ Batch' = Batch
      BY <1>3, <1>4, <2>1 DEF Batch
  <2>3. ReadSoFar' = ReadSoFar
      BY <1>2, <2>2 DEF ReadSoFar
  <2>4. ReadRecord => Batch' = Batch \cup ToSet(NewlyRead) /\ ReadSoFar' = ReadSoFar \cup ToSet(NewlyRead)
                      /\ ToSet(NewlyRead) \cap ReadSoFar = {}
    <3>1. ReadRecord => items' = Tail(items) /\ items # <<>>
        BY DEF ReadRecord
    <3>2. items # <<>> => Tail(items) # items
      <4>1. IsList(items)
          BY DEF Shape, GoodItems
      <4> QED
          BY <4>1, HeadTailProperties DEF IsList
    <3> QED
        BY <2>1, <3>1, <3>2
  <2>5. ~JoinTasks \/ Batch' = {}
      BY EmptyList DEF JoinTasks, Batch
  <2> QED
      BY <1>2, <2>1, <2>2, <2>3, <2>4, <2>5 DEF Progress
<1> QED
    BY <1>5, <1>6, <1>7, <1>8, <1>9 DEF ScanNext

-----------------------------------------------------------------------------
(* The tasks.                                                                 *)

LEMMA SeenStep ==
    ASSUME Shape, Apart, Progress, ScanNext
    PROVE  /\ JoinTasks => Seen' = Seen \cup Batch
           /\ ~JoinTasks => Seen' = Seen
           /\ Seen \subseteq Scanned /\ Seen \cap Batch = {}
<1>1. /\ ReadRecord => /\ ReadSoFar' = ReadSoFar \cup ToSet(NewlyRead)
                       /\ Batch' = Batch \cup ToSet(NewlyRead)
                       /\ ToSet(NewlyRead) \cap ReadSoFar = {}
      /\ JoinTasks => ReadSoFar' = ReadSoFar /\ Batch' = {}
      /\ ReadRecord \/ JoinTasks \/ (ReadSoFar' = ReadSoFar /\ Batch' = Batch)
    BY UnreadStep
<1>2. Seen' = ReadSoFar' \ Batch' /\ Seen = ReadSoFar \ Batch
    BY DEF Seen
<1>3. Batch \subseteq ReadSoFar
  <2>1. Batch \subseteq Scanned
      BY DEF Progress
  <2>2. Batch \cap Unread = {}
      BY BatchApart DEF Shape, Apart, Batch, Unread
  <2> QED
      BY <2>1, <2>2 DEF ReadSoFar
<1>4. ReadSoFar \subseteq Scanned
    BY DEF ReadSoFar
<1> DEFINE A == ToSet(NewlyRead)
<1> HIDE DEF A
<1>5. ReadRecord => /\ ReadSoFar' = ReadSoFar \cup A /\ Batch' = Batch \cup A
                    /\ A \cap ReadSoFar = {}
    BY <1>1 DEF A
<1> QED
    BY <1>1, <1>2, <1>3, <1>4, <1>5

\* The first of the records of a batch.
Passed(b, n) == {b[i] : i \in {j \in DOMAIN b : j < n}}

LEMMA PassedIs ==
    ASSUME NEW b, IsList(b), NEW n \in Nat \ {0}
    PROVE  /\ Passed(b, 1) = {}
           /\ n \in DOMAIN b => Passed(b, n + 1) = Passed(b, n) \cup {b[n]}
           /\ n > Len(b) => Passed(b, n) = ToSet(b)
           /\ Passed(b, n) \subseteq ToSet(b)
           /\ \A r \in Passed(b, n) : \E i \in DOMAIN b : i < n /\ b[i] = r
<1>1. DOMAIN b = 1..Len(b) /\ Len(b) \in Nat
    BY ListFacts
<1>2. Passed(b, 1) = {}
    BY <1>1 DEF Passed
<1>3. n \in DOMAIN b => Passed(b, n + 1) = Passed(b, n) \cup {b[n]}
  <2> SUFFICES ASSUME n \in DOMAIN b PROVE Passed(b, n + 1) = Passed(b, n) \cup {b[n]}
      OBVIOUS
  <2>1. {j \in DOMAIN b : j < n + 1} = {j \in DOMAIN b : j < n} \cup {n}
      BY <1>1
  <2> QED
      BY <2>1 DEF Passed
<1>4. n > Len(b) => Passed(b, n) = ToSet(b)
  <2> SUFFICES ASSUME n > Len(b) PROVE Passed(b, n) = ToSet(b)
      OBVIOUS
  <2>1. {j \in DOMAIN b : j < n} = DOMAIN b
      BY <1>1
  <2> QED
      BY <2>1 DEF Passed, ToSet
<1>5. Passed(b, n) \subseteq ToSet(b)
    BY DEF Passed, ToSet
<1>6. \A r \in Passed(b, n) : \E i \in DOMAIN b : i < n /\ b[i] = r
    BY DEF Passed
<1> QED
    BY <1>2, <1>3, <1>4, <1>5, <1>6

\* What the task of a rule finds in some records.
Searched(rule, S) == IF opt.action = "pivot" THEN {} ELSE Detections({rule}, S)

ListIs(f, S) == IsList(f) /\ Distinct(f) /\ ToSet(f) = S
CountIs(c, S) == IsList(c) /\ IsInjective(c) /\ ToSet(c) = S

\* The records that a rule has been through.
Been(rule) ==
    Seen \cup (IF phase = "tasks" THEN Passed(records_per_detect, position[rule.id]) ELSE {})

Tasks ==
    /\ DOMAIN position = Ids /\ DOMAIN found = Ids /\ DOMAIN countdata = Ids
    /\ phase = "tasks" => \A rule \in ToSet(rules) :
        /\ position[rule.id] \in Nat \ {0}
        /\ ListIs(found[rule.id], Searched(rule, Passed(records_per_detect, position[rule.id])))
    /\ \A rule \in ToSet(rules) :
        HasAgg(rule) => CountIs(countdata[rule.id], Hits(rule, Been(rule)))

LEMMA OneDetection ==
    ASSUME NEW rule, NEW r
    PROVE  Detections({rule}, {r}) = IF ~HasAgg(rule) /\ selects(rule, r)
                                     THEN {create_log_record(rule, r)} ELSE {}
<1>1. ASSUME NEW d
      PROVE  d \in Detections({rule}, {r}) <=>
             ~HasAgg(rule) /\ selects(rule, r) /\ d = create_log_record(rule, r)
    BY InDetections
<1> QED
    BY <1>1

LEMMA OneHit ==
    ASSUME NEW rule, NEW r
    PROVE  Hits(rule, {r}) = IF selects(rule, r) THEN {AggRecordTimeInfo(r)} ELSE {}
    BY DEF Hits

LEMMA AppendOther ==
    ASSUME NEW s, IsList(s), Distinct(s), NEW d, \A e \in ToSet(s) : Id(e) # Id(d)
    PROVE  IsList(Append(s, d)) /\ Distinct(Append(s, d)) /\ ToSet(Append(s, d)) = ToSet(s) \cup {d}
<1> DEFINE t == Append(s, d)
<1>1. /\ IsList(t) /\ ToSet(t) = ToSet(s) \cup {d}
      /\ Len(t) = Len(s) + 1 /\ t[Len(s) + 1] = d /\ \A i \in 1..Len(s) : t[i] = s[i]
    BY AppendIs, ListAppend
<1>2. DOMAIN t = 1..Len(t) /\ DOMAIN s = 1..Len(s) /\ Len(s) \in Nat
      /\ \A i \in DOMAIN s : s[i] \in ToSet(s)
    BY <1>1, ListFacts
<1> HIDE DEF t
<1>3. ASSUME NEW i \in DOMAIN t, NEW j \in DOMAIN t, Id(t[i]) = Id(t[j]) PROVE i = j
  <2>1. CASE i \in 1..Len(s) /\ j \in 1..Len(s)
      BY <1>1, <1>2, <1>3, <2>1 DEF Distinct
  <2>2. CASE i = Len(s) + 1 /\ j \in 1..Len(s)
      BY <1>1, <1>2, <1>3, <2>2
  <2>3. CASE j = Len(s) + 1 /\ i \in 1..Len(s)
      BY <1>1, <1>2, <1>3, <2>3
  <2> QED
      BY <1>1, <1>2, <2>1, <2>2, <2>3
<1> QED
    BY <1>1, <1>3 DEF t, Distinct

LEMMA AppendFresh ==
    ASSUME NEW s, IsList(s), IsInjective(s), NEW x, x \notin ToSet(s)
    PROVE  CountIs(Append(s, x), ToSet(s) \cup {x})
<1> DEFINE t == Append(s, x)
<1>1. /\ IsList(t) /\ ToSet(t) = ToSet(s) \cup {x}
      /\ Len(t) = Len(s) + 1 /\ t[Len(s) + 1] = x /\ \A i \in 1..Len(s) : t[i] = s[i]
    BY AppendIs, ListAppend
<1>2. DOMAIN t = 1..Len(t) /\ DOMAIN s = 1..Len(s) /\ Len(s) \in Nat
      /\ \A i \in DOMAIN s : s[i] \in ToSet(s)
    BY <1>1, ListFacts
<1> HIDE DEF t
<1>3. ASSUME NEW i \in DOMAIN t, NEW j \in DOMAIN t, t[i] = t[j] PROVE i = j
  <2>1. CASE i \in 1..Len(s) /\ j \in 1..Len(s)
      BY <1>1, <1>2, <1>3, <2>1 DEF IsInjective
  <2>2. CASE i = Len(s) + 1 /\ j \in 1..Len(s)
      BY <1>1, <1>2, <1>3, <2>2
  <2>3. CASE j = Len(s) + 1 /\ i \in 1..Len(s)
      BY <1>1, <1>2, <1>3, <2>3
  <2> QED
      BY <1>1, <1>2, <2>1, <2>2, <2>3
<1> QED
    BY <1>1, <1>3 DEF t, IsInjective, CountIs

LEMMA SearchedSteady ==
    ASSUME opt' = opt
    PROVE  Ids' = Ids /\ \A rule, S : Searched(rule, S)' = Searched(rule, S)
<1>1. Ids' = Ids
    BY DEF Ids
<1>2. \A R, S : Detections(R, S)' = Detections(R, S)
    BY SteadyPromise
<1>3. \A rule, S : Searched(rule, S)' = Searched(rule, S)
    BY <1>2 DEF Searched
<1> QED
    BY <1>1, <1>3

LEMMA SearchedGrows ==
    ASSUME NEW rule, NEW S, NEW r
    PROVE  /\ Searched(rule, {}) = {}
           /\ Searched(rule, S \cup {r}) =
                Searched(rule, S) \cup IF opt.action # "pivot" /\ ~HasAgg(rule) /\ selects(rule, r)
                                       THEN {create_log_record(rule, r)} ELSE {}
<1>1. /\ Detections({rule}, {}) = {}
      /\ Detections({rule}, S \cup {r}) = Detections({rule}, S) \cup Detections({rule}, {r})
    BY DetectionsGrow
<1> QED
    BY <1>1, OneDetection DEF Searched

\* The id of a rule that is kept is one of the scan.
LEMMA KeptId ==
    ASSUME Shape, NEW rule \in ToSet(rules)
    PROVE  rule.id \in Ids /\ rule \in ToSet(opt.rules)
<1>1. rule \in ToSet(opt.rules)
    BY DEF Shape
<1> QED
    BY <1>1 DEF Ids, ToSet

LEMMA OneRule ==
    ASSUME Shape, NEW rule \in ToSet(rules), NEW other \in ToSet(rules), rule.id = other.id
    PROVE  rule = other
    BY KeptId, RuleKnown DEF Shape

\* The record that a task takes is one that its rule has not been through.
LEMMA TaskFresh ==
    ASSUME Shape, Apart, Progress, ScanNext, NEW rule \in ToSet(rules), phase = "tasks",
           position[rule.id] \in Nat \ {0}, position[rule.id] \in DOMAIN records_per_detect
    PROVE  \A s \in Been(rule) : s.at # records_per_detect[position[rule.id]].at
<1> DEFINE b == records_per_detect
           n == position[rule.id]
<1>1. IsList(b) /\ n \in Nat \ {0} /\ n \in DOMAIN b /\ b[n] \in Batch
    BY ListFacts DEF Shape, Batch
<1>2. DOMAIN b = 1..Len(b) /\ Len(b) \in Nat
    BY <1>1, ListFacts
<1> SUFFICES ASSUME NEW s \in Been(rule), s.at = b[n].at PROVE FALSE
    OBVIOUS
<1>3. s \in Seen \/ s \in Passed(b, n)
    BY DEF Been
<1>4. CASE s \in Seen
  <2>1. Batch \subseteq Scanned /\ Seen \subseteq Scanned /\ Seen \cap Batch = {}
      BY SeenStep DEF Progress
  <2>2. opt \in Options /\ Scanned \subseteq Analysed
      BY ScannedAnalysed DEF Shape
  <2>3. s \in Analysed /\ b[n] \in Analysed
      BY <1>1, <1>4, <2>1, <2>2
  <2>4. s = b[n]
      BY <2>2, <2>3, AnalysedAre
  <2> QED
      BY <1>1, <1>4, <2>1, <2>4
<1>5. CASE s \in Passed(b, n)
  <2>1. PICK i \in DOMAIN b : i < n /\ b[i] = s
      BY <1>1, <1>5, PassedIs
  <2>2. \A j, k \in DOMAIN b : b[j].at = b[k].at => j = k
      BY DEF Apart, ApartOf
  <2>3. i = n
      BY <1>1, <2>1, <2>2
  <2> QED
      BY <1>1, <1>2, <2>1, <2>3
<1> QED
    BY <1>3, <1>4, <1>5

LEMMA TaskFinds ==
    ASSUME Shape, Apart, Progress, Tasks, ScanNext, NEW rule \in ToSet(rules), TaskStep(rule)
    PROVE  ListIs(found'[rule.id], Searched(rule, Passed(records_per_detect, position[rule.id] + 1)))
<1> DEFINE b == records_per_detect
           n == position[rule.id]
           r == b[n]
           f == found[rule.id]
           hit == opt.action # "pivot" /\ ~HasAgg(rule) /\ selects(rule, r)
<1>1. /\ phase = "tasks" /\ n <= Len(b) /\ n \in Nat \ {0} /\ IsList(b)
      /\ ListIs(f, Searched(rule, Passed(b, n))) /\ rule.id \in DOMAIN found
    BY KeptId DEF TaskStep, Tasks, Shape
<1>2. n \in DOMAIN b
    BY <1>1, ListFacts
<1>3. found' = IF hit THEN [found EXCEPT ![rule.id] = Append(@, create_log_record(rule, r))]
               ELSE found
    BY DEF TaskStep
<1>4. found'[rule.id] = IF hit THEN Append(f, create_log_record(rule, r)) ELSE f
    BY <1>1, <1>3
<1>5. Passed(b, n + 1) = Passed(b, n) \cup {r}
    BY <1>1, <1>2, PassedIs
<1>6. \A s \in Been(rule) : s.at # r.at
    BY <1>1, <1>2, TaskFresh
<1>7. Passed(b, n) \subseteq Been(rule)
    BY <1>1 DEF Been
<1> HIDE DEF b, n, r, f
<1>8. Searched(rule, Passed(b, n + 1)) =
        Searched(rule, Passed(b, n)) \cup IF hit THEN {create_log_record(rule, r)} ELSE {}
  <2>1. Searched(rule, Passed(b, n) \cup {r}) =
        Searched(rule, Passed(b, n)) \cup IF hit THEN {create_log_record(rule, r)} ELSE {}
      BY SearchedGrows
  <2> QED
      BY <1>5, <2>1
<1>9. ASSUME hit, NEW e \in ToSet(f) PROVE Id(e) # Id(create_log_record(rule, r))
  <2>1. e \in Detections({rule}, Passed(b, n))
      BY <1>1, <1>9 DEF ListIs, Searched
  <2>2. PICK s \in Passed(b, n) : e = create_log_record(rule, s)
      BY <2>1, InDetections
  <2>3. Id(e) = RecordKey(rule, s) /\ Id(create_log_record(rule, r)) = RecordKey(rule, r)
      BY <2>2, DetectionId
  <2>4. s.at # r.at
      BY <1>6, <1>7
  <2> QED
      BY <2>3, <2>4, RecordKeyIs
<1>10. CASE hit
  <2>1. IsList(f) /\ Distinct(f) /\ ToSet(f) = Searched(rule, Passed(b, n))
      BY <1>1 DEF ListIs
  <2> DEFINE d == create_log_record(rule, r)
             g == Append(f, d)
  <2>2. found'[rule.id] = g /\ Searched(rule, Passed(b, n + 1)) = ToSet(f) \cup {d}
      BY <1>4, <1>8, <1>10, <2>1
  <2>3. \A e \in ToSet(f) : Id(e) # Id(d)
      BY <1>9, <1>10
  <2> HIDE DEF d
  <2>4. IsList(g) /\ Distinct(g) /\ ToSet(g) = ToSet(f) \cup {d}
      BY <2>1, <2>3, AppendOther
  <2> HIDE DEF g, hit
  <2>5. ListIs(found'[rule.id], Searched(rule, Passed(b, n + 1)))
      BY <2>2, <2>4 DEF ListIs
  <2> QED
      BY <2>5 DEF b, n
<1>11. CASE ~hit
  <2>1. found'[rule.id] = f /\ Searched(rule, Passed(b, n + 1)) = Searched(rule, Passed(b, n))
      BY <1>4, <1>8, <1>11
  <2> HIDE DEF hit
  <2>2. ListIs(found'[rule.id], Searched(rule, Passed(b, n + 1)))
      BY <1>1, <2>1
  <2> QED
      BY <2>2 DEF b, n
<1> QED
    BY <1>10, <1>11

LEMMA TaskCounts ==
    ASSUME Shape, Apart, Progress, Tasks, ScanNext, NEW rule \in ToSet(rules), TaskStep(rule),
           HasAgg(rule)
    PROVE  CountIs(countdata'[rule.id],
                   Hits(rule, Been(rule) \cup {records_per_detect[position[rule.id]]}))
<1> DEFINE r == records_per_detect[position[rule.id]]
           c == countdata[rule.id]
           B == Been(rule)
<1>1. /\ phase = "tasks" /\ position[rule.id] <= Len(records_per_detect)
      /\ position[rule.id] \in Nat \ {0} /\ IsList(records_per_detect)
      /\ CountIs(c, Hits(rule, B)) /\ rule.id \in DOMAIN countdata
    BY KeptId DEF TaskStep, Tasks, Shape
<1>2. position[rule.id] \in DOMAIN records_per_detect
    BY <1>1, ListFacts
<1>3. countdata'[rule.id] = IF selects(rule, r) THEN Append(c, AggRecordTimeInfo(r)) ELSE c
    BY <1>1 DEF TaskStep
<1>4. \A s \in B : s.at # r.at
    BY <1>1, <1>2, TaskFresh
<1> HIDE DEF r, c, B
<1>5. Hits(rule, B \cup {r}) = Hits(rule, B) \cup Hits(rule, {r})
    BY HitsGrow
<1>6. IsList(c) /\ IsInjective(c) /\ ToSet(c) = Hits(rule, B)
    BY <1>1 DEF CountIs
<1>7. CASE selects(rule, r)
  <2> DEFINE x == AggRecordTimeInfo(r)
  <2>1. x.at = r.at
      BY DEF AggRecordTimeInfo
  <2> HIDE DEF x
  <2>2. x \notin ToSet(c)
      BY <1>4, <1>6, <2>1, HitsOf
  <2>3. CountIs(Append(c, x), ToSet(c) \cup {x})
      BY <1>6, <2>2, AppendFresh
  <2>4. Hits(rule, B \cup {r}) = ToSet(c) \cup {x} /\ countdata'[rule.id] = Append(c, x)
      BY <1>3, <1>5, <1>6, <1>7, OneHit DEF x
  <2>5. CountIs(countdata'[rule.id], Hits(rule, B \cup {r}))
      BY <2>3, <2>4
  <2> QED
      BY <2>5 DEF B, r
<1>8. CASE ~selects(rule, r)
  <2>1. Hits(rule, B \cup {r}) = Hits(rule, B) /\ countdata'[rule.id] = c
      BY <1>3, <1>5, <1>8, OneHit
  <2>2. CountIs(countdata'[rule.id], Hits(rule, B \cup {r}))
      BY <1>1, <2>1
  <2> QED
      BY <2>2 DEF B, r
<1> QED
    BY <1>7, <1>8

LEMMA NothingCounted ==
    ASSUME NEW rule
    PROVE  CountIs(<<>>, Hits(rule, {})) /\ ListIs(<<>>, {})
<1>1. Hits(rule, {}) = {}
    BY DEF Hits
<1> QED
    BY <1>1, EmptyList DEF CountIs, ListIs, IsInjective, Distinct

LEMMA TasksInit ==
    ASSUME ScanInit
    PROVE  Tasks
<1>1. /\ phase = "filter" /\ position = [id \in Ids |-> 1]
      /\ found = [id \in Ids |-> <<>>] /\ countdata = [id \in Ids |-> <<>>]
    BY DEF ScanInit
<1>2. Shape /\ Seen = {}
    BY ShapeInit, UnreadInit DEF Seen
<1>3. ASSUME NEW rule \in ToSet(rules) PROVE CountIs(countdata[rule.id], Hits(rule, Been(rule)))
  <2>1. Been(rule) = {}
      BY <1>1, <1>2 DEF Been
  <2>2. countdata[rule.id] = <<>>
      BY <1>1, <1>2, KeptId
  <2> QED
      BY <2>1, <2>2, NothingCounted
<1> QED
    BY <1>1, <1>3 DEF Tasks

LEMMA TasksOfTask ==
    ASSUME Shape, Apart, Progress, Tasks, ScanNext, Task
    PROVE  Tasks'
<1>1. PICK i \in DOMAIN rules : TaskStep(rules[i])
    BY DEF Task
<1> DEFINE rule == rules[i]
           b == records_per_detect
<1>2. rule \in ToSet(rules) /\ TaskStep(rule)
    BY <1>1, ListFacts DEF Shape
<1> HIDE DEF rule
<1>3. /\ phase = "tasks" /\ phase' = phase /\ opt' = opt /\ rules' = rules /\ b' = b
      /\ position' = [position EXCEPT ![rule.id] = @ + 1]
      /\ position[rule.id] \in Nat \ {0} /\ position[rule.id] <= Len(b)
      /\ IsList(b) /\ rule.id \in Ids
    BY <1>2, KeptId DEF TaskStep, Tasks, Shape
<1>4. /\ DOMAIN found' = DOMAIN found /\ DOMAIN countdata' = DOMAIN countdata
      /\ \A id \in Ids : id # rule.id => found'[id] = found[id] /\ countdata'[id] = countdata[id]
  <2>1. DOMAIN found = Ids /\ DOMAIN countdata = Ids
      BY DEF Tasks
  <2>2. /\ \/ found' = found
           \/ found' = [found EXCEPT ![rule.id] =
                            Append(@, create_log_record(rule, b[position[rule.id]]))]
        /\ countdata' = [countdata EXCEPT ![rule.id] =
                IF selects(rule, b[position[rule.id]]) /\ HasAgg(rule)
                THEN Append(@, AggRecordTimeInfo(b[position[rule.id]])) ELSE @]
      BY <1>2 DEF TaskStep
  <2> HIDE DEF b
  <2> QED
      BY <2>1, <2>2
<1>5. /\ Ids' = Ids /\ \A r, S : Searched(r, S)' = Searched(r, S)
    BY <1>3, SearchedSteady
<1>6. Seen' = Seen
  <2>1. ~JoinTasks
      BY <1>3 DEF JoinTasks
  <2> QED
      BY <2>1, SeenStep
<1>7. /\ DOMAIN position = Ids /\ DOMAIN position' = Ids
      /\ position'[rule.id] = position[rule.id] + 1
      /\ \A id \in Ids : id # rule.id => position'[id] = position[id]
    BY <1>3 DEF Tasks
<1>8. ASSUME NEW other \in ToSet(rules)
      PROVE  /\ position'[other.id] \in Nat \ {0}
             /\ ListIs(found'[other.id], Searched(other, Passed(b, position'[other.id])))
  <2>1. other.id \in Ids
      BY KeptId
  <2>2. CASE other = rule
      BY <1>2, <1>3, <1>7, <2>2, TaskFinds
  <2>3. CASE other # rule
    <3>1. other.id # rule.id
        BY <1>2, <2>3, OneRule
    <3> QED
        BY <1>3, <1>4, <1>7, <2>1, <3>1 DEF Tasks
  <2> QED
      BY <2>2, <2>3
<1>9. ASSUME NEW other \in ToSet(rules)
      PROVE  Been(other)' = Seen \cup Passed(b, position'[other.id])
    BY <1>3, <1>6 DEF Been
<1>10. ASSUME NEW other \in ToSet(rules)
      PROVE  Been(other) = Seen \cup Passed(b, position[other.id])
    BY <1>3 DEF Been
<1>11. ASSUME NEW other \in ToSet(rules), HasAgg(other)
       PROVE  CountIs(countdata'[other.id], Hits(other, Seen \cup Passed(b, position'[other.id])))
  <2>1. other.id \in Ids
      BY KeptId
  <2>2. CASE other = rule
    <3>1. CountIs(countdata'[rule.id], Hits(rule, Been(rule) \cup {b[position[rule.id]]}))
        BY <1>2, <1>11, <2>2, TaskCounts
    <3>2. position[rule.id] \in DOMAIN b
        BY <1>3, ListFacts
    <3>3. Passed(b, position[rule.id] + 1) = Passed(b, position[rule.id]) \cup {b[position[rule.id]]}
        BY <1>3, <3>2, PassedIs
    <3>4. Seen \cup Passed(b, position'[rule.id]) = Been(rule) \cup {b[position[rule.id]]}
        BY <1>2, <1>7, <1>10, <3>3
    <3> QED
        BY <2>2, <3>1, <3>4
  <2>3. CASE other # rule
    <3>1. other.id # rule.id
        BY <1>2, <2>3, OneRule
    <3>2. CountIs(countdata[other.id], Hits(other, Been(other)))
        BY <1>11 DEF Tasks
    <3> QED
        BY <1>4, <1>7, <1>10, <2>1, <3>1, <3>2
  <2> QED
      BY <2>2, <2>3
<1>12. DOMAIN found' = Ids' /\ DOMAIN countdata' = Ids' /\ DOMAIN position' = Ids'
    BY <1>4, <1>5, <1>7 DEF Tasks
<1>13. \A other \in ToSet(rules') :
        /\ position'[other.id] \in Nat \ {0}
        /\ ListIs(found'[other.id], Searched(other, Passed(records_per_detect, position[other.id]))')
    BY <1>3, <1>5, <1>8
<1>14. \A other \in ToSet(rules') :
        HasAgg(other) => CountIs(countdata'[other.id], Hits(other, Been(other)'))
    BY <1>3, <1>9, <1>11
<1> QED
    BY <1>12, <1>13, <1>14 DEF Tasks

LEMMA SameTasks ==
    ASSUME Shape, Tasks, opt' = opt, ToSet(rules') \subseteq ToSet(rules),
           position' = position, found' = found, countdata' = countdata,
           phase # "tasks", phase' # "tasks", Seen' = Seen
    PROVE  Tasks'
<1>1. Ids' = Ids
    BY SearchedSteady
<1>2. \A rule : Been(rule)' = Seen /\ Been(rule) = Seen
    BY DEF Been
<1> QED
    BY <1>1, <1>2 DEF Tasks

LEMMA TasksStep ==
    ASSUME Shape, Apart, Progress, Tasks, ScanNext
    PROVE  Tasks'
<1>1. CASE ApplyChannelFilter
  <2>1. /\ phase = "filter" /\ phase' = "file" /\ opt' = opt
        /\ position' = position /\ found' = found /\ countdata' = countdata
      BY <1>1 DEF ApplyChannelFilter, tasks
  <2>2. ToSet(rules') \subseteq ToSet(rules)
    <3>1. ToSet(rules') = RulesKept /\ rules = opt.rules
        BY <1>1, <2>1, FilterKeeps DEF Shape
    <3> QED
        BY <3>1, RulesKeptAre
  <2>3. Seen' = Seen
      BY <2>1, SeenStep DEF JoinTasks
  <2> QED
      BY <2>1, <2>2, <2>3, SameTasks
<1>2. CASE OpenFile \/ ReadRecord \/ EndFile \/ Aggregate \/ Output
  <2>1. /\ phase # "tasks" /\ phase' # "tasks" /\ opt' = opt /\ rules' = rules
        /\ position' = position /\ found' = found /\ countdata' = countdata
      BY <1>2 DEF OpenFile, ReadRecord, EndFile, Aggregate, Output, tasks
  <2>2. Seen' = Seen
      BY <2>1, SeenStep DEF JoinTasks
  <2> QED
      BY <2>1, <2>2, SameTasks
<1>3. CASE StartTasks
  <2>1. /\ phase = "read" /\ phase' = "tasks" /\ opt' = opt /\ rules' = rules
        /\ records_per_detect' = records_per_detect /\ countdata' = countdata
        /\ position' = [id \in Ids |-> 1] /\ found' = [id \in Ids |-> <<>>]
      BY <1>3 DEF StartTasks
  <2>2. Seen' = Seen /\ Ids' = Ids /\ \A r, S : Searched(r, S)' = Searched(r, S)
      BY <2>1, SeenStep, SearchedSteady DEF JoinTasks
  <2>3. Passed(records_per_detect, 1) = {}
      BY PassedIs DEF Shape
  <2>4. ASSUME NEW rule \in ToSet(rules)
        PROVE  /\ position'[rule.id] = 1 /\ found'[rule.id] = <<>>
               /\ Been(rule)' = Seen /\ Been(rule) = Seen
    <3>1. position'[rule.id] = 1 /\ found'[rule.id] = <<>>
        BY <2>1, KeptId
    <3> QED
        BY <2>1, <2>2, <2>3, <3>1 DEF Been
  <2>5. ASSUME NEW rule \in ToSet(rules)
        PROVE  ListIs(found'[rule.id], Searched(rule, Passed(records_per_detect, position[rule.id]))')
    <3>1. Passed(records_per_detect', position'[rule.id]) = {}
        BY <2>1, <2>3, <2>4
    <3>2. Searched(rule, {}) = {}
        BY SearchedGrows
    <3> QED
        BY <2>2, <2>4, <3>1, <3>2, NothingCounted
  <2>6. ASSUME NEW rule \in ToSet(rules), HasAgg(rule)
        PROVE  CountIs(countdata'[rule.id], Hits(rule, Been(rule)'))
      BY <2>1, <2>4, <2>6 DEF Tasks
  <2>7. DOMAIN position' = Ids' /\ DOMAIN found' = Ids' /\ DOMAIN countdata' = Ids'
      BY <2>1, <2>2 DEF Tasks
  <2>8. \A rule \in ToSet(rules') : position'[rule.id] \in Nat \ {0}
      BY <2>1, <2>4
  <2> QED
      BY <2>1, <2>5, <2>6, <2>7, <2>8 DEF Tasks
<1>4. CASE Task
    BY <1>4, TasksOfTask
<1>5. CASE JoinTasks
  <2>1. /\ phase = "tasks" /\ phase' = "read" /\ opt' = opt /\ rules' = rules
        /\ countdata' = countdata /\ position' = position /\ found' = found
        /\ \A i \in DOMAIN rules : position[rules[i].id] > Len(records_per_detect)
      BY <1>5 DEF JoinTasks
  <2>2. Seen' = Seen \cup Batch /\ Ids' = Ids
      BY <1>5, <2>1, SeenStep, SearchedSteady
  <2>3. ASSUME NEW rule \in ToSet(rules) PROVE Been(rule)' = Been(rule)
    <3>1. PICK i \in DOMAIN rules : rules[i] = rule
        BY ListFacts DEF Shape
    <3>2. Passed(records_per_detect, position[rule.id]) = Batch
        BY <2>1, <3>1, PassedIs DEF Tasks, Shape, Batch
    <3> QED
        BY <2>1, <2>2, <3>2 DEF Been
  <2> QED
      BY <2>1, <2>2, <2>3 DEF Tasks
<1> QED
    BY <1>1, <1>2, <1>3, <1>4, <1>5 DEF ScanNext

-----------------------------------------------------------------------------
(* What the tasks of a batch, and the rules that count, hand over.            *)

LEMMA RuleLogs ==
    ASSUME NEW rs, IsList(rs), OneEach(rs), NEW P, P = [i \in DOMAIN rs |-> P[i]],
           \A i \in DOMAIN rs : /\ IsList(P[i]) /\ Distinct(P[i])
                                /\ \A d \in ToSet(P[i]) : Id(d)[1] = rs[i].id
    PROVE  /\ IsList(FlattenSeq(P)) /\ Distinct(FlattenSeq(P))
           /\ ToSet(FlattenSeq(P)) = UNION {ToSet(P[i]) : i \in DOMAIN rs}
<1>1. DOMAIN rs = 1..Len(rs) /\ Len(rs) \in Nat
    BY ListFacts
<1>2. FlattenSeq(P) = Flat(P, Len(rs))
    BY <1>1 DEF Flat
<1>3. \A i, j \in 1..Len(rs) : i # j => IdsOf(ToSet(P[i])) \cap IdsOf(ToSet(P[j])) = {}
  <2> SUFFICES ASSUME NEW i \in DOMAIN rs, NEW j \in DOMAIN rs, i # j,
                      NEW d \in ToSet(P[i]), NEW e \in ToSet(P[j]), Id(d) = Id(e)
               PROVE  FALSE
      BY <1>1 DEF IdsOf
  <2>1. rs[i].id = rs[j].id
      BY Zenon
  <2> QED
      BY <2>1 DEF OneEach
<1>4. \A i \in 1..Len(rs) : IsList(P[i]) /\ Distinct(P[i])
    BY <1>1
<1>5. IsList(Flat(P, Len(rs))) /\ ToSet(Flat(P, Len(rs))) = UNION {ToSet(P[i]) : i \in 1..Len(rs)}
    BY <1>1, <1>4, FlatRange
<1>6. Distinct(Flat(P, Len(rs)))
    BY <1>1, <1>3, <1>4, FlatDistinct
<1> QED
    BY <1>1, <1>2, <1>5, <1>6

\* What some rules find in some records.
Gathered(R, S) == IF opt.action = "pivot" THEN {} ELSE Detections(R, S)

LEMMA GatheredIs ==
    ASSUME NEW R, NEW S, NEW T
    PROVE  /\ Gathered(R, {}) = {}
           /\ Gathered(R, S \cup T) = Gathered(R, S) \cup Gathered(R, T)
           /\ Gathered(R, S) = UNION {Searched(rule, S) : rule \in R}
<1>1. Gathered(R, {}) = {} /\ Gathered(R, S \cup T) = Gathered(R, S) \cup Gathered(R, T)
    BY DetectionsGrow DEF Gathered
<1>2. CASE opt.action = "pivot"
    BY <1>1, <1>2 DEF Gathered, Searched
<1>3. CASE opt.action # "pivot"
  <2>1. Gathered(R, S) = Detections(R, S) /\ \A rule : Searched(rule, S) = Detections({rule}, S)
      BY <1>3 DEF Gathered, Searched
  <2>2. Detections(R, S) = UNION {Detections({rule}, S) : rule \in R}
      BY DetectionsOfRules
  <2> QED
      BY <1>1, <2>1, <2>2
<1> QED
    BY <1>2, <1>3

LEMMA GatheredIds ==
    ASSUME NEW R, NEW S, NEW d \in Gathered(R, S)
    PROVE  /\ opt.action # "pivot"
           /\ \E rule \in R, r \in S : /\ ~HasAgg(rule) /\ selects(rule, r)
                                       /\ d = create_log_record(rule, r) /\ Id(d)[1] = rule.id
<1>1. opt.action # "pivot" /\ d \in Detections(R, S)
    BY DEF Gathered
<1>2. PICK rule \in R, r \in S : ~HasAgg(rule) /\ selects(rule, r) /\ d = create_log_record(rule, r)
    BY <1>1, InDetections
<1>3. Id(d)[1] = rule.id
    BY <1>2, DetectionId, RecordKeyFirst
<1> QED
    BY <1>1, <1>2, <1>3

LEMMA GatheredApart ==
    ASSUME opt \in Options, NEW R, R \subseteq ToSet(opt.rules), NEW S, S \subseteq Analysed,
           NEW T, T \subseteq Analysed, S \cap T = {}
    PROVE  IdsOf(Gathered(R, S)) \cap IdsOf(Gathered(R, T)) = {}
<1> SUFFICES ASSUME NEW d \in Gathered(R, S), NEW e \in Gathered(R, T), Id(d) = Id(e) PROVE FALSE
    BY DEF IdsOf
<1>1. PICK rule \in R, r \in S : d = create_log_record(rule, r)
    BY GatheredIds
<1>2. PICK other \in R, s \in T : e = create_log_record(other, s)
    BY GatheredIds
<1>3. r = s
    BY <1>1, <1>2, DetectionKnown
<1> QED
    BY <1>3

Judged == UNION {ToSet(judged(rule, countdata[rule.id])) : rule \in ToSet(rules)}

LEMMA InJudged ==
    ASSUME NEW d
    PROVE  d \in Judged <=> \E rule \in ToSet(rules) : Judgement(d, rule, countdata[rule.id])
<1>1. d \in Judged <=> \E rule \in ToSet(rules) : d \in ToSet(judged(rule, countdata[rule.id]))
    BY Zenon DEF Judged
<1> QED
    BY <1>1, JudgedIs

LEMMA JudgedApart ==
    ASSUME Shape, NEW S
    PROVE  IdsOf(Gathered(ToSet(rules), S)) \cap IdsOf(Judged) = {}
<1> SUFFICES ASSUME NEW d \in Gathered(ToSet(rules), S), NEW e \in Judged, Id(d) = Id(e) PROVE FALSE
    BY DEF IdsOf
<1>1. PICK rule \in ToSet(rules) : ~HasAgg(rule) /\ Id(d)[1] = rule.id
    BY GatheredIds
<1>2. PICK other \in ToSet(rules) : Judgement(e, other, countdata[other.id])
    BY InJudged
<1>3. HasAgg(other)
    BY <1>2 DEF Judgement
<1>4. Id(e)[1] = other.id
    BY <1>2, JudgementId
<1> QED
    BY <1>1, <1>3, <1>4, OneRule

LEMMA FoundLog ==
    ASSUME Shape, Tasks, phase = "tasks",
           \A i \in DOMAIN rules : position[rules[i].id] > Len(records_per_detect),
           NEW log, log = FlattenSeq([i \in DOMAIN rules |-> found[rules[i].id]])
    PROVE  IsList(log) /\ Distinct(log) /\ ToSet(log) = Gathered(ToSet(rules), Batch)
<1> DEFINE P == [i \in DOMAIN rules |-> found[rules[i].id]]
<1>1. IsList(rules) /\ OneEach(rules) /\ IsList(records_per_detect)
    BY DEF Shape
<1>2. ASSUME NEW i \in DOMAIN rules
      PROVE  ListIs(P[i], Searched(rules[i], Batch))
  <2>1. rules[i] \in ToSet(rules)
      BY <1>1, ListFacts
  <2>2. Passed(records_per_detect, position[rules[i].id]) = Batch
      BY <1>1, <2>1, PassedIs DEF Tasks, Batch
  <2> QED
      BY <2>1, <2>2 DEF Tasks
<1>3. P = [i \in DOMAIN rules |-> P[i]] /\ log = FlattenSeq(P)
    OBVIOUS
<1> HIDE DEF P
<1>4. ASSUME NEW i \in DOMAIN rules
      PROVE  IsList(P[i]) /\ Distinct(P[i]) /\ \A d \in ToSet(P[i]) : Id(d)[1] = rules[i].id
  <2>1. IsList(P[i]) /\ Distinct(P[i]) /\ ToSet(P[i]) = Searched(rules[i], Batch)
      BY <1>2 DEF ListIs
  <2>2. \A d \in Searched(rules[i], Batch) : d \in Gathered({rules[i]}, Batch)
      BY DEF Gathered, Searched
  <2>3. \A d \in Gathered({rules[i]}, Batch) : Id(d)[1] = rules[i].id
      BY GatheredIds
  <2> QED
      BY <2>1, <2>2, <2>3
<1>5. IsList(log) /\ Distinct(log) /\ ToSet(log) = UNION {ToSet(P[i]) : i \in DOMAIN rules}
  <2>1. /\ IsList(FlattenSeq(P)) /\ Distinct(FlattenSeq(P))
        /\ ToSet(FlattenSeq(P)) = UNION {ToSet(P[i]) : i \in DOMAIN rules}
      BY <1>1, <1>3, <1>4, RuleLogs, Zenon
  <2> QED
      BY <1>3, <2>1, Zenon
<1>6. \A i \in DOMAIN rules : ToSet(P[i]) = Searched(rules[i], Batch)
    BY <1>2 DEF ListIs
<1>7. UNION {ToSet(P[i]) : i \in DOMAIN rules} = UNION {Searched(rule, Batch) : rule \in ToSet(rules)}
  <2>1. ASSUME NEW d
        PROVE  d \in UNION {ToSet(P[i]) : i \in DOMAIN rules} <=>
               \E i \in DOMAIN rules : d \in Searched(rules[i], Batch)
      BY <1>6
  <2>2. ASSUME NEW d
        PROVE  d \in UNION {Searched(rule, Batch) : rule \in ToSet(rules)} <=>
               \E i \in DOMAIN rules : d \in Searched(rules[i], Batch)
      BY <1>1, ListFacts
  <2> QED
      BY <2>1, <2>2
<1> QED
    BY <1>5, <1>7, GatheredIs

LEMMA JudgedLog ==
    ASSUME Shape, NEW log,
           log = FlattenSeq([i \in DOMAIN rules |-> judged(rules[i], countdata[rules[i].id])])
    PROVE  IsList(log) /\ Distinct(log) /\ ToSet(log) = Judged
<1> DEFINE P == [i \in DOMAIN rules |-> judged(rules[i], countdata[rules[i].id])]
<1>1. IsList(rules) /\ OneEach(rules)
    BY DEF Shape
<1>2. \A i \in DOMAIN rules : P[i] = judged(rules[i], countdata[rules[i].id])
    OBVIOUS
<1>3. P = [i \in DOMAIN rules |-> P[i]] /\ log = FlattenSeq(P)
    OBVIOUS
<1> HIDE DEF P
<1>4. ASSUME NEW i \in DOMAIN rules
      PROVE  IsList(P[i]) /\ Distinct(P[i]) /\ \A d \in ToSet(P[i]) : Id(d)[1] = rules[i].id
    BY <1>2, JudgedIs, JudgementId
<1>5. IsList(log) /\ Distinct(log) /\ ToSet(log) = UNION {ToSet(P[i]) : i \in DOMAIN rules}
  <2>1. /\ IsList(FlattenSeq(P)) /\ Distinct(FlattenSeq(P))
        /\ ToSet(FlattenSeq(P)) = UNION {ToSet(P[i]) : i \in DOMAIN rules}
      BY <1>1, <1>3, <1>4, RuleLogs, Zenon
  <2> QED
      BY <1>3, <2>1, Zenon
<1>6. UNION {ToSet(P[i]) : i \in DOMAIN rules} = Judged
  <2>1. ASSUME NEW d
        PROVE  d \in UNION {ToSet(P[i]) : i \in DOMAIN rules} <=>
               \E i \in DOMAIN rules : d \in ToSet(judged(rules[i], countdata[rules[i].id]))
      BY <1>2
  <2>2. ASSUME NEW d
        PROVE  d \in Judged <=>
               \E i \in DOMAIN rules : d \in ToSet(judged(rules[i], countdata[rules[i].id]))
    <3>1. d \in Judged <=> \E rule \in ToSet(rules) : d \in ToSet(judged(rule, countdata[rule.id]))
        BY Zenon DEF Judged
    <3> QED
        BY <1>1, <3>1, ListFacts
  <2> QED
      BY <2>1, <2>2
<1> QED
    BY <1>5, <1>6

-----------------------------------------------------------------------------
(* The report.                                                                *)

\* What the report has, or waits to be put into it.
Collected ==
    Gathered(ToSet(rules), Seen)
    \cup IF phase \in {"output", "done"} /\ opt.action # "pivot" THEN Judged ELSE {}

LEMMA GatheredSteady ==
    ASSUME opt' = opt
    PROVE  /\ \A R, S : Gathered(R, S)' = Gathered(R, S)
           /\ ToSet(rules') = ToSet(rules) /\ countdata' = countdata => Judged' = Judged
<1>1. \A R, S : Gathered(R, S)' = Gathered(R, S)
  <2>1. \A R, S : Detections(R, S)' = Detections(R, S)
      BY SteadyPromise
  <2> QED
      BY <2>1 DEF Gathered
<1>2. \A rule, s : judged(rule, s)' = judged(rule, s)
    BY SteadyResults
<1>3. ASSUME ToSet(rules') = ToSet(rules), countdata' = countdata PROVE Judged' = Judged
  <2>1. Judged' = UNION {judgedSet : judgedSet \in
                            {ToSet(judged(rule, countdata[rule.id])') : rule \in ToSet(rules')}}
      BY DEF Judged
  <2>2. \A rule : ToSet(judged(rule, countdata[rule.id])') = ToSet(judged(rule, countdata[rule.id]))
      BY <1>2, <1>3
  <2> QED
      BY <1>3, <2>1, <2>2 DEF Judged
<1> QED
    BY <1>1, <1>3

LEMMA FilterSeen ==
    ASSUME Shape, phase = "filter"
    PROVE  Seen = {}
<1>1. Unread = RecordsIn(ToSet(opt.files)) \cup KeptOf(items)
    BY DEF Shape, Unread, UnreadOf
<1> QED
    BY <1>1, ScannedOpted DEF Seen, ReadSoFar

LEMMA CollectedStep ==
    ASSUME Shape, Apart, Progress, ScanNext
    PROVE  /\ JoinTasks => /\ Collected' = Collected \cup Gathered(ToSet(rules), Batch)
                           /\ IdsOf(Collected) \cap IdsOf(Gathered(ToSet(rules), Batch)) = {}
           /\ Aggregate /\ opt.action # "pivot" =>
                /\ Collected' = Collected \cup Judged
                /\ IdsOf(Collected) \cap IdsOf(Judged) = {}
           /\ ~JoinTasks /\ ~(Aggregate /\ opt.action # "pivot") => Collected' = Collected
<1>1. opt' = opt /\ opt \in Options
    BY ShapeStep DEF Shape
<1>2. /\ \A R, S : Gathered(R, S)' = Gathered(R, S)
      /\ ToSet(rules') = ToSet(rules) /\ countdata' = countdata => Judged' = Judged
    BY <1>1, GatheredSteady
<1>3. Collected' = Gathered(ToSet(rules'), Seen')
                   \cup IF phase' \in {"output", "done"} /\ opt.action # "pivot" THEN Judged' ELSE {}
    BY <1>1, <1>2 DEF Collected
<1>4. /\ JoinTasks => Seen' = Seen \cup Batch
      /\ ~JoinTasks => Seen' = Seen
      /\ Seen \subseteq Scanned /\ Seen \cap Batch = {}
    BY SeenStep
<1>5. Seen \subseteq Analysed /\ Batch \subseteq Analysed /\ ToSet(rules) \subseteq ToSet(opt.rules)
    BY <1>4, ScannedAnalysed DEF Progress, Shape
<1>6. CASE ApplyChannelFilter
  <2>1. phase = "filter" /\ phase' = "file" /\ ~JoinTasks /\ ~Aggregate
      BY <1>6 DEF ApplyChannelFilter, JoinTasks, Aggregate
  <2>2. Seen = {} /\ Seen' = {}
      BY <1>4, <2>1, FilterSeen
  <2>3. Gathered(ToSet(rules'), {}) = {} /\ Gathered(ToSet(rules), {}) = {}
      BY GatheredIs
  <2> QED
      BY <1>3, <2>1, <2>2, <2>3 DEF Collected
<1>7. CASE OpenFile \/ ReadRecord \/ StartTasks \/ EndFile \/ Task
  <2>1. /\ rules' = rules /\ phase \notin {"output", "done"} /\ phase' \notin {"output", "done"}
        /\ ~JoinTasks /\ ~Aggregate
    <3>1. CASE OpenFile
        BY <3>1 DEF OpenFile, JoinTasks, Aggregate
    <3>2. CASE ReadRecord \/ StartTasks \/ EndFile
        BY <3>2 DEF ReadRecord, StartTasks, EndFile, JoinTasks, Aggregate
    <3>3. CASE Task
      <4>1. /\ phase = "tasks" /\ phase' = "tasks" /\ rules' = rules
            /\ records_per_detect' = records_per_detect
          BY <3>3 DEF Task, TaskStep
      <4> QED
          BY <4>1 DEF JoinTasks, Aggregate
    <3> QED
        BY <1>7, <3>1, <3>2, <3>3
  <2> QED
      BY <1>3, <1>4, <2>1 DEF Collected
<1>8. CASE JoinTasks
  <2>1. /\ rules' = rules /\ phase = "tasks" /\ phase' = "read" /\ ~Aggregate
      BY <1>8 DEF JoinTasks, Aggregate
  <2>2. Collected = Gathered(ToSet(rules), Seen)
      BY <2>1 DEF Collected
  <2>3. Gathered(ToSet(rules), Seen \cup Batch) =
            Gathered(ToSet(rules), Seen) \cup Gathered(ToSet(rules), Batch)
      BY GatheredIs
  <2>4. IdsOf(Gathered(ToSet(rules), Seen)) \cap IdsOf(Gathered(ToSet(rules), Batch)) = {}
      BY <1>1, <1>4, <1>5, GatheredApart
  <2> QED
      BY <1>3, <1>4, <1>8, <2>1, <2>2, <2>3, <2>4
<1>9. CASE Aggregate
  <2>1. /\ rules' = rules /\ countdata' = countdata /\ phase = "file"
        /\ opt.action # "pivot" => phase' = "output"
        /\ ~JoinTasks
      BY <1>9 DEF Aggregate, JoinTasks, tasks
  <2>2. Collected = Gathered(ToSet(rules), Seen) /\ Judged' = Judged
      BY <1>2, <2>1 DEF Collected
  <2>3. IdsOf(Gathered(ToSet(rules), Seen)) \cap IdsOf(Judged) = {}
      BY JudgedApart
  <2> QED
      BY <1>3, <1>4, <1>9, <2>1, <2>2, <2>3
<1>10. CASE Output
  <2>1. /\ rules' = rules /\ countdata' = countdata /\ phase = "output" /\ phase' = "done"
        /\ ~JoinTasks /\ ~Aggregate
      BY <1>10 DEF Output, Aggregate, JoinTasks, tasks
  <2>2. Judged' = Judged
      BY <1>2, <2>1
  <2> QED
      BY <1>3, <1>4, <2>1, <2>2 DEF Collected
<1> QED
    BY <1>6, <1>7, <1>8, <1>9, <1>10 DEF ScanNext

\* The rows are of these detections, one for each.
RowsAre(rows, S) ==
    /\ IsList(rows) /\ OneEach(rows)
    /\ {rows[i].id : i \in DOMAIN rows} = S

LEMMA RowsExtended ==
    ASSUME NEW a, NEW S, RowsAre(a.rows, S), NEW t, IsList(t), Distinct(t), NEW b,
           Extended(b, a, t, Len(t)), S \cap IdsOf(ToSet(t)) = {}
    PROVE  RowsAre(b.rows, S \cup IdsOf(ToSet(t)))
<1> DEFINE u == b.rows
           r == a.rows
           m == Len(a.rows)
<1>1. /\ IsList(u) /\ Len(u) = m + Len(t)
      /\ \A i \in 1..m : u[i] = r[i]
      /\ \A i \in 1..Len(t) : u[m + i].id = Id(t[i])
      /\ IsList(r) /\ OneEach(r) /\ {r[i].id : i \in DOMAIN r} = S
    BY DEF Extended, RowsAre
<1>2. /\ DOMAIN u = 1..(m + Len(t)) /\ DOMAIN r = 1..m /\ DOMAIN t = 1..Len(t)
      /\ m \in Nat /\ Len(t) \in Nat
      /\ \A i \in DOMAIN t : t[i] \in ToSet(t)
      /\ \A d \in ToSet(t) : \E i \in DOMAIN t : t[i] = d
    BY <1>1, ListFacts
<1>3. /\ \A i \in 1..m : r[i].id \in S
      /\ \A x \in S : \E i \in 1..m : r[i].id = x
    BY <1>1, <1>2
<1>4. /\ \A i \in 1..Len(t) : Id(t[i]) \in IdsOf(ToSet(t))
      /\ \A x \in IdsOf(ToSet(t)) : \E i \in 1..Len(t) : Id(t[i]) = x
    BY <1>2 DEF IdsOf
<1> HIDE DEF u, r, m
<1>5. ASSUME NEW i \in DOMAIN u
      PROVE  \/ i \in 1..m /\ u[i].id = r[i].id /\ u[i].id \in S
             \/ /\ i - m \in 1..Len(t) /\ u[i].id = Id(t[i - m])
                /\ u[i].id \in IdsOf(ToSet(t))
  <2>1. CASE i \in 1..m
      BY <1>1, <1>3, <2>1
  <2>2. CASE i \notin 1..m
    <3>1. i - m \in 1..Len(t) /\ m + (i - m) = i
        BY <1>2, <2>2
    <3> QED
        BY <1>1, <1>4, <3>1
  <2> QED
      BY <2>1, <2>2
<1>6. ASSUME NEW i \in DOMAIN u, NEW j \in DOMAIN u, u[i].id = u[j].id PROVE i = j
  <2>1. i \in Int /\ j \in Int
      BY <1>2
  <2>2. CASE i \in 1..m /\ u[i].id = r[i].id /\ u[i].id \in S
    <3>1. j \in 1..m /\ u[j].id = r[j].id
        BY <1>5, <1>6, <2>2
    <3> QED
        BY <1>1, <1>2, <1>6, <2>2, <3>1 DEF OneEach
  <2>3. CASE i - m \in 1..Len(t) /\ u[i].id = Id(t[i - m]) /\ u[i].id \in IdsOf(ToSet(t))
    <3>1. j - m \in 1..Len(t) /\ u[j].id = Id(t[j - m])
        BY <1>5, <1>6, <2>3
    <3>2. i - m = j - m
        BY <1>2, <1>6, <2>3, <3>1 DEF Distinct
    <3> QED
        BY <1>2, <2>1, <3>2
  <2> QED
      BY <1>5, <1>6, <2>2, <2>3
<1>7. {u[i].id : i \in DOMAIN u} = S \cup IdsOf(ToSet(t))
  <2>1. \A x \in S : \E i \in DOMAIN u : u[i].id = x
    <3> TAKE x \in S
    <3>1. PICK i \in 1..m : r[i].id = x
        BY <1>3
    <3>2. i \in DOMAIN u /\ u[i] = r[i]
        BY <1>1, <1>2
    <3> QED
        BY <3>1, <3>2
  <2>2. \A x \in IdsOf(ToSet(t)) : \E i \in DOMAIN u : u[i].id = x
    <3> TAKE x \in IdsOf(ToSet(t))
    <3>1. PICK i \in 1..Len(t) : Id(t[i]) = x
        BY <1>4
    <3>2. m + i \in DOMAIN u
        BY <1>2
    <3> QED
        BY <1>1, <3>1, <3>2
  <2> QED
      BY <1>5, <2>1, <2>2
<1>8. OneEach(u)
    BY <1>6 DEF OneEach
<1> QED
    BY <1>1, <1>7, <1>8 DEF RowsAre, u

LEMMA EmitAll ==
    ASSUME NEW a, DOMAIN a = AfFields, NEW S, RowsAre(a.rows, S), NEW s, IsList(s), Distinct(s),
           S \cap IdsOf(ToSet(s)) = {}
    PROVE  /\ DOMAIN emit_csv(a, s, {}) = AfFields
           /\ RowsAre(emit_csv(a, s, {}).rows, S \cup IdsOf(ToSet(s)))
           /\ \E t : Extended(emit_csv(a, s, {}), a, t, Len(t)) /\ Len(t) \in Nat
<1> DEFINE t == Without(s, {})
           b == emit_csv(a, s, {})
<1>1. Extended(b, a, t, Len(t))
    BY Emitting DEF RowsAre
<1>2. IsList(t) /\ Distinct(t) /\ ToSet(t) = ToSet(s)
  <2>1. IsList(t) /\ ToSet(t) = {s[i] : i \in DOMAIN s \ {}}
      BY WithoutRange
  <2>2. {s[i] : i \in DOMAIN s \ {}} = ToSet(s)
      BY DEF ToSet
  <2> QED
      BY <2>1, <2>2, WithoutDistinct
<1>3. Len(t) \in Nat
    BY <1>2, ListFacts
<1> HIDE DEF t, b
<1>4. RowsAre(b.rows, S \cup IdsOf(ToSet(t)))
    BY <1>1, <1>2, RowsExtended
<1>5. DOMAIN b = AfFields
    BY <1>1 DEF Extended
<1> QED
    BY <1>1, <1>2, <1>3, <1>4, <1>5 DEF b

\* The rows are those of what has been collected as far as they are written,
\* and the rest waits; nothing is there twice.
Reports ==
    /\ DOMAIN af = AfFields /\ IsList(af.rows)
    /\ IsList(all_detect_infos) /\ Distinct(all_detect_infos)
    /\ promise = Owed
    /\ phase # "done" => left_out = {}
    /\ opt.is_low_memory => all_detect_infos = <<>> /\ RowsAre(af.rows, IdsOf(Collected))
    /\ ~opt.is_low_memory => ToSet(all_detect_infos) = Collected
    /\ ~opt.is_low_memory /\ phase # "done" => af.rows = <<>>

LEMMA ReportsInit ==
    ASSUME ScanInit
    PROVE  Reports
<1>1. /\ all_detect_infos = <<>> /\ af = AfterfactInfo /\ left_out = {} /\ promise = Owed
      /\ phase = "filter"
    BY DEF ScanInit
<1>2. Shape /\ Seen = {}
    BY ShapeInit, UnreadInit DEF Seen
<1>3. Collected = {}
    BY <1>1, <1>2, GatheredIs DEF Collected
<1>4. af.rows = <<>> /\ DOMAIN af = AfFields
    BY <1>1 DEF AfterfactInfo, AfFields
<1>5. RowsAre(<<>>, {}) /\ IdsOf({}) = {} /\ Distinct(<<>>)
    BY EmptyList DEF RowsAre, OneEach, IdsOf, Distinct
<1> QED
    BY <1>1, <1>3, <1>4, <1>5, EmptyList DEF Reports

LEMMA SameReports ==
    ASSUME Reports, opt' = opt, promise' = promise, left_out' = left_out, phase' # "done",
           all_detect_infos' = all_detect_infos, DOMAIN af' = AfFields, af'.rows = af.rows,
           Collected' = Collected, phase # "done"
    PROVE  Reports'
<1>1. Owed' = Owed
    BY SteadyPromise
<1> QED
    BY <1>1 DEF Reports, AfFields, AfterfactInfo

LEMMA ReportsJoin ==
    ASSUME Shape, Apart, Progress, Tasks, Reports, ScanNext, JoinTasks
    PROVE  /\ Reports'
           /\ ~opt.is_low_memory => af'.rows = af.rows
           /\ opt.is_low_memory => \E t : Extended(af', af, t, Len(t)) /\ Len(t) \in Nat
<1> DEFINE log == FlattenSeq([i \in DOMAIN rules |-> found[rules[i].id]])
           seen == [af EXCEPT !.detect_time = DetectTime(log)]
<1>1. /\ phase = "tasks" /\ phase' = "read" /\ opt' = opt
      /\ \A i \in DOMAIN rules : position[rules[i].id] > Len(records_per_detect)
      /\ opt.is_low_memory => af' = emit_csv(seen, log, {}) /\ all_detect_infos' = all_detect_infos
      /\ ~opt.is_low_memory => af' = seen /\ all_detect_infos' = all_detect_infos \o log
      /\ promise' = promise /\ left_out' = left_out
    BY DEF JoinTasks
<1>2. IsList(log) /\ Distinct(log) /\ ToSet(log) = Gathered(ToSet(rules), Batch)
    BY <1>1, FoundLog
<1>3. /\ Collected' = Collected \cup Gathered(ToSet(rules), Batch)
      /\ IdsOf(Collected) \cap IdsOf(Gathered(ToSet(rules), Batch)) = {}
    BY CollectedStep
<1>4. DOMAIN seen = AfFields /\ seen.rows = af.rows
  <2> HIDE DEF log
  <2> QED
      BY FieldsAre DEF Reports
<1>5. Owed' = Owed /\ AfFields' = AfFields
    BY <1>1, SteadyPromise DEF AfFields, AfterfactInfo
<1> HIDE DEF log, seen
<1>6. IdsOf(Collected') = IdsOf(Collected) \cup IdsOf(ToSet(log))
    BY <1>2, <1>3 DEF IdsOf
<1>7. CASE opt.is_low_memory
  <2>1. RowsAre(seen.rows, IdsOf(Collected)) /\ all_detect_infos = <<>>
      BY <1>4, <1>7 DEF Reports
  <2> DEFINE S == IdsOf(Collected)
  <2>5. /\ DOMAIN seen = AfFields /\ RowsAre(seen.rows, S) /\ S \cap IdsOf(ToSet(log)) = {}
        /\ IdsOf(Collected') = S \cup IdsOf(ToSet(log)) /\ af' = emit_csv(seen, log, {})
        /\ IsList(log) /\ Distinct(log)
      BY <1>1, <1>2, <1>3, <1>4, <1>6, <1>7, <2>1
  <2> HIDE DEF S
  <2>6. /\ DOMAIN emit_csv(seen, log, {}) = AfFields
        /\ RowsAre(emit_csv(seen, log, {}).rows, S \cup IdsOf(ToSet(log)))
        /\ \E t : Extended(emit_csv(seen, log, {}), seen, t, Len(t)) /\ Len(t) \in Nat
      BY <2>5, EmitAll
  <2>2. /\ DOMAIN af' = AfFields /\ RowsAre(af'.rows, IdsOf(Collected'))
        /\ \E t : Extended(af', seen, t, Len(t)) /\ Len(t) \in Nat
      BY <2>5, <2>6
  <2>3. \E t : Extended(af', af, t, Len(t)) /\ Len(t) \in Nat
      BY <1>4, <2>2 DEF Extended
  <2> QED
      BY <1>1, <1>5, <1>7, <2>1, <2>2, <2>3 DEF Reports, RowsAre
<1>8. CASE ~opt.is_low_memory
  <2>1. /\ IsList(all_detect_infos) /\ Distinct(all_detect_infos)
        /\ ToSet(all_detect_infos) = Collected /\ af.rows = <<>>
      BY <1>1, <1>8 DEF Reports
  <2>2. IsList(all_detect_infos') /\ ToSet(all_detect_infos') = Collected'
      BY <1>1, <1>2, <1>3, <1>8, <2>1, ListJoin
  <2>3. Distinct(all_detect_infos')
      BY <1>1, <1>2, <1>3, <1>8, <2>1, JoinDistinct
  <2>4. af'.rows = <<>> /\ DOMAIN af' = AfFields
      BY <1>1, <1>4, <1>8, <2>1
  <2> QED
      BY <1>1, <1>5, <1>8, <2>1, <2>2, <2>3, <2>4, EmptyList DEF Reports
<1> QED
    BY <1>7, <1>8

LEMMA ReportsAggregate ==
    ASSUME Shape, Apart, Progress, Tasks, Reports, ScanNext, Aggregate
    PROVE  /\ Reports'
           /\ ~opt.is_low_memory \/ opt.action = "pivot" => af'.rows = af.rows
           /\ opt.is_low_memory => \E t : Extended(af', af, t, Len(t)) /\ Len(t) \in Nat
<1> DEFINE log == FlattenSeq([i \in DOMAIN rules |-> judged(rules[i], countdata[rules[i].id])])
<1>1. /\ phase = "file" /\ opt' = opt
      /\ phase' = IF opt.action = "pivot" THEN "done" ELSE "output"
      /\ opt.action = "pivot" => af' = af /\ all_detect_infos' = all_detect_infos
      /\ opt.action # "pivot" /\ opt.is_low_memory =>
            af' = emit_csv(af, log, {}) /\ all_detect_infos' = all_detect_infos
      /\ opt.action # "pivot" /\ ~opt.is_low_memory =>
            all_detect_infos' = all_detect_infos \o log /\ af' = af
      /\ promise' = promise /\ left_out' = left_out
    BY DEF Aggregate
<1>2. IsList(log) /\ Distinct(log) /\ ToSet(log) = Judged
    BY JudgedLog
<1>3. /\ opt.action # "pivot" => /\ Collected' = Collected \cup Judged
                                 /\ IdsOf(Collected) \cap IdsOf(Judged) = {}
      /\ opt.action = "pivot" => Collected' = Collected
    BY <1>1, CollectedStep DEF JoinTasks
<1>5. Owed' = Owed /\ AfFields' = AfFields
    BY <1>1, SteadyPromise DEF AfFields, AfterfactInfo
<1> HIDE DEF log
<1>6. opt.action # "pivot" => IdsOf(Collected') = IdsOf(Collected) \cup IdsOf(ToSet(log))
    BY <1>2, <1>3 DEF IdsOf
<1>7. CASE opt.action = "pivot"
  <2>1. Extended(af, af, <<>>, Len(<<>>))
    <3>1. Len(<<>>) = 0 /\ IsList(af.rows) /\ DOMAIN af = AfFields
        BY DEF Reports
    <3>2. Len(af.rows) \in Nat
        BY <3>1, ListFacts
    <3> QED
        BY <3>1, <3>2 DEF Extended
  <2> QED
      BY <1>1, <1>3, <1>5, <1>7, <2>1 DEF Reports
<1>8. CASE opt.action # "pivot" /\ opt.is_low_memory
  <2>1. RowsAre(af.rows, IdsOf(Collected)) /\ all_detect_infos = <<>> /\ DOMAIN af = AfFields
      BY <1>8 DEF Reports
  <2> DEFINE S == IdsOf(Collected)
  <2>5. /\ DOMAIN af = AfFields /\ RowsAre(af.rows, S) /\ S \cap IdsOf(ToSet(log)) = {}
        /\ IdsOf(Collected') = S \cup IdsOf(ToSet(log)) /\ af' = emit_csv(af, log, {})
        /\ IsList(log) /\ Distinct(log)
      BY <1>1, <1>2, <1>3, <1>6, <1>8, <2>1
  <2> HIDE DEF S
  <2>6. /\ DOMAIN emit_csv(af, log, {}) = AfFields
        /\ RowsAre(emit_csv(af, log, {}).rows, S \cup IdsOf(ToSet(log)))
        /\ \E t : Extended(emit_csv(af, log, {}), af, t, Len(t)) /\ Len(t) \in Nat
      BY <2>5, EmitAll
  <2>2. /\ DOMAIN af' = AfFields /\ RowsAre(af'.rows, IdsOf(Collected'))
        /\ \E t : Extended(af', af, t, Len(t)) /\ Len(t) \in Nat
      BY <2>5, <2>6
  <2> QED
      BY <1>1, <1>5, <1>8, <2>1, <2>2 DEF Reports, RowsAre
<1>9. CASE opt.action # "pivot" /\ ~opt.is_low_memory
  <2>1. /\ IsList(all_detect_infos) /\ Distinct(all_detect_infos)
        /\ ToSet(all_detect_infos) = Collected /\ af.rows = <<>> /\ DOMAIN af = AfFields
      BY <1>1, <1>9 DEF Reports
  <2>2. IsList(all_detect_infos') /\ ToSet(all_detect_infos') = Collected'
      BY <1>1, <1>2, <1>3, <1>9, <2>1, ListJoin
  <2>3. Distinct(all_detect_infos')
      BY <1>1, <1>2, <1>3, <1>9, <2>1, JoinDistinct
  <2> QED
      BY <1>1, <1>5, <1>9, <2>1, <2>2, <2>3, EmptyList DEF Reports
<1> QED
    BY <1>7, <1>8, <1>9

LEMMA BeenAnalysed ==
    ASSUME Progress, NEW rule
    PROVE  Been(rule) \subseteq Analysed /\ Seen \subseteq Analysed
<1>1. Passed(records_per_detect, position[rule.id]) \subseteq Batch
    BY DEF Passed, Batch, ToSet
<1>2. Seen \subseteq Scanned /\ Batch \subseteq Scanned
    BY DEF Seen, ReadSoFar, Progress
<1> QED
    BY <1>1, <1>2, ScannedAnalysed DEF Been

\* Detections have a time and a level.
LEMMA JudgementKnown ==
    ASSUME opt \in Options, NEW rule \in ToSet(opt.rules), NEW S, S \subseteq Analysed,
           NEW s, CountIs(s, Hits(rule, S)), NEW d, Judgement(d, rule, s)
    PROVE  d.time \in Int /\ d.level \in Levels
<1>1. IsList(s) /\ ToSet(s) = Hits(rule, S)
    BY DEF CountIs
<1>2. DOMAIN s = 1..Len(s) /\ Len(s) \in Nat /\ \A i \in DOMAIN s : s[i] \in ToSet(s)
    BY <1>1, ListFacts
<1>3. rule.agg.num \in Nat /\ rule.level \in Levels
    BY OptionsAre
<1>4. HasAgg(rule) /\ ~(Len(s) < rule.agg.num)
    BY DEF Judgement
<1>5. Len(s) \in Nat \ {0}
    BY <1>2, <1>3, <1>4 DEF HasAgg
<1>6. \A h \in ToSet(s) : h.time \in Int
  <2> TAKE h \in ToSet(s)
  <2>1. PICK r \in S : h = AggRecordTimeInfo(r)
      BY <1>1, HitsOf
  <2>2. r.time \in Int /\ CountDefaultTime \in Int
      BY <2>1, AnalysedAre, OptionsAssumption
  <2> QED
      BY <2>1, <2>2 DEF AggRecordTimeInfo
<1> DEFINE f == [i \in 1..Len(s) |-> s[i].time]
<1>7. f \in [1..Len(s) -> Int]
    BY <1>2, <1>6
<1>8. {f[i] : i \in 1..Len(s)} = {s[i].time : i \in DOMAIN s}
    BY <1>2
<1> HIDE DEF f
<1>9. \A x \in {f[i] : i \in 1..Len(s)} : x \in Int
    BY <1>7
<1>10. Min({f[i] : i \in 1..Len(s)}) \in {f[i] : i \in 1..Len(s)}
    BY <1>5, <1>7, MinOfList
<1>11. d.time = Min({s[i].time : i \in DOMAIN s}) /\ d.level = LevelOf(rule, Joined(s, "computer"))
    BY DEF Judgement, create_agg_log_record
<1>12. d.time = Min({f[i] : i \in 1..Len(s)})
    BY <1>8, <1>11, Zenon
<1> QED
    BY <1>3, <1>9, <1>10, <1>11, <1>12, LevelIs

LEMMA CollectedKnown ==
    ASSUME Shape, Progress, Tasks
    PROVE  /\ \A S : S \subseteq Analysed =>
                \A d \in Gathered(ToSet(rules), S) : d.time \in Int /\ d.level \in Levels
           /\ \A d \in Judged : d.time \in Int /\ d.level \in Levels
           /\ \A d \in Collected : d.time \in Int /\ d.level \in Levels
<1>1. ASSUME NEW S, S \subseteq Analysed, NEW d \in Gathered(ToSet(rules), S)
      PROVE  d.time \in Int /\ d.level \in Levels
  <2>1. PICK rule \in ToSet(rules), r \in S : d = create_log_record(rule, r)
      BY GatheredIds
  <2>2. r.time \in Int /\ rule.level \in Levels
      BY <1>1, <2>1, AnalysedAre, OptionsAre DEF Shape
  <2>3. d.time = Time(r) /\ d.level = LevelOf(rule, {r.computer})
    <3>1. /\ create_log_record(rule, r).time = Time(r)
          /\ create_log_record(rule, r).level = LevelOf(rule, {r.computer})
        BY DEF create_log_record
    <3> QED
        BY <2>1, <3>1, Zenon
  <2> QED
      BY <2>2, <2>3, LevelIs DEF Time, DefaultTime
<1>2. ASSUME NEW d \in Judged PROVE d.time \in Int /\ d.level \in Levels
  <2>1. PICK rule \in ToSet(rules) : Judgement(d, rule, countdata[rule.id])
      BY InJudged
  <2>2. HasAgg(rule)
      BY <2>1 DEF Judgement
  <2>3. CountIs(countdata[rule.id], Hits(rule, Been(rule)))
      BY <2>2 DEF Tasks
  <2>4. opt \in Options /\ rule \in ToSet(opt.rules) /\ Been(rule) \subseteq Analysed
      BY BeenAnalysed DEF Shape
  <2> QED
      BY <2>1, <2>3, <2>4, JudgementKnown
<1>3. Seen \subseteq Analysed
    BY BeenAnalysed
<1> QED
    BY <1>1, <1>2, <1>3 DEF Collected

LEMMA OutputIs ==
    ASSUME Shape, Apart, Progress, Tasks, Reports, ScanNext, Output
    PROVE  /\ opt' = opt /\ phase = "output" /\ phase' = "done" /\ promise' = promise
           /\ all_detect_infos' = all_detect_infos
           /\ opt.is_low_memory => af' = af /\ left_out' = left_out
           /\ ~opt.is_low_memory =>
                \E s, D : /\ IsList(s) /\ ToSet(s) = ToSet(all_detect_infos) /\ Distinct(s)
                          /\ \A i, j \in DOMAIN s : i < j => s[i].time <= s[j].time
                          /\ \A i \in D : i \in DOMAIN s /\ \E j \in DOMAIN s \ D : Look(s[j]) = Look(s[i])
                          /\ af' = emit_csv(af, s, D) /\ left_out' = {Id(s[i]) : i \in D}
<1>1. /\ opt' = opt /\ phase = "output" /\ phase' = "done" /\ promise' = promise
      /\ all_detect_infos' = all_detect_infos
      /\ opt.is_low_memory => af' = af /\ left_out' = left_out
      /\ ~opt.is_low_memory =>
            \E s \in sort_detect_info(all_detect_infos) :
                af' = emit_csv(af, s, Duplicates(s)) /\ left_out' = {Id(s[i]) : i \in Duplicates(s)}
    BY DEF Output
<1>2. ASSUME ~opt.is_low_memory
      PROVE  \E s, D : /\ IsList(s) /\ ToSet(s) = ToSet(all_detect_infos) /\ Distinct(s)
                       /\ \A i, j \in DOMAIN s : i < j => s[i].time <= s[j].time
                       /\ \A i \in D : i \in DOMAIN s /\ \E j \in DOMAIN s \ D : Look(s[j]) = Look(s[i])
                       /\ af' = emit_csv(af, s, D) /\ left_out' = {Id(s[i]) : i \in D}
  <2>1. PICK s \in sort_detect_info(all_detect_infos) :
            af' = emit_csv(af, s, Duplicates(s)) /\ left_out' = {Id(s[i]) : i \in Duplicates(s)}
      BY <1>1, <1>2
  <2>2. /\ IsList(all_detect_infos) /\ Distinct(all_detect_infos)
        /\ \A d \in ToSet(all_detect_infos) : d.time \in Int
      BY <1>2, CollectedKnown DEF Reports
  <2>3. /\ IsList(s) /\ ToSet(s) = ToSet(all_detect_infos) /\ Distinct(s)
        /\ \A i, j \in DOMAIN s : i < j => s[i].time <= s[j].time
      BY <2>2, Sorting
  <2>4. \A i \in Duplicates(s) :
            i \in DOMAIN s /\ \E j \in DOMAIN s \ Duplicates(s) : Look(s[j]) = Look(s[i])
      BY <2>3, DuplicatesShown
  <2> QED
      BY <2>1, <2>3, <2>4
<1> QED
    BY <1>1, <1>2

LEMMA ReportsStep ==
    ASSUME Shape, Apart, Progress, Tasks, Reports, ScanNext
    PROVE  Reports'
<1>1. CASE JoinTasks
    BY <1>1, ReportsJoin
<1>2. CASE Aggregate
    BY <1>2, ReportsAggregate
<1>3. CASE Output
  <2>1. /\ opt' = opt /\ phase = "output" /\ phase' = "done" /\ promise' = promise
        /\ all_detect_infos' = all_detect_infos
        /\ opt.is_low_memory => af' = af /\ left_out' = left_out
        /\ ~opt.is_low_memory => \E s, D : IsList(s) /\ af' = emit_csv(af, s, D)
      BY <1>3, OutputIs
  <2>2. Owed' = Owed /\ AfFields' = AfFields
      BY <2>1, SteadyPromise DEF AfFields, AfterfactInfo
  <2>3. Collected' = Collected
      BY <1>3, <2>1, CollectedStep DEF JoinTasks, Aggregate
  <2>4. DOMAIN af' = AfFields /\ IsList(af'.rows)
    <3>1. CASE opt.is_low_memory
        BY <2>1, <3>1 DEF Reports
    <3>2. CASE ~opt.is_low_memory
      <4>1. PICK s, D : IsList(s) /\ af' = emit_csv(af, s, D)
          BY <2>1, <3>2
      <4>2. Extended(emit_csv(af, s, D), af, Without(s, D), Len(Without(s, D)))
          BY <4>1, Emitting DEF Reports
      <4> QED
          BY <4>1, <4>2 DEF Extended
    <3> QED
        BY <3>1, <3>2
  <2> QED
      BY <2>1, <2>2, <2>3, <2>4 DEF Reports
<1>4. CASE ApplyChannelFilter \/ OpenFile \/ ReadRecord \/ StartTasks \/ EndFile \/ Task
  <2>1. /\ opt' = opt /\ promise' = promise /\ left_out' = left_out
        /\ all_detect_infos' = all_detect_infos
        /\ af' = af \/ EndFile
        /\ phase' # "done" /\ phase # "done" /\ ~JoinTasks /\ ~Aggregate
    <3>1. CASE ApplyChannelFilter \/ OpenFile \/ ReadRecord \/ StartTasks
        BY <3>1 DEF ApplyChannelFilter, OpenFile, ReadRecord, StartTasks, report, JoinTasks, Aggregate
    <3>2. CASE EndFile
        BY <3>2 DEF EndFile, JoinTasks, Aggregate
    <3>3. CASE Task
      <4>1. /\ phase = "tasks" /\ phase' = "tasks" /\ opt' = opt
            /\ promise' = promise /\ left_out' = left_out
            /\ all_detect_infos' = all_detect_infos /\ af' = af
          BY <3>3 DEF Task, TaskStep, report
      <4> QED
          BY <4>1 DEF JoinTasks, Aggregate
    <3> QED
        BY <1>4, <3>1, <3>2, <3>3
  <2>2. DOMAIN af' = AfFields /\ af'.rows = af.rows
    <3>1. CASE af' = af
        BY <3>1 DEF Reports
    <3>2. CASE EndFile
      <4>1. af' = [af EXCEPT !.record_cnt = @ + counts.record_cnt,
                             !.recover_record_cnt = @ + counts.recovered]
          BY <3>2 DEF EndFile
      <4> QED
          BY <4>1, FieldsAre DEF Reports
    <3> QED
        BY <2>1, <3>1, <3>2
  <2>3. Collected' = Collected
      BY <2>1, CollectedStep
  <2> QED
      BY <2>1, <2>2, <2>3, SameReports
<1> QED
    BY <1>1, <1>2, <1>3, <1>4 DEF ScanNext

-----------------------------------------------------------------------------
(* What is due.                                                               *)

LEMMA OverSeen ==
    ASSUME Shape, phase \in {"output", "done"} \/ (phase = "file" /\ evtx_files = <<>>)
    PROVE  Seen = Scanned
<1>1. evtx_files = <<>> /\ items = <<>> /\ records_per_detect = <<>>
    BY DEF Shape
<1>2. Unread = {} /\ Batch = {}
  <2>1. RecordsIn({}) = {}
      BY RecordsInHas
  <2> QED
      BY <1>1, <2>1, NothingKept, EmptyList DEF Unread, UnreadOf, Batch
<1> QED
    BY <1>2 DEF Seen, ReadSoFar

\* A detection that is due, or one that reads the same.
IsDue(d) == Id(d) \in DOMAIN Owed /\ Owed[Id(d)] = [time |-> d.time, look |-> Look(d)]

LEMMA AlikeDue ==
    ASSUME opt \in Options, NEW e \in Due, NEW d, Id(e) = Id(d), e.time = d.time, e.cells = d.cells
    PROVE  IsDue(d)
<1>1. Id(e) \in DOMAIN Owed /\ Owed[Id(e)] = [time |-> e.time, look |-> Look(e)]
    BY OwedIs
<1>2. Look(e) = Look(d)
    BY DEF Look
<1> QED
    BY <1>1, <1>2 DEF IsDue

\* What a rule has counted when all is read is what it should have.
LEMMA JudgedDue ==
    ASSUME Shape, Progress, Tasks, phase \notin {"filter", "tasks"}, Seen = Scanned,
           NEW rule \in ToSet(rules)
    PROVE  LET t == SetToSeq(Hits(rule, Scanned))
           IN  HasAgg(rule) =>
                /\ IsList(countdata[rule.id]) /\ IsInjective(countdata[rule.id])
                /\ IsList(t) /\ IsInjective(t) /\ ToSet(countdata[rule.id]) = ToSet(t)
<1> DEFINE t == SetToSeq(Hits(rule, Scanned))
<1> SUFFICES ASSUME HasAgg(rule)
             PROVE  /\ IsList(countdata[rule.id]) /\ IsInjective(countdata[rule.id])
                    /\ IsList(t) /\ IsInjective(t) /\ ToSet(countdata[rule.id]) = ToSet(t)
    OBVIOUS
<1>1. Been(rule) = Scanned
    BY DEF Been
<1>2. CountIs(countdata[rule.id], Hits(rule, Scanned))
    BY <1>1 DEF Tasks
<1>3. IsFiniteSet(Hits(rule, Scanned))
    BY ScannedFinite, HitsFinite DEF Shape
<1>4. IsList(t) /\ IsInjective(t) /\ ToSet(t) = Hits(rule, Scanned)
    BY <1>3, SetListed
<1> QED
    BY <1>2, <1>4 DEF CountIs

AllDue == \A d \in Collected : IsDue(d)

LEMMA CollectedDue ==
    ASSUME Shape, Progress, Tasks, Foreseen
    PROVE  AllDue
<1> SUFFICES ASSUME NEW d \in Collected PROVE IsDue(d)
    BY DEF AllDue
<1>1. opt \in Options /\ phase # "filter"
  <2>1. phase = "filter" => Collected = {}
      BY FilterSeen, GatheredIs DEF Collected
  <2> QED
      BY <2>1 DEF Shape
<1>2. ToSet(rules) = RulesKept /\ Seen \subseteq Scanned
    BY <1>1 DEF Shape, Seen, ReadSoFar
<1>3. CASE d \in Gathered(ToSet(rules), Seen)
  <2>1. opt.action # "pivot" /\ d \in Detections(RulesKept, Seen)
      BY <1>2, <1>3 DEF Gathered
  <2>2. d \in Detections(RulesKept, Scanned)
      BY <1>2, <2>1, DetectionsGrow
  <2>3. d \in Due
      BY <1>1, <2>1, <2>2, DueMeans
  <2> QED
      BY <1>1, <2>3, AlikeDue
<1>4. CASE d \in Judged /\ phase \in {"output", "done"} /\ opt.action # "pivot"
  <2>1. PICK rule \in ToSet(rules) : Judgement(d, rule, countdata[rule.id])
      BY <1>4, InJudged
  <2>2. HasAgg(rule) /\ Seen = Scanned
      BY <1>4, <2>1, OverSeen DEF Judgement
  <2> DEFINE t == SetToSeq(Hits(rule, Scanned))
  <2>3. /\ IsList(countdata[rule.id]) /\ IsInjective(countdata[rule.id])
        /\ IsList(t) /\ IsInjective(t) /\ ToSet(countdata[rule.id]) = ToSet(t)
      BY <1>1, <1>4, <2>2, JudgedDue
  <2> HIDE DEF t
  <2>4. PICK e : Judgement(e, rule, t) /\ Id(e) = Id(d) /\ e.time = d.time /\ e.cells = d.cells
      BY <2>1, <2>3, JudgedAlike
  <2>5. e \in JudgedOf(RulesKept, Scanned)
      BY <1>2, <2>4, InJudgedOf DEF t
  <2>6. e \in Due
      BY <1>1, <1>4, <2>5, DueMeans
  <2> QED
      BY <1>1, <2>4, <2>6, AlikeDue
<1> QED
    BY <1>3, <1>4 DEF Collected

LEMMA CollectedDueNext == Shape' /\ Progress' /\ Tasks' /\ Foreseen' => AllDue'
    BY CollectedDue, PTL

\* At the end everything that is due has been collected.
LEMMA DueCollected ==
    ASSUME Shape, Progress, Tasks, Foreseen, phase \in {"output", "done"}
    PROVE  DOMAIN Owed = IdsOf(Collected)
<1>1. opt \in Options /\ ToSet(rules) = RulesKept /\ Seen = Scanned
    BY OverSeen DEF Shape
<1>2. DOMAIN Owed = {Id(e) : e \in Due}
    BY Zenon DEF Owed
<1>3. \A d \in Collected : Id(d) \in DOMAIN Owed
    BY CollectedDue DEF AllDue, IsDue
<1>4. ASSUME NEW e \in Due PROVE Id(e) \in IdsOf(Collected)
  <2>1. opt.action # "pivot"
      BY <1>4, Zenon DEF Due
  <2>2. Due = Detections(RulesKept, Scanned) \cup JudgedOf(RulesKept, Scanned)
      BY <1>1, <2>1, DueMeans
  <2>3. CASE e \in Detections(RulesKept, Scanned)
    <3>1. e \in Collected
        BY <1>1, <2>1, <2>3 DEF Collected, Gathered
    <3> QED
        BY <3>1 DEF IdsOf
  <2>4. CASE e \in JudgedOf(RulesKept, Scanned)
    <3>1. PICK rule \in RulesKept : Judgement(e, rule, SetToSeq(Hits(rule, Scanned)))
        BY <2>4, InJudgedOf
    <3>2. HasAgg(rule)
        BY <3>1 DEF Judgement
    <3> DEFINE t == SetToSeq(Hits(rule, Scanned))
    <3>3. /\ IsList(countdata[rule.id]) /\ IsInjective(countdata[rule.id])
          /\ IsList(t) /\ IsInjective(t) /\ ToSet(countdata[rule.id]) = ToSet(t)
        BY <1>1, <3>2, JudgedDue
    <3>4. Judgement(e, rule, t)
        BY <3>1
    <3> HIDE DEF t
    <3>5. PICK d : Judgement(d, rule, countdata[rule.id]) /\ Id(d) = Id(e)
        BY <3>3, <3>4, JudgedAlike
    <3>6. d \in Judged
        BY <1>1, <3>5, InJudged
    <3>7. d \in Collected
        BY <2>1, <3>6 DEF Collected
    <3> QED
        BY <3>5, <3>7 DEF IdsOf
  <2> QED
      BY <2>2, <2>3, <2>4
<1> QED
    BY <1>2, <1>3, <1>4 DEF IdsOf

LEMMA ShownInit == ScanInit => Owing!Init
<1> SUFFICES ASSUME ScanInit PROVE Owing!Init
    OBVIOUS
<1>1. af.rows = <<>> /\ left_out = {} /\ phase = "filter"
    BY DEF ScanInit, AfterfactInfo
<1>2. ShownIds = <<>>
    BY <1>1 DEF ShownIds
<1> QED
    BY <1>1, <1>2 DEF Owing!Init

\* Rows are only added.
LEMMA ShownGrows ==
    ASSUME NEW a, IsList(a), NEW b, IsList(b), NEW n \in Nat, Len(b) = Len(a) + n,
           \A i \in 1..Len(a) : b[i] = a[i]
    PROVE  Owing!IsPrefix([i \in DOMAIN a |-> a[i].id], [i \in DOMAIN b |-> b[i].id])
<1> DEFINE x == [i \in DOMAIN a |-> a[i].id]
           y == [i \in DOMAIN b |-> b[i].id]
<1>1. DOMAIN a = 1..Len(a) /\ DOMAIN b = 1..Len(b) /\ Len(a) \in Nat /\ Len(b) \in Nat
    BY ListFacts
<1>2. Len(x) = Len(a) /\ Len(y) = Len(b) /\ Len(a) <= Len(b)
    BY <1>1
<1>3. \A i \in 1..Len(a) : x[i] = y[i]
    BY <1>1
<1>4. SubSeq(x, 1, Len(a)) = SubSeq(y, 1, Len(a))
    BY <1>1, <1>3
<1> QED
    BY <1>2, <1>4 DEF Owing!IsPrefix

LEMMA IdsShown ==
    ASSUME NEW a, IsList(a), NEW x, x = [i \in DOMAIN a |-> a[i].id]
    PROVE  /\ Owing!ToSet(x) = {a[i].id : i \in DOMAIN a}
           /\ OneEach(a) => Owing!IsInjective(x)
           /\ Len(x) = Len(a) /\ \A i \in 1..Len(a) : x[i] = a[i].id
<1>1. DOMAIN a = 1..Len(a) /\ Len(a) \in Nat
    BY ListFacts
<1>2. DOMAIN x = DOMAIN a /\ \A i \in DOMAIN a : x[i] = a[i].id
    BY Zenon
<1>3. Owing!ToSet(x) = {a[i].id : i \in DOMAIN a}
    BY <1>2, Zenon DEF Owing!ToSet
<1>4. OneEach(a) => Owing!IsInjective(x)
    BY <1>2, Zenon DEF Owing!IsInjective, OneEach
<1>5. Len(x) = Len(a)
    BY <1>1
<1> QED
    BY <1>1, <1>2, <1>3, <1>4, <1>5

\* Rows are added while the scan goes on.
LEMMA WriteMore ==
    ASSUME Reports, Reports', promise' = promise, opt' = opt, AllDue', opt.is_low_memory,
           phase # "done", phase' # "done",
           NEW t, Extended(af', af, t, Len(t)), Len(t) \in Nat
    PROVE  Owing!Write
<1> DEFINE u == af'.rows
           r == af.rows
<1>1. /\ IsList(u) /\ IsList(r) /\ Len(u) = Len(r) + Len(t) /\ \A i \in 1..Len(r) : u[i] = r[i]
    BY DEF Extended, Reports
<1>2. ShownIds' = [i \in DOMAIN u |-> u[i].id] /\ ShownIds = [i \in DOMAIN r |-> r[i].id]
    BY DEF ShownIds
<1>3. RowsAre(u, IdsOf(Collected'))
    BY DEF Reports
<1>4. \A x \in IdsOf(Collected') : x \in DOMAIN promise
  <2>1. Owed' = promise
      BY DEF Reports
  <2>2. \A d \in Collected' : Id(d) \in DOMAIN Owed'
      BY DEF AllDue, IsDue
  <2> QED
      BY <2>1, <2>2 DEF IdsOf
<1> HIDE DEF u, r
<1>5. Owing!IsPrefix(ShownIds, ShownIds')
    BY <1>1, <1>2, ShownGrows
<1>6. Owing!IsInjective(ShownIds') /\ Owing!ToSet(ShownIds') \subseteq DOMAIN promise
    BY <1>1, <1>2, <1>3, <1>4, IdsShown DEF RowsAre
<1>7. left_out' = {}
    BY DEF Reports
<1>8. (~opt.is_low_memory)' = ~opt.is_low_memory
    OBVIOUS
<1> QED
    BY <1>5, <1>6, <1>7, <1>8 DEF Owing!Write

LEMMA WriteJoin ==
    ASSUME Shape, Apart, Progress, Tasks, Reports, ScanNext, JoinTasks, AllDue'
    PROVE  Owing!Write \/ UNCHANGED Owing!vars
<1>1. /\ phase = "tasks" /\ phase' = "read" /\ opt' = opt /\ promise' = promise
      /\ left_out' = left_out
    BY DEF JoinTasks
<1>2. /\ Reports'
      /\ ~opt.is_low_memory => af'.rows = af.rows
      /\ opt.is_low_memory => \E t : Extended(af', af, t, Len(t)) /\ Len(t) \in Nat
    BY ReportsJoin
<1>3. CASE opt.is_low_memory
    BY <1>1, <1>2, <1>3, WriteMore
<1>4. CASE ~opt.is_low_memory
    BY <1>1, <1>2, <1>4 DEF Owing!vars, ShownIds
<1> QED
    BY <1>3, <1>4

LEMMA WriteAggregate ==
    ASSUME Shape, Apart, Progress, Tasks, Reports, ScanNext, Aggregate, AllDue', Foreseen
    PROVE  Owing!Write \/ UNCHANGED Owing!vars
<1>1. /\ phase = "file" /\ opt' = opt /\ promise' = promise /\ left_out' = left_out
      /\ phase' = IF opt.action = "pivot" THEN "done" ELSE "output"
      /\ opt.action = "pivot" => af' = af
    BY DEF Aggregate
<1>2. /\ Reports'
      /\ ~opt.is_low_memory \/ opt.action = "pivot" => af'.rows = af.rows
      /\ opt.is_low_memory => \E t : Extended(af', af, t, Len(t)) /\ Len(t) \in Nat
    BY ReportsAggregate
<1>3. CASE opt.action # "pivot" /\ opt.is_low_memory
    BY <1>1, <1>2, <1>3, WriteMore
<1>4. CASE opt.action # "pivot" /\ ~opt.is_low_memory
    BY <1>1, <1>2, <1>4 DEF Owing!vars, ShownIds
<1>5. CASE opt.action = "pivot"
  <2>1. Collected = {}
      BY <1>1, <1>5 DEF Collected, Gathered
  <2>2. af.rows = <<>> /\ IsList(<<>>)
    <3>1. CASE opt.is_low_memory
      <4>1. RowsAre(af.rows, IdsOf({}))
          BY <2>1, <3>1 DEF Reports
      <4>2. IsList(af.rows) /\ {af.rows[i].id : i \in DOMAIN af.rows} = {}
          BY <4>1 DEF RowsAre, IdsOf
      <4>3. DOMAIN af.rows = {}
          BY <4>2
      <4>4. DOMAIN af.rows = 1..Len(af.rows) /\ Len(af.rows) \in Nat /\ af.rows \in Seq(ToSet(af.rows))
          BY <4>2, ListFacts DEF IsList
      <4> DEFINE n == Len(af.rows)
      <4>5. n = 0
        <5>1. 1..n = {} /\ n \in Nat
            BY <4>3, <4>4
        <5> HIDE DEF n
        <5>2. ~(1 \in 1..n)
            BY <5>1
        <5> QED
            BY <5>1, <5>2
      <4> QED
          BY <4>4, <4>5, EmptySeq, EmptyList
    <3>2. CASE ~opt.is_low_memory
        BY <1>1, <3>2, EmptyList DEF Reports
    <3> QED
        BY <3>1, <3>2
  <2>3. ShownIds = <<>> /\ ShownIds' = <<>>
      BY <1>1, <1>5, <2>2 DEF ShownIds
  <2>4. promise = Owed /\ left_out' = {}
      BY <1>1 DEF Reports
  <2>5. DOMAIN promise = {}
    <3>1. Due = {}
        BY <1>5 DEF Due
    <3>2. DOMAIN Owed = {Id(e) : e \in Due}
        BY Zenon DEF Owed
    <3> QED
        BY <2>4, <3>1, <3>2
  <2>6. Owing!ToSet(<<>>) = {} /\ Owing!IsInjective(<<>>) /\ Owing!IsPrefix(<<>>, <<>>)
      BY DEF Owing!ToSet, Owing!IsInjective, Owing!IsPrefix
  <2>7. Owing!Covered(<<>>, {})
      BY <2>5, <2>6 DEF Owing!Covered
  <2>8. Owing!InOrder(<<>>)
      BY DEF Owing!InOrder
  <2>9. phase' = "done" /\ phase # "done" /\ (~opt.is_low_memory)' = ~opt.is_low_memory
      BY <1>1, <1>5
  <2> QED
      BY <1>1, <2>3, <2>4, <2>6, <2>7, <2>8, <2>9 DEF Owing!Write
<1> QED
    BY <1>3, <1>4, <1>5

\* With memory spared the last step shows nothing new.
LEMMA WriteLast ==
    ASSUME Shape, Apart, Progress, Tasks, Reports, ScanNext, Output, Foreseen, opt.is_low_memory
    PROVE  Owing!Write
<1>1. /\ opt' = opt /\ phase = "output" /\ phase' = "done" /\ promise' = promise
      /\ af' = af /\ left_out' = left_out
    BY OutputIs
<1>2. /\ RowsAre(af.rows, IdsOf(Collected)) /\ promise = Owed /\ left_out' = {}
    BY <1>1 DEF Reports
<1>3. DOMAIN promise = IdsOf(Collected)
    BY <1>1, <1>2, DueCollected
<1>4. ShownIds = [i \in DOMAIN af.rows |-> af.rows[i].id] /\ ShownIds' = ShownIds
    BY <1>1 DEF ShownIds
<1>5. IsList(af.rows) /\ OneEach(af.rows) /\ {af.rows[i].id : i \in DOMAIN af.rows} = IdsOf(Collected)
    BY <1>2 DEF RowsAre
<1>6. Owing!ToSet(ShownIds) = DOMAIN promise /\ Owing!IsInjective(ShownIds)
    BY <1>3, <1>4, <1>5, IdsShown
<1>7. Owing!IsPrefix(ShownIds, ShownIds')
  <2> DEFINE a == af.rows
  <2>1. IsList(a) /\ Len(a) = Len(a) + 0 /\ 0 \in Nat
      BY <1>5, ListFacts
  <2> HIDE DEF a
  <2>2. Owing!IsPrefix([i \in DOMAIN a |-> a[i].id], [i \in DOMAIN a |-> a[i].id])
      BY <2>1, ShownGrows
  <2> QED
      BY <1>4, <2>2 DEF a
<1>8. Owing!Covered(ShownIds', {})
    BY <1>4, <1>6 DEF Owing!Covered
<1>9. (~opt.is_low_memory)' = ~opt.is_low_memory /\ phase' = "done" /\ phase # "done"
    BY <1>1
<1> QED
    BY <1>1, <1>2, <1>4, <1>6, <1>7, <1>8, <1>9 DEF Owing!Write

\* Otherwise all is shown at once, sorted and without the duplicates.
LEMMA WriteSorted ==
    ASSUME Shape, Apart, Progress, Tasks, Reports, ScanNext, Output, Foreseen, ~opt.is_low_memory
    PROVE  Owing!Write
<1>1. /\ opt' = opt /\ phase = "output" /\ phase' = "done" /\ promise' = promise
    BY OutputIs
<1>2. PICK s, D : /\ IsList(s) /\ ToSet(s) = ToSet(all_detect_infos) /\ Distinct(s)
                  /\ \A i, j \in DOMAIN s : i < j => s[i].time <= s[j].time
                  /\ \A i \in D : i \in DOMAIN s /\ \E j \in DOMAIN s \ D : Look(s[j]) = Look(s[i])
                  /\ af' = emit_csv(af, s, D) /\ left_out' = {Id(s[i]) : i \in D}
    BY OutputIs
<1>3. /\ ToSet(s) = Collected /\ promise = Owed /\ af.rows = <<>> /\ DOMAIN af = AfFields
    BY <1>1, <1>2 DEF Reports
<1>4. DOMAIN promise = IdsOf(ToSet(s))
    BY <1>1, <1>3, DueCollected
<1>5. ASSUME NEW d \in ToSet(s)
      PROVE  promise[Id(d)].time = d.time /\ promise[Id(d)].look = Look(d)
  <2>1. promise[Id(d)] = [time |-> d.time, look |-> Look(d)]
      BY <1>3, CollectedDue DEF AllDue, IsDue
  <2> QED
      BY <2>1
<1> DEFINE t == Without(s, D)
           u == af'.rows
<1>6. PICK p : Places(p, t, s, D, Len(s))
    BY <1>2, WithoutPlaces
<1>7. /\ IsList(t) /\ Distinct(t) /\ ToSet(t) = {s[i] : i \in DOMAIN s \ D}
    BY <1>2, WithoutRange, WithoutDistinct
<1>8. Extended(af', af, t, Len(t))
    BY <1>2, <1>3, Emitting, EmptyList
<1>9. DOMAIN t = 1..Len(t) /\ DOMAIN s = 1..Len(s) /\ Len(t) \in Nat /\ Len(s) \in Nat
      /\ \A i \in DOMAIN s : s[i] \in ToSet(s)
    BY <1>2, <1>7, ListFacts
<1>10. RowsAre(u, IdsOf(ToSet(t)))
  <2>1. RowsAre(af.rows, {})
      BY <1>3, EmptyList DEF RowsAre, OneEach
  <2>2. RowsAre(u, {} \cup IdsOf(ToSet(t)))
      BY <1>7, <1>8, <2>1, RowsExtended
  <2> QED
      BY <2>2
<1>11. /\ IsList(u) /\ Len(u) = Len(t) /\ \A i \in 1..Len(t) : u[i].id = Id(t[i])
  <2>1. Len(af.rows) = 0
      BY <1>3
  <2>2. IsList(u) /\ Len(u) = 0 + Len(t) /\ \A i \in 1..Len(t) : u[0 + i].id = Id(t[i])
      BY <1>8, <2>1 DEF Extended
  <2> HIDE DEF t, u
  <2> QED
      BY <1>9, <2>2
<1>12. ShownIds' = [i \in DOMAIN u |-> u[i].id] /\ ShownIds = <<>>
    BY <1>3 DEF ShownIds
<1> DEFINE x == ShownIds'
<1> HIDE DEF t, u
<1>13. /\ Owing!ToSet(x) = IdsOf(ToSet(t)) /\ Owing!IsInjective(x)
       /\ Len(x) = Len(t) /\ \A i \in 1..Len(t) : x[i] = Id(t[i])
  <2>1. /\ Owing!ToSet(x) = {u[i].id : i \in DOMAIN u} /\ Owing!IsInjective(x)
        /\ Len(x) = Len(u) /\ \A i \in 1..Len(u) : x[i] = u[i].id
      BY <1>10, <1>11, <1>12, IdsShown DEF RowsAre
  <2> QED
      BY <1>10, <1>11, <2>1 DEF RowsAre
<1>14. Owing!IsPrefix(<<>>, x)
  <2>1. Len(x) \in Nat
      BY <1>9, <1>13
  <2>2. Len(<<>>) = 0 /\ SubSeq(<<>>, 1, 0) = <<>> /\ SubSeq(x, 1, 0) = <<>>
      OBVIOUS
  <2> HIDE DEF x
  <2> QED
      BY <2>1, <2>2 DEF Owing!IsPrefix
<1> HIDE DEF x
<1>15. Owing!Covered(x, left_out')
  <2>1. IdsOf(ToSet(t)) = {Id(s[i]) : i \in DOMAIN s \ D}
      BY <1>7 DEF IdsOf
  <2>2. IdsOf(ToSet(s)) = {Id(s[i]) : i \in DOMAIN s}
      BY DEF IdsOf, ToSet
  <2>3. D \subseteq DOMAIN s
      BY <1>2
  <2>4. Owing!ToSet(x) \cup left_out' = DOMAIN promise
      BY <1>2, <1>4, <1>13, <2>1, <2>2, <2>3
  <2>5. Owing!ToSet(x) \cap left_out' = {}
      BY <1>2, <1>13, <2>1, <2>3 DEF Distinct
  <2>6. ASSUME NEW d \in left_out'
        PROVE  \E e \in Owing!ToSet(x) : promise[e].look = promise[d].look
    <3>1. PICK i \in D : d = Id(s[i])
        BY <1>2
    <3>2. PICK j \in DOMAIN s \ D : Look(s[j]) = Look(s[i])
        BY <1>2
    <3>3. i \in DOMAIN s /\ Id(s[j]) \in Owing!ToSet(x)
        BY <1>13, <2>1, <2>3
    <3>4. promise[Id(s[i])].look = Look(s[i]) /\ promise[Id(s[j])].look = Look(s[j])
        BY <1>5, <1>9, <3>3
    <3> QED
        BY <3>1, <3>2, <3>3, <3>4
  <2> QED
      BY <2>4, <2>5, <2>6 DEF Owing!Covered
<1>16. Owing!InOrder(x)
  <2> SUFFICES ASSUME NEW i \in 1..(Len(x) - 1) PROVE promise[x[i]].time <= promise[x[i + 1]].time
      BY DEF Owing!InOrder
  <2>1. i \in DOMAIN t /\ i + 1 \in DOMAIN t /\ i < i + 1
      BY <1>9, <1>13
  <2>2. x[i] = Id(t[i]) /\ x[i + 1] = Id(t[i + 1])
      BY <1>9, <1>13, <2>1
  <2>3. /\ t[i] = s[p[i]] /\ t[i + 1] = s[p[i + 1]] /\ p[i] < p[i + 1]
        /\ p[i] \in DOMAIN s /\ p[i + 1] \in DOMAIN s
      BY <1>6, <1>9, <2>1 DEF Places
  <2>4. s[p[i]].time <= s[p[i + 1]].time
      BY <1>2, <2>3
  <2>5. promise[Id(s[p[i]])].time = s[p[i]].time /\ promise[Id(s[p[i + 1]])].time = s[p[i + 1]].time
      BY <1>5, <1>9, <2>3
  <2> QED
      BY <2>2, <2>3, <2>4, <2>5
<1>17. Owing!ToSet(x) \subseteq DOMAIN promise
    BY <1>15 DEF Owing!Covered
<1>18. (~opt.is_low_memory)' = ~opt.is_low_memory
    BY <1>1
<1> QED
    BY <1>1, <1>12, <1>13, <1>14, <1>15, <1>16, <1>17, <1>18 DEF Owing!Write, x

-----------------------------------------------------------------------------
(* The scan keeps what the report owes.                                       *)

ScanInv == Shape /\ Apart /\ Progress /\ Tasks /\ Reports

LEMMA ScanInvInit == ScanInit => ScanInv
    BY ShapeInit, ApartInit, UnreadInit, TasksInit, ReportsInit DEF ScanInv

LEMMA ScanInvIdle ==
    ASSUME ScanInv, UNCHANGED scanVars
    PROVE  ScanInv' /\ UNCHANGED Owing!vars
<1>1. /\ opt' = opt /\ phase' = phase /\ rules' = rules /\ evtx_files' = evtx_files
      /\ items' = items /\ records_per_detect' = records_per_detect /\ position' = position
      /\ found' = found /\ countdata' = countdata /\ all_detect_infos' = all_detect_infos
      /\ af' = af /\ left_out' = left_out /\ promise' = promise
    BY DEF scanVars, reading, tasks, report
<1>2. /\ RulesKept' = RulesKept /\ Scanned' = Scanned
      /\ \A fs : RecordsIn(fs)' = RecordsIn(fs)
      /\ \A list : KeptOf(list)' = KeptOf(list)
    BY <1>1, SteadyKept
<1>3. /\ Ids' = Ids /\ \A rule, S : Searched(rule, S)' = Searched(rule, S)
      /\ \A R, S : Gathered(R, S)' = Gathered(R, S)
      /\ Judged' = Judged /\ Owed' = Owed
    BY <1>1, SearchedSteady, GatheredSteady, SteadyPromise
<1>4. Shape'
    BY <1>1, <1>2 DEF ScanInv, Shape
<1>5. Apart'
    BY <1>1, SameApart DEF ScanInv
<1>6. Unread' = Unread /\ Batch' = Batch
    BY <1>1, <1>2 DEF Unread, UnreadOf, Batch
<1>7. Progress' /\ Seen' = Seen
    BY <1>1, <1>2, <1>6 DEF ScanInv, Progress, Seen, ReadSoFar
<1>8. Tasks'
  <2>1. \A rule : Been(rule)' = Been(rule)
      BY <1>1, <1>7 DEF Been
  <2>2. \A rule : Searched(rule, Passed(records_per_detect, position[rule.id]))'
                    = Searched(rule, Passed(records_per_detect, position[rule.id]))
      BY <1>1, <1>3
  <2> QED
      BY <1>1, <1>3, <2>1, <2>2 DEF ScanInv, Tasks
<1>9. Reports'
  <2>1. Collected' = Collected
      BY <1>1, <1>3, <1>7 DEF Collected
  <2>2. AfFields' = AfFields
      BY <1>1 DEF AfFields, AfterfactInfo
  <2> QED
      BY <1>1, <1>3, <2>1, <2>2 DEF ScanInv, Reports
<1>10. UNCHANGED Owing!vars
    BY <1>1 DEF Owing!vars, ShownIds
<1> QED
    BY <1>4, <1>5, <1>7, <1>8, <1>9, <1>10 DEF ScanInv

LEMMA ScanInvStep == ScanInv /\ [ScanNext]_scanVars => ScanInv'
<1>1. CASE ScanInv /\ ScanNext
    BY <1>1, ShapeStep, ApartStep, UnreadStep, TasksStep, ReportsStep DEF ScanInv
<1>2. CASE ScanInv /\ UNCHANGED scanVars
    BY <1>2, ScanInvIdle
<1> QED
    BY <1>1, <1>2

LEMMA ForeseenStep == ScanInv /\ Foreseen /\ [ScanNext]_scanVars => Foreseen'
<1> SUFFICES ASSUME ScanInv, Foreseen, [ScanNext]_scanVars PROVE Foreseen'
    OBVIOUS
<1>1. opt' = opt
    BY ShapeStep DEF ScanInv, scanVars
<1> QED
    BY <1>1, SteadyPromise

LEMMA WriteStep ==
    ASSUME ScanInv, Foreseen, ScanNext, AllDue'
    PROVE  Owing!Write \/ UNCHANGED Owing!vars
<1>1. Shape /\ Apart /\ Progress /\ Tasks /\ Reports
    BY DEF ScanInv
<1>2. CASE JoinTasks
    BY <1>1, <1>2, WriteJoin
<1>3. CASE Aggregate
    BY <1>1, <1>3, WriteAggregate
<1>4. CASE Output
    BY <1>1, <1>4, WriteLast, WriteSorted
<1>5. CASE ApplyChannelFilter \/ OpenFile \/ ReadRecord \/ StartTasks \/ EndFile \/ Task
  <2>1. /\ opt' = opt /\ promise' = promise /\ left_out' = left_out
        /\ phase' # "done" /\ phase # "done"
        /\ af' = af \/ EndFile
    <3>1. CASE ApplyChannelFilter \/ OpenFile \/ ReadRecord \/ StartTasks
        BY <3>1 DEF ApplyChannelFilter, OpenFile, ReadRecord, StartTasks, report
    <3>2. CASE EndFile
        BY <3>2 DEF EndFile
    <3>3. CASE Task
        BY <3>3 DEF Task, TaskStep, report
    <3> QED
        BY <1>5, <3>1, <3>2, <3>3
  <2>2. af'.rows = af.rows
    <3>1. EndFile => af' = [af EXCEPT !.record_cnt = @ + counts.record_cnt,
                                      !.recover_record_cnt = @ + counts.recovered]
        BY DEF EndFile
    <3> QED
        BY <1>1, <2>1, <3>1, FieldsAre DEF Reports
  <2> QED
      BY <2>1, <2>2 DEF Owing!vars, ShownIds
<1> QED
    BY <1>2, <1>3, <1>4, <1>5 DEF ScanNext

\* The channel filter guesses well, and then every detection of every record
\* that is looked at is a row, once, or reads like one; rows are only added,
\* and sorted ones are in the order of time: the filter, the batches, the tasks
\* in any order and the removal of duplicates do not show in the report
\* (main.rs:1343, afterfact.rs:254).  That every scan ends stays with TLC.
THEOREM ReportKept == ScanSpec /\ Foreseen => Owing!Safe
<1>1. ScanInit => ScanInv /\ Owing!Init
    BY ScanInvInit, ShownInit
<1>2. ScanInv /\ [ScanNext]_scanVars => ScanInv'
    BY ScanInvStep
<1>3. ScanInv /\ Foreseen /\ [ScanNext]_scanVars => Foreseen'
    BY ForeseenStep
<1>4. ScanInv' /\ Foreseen' => AllDue'
    BY CollectedDueNext DEF ScanInv
<1>5. ScanInv /\ Foreseen /\ [ScanNext]_scanVars => [Owing!Write]_(Owing!vars)
  <2> SUFFICES ASSUME ScanInv, Foreseen, [ScanNext]_scanVars PROVE [Owing!Write]_(Owing!vars)
      OBVIOUS
  <2>1. AllDue'
      BY <1>2, <1>3, <1>4
  <2>2. CASE ScanNext
      BY <2>1, <2>2, WriteStep
  <2>3. CASE UNCHANGED scanVars
      BY <2>3, ScanInvIdle
  <2> QED
      BY <2>2, <2>3
<1> QED
    BY <1>1, <1>2, <1>3, <1>5, PTL DEF ScanSpec, Owing!Safe

-----------------------------------------------------------------------------
(* The numbers of the summary.                                                *)

\* What records are known by: as they are, and as rules that count keep them.
Stamp(t, e) == <<t, e>>
Stamps(S) ==
    {Stamp(Time(r), r.eid) : r \in S}
    \cup {Stamp(AggRecordTimeInfo(r).time, AggRecordTimeInfo(r).eid) : r \in S}

LEMMA StampsGrow == ASSUME NEW S, NEW T, S \subseteq T PROVE Stamps(S) \subseteq Stamps(T)
    BY DEF Stamps

LEMMA GatheredStamps ==
    ASSUME NEW R, NEW S, NEW d \in Gathered(R, S)
    PROVE  RecordIds(d) \subseteq Stamps(S)
<1>1. PICK rule \in R, r \in S : d = create_log_record(rule, r)
    BY GatheredIds
<1>2. d.is_agg = FALSE /\ d.time = Time(r) /\ d.eid = r.eid
    BY <1>1 DEF create_log_record
<1>3. RecordIds(d) = {Stamp(Time(r), r.eid)}
    BY <1>2 DEF RecordIds, Stamp
<1> QED
    BY <1>3 DEF Stamps

LEMMA JudgementStamps ==
    ASSUME NEW rule, NEW S, NEW s, CountIs(s, Hits(rule, S)), NEW d, Judgement(d, rule, s)
    PROVE  RecordIds(d) \subseteq Stamps(S)
<1>1. d.is_agg = TRUE /\ d.agg = s
    BY DEF Judgement, create_agg_log_record
<1>2. RecordIds(d) = {Stamp(s[i].time, s[i].eid) : i \in DOMAIN s}
    BY <1>1 DEF RecordIds, Stamp
<1>3. ASSUME NEW i \in DOMAIN s PROVE Stamp(s[i].time, s[i].eid) \in Stamps(S)
  <2>1. s[i] \in Hits(rule, S)
      BY ListFacts DEF CountIs
  <2>2. PICK r \in S : s[i] = AggRecordTimeInfo(r)
      BY <2>1, HitsOf
  <2> QED
      BY <2>2 DEF Stamps
<1> QED
    BY <1>2, <1>3

LEMMA CollectedStamps ==
    ASSUME Shape, Progress, Tasks
    PROVE  /\ \A d \in Gathered(ToSet(rules), Batch) : RecordIds(d) \subseteq Stamps(Scanned)
           /\ phase # "tasks" => \A d \in Judged : RecordIds(d) \subseteq Stamps(Scanned)
           /\ phase # "tasks" => \A d \in Collected : RecordIds(d) \subseteq Stamps(Scanned)
<1>1. Seen \subseteq Scanned /\ Batch \subseteq Scanned
    BY DEF Seen, ReadSoFar, Progress
<1>2. \A S : S \subseteq Scanned =>
        \A d \in Gathered(ToSet(rules), S) : RecordIds(d) \subseteq Stamps(Scanned)
    BY GatheredStamps, StampsGrow
<1>3. ASSUME phase # "tasks", NEW d \in Judged PROVE RecordIds(d) \subseteq Stamps(Scanned)
  <2>1. PICK rule \in ToSet(rules) : Judgement(d, rule, countdata[rule.id])
      BY InJudged
  <2>2. HasAgg(rule) /\ Been(rule) = Seen
      BY <1>3, <2>1 DEF Judgement, Been
  <2>3. CountIs(countdata[rule.id], Hits(rule, Seen))
      BY <2>2 DEF Tasks
  <2>4. RecordIds(d) \subseteq Stamps(Seen)
      BY <2>1, <2>3, JudgementStamps
  <2> QED
      BY <1>1, <2>4, StampsGrow
<1> QED
    BY <1>1, <1>2, <1>3 DEF Collected

\* As many rows as detections by level, as many rules as unique ones.
Balanced(a) ==
    /\ IsList(a.rows) /\ Tally(a) /\ SumOf(a.total_by_level) = Len(a.rows)
    /\ a.rule_ids = {a.rows[i].id[1] : i \in DOMAIN a.rows}

LEMMA EmitNumbers ==
    ASSUME NEW a, DOMAIN a = AfFields, IsList(a.rows), NEW s, IsList(s), NEW D, NEW X,
           a.detected_record_idset \subseteq X, \A d \in ToSet(s) : RecordIds(d) \subseteq X
    PROVE  /\ emit_csv(a, s, D).record_cnt = a.record_cnt
           /\ emit_csv(a, s, D).detected_record_idset \subseteq X
           /\ DOMAIN emit_csv(a, s, D) = AfFields /\ IsList(emit_csv(a, s, D).rows)
<1> DEFINE t == Without(s, D)
           b == emit_csv(a, s, D)
<1>1. /\ Extended(b, a, t, Len(t)) /\ b.record_cnt = a.record_cnt
      /\ b.detected_record_idset = a.detected_record_idset \cup IdsetOf(t, Len(t))
    BY Emitting
<1>2. IsList(t) /\ ToSet(t) \subseteq ToSet(s)
  <2>1. IsList(t) /\ ToSet(t) = {s[i] : i \in DOMAIN s \ D}
      BY WithoutRange
  <2>2. {s[i] : i \in DOMAIN s \ D} \subseteq ToSet(s)
      BY DEF ToSet
  <2> QED
      BY <2>1, <2>2
<1>3. DOMAIN t = 1..Len(t) /\ \A i \in DOMAIN t : t[i] \in ToSet(t)
    BY <1>2, ListFacts
<1> HIDE DEF t, b
<1>4. IdsetOf(t, Len(t)) \subseteq X
    BY <1>2, <1>3 DEF IdsetOf
<1>5. DOMAIN b = AfFields /\ IsList(b.rows)
    BY <1>1 DEF Extended
<1> QED
    BY <1>1, <1>4, <1>5 DEF b

LEMMA EmitBalanced ==
    ASSUME NEW a, DOMAIN a = AfFields, Balanced(a), NEW s, IsList(s), NEW D, ~opt.no_summary,
           \A d \in ToSet(s) : d.level \in Levels
    PROVE  Balanced(emit_csv(a, s, D))
<1> DEFINE t == Without(s, D)
           b == emit_csv(a, s, D)
           m == Len(a.rows)
           n == Len(t)
<1>1. /\ Extended(b, a, t, n)
      /\ (\A i \in 1..n : t[i].level \in Levels) => SummedThem(b, a, t, n)
    BY Emitting DEF Balanced
<1>2. IsList(t) /\ ToSet(t) \subseteq ToSet(s)
  <2>1. IsList(t) /\ ToSet(t) = {s[i] : i \in DOMAIN s \ D}
      BY WithoutRange
  <2>2. {s[i] : i \in DOMAIN s \ D} \subseteq ToSet(s)
      BY DEF ToSet
  <2> QED
      BY <2>1, <2>2
<1>3. DOMAIN t = 1..n /\ n \in Nat /\ \A i \in DOMAIN t : t[i] \in ToSet(t)
    BY <1>2, ListFacts
<1>4. SummedThem(b, a, t, n)
    BY <1>1, <1>2, <1>3
<1>5. /\ IsList(b.rows) /\ Len(b.rows) = m + n
      /\ \A i \in 1..m : b.rows[i] = a.rows[i]
      /\ \A i \in 1..n : b.rows[m + i].id = Id(t[i])
      /\ IsList(a.rows) /\ SumOf(a.total_by_level) = m
      /\ a.rule_ids = {a.rows[i].id[1] : i \in DOMAIN a.rows}
    BY <1>1 DEF Extended, Balanced
<1>6. /\ DOMAIN a.rows = 1..m /\ m \in Nat /\ DOMAIN b.rows = 1..Len(b.rows)
    BY <1>5, ListFacts
<1>7. /\ Tally(b) /\ SumOf(b.total_by_level) = Len(b.rows)
      /\ b.rule_ids = a.rule_ids \cup RuleIdsOf(t, n)
    BY <1>4, <1>5 DEF SummedThem
<1> HIDE DEF b, t, m, n
<1>8. \A d : Id(d)[1] = d.rule.id
    BY DEF Id
<1>9. \A i \in 1..n : b.rows[m + i].id[1] = t[i].rule.id
    BY <1>5, <1>8
<1>10. ASSUME NEW x \in b.rule_ids PROVE \E i \in DOMAIN b.rows : b.rows[i].id[1] = x
  <2>1. CASE x \in a.rule_ids
    <3>1. PICK i \in 1..m : a.rows[i].id[1] = x
        BY <1>5, <1>6, <2>1
    <3>2. i \in DOMAIN b.rows /\ b.rows[i] = a.rows[i]
        BY <1>3, <1>5, <1>6
    <3> QED
        BY <3>1, <3>2
  <2>2. CASE x \in RuleIdsOf(t, n)
    <3>1. PICK i \in 1..n : t[i].rule.id = x
        BY <2>2 DEF RuleIdsOf
    <3>2. m + i \in DOMAIN b.rows
        BY <1>3, <1>5, <1>6
    <3> QED
        BY <1>9, <3>1, <3>2
  <2> QED
      BY <1>7, <2>1, <2>2
<1>11. ASSUME NEW i \in DOMAIN b.rows PROVE b.rows[i].id[1] \in b.rule_ids
  <2>1. CASE i \in 1..m
    <3>1. a.rows[i].id[1] \in a.rule_ids
        BY <1>5, <1>6, <2>1
    <3> QED
        BY <1>5, <1>7, <2>1, <3>1
  <2>2. CASE i \notin 1..m
    <3>1. i - m \in 1..n /\ m + (i - m) = i
        BY <1>3, <1>5, <1>6, <2>2
    <3>2. t[i - m].rule.id \in RuleIdsOf(t, n)
        BY <3>1 DEF RuleIdsOf
    <3> QED
        BY <1>7, <1>9, <3>1, <3>2
  <2> QED
      BY <2>1, <2>2
<1>12. b.rule_ids = {b.rows[i].id[1] : i \in DOMAIN b.rows}
    BY <1>10, <1>11
<1> QED
    BY <1>5, <1>7, <1>12 DEF Balanced, b

\* Every record read is counted, and what has hits was read.
Totals ==
    /\ af.record_cnt \in Nat /\ counts.record_cnt \in Nat
    /\ Cardinality(ReadSoFar) <=
        af.record_cnt + (IF phase \in {"read", "tasks"} THEN counts.record_cnt ELSE 0)
    /\ af.detected_record_idset \subseteq Stamps(Scanned)
    /\ ~opt.no_summary => Balanced(af)
    /\ phase = "done" /\ opt.action # "pivot" =>
        /\ summary.hits = Cardinality(af.detected_record_idset)
        /\ summary.total = af.record_cnt
        /\ summary.count = [total |-> SumOf(af.total_by_level), unique |-> SumOf(af.unique_by_level)]

LEMMA TotalsInit ==
    ASSUME ScanInit
    PROVE  Totals
<1>1. /\ phase = "filter" /\ af = AfterfactInfo /\ counts = [record_cnt |-> 0, recovered |-> 0]
    BY DEF ScanInit
<1>2. /\ af.rows = <<>> /\ af.record_cnt = 0 /\ af.detected_record_idset = {}
      /\ af.rule_ids = {} /\ af.total_by_level = [l \in Levels |-> 0]
      /\ af.unique_by_level = [l \in Levels |-> 0]
    BY <1>1 DEF AfterfactInfo
<1>3. Cardinality(ReadSoFar) = 0
    BY UnreadInit, FS_EmptySet
<1>4. SumOf([l \in Levels |-> 0]) = 0 /\ [l \in Levels |-> 0] \in [Levels -> Nat]
    BY DEF SumOf, Levels
<1>5. Balanced(af)
  <2>1. Len(<<>>) = 0 /\ IsList(<<>>) /\ DOMAIN <<>> = {}
      BY EmptyList
  <2>2. IsFiniteSet({}) /\ Cardinality({}) = 0
      BY FS_EmptySet
  <2> QED
      BY <1>2, <1>4, <2>1, <2>2 DEF Balanced, Tally
<1>6. counts.record_cnt = 0
    BY <1>1
<1> QED
    BY <1>1, <1>2, <1>3, <1>5, <1>6 DEF Totals

\* Nothing is written or read.
LEMMA SameTotals ==
    ASSUME Shape, Totals, opt' = opt, Scanned' = Scanned, ReadSoFar' = ReadSoFar, af' = af,
           phase \notin {"read", "tasks"} \/ (counts' = counts /\ phase' \in {"read", "tasks"}),
           counts'.record_cnt \in Nat, phase' # "done" \/ opt.action = "pivot"
    PROVE  Totals'
<1>1. /\ af'.record_cnt \in Nat /\ counts'.record_cnt \in Nat
      /\ af'.detected_record_idset \subseteq Stamps(Scanned')
    BY DEF Totals
<1>2. (~opt.no_summary => Balanced(af))'
    BY DEF Totals, Balanced, Tally
<1>3. (phase = "done" /\ opt.action # "pivot")' => FALSE
    OBVIOUS
<1>4. Cardinality(ReadSoFar') <=
        af'.record_cnt + (IF phase' \in {"read", "tasks"} THEN counts'.record_cnt ELSE 0)
  <2> DEFINE y == Cardinality(ReadSoFar)
             n == af.record_cnt
             k == counts'.record_cnt
  <2>1. /\ n \in Nat /\ k \in Nat
        /\ y <= n + (IF phase \in {"read", "tasks"} THEN counts.record_cnt ELSE 0)
      BY DEF Totals
  <2>2. y \in Nat
    <3>1. IsFiniteSet(ReadSoFar)
        BY ScannedFinite, FS_Subset DEF ReadSoFar, Shape
    <3> QED
        BY <3>1, FS_CardinalityType
  <2>3. Cardinality(ReadSoFar') = y /\ af'.record_cnt = n
      OBVIOUS
  <2>4. CASE phase \notin {"read", "tasks"}
    <3>1. y <= n + 0
        BY <2>1, <2>4
    <3> HIDE DEF y, n, k
    <3>2. y <= n + k /\ y <= n + 0
        BY <2>1, <2>2, <3>1
    <3> QED
        BY <2>3, <3>2 DEF k
  <2>5. CASE phase \in {"read", "tasks"}
    <3>1. phase' \in {"read", "tasks"} /\ counts' = counts
        BY <2>5
    <3> QED
        BY <2>1, <2>3, <2>5, <3>1
  <2> QED
      BY <2>4, <2>5
<1> QED
    BY <1>1, <1>2, <1>3, <1>4 DEF Totals

LEMMA TotalsRead ==
    ASSUME ScanInv, Totals, ReadRecord
    PROVE  Totals'
<1> DEFINE A == ToSet(NewlyRead)
           more == IF Head(items).ok THEN Len(Head(items).records) ELSE 1
<1>1. /\ phase = "read" /\ phase' = phase /\ opt' = opt /\ af' = af
      /\ counts' = [record_cnt |-> counts.record_cnt + more,
                    recovered |-> counts.recovered
                        + (IF Head(items).ok /\ \E i \in DOMAIN Head(items).records :
                                Head(items).records[i].recovered THEN 1 ELSE 0)]
      /\ items # <<>>
    BY DEF ReadRecord, report
<1>2. counts'.record_cnt = counts.record_cnt + more
    BY <1>1
<1>3. /\ Scanned' = Scanned /\ ReadSoFar' = ReadSoFar \cup A
    BY UnreadStep DEF ScanInv, ScanNext
<1>4. IsList(NewlyRead) /\ Len(NewlyRead) <= more
    BY ReadAdds DEF ScanInv
<1>5. more \in Nat
    BY <1>1, TailItems, ListFacts DEF ScanInv, Shape
<1>6. Len(NewlyRead) \in Nat /\ IsFiniteSet(A) /\ Cardinality(A) <= Len(NewlyRead) /\ Cardinality(A) \in Nat
    BY <1>4, ListFacts, ListCardinality
<1>7. IsFiniteSet(ReadSoFar)
    BY ScannedFinite, FS_Subset DEF ReadSoFar, ScanInv, Shape
<1> HIDE DEF A, more
<1>8. /\ Cardinality(ReadSoFar \cup A) = Cardinality(ReadSoFar) + Cardinality(A) - Cardinality(ReadSoFar \cap A)
      /\ Cardinality(ReadSoFar \cap A) \in Nat /\ Cardinality(ReadSoFar) \in Nat
    BY <1>6, <1>7, FS_Union, FS_Intersection, FS_CardinalityType
<1>9. Cardinality(ReadSoFar') <= Cardinality(ReadSoFar) + more /\ Cardinality(ReadSoFar') \in Nat
  <2>1. Cardinality(ReadSoFar') =
            Cardinality(ReadSoFar) + Cardinality(A) - Cardinality(ReadSoFar \cap A)
      BY <1>3, <1>8
  <2>2. IsFiniteSet(ReadSoFar')
      BY <1>3, <1>6, <1>7, FS_Union
  <2>3. Cardinality(ReadSoFar') \in Nat
      BY <2>2, FS_CardinalityType
  <2> DEFINE x == Cardinality(ReadSoFar')
             y == Cardinality(ReadSoFar)
             z == Cardinality(A)
             w == Cardinality(ReadSoFar \cap A)
             v == Len(NewlyRead)
  <2>4. x = y + z - w /\ y \in Nat /\ z \in Nat /\ w \in Nat /\ v \in Nat /\ z <= v /\ v <= more
      BY <1>4, <1>6, <1>8, <2>1
  <2> HIDE DEF x, y, z, w, v
  <2>5. x <= y + more
      BY <1>5, <2>4
  <2> QED
      BY <2>3, <2>5 DEF x, y
<1>10. /\ af.record_cnt \in Nat /\ counts.record_cnt \in Nat
       /\ Cardinality(ReadSoFar) <= af.record_cnt + counts.record_cnt
    BY <1>1 DEF Totals
<1>11. Cardinality(ReadSoFar') <= af.record_cnt + counts'.record_cnt
  <2> DEFINE x == Cardinality(ReadSoFar')
             y == Cardinality(ReadSoFar)
  <2>1. x <= y + more /\ x \in Nat /\ y \in Nat /\ y <= af.record_cnt + counts.record_cnt
      BY <1>8, <1>9, <1>10
  <2> HIDE DEF x, y
  <2>2. x <= af.record_cnt + (counts.record_cnt + more)
      BY <1>5, <1>10, <2>1
  <2> QED
      BY <1>2, <2>2 DEF x
<1>12. counts'.record_cnt \in Nat
    BY <1>2, <1>5, <1>10
<1> QED
    BY <1>1, <1>3, <1>11, <1>12 DEF Totals, Balanced, Tally

LEMMA TotalsEndFile ==
    ASSUME ScanInv, Totals, EndFile
    PROVE  Totals'
<1>1. /\ phase = "read" /\ phase' = "file" /\ opt' = opt /\ counts' = counts
      /\ af' = [af EXCEPT !.record_cnt = @ + counts.record_cnt,
                          !.recover_record_cnt = @ + counts.recovered]
    BY DEF EndFile, reading
<1>2. /\ Scanned' = Scanned /\ ReadSoFar' = ReadSoFar
  <2>1. ~ReadRecord /\ ~JoinTasks
      BY <1>1 DEF ReadRecord, JoinTasks
  <2> QED
      BY <2>1, UnreadStep DEF ScanInv, ScanNext
<1>3. /\ af'.record_cnt = af.record_cnt + counts.record_cnt
      /\ af'.detected_record_idset = af.detected_record_idset
      /\ af'.rows = af.rows /\ af'.total_by_level = af.total_by_level
      /\ af'.unique_by_level = af.unique_by_level /\ af'.rule_ids = af.rule_ids
    BY <1>1, FieldsAre DEF ScanInv, Reports
<1>4. af.record_cnt \in Nat /\ counts.record_cnt \in Nat
      /\ Cardinality(ReadSoFar) <= af.record_cnt + counts.record_cnt
    BY <1>1 DEF Totals
<1>5. af'.record_cnt \in Nat /\ Cardinality(ReadSoFar') <= af'.record_cnt + 0
  <2> DEFINE y == Cardinality(ReadSoFar)
  <2>1. y <= af'.record_cnt
      BY <1>3, <1>4
  <2>2. Cardinality(ReadSoFar') = y
      BY <1>2
  <2>3. af'.record_cnt \in Nat
      BY <1>3, <1>4
  <2> HIDE DEF y
  <2> QED
      BY <2>1, <2>2, <2>3
<1> QED
    BY <1>1, <1>2, <1>3, <1>4, <1>5 DEF Totals, Balanced, Tally

\* Where rows are written.
LEMMA TotalsEmit ==
    ASSUME ScanInv, Totals, ScanNext, NEW a, DOMAIN a = AfFields, Same(a, af), a.rows = af.rows,
           NEW s, IsList(s), NEW D, af' = emit_csv(a, s, D),
           \A d \in ToSet(s) : d.level \in Levels /\ RecordIds(d) \subseteq Stamps(Scanned),
           counts' = counts, phase' \in {"read", "tasks"} <=> phase \in {"read", "tasks"},
           ReadSoFar' = ReadSoFar, opt' = opt, Scanned' = Scanned,
           phase' = "done" =>
                /\ summary'.hits = Cardinality(af'.detected_record_idset)
                /\ summary'.total = af'.record_cnt
                /\ summary'.count = [total |-> SumOf(af'.total_by_level),
                                     unique |-> SumOf(af'.unique_by_level)]
    PROVE  Totals'
<1>1. IsList(a.rows) /\ a.detected_record_idset \subseteq Stamps(Scanned)
    BY DEF ScanInv, Reports, Same, Totals
<1>2. af'.record_cnt = a.record_cnt /\ af'.detected_record_idset \subseteq Stamps(Scanned)
    BY <1>1, EmitNumbers
<1>3. a.record_cnt = af.record_cnt
    BY DEF Same
<1>4. ~opt.no_summary => Balanced(af')
  <2> SUFFICES ASSUME ~opt.no_summary PROVE Balanced(af')
      OBVIOUS
  <2>1. Balanced(a)
      BY DEF Totals, Balanced, Tally, Same
  <2>2. Balanced(emit_csv(a, s, D))
      BY <2>1, EmitBalanced
  <2> QED
      BY <2>2
<1>5. (~opt.no_summary => Balanced(af))'
    BY <1>4 DEF Balanced, Tally
<1> QED
    BY <1>2, <1>3, <1>5 DEF Totals

LEMMA TotalsIdle ==
    ASSUME ScanInv, Totals, UNCHANGED scanVars
    PROVE  Totals'
<1>1. /\ opt' = opt /\ phase' = phase /\ evtx_files' = evtx_files /\ items' = items
      /\ af' = af /\ counts' = counts /\ summary' = summary
    BY DEF scanVars, reading, report
<1>2. /\ Scanned' = Scanned
      /\ \A fs : RecordsIn(fs)' = RecordsIn(fs)
      /\ \A list : KeptOf(list)' = KeptOf(list)
    BY <1>1, SteadyKept
<1>3. ReadSoFar' = ReadSoFar
    BY <1>1, <1>2 DEF Unread, UnreadOf, ReadSoFar
<1> QED
    BY <1>1, <1>2, <1>3 DEF Totals, Balanced, Tally

\* Steps that neither read nor write.
LEMMA TotalsQuiet ==
    ASSUME ScanInv, Totals, ScanNext, Scanned' = Scanned, ReadSoFar' = ReadSoFar,
           ApplyChannelFilter \/ OpenFile \/ StartTasks \/ Task
    PROVE  Totals'
<1>1. CASE ApplyChannelFilter \/ OpenFile
  <2>1. /\ opt' = opt /\ phase \notin {"read", "tasks"} /\ phase' # "done" /\ af' = af
        /\ counts' = counts \/ counts' = [record_cnt |-> 0, recovered |-> 0]
      BY <1>1 DEF ApplyChannelFilter, OpenFile, report
  <2>2. counts'.record_cnt \in Nat
      BY <2>1 DEF Totals
  <2> QED
      BY <2>1, <2>2, SameTotals DEF ScanInv
<1>2. CASE StartTasks \/ Task
  <2>1. opt' = opt /\ phase' \in {"read", "tasks"} /\ phase' # "done" /\ af' = af /\ counts' = counts
      BY <1>2 DEF StartTasks, Task, TaskStep, reading, report
  <2>2. counts'.record_cnt \in Nat
      BY <2>1 DEF Totals
  <2> QED
      BY <2>1, <2>2, SameTotals DEF ScanInv
<1> QED
    BY <1>1, <1>2

LEMMA TotalsJoin ==
    ASSUME ScanInv, Totals, ScanNext, Scanned' = Scanned, ReadSoFar' = ReadSoFar, JoinTasks
    PROVE  Totals'
<1> DEFINE log == FlattenSeq([i \in DOMAIN rules |-> found[rules[i].id]])
           seen == [af EXCEPT !.detect_time = DetectTime(log)]
<1>1. /\ phase = "tasks" /\ phase' = "read" /\ opt' = opt /\ counts' = counts
      /\ \A i \in DOMAIN rules : position[rules[i].id] > Len(records_per_detect)
      /\ opt.is_low_memory => af' = emit_csv(seen, log, {})
      /\ ~opt.is_low_memory => af' = seen
    BY DEF JoinTasks, reading
<1>2. IsList(log) /\ ToSet(log) = Gathered(ToSet(rules), Batch)
    BY <1>1, FoundLog DEF ScanInv
<1>3. DOMAIN seen = AfFields /\ seen.rows = af.rows /\ Same(seen, af)
  <2> HIDE DEF log
  <2> QED
      BY FieldsAre DEF ScanInv, Reports, Same
<1> HIDE DEF log, seen
<1>4. CASE opt.is_low_memory
  <2>1. Batch \subseteq Analysed
      BY ScannedAnalysed DEF ScanInv, Progress
  <2>2. \A d \in ToSet(log) : d.level \in Levels /\ RecordIds(d) \subseteq Stamps(Scanned)
      BY <1>2, <2>1, CollectedKnown, CollectedStamps DEF ScanInv
  <2>3. (phase' \in {"read", "tasks"} <=> phase \in {"read", "tasks"}) /\ phase' # "done"
      BY <1>1
  <2>4. af' = emit_csv(seen, log, {})
      BY <1>1, <1>4
  <2> QED
      BY <1>1, <1>2, <1>3, <2>2, <2>3, <2>4, TotalsEmit
<1>5. CASE ~opt.is_low_memory
  <2>1. Same(af', af) /\ af'.rows = af.rows
      BY <1>1, <1>3, <1>5
  <2> QED
      BY <1>1, <2>1 DEF Totals, Balanced, Tally, Same
<1> QED
    BY <1>4, <1>5

LEMMA TotalsAggregate ==
    ASSUME ScanInv, Totals, ScanNext, Scanned' = Scanned, ReadSoFar' = ReadSoFar, Aggregate
    PROVE  Totals'
<1> DEFINE log == FlattenSeq([i \in DOMAIN rules |-> judged(rules[i], countdata[rules[i].id])])
<1>1. /\ phase = "file" /\ opt' = opt /\ counts' = counts
      /\ phase' = IF opt.action = "pivot" THEN "done" ELSE "output"
      /\ opt.action # "pivot" /\ opt.is_low_memory => af' = emit_csv(af, log, {})
      /\ ~(opt.action # "pivot" /\ opt.is_low_memory) => af' = af
    BY DEF Aggregate, reading
<1>2. IsList(log) /\ ToSet(log) = Judged
    BY JudgedLog DEF ScanInv
<1> HIDE DEF log
<1>3. CASE opt.action # "pivot" /\ opt.is_low_memory
  <2>1. \A d \in ToSet(log) : d.level \in Levels /\ RecordIds(d) \subseteq Stamps(Scanned)
      BY <1>1, <1>2, CollectedKnown, CollectedStamps DEF ScanInv
  <2>2. /\ phase' = "output"
        /\ (phase' \in {"read", "tasks"} <=> phase \in {"read", "tasks"}) /\ phase' # "done"
      BY <1>1, <1>3
  <2>3. af' = emit_csv(af, log, {}) /\ DOMAIN af = AfFields /\ Same(af, af)
      BY <1>1, <1>3 DEF Same, ScanInv, Reports
  <2> QED
      BY <1>1, <1>2, <2>1, <2>2, <2>3, TotalsEmit
<1>4. CASE ~(opt.action # "pivot" /\ opt.is_low_memory)
  <2>1. af' = af /\ phase \notin {"read", "tasks"} /\ (phase' # "done" \/ opt.action = "pivot")
      BY <1>1, <1>4
  <2>2. counts'.record_cnt \in Nat
      BY <1>1 DEF Totals
  <2> QED
      BY <1>1, <2>1, <2>2, SameTotals DEF ScanInv
<1> QED
    BY <1>3, <1>4

LEMMA TotalsOutput ==
    ASSUME ScanInv, Totals, ScanNext, Scanned' = Scanned, ReadSoFar' = ReadSoFar, Output
    PROVE  Totals'
<1>1. /\ opt' = opt /\ phase = "output" /\ phase' = "done" /\ counts' = counts
      /\ summary' = Summary(af', tl)
    BY DEF Output, reading
<1>2. /\ summary'.hits = Cardinality(af'.detected_record_idset)
      /\ summary'.total = af'.record_cnt
      /\ summary'.count = [total |-> SumOf(af'.total_by_level),
                           unique |-> SumOf(af'.unique_by_level)]
    BY <1>1 DEF Summary
<1>3. (phase' \in {"read", "tasks"} <=> phase \in {"read", "tasks"})
    BY <1>1
<1>4. /\ opt.is_low_memory => af' = af
      /\ ~opt.is_low_memory => \E s, D : /\ IsList(s) /\ ToSet(s) = ToSet(all_detect_infos)
                                         /\ af' = emit_csv(af, s, D)
    BY OutputIs DEF ScanInv
<1>5. CASE opt.is_low_memory
    BY <1>1, <1>2, <1>4, <1>5 DEF Totals, Balanced, Tally
<1>6. CASE ~opt.is_low_memory
  <2>1. PICK s, D : /\ IsList(s) /\ ToSet(s) = ToSet(all_detect_infos)
                    /\ af' = emit_csv(af, s, D)
      BY <1>4, <1>6
  <2>2. ToSet(s) = Collected
      BY <1>6, <2>1 DEF ScanInv, Reports
  <2>3. \A d \in ToSet(s) : d.level \in Levels /\ RecordIds(d) \subseteq Stamps(Scanned)
      BY <1>1, <2>2, CollectedKnown, CollectedStamps DEF ScanInv
  <2>4. DOMAIN af = AfFields /\ Same(af, af)
      BY DEF Same, ScanInv, Reports
  <2> QED
      BY <1>1, <1>2, <1>3, <2>1, <2>3, <2>4, TotalsEmit
<1> QED
    BY <1>5, <1>6

LEMMA TotalsStep == ScanInv /\ Totals /\ [ScanNext]_scanVars => Totals'
<1> SUFFICES ASSUME ScanInv, Totals, [ScanNext]_scanVars PROVE Totals'
    OBVIOUS
<1>1. CASE UNCHANGED scanVars
    BY <1>1, TotalsIdle
<1>2. CASE ScanNext
  <2>1. /\ Scanned' = Scanned
        /\ JoinTasks => ReadSoFar' = ReadSoFar
        /\ ReadRecord \/ JoinTasks \/ ReadSoFar' = ReadSoFar
      BY <1>2, UnreadStep DEF ScanInv
  <2>2. CASE ReadRecord
      BY <2>2, TotalsRead
  <2>3. CASE EndFile
      BY <2>3, TotalsEndFile
  <2>4. CASE ~ReadRecord /\ ~EndFile
    <3>1. ReadSoFar' = ReadSoFar
        BY <2>1, <2>4
    <3>2. CASE ApplyChannelFilter \/ OpenFile \/ StartTasks \/ Task
        BY <1>2, <2>1, <3>1, <3>2, TotalsQuiet
    <3>3. CASE JoinTasks
        BY <1>2, <2>1, <3>1, <3>3, TotalsJoin
    <3>4. CASE Aggregate
        BY <1>2, <2>1, <3>1, <3>4, TotalsAggregate
    <3>5. CASE Output
        BY <1>2, <2>1, <3>1, <3>5, TotalsOutput
    <3> QED
        BY <1>2, <2>4, <3>2, <3>3, <3>4, <3>5 DEF ScanNext
  <2> QED
      BY <2>2, <2>3, <2>4
<1> QED
    BY <1>1, <1>2

\* Only a record without a time or an id is known by two names.
LEMMA StampsFew ==
    ASSUME opt \in Options
    PROVE  /\ IsFiniteSet(Stamps(Scanned)) /\ IsFiniteSet(Unstamped)
           /\ Cardinality(Stamps(Scanned)) <= Cardinality(Scanned) + Cardinality(Unstamped)
<1> DEFINE A == {Stamp(Time(r), r.eid) : r \in Scanned}
           B == {Stamp(AggRecordTimeInfo(r).time, AggRecordTimeInfo(r).eid) : r \in Unstamped}
<1>1. IsFiniteSet(Scanned) /\ IsFiniteSet(Unstamped)
    BY ScannedFinite, FS_Subset DEF Unstamped
<1>2. IsFiniteSet(A) /\ Cardinality(A) <= Cardinality(Scanned)
  <2>1. [r \in Scanned |-> Stamp(Time(r), r.eid)] \in Surjection(Scanned, A)
      BY DEF Surjection
  <2> QED
      BY <1>1, <2>1, FS_Surjection
<1>3. IsFiniteSet(B) /\ Cardinality(B) <= Cardinality(Unstamped)
  <2>1. [r \in Unstamped |-> Stamp(AggRecordTimeInfo(r).time, AggRecordTimeInfo(r).eid)]
            \in Surjection(Unstamped, B)
      BY DEF Surjection
  <2> QED
      BY <1>1, <2>1, FS_Surjection
<1>4. ASSUME NEW x \in Stamps(Scanned) PROVE x \in A \cup B
  <2>1. CASE x \in A
      BY <2>1
  <2>2. CASE x \notin A
    <3>1. PICK r \in Scanned : x = Stamp(AggRecordTimeInfo(r).time, AggRecordTimeInfo(r).eid)
        BY <2>2 DEF Stamps
    <3>2. CASE r.time = NoTime \/ r.eid = NoEventId
      <4>1. r \in Unstamped
          BY <3>2, ScannedAnalysed DEF Unstamped
      <4> QED
          BY <3>1, <4>1
    <3>3. CASE ~(r.time = NoTime \/ r.eid = NoEventId)
      <4>1. AggRecordTimeInfo(r).time = Time(r) /\ AggRecordTimeInfo(r).eid = r.eid
          BY <3>3 DEF AggRecordTimeInfo, Time
      <4> QED
          BY <3>1, <4>1
    <3> QED
        BY <3>2, <3>3
  <2> QED
      BY <2>1, <2>2
<1> HIDE DEF A, B
<1>5. Stamps(Scanned) \subseteq A \cup B
    BY <1>4
<1>6. /\ IsFiniteSet(A \cup B) /\ Cardinality(A \cap B) \in Nat
      /\ Cardinality(A \cup B) = Cardinality(A) + Cardinality(B) - Cardinality(A \cap B)
    BY <1>2, <1>3, FS_Union, FS_Intersection, FS_CardinalityType
<1>7. IsFiniteSet(Stamps(Scanned)) /\ Cardinality(Stamps(Scanned)) <= Cardinality(A \cup B)
    BY <1>5, <1>6, FS_Subset
<1>8. /\ Cardinality(A) \in Nat /\ Cardinality(B) \in Nat /\ Cardinality(Stamps(Scanned)) \in Nat
      /\ Cardinality(Scanned) \in Nat /\ Cardinality(Unstamped) \in Nat
    BY <1>1, <1>2, <1>3, <1>7, FS_CardinalityType
<1> DEFINE a == Cardinality(A)
           b == Cardinality(B)
           c == Cardinality(A \cap B)
           u == Cardinality(A \cup B)
           n == Cardinality(Scanned)
           m == Cardinality(Unstamped)
           k == Cardinality(Stamps(Scanned))
<1>9. /\ a <= n /\ b <= m /\ u = a + b - c /\ k <= u
      /\ a \in Nat /\ b \in Nat /\ c \in Nat /\ n \in Nat /\ m \in Nat /\ k \in Nat
    BY <1>2, <1>3, <1>6, <1>7, <1>8
<1> HIDE DEF a, b, c, u, n, m, k
<1>10. k <= n + m
    BY <1>9
<1> QED
    BY <1>1, <1>7, <1>10 DEF k, n, m

LEMMA HitsCounted == ScanInv /\ Totals => HitsWithinRecords
<1> SUFFICES ASSUME ScanInv, Totals, phase = "done", opt.action # "pivot"
             PROVE  summary.hits <= summary.total + Cardinality(Unstamped)
    BY DEF HitsWithinRecords
<1>1. Seen = Scanned
    BY OverSeen DEF ScanInv
<1>2. ReadSoFar = Scanned
    BY <1>1 DEF Seen, ReadSoFar
<1>3. opt \in Options
    BY DEF ScanInv, Shape
<1>4. /\ af.detected_record_idset \subseteq Stamps(Scanned) /\ af.record_cnt \in Nat
      /\ Cardinality(ReadSoFar) <= af.record_cnt + 0
      /\ summary.hits = Cardinality(af.detected_record_idset) /\ summary.total = af.record_cnt
    BY DEF Totals
<1>5. /\ IsFiniteSet(Stamps(Scanned)) /\ IsFiniteSet(Unstamped) /\ IsFiniteSet(Scanned)
      /\ Cardinality(Stamps(Scanned)) <= Cardinality(Scanned) + Cardinality(Unstamped)
    BY <1>3, StampsFew, ScannedFinite
<1>6. /\ Cardinality(af.detected_record_idset) <= Cardinality(Stamps(Scanned))
      /\ IsFiniteSet(af.detected_record_idset)
    BY <1>4, <1>5, FS_Subset
<1> DEFINE h == Cardinality(af.detected_record_idset)
           k == Cardinality(Stamps(Scanned))
           n == Cardinality(Scanned)
           m == Cardinality(Unstamped)
           t == af.record_cnt
<1>7. h \in Nat /\ k \in Nat /\ n \in Nat /\ m \in Nat /\ t \in Nat
    BY <1>4, <1>5, <1>6, FS_CardinalityType
<1>8. h <= k /\ k <= n + m /\ n <= t + 0
    BY <1>2, <1>4, <1>5, <1>6
<1> HIDE DEF h, k, n, m, t
<1>9. h <= t + m
    BY <1>7, <1>8
<1> QED
    BY <1>4, <1>9 DEF h, t, m

LEMMA SummaryKnown == ScanInv /\ Totals => SummaryAgrees
<1> SUFFICES ASSUME Totals, phase = "done", opt.action # "pivot", ~opt.no_summary
             PROVE  /\ summary.count.total = Len(af.rows)
                    /\ summary.count.unique = Cardinality({af.rows[i].id[1] : i \in DOMAIN af.rows})
    BY DEF SummaryAgrees
<1>1. Balanced(af) /\ summary.count = [total |-> SumOf(af.total_by_level),
                                       unique |-> SumOf(af.unique_by_level)]
    BY DEF Totals
<1>2. summary.count.total = SumOf(af.total_by_level)
      /\ summary.count.unique = SumOf(af.unique_by_level)
    BY <1>1
<1> QED
    BY <1>1, <1>2 DEF Balanced, Tally

LEMMA TotalsHold == ScanSpec => [](ScanInv /\ Totals)
<1>1. ScanInit => ScanInv /\ Totals
    BY ScanInvInit, TotalsInit
<1>2. ScanInv /\ Totals /\ [ScanNext]_scanVars => (ScanInv /\ Totals)'
    BY ScanInvStep, TotalsStep
<1> QED
    BY <1>1, <1>2, PTL DEF ScanSpec

\* The events with hits of the summary never outnumber the events that were
\* read, but for records without a time or an id: what afterfact.rs:753
\* subtracts, an unsigned number, goes below zero by no more than those.
THEOREM HitsWithinRecordsHolds == ScanSpec => []HitsWithinRecords
    BY TotalsHold, HitsCounted, PTL

\* Every row is counted once in the totals of the summary, and the first row of
\* every rule in its unique detections, with and without sorting and whether
\* duplicates are removed or not (afterfact.rs:491).
THEOREM SummaryAgreesHolds == ScanSpec => []SummaryAgrees
    BY TotalsHold, SummaryKnown, PTL

-----------------------------------------------------------------------------
(* What is written as DUP.                                                    *)

IsUndone(f, rows, m) ==
    f = [i \in 0..m |->
            IF i = 0 THEN [c \in DetailColumns |-> Plain(Dash)]
            ELSE [c \in DOMAIN rows[i].cells |->
                    IF c \in DetailColumns /\ rows[i].cells[c] = Dup THEN f[i - 1][c]
                    ELSE rows[i].cells[c]]]

LEMMA UndoneExists ==
    ASSUME NEW rows
    PROVE  \A m \in Nat : \E f : IsUndone(f, rows, m)
<1> DEFINE none == [c \in DetailColumns |-> Plain(Dash)]
           G == {m \in Nat : \E f : IsUndone(f, rows, m)}
<1>1. 0 \in G
  <2>1. IsUndone([n \in 0..0 |-> none], rows, 0)
      BY DEF IsUndone
  <2> QED
      BY <2>1
<1>2. ASSUME NEW m \in Nat, m \in G PROVE m + 1 \in G
  <2>1. PICK f : IsUndone(f, rows, m)
      BY <1>2
  <2> DEFINE step(x, n) == [c \in DOMAIN rows[n].cells |->
                              IF c \in DetailColumns /\ rows[n].cells[c] = Dup THEN x[c]
                              ELSE rows[n].cells[c]]
             g == [n \in 0..(m + 1) |-> IF n = m + 1 THEN step(f[m], n) ELSE f[n]]
             h == [n \in 0..(m + 1) |-> IF n = 0 THEN none ELSE step(g[n - 1], n)]
  <2>0. f = [n \in 0..m |-> IF n = 0 THEN none ELSE step(f[n - 1], n)]
      BY <2>1 DEF IsUndone
  <2> HIDE DEF step, none
  <2>2. ASSUME NEW n \in 0..(m + 1) PROVE g[n] = h[n]
    <3>1. CASE n = m + 1
      <4>1. n # 0 /\ n - 1 = m /\ m \in 0..(m + 1) /\ m # m + 1
          BY <3>1
      <4> QED
          BY <3>1, <4>1
    <3>2. CASE n # m + 1
      <4>1. n \in 0..m /\ (n # 0 => n - 1 \in 0..(m + 1) /\ n - 1 # m + 1)
          BY <3>2
      <4> QED
          BY <2>0, <3>2, <4>1
    <3> QED
        BY <3>1, <3>2
  <2>3. g = h
      BY <2>2
  <2>4. IsUndone(g, rows, m + 1)
      BY <2>3 DEF IsUndone, step, none
  <2> HIDE DEF g
  <2> QED
      BY <2>4
<1> HIDE DEF G
<1>3. Nat \subseteq G
    BY <1>1, <1>2, Induction
<1> QED
    BY <1>3 DEF G

LEMMA RecoveredIs ==
    ASSUME NEW rows, Len(rows) \in Nat
    PROVE  /\ Recovered(rows)[0] = [c \in DetailColumns |-> Plain(Dash)]
           /\ \A i \in 1..Len(rows) : Recovered(rows)[i] =
                [c \in DOMAIN rows[i].cells |->
                    IF c \in DetailColumns /\ rows[i].cells[c] = Dup THEN Recovered(rows)[i - 1][c]
                    ELSE rows[i].cells[c]]
<1> DEFINE F == Recovered(rows)
<1>1. \E f : IsUndone(f, rows, Len(rows))
    BY UndoneExists
<1>2. IsUndone(F, rows, Len(rows))
    BY <1>1, Zenon DEF IsUndone, Recovered
<1> HIDE DEF F
<1>3. F[0] = [c \in DetailColumns |-> Plain(Dash)]
    BY <1>2 DEF IsUndone
<1>4. ASSUME NEW i \in 1..Len(rows)
      PROVE  F[i] = [c \in DOMAIN rows[i].cells |->
                        IF c \in DetailColumns /\ rows[i].cells[c] = Dup THEN F[i - 1][c]
                        ELSE rows[i].cells[c]]
  <2>1. i \in 0..Len(rows) /\ i # 0
      OBVIOUS
  <2> QED
      BY <1>2, <2>1, Zenon DEF IsUndone
<1> QED
    BY <1>3, <1>4 DEF F

\* The rows, each after what was known of the one before.
LEMMA WritingCells ==
    ASSUME NEW a, DOMAIN a = AfFields, a.rows = <<>>, NEW t, Len(t) \in Nat
    PROVE  \E f : /\ f[0] = a /\ AllWritten(a, t) = f[Len(t)]
                  /\ \A n \in 0..Len(t) : DOMAIN f[n] = AfFields
                  /\ \A n \in 1..Len(t) : f[n] = Written(f[n - 1], t[n])
                  /\ IsList(AllWritten(a, t).rows) /\ Len(AllWritten(a, t).rows) = Len(t)
                  /\ \A n \in 1..Len(t) : AllWritten(a, t).rows[n] = RowOf(f[n - 1], t[n])
<1>1. PICK f : /\ AllWritten(a, t) = f[Len(t)] /\ f[0] = a
               /\ \A n \in 1..Len(t) : f[n] = Written(f[n - 1], t[n])
    BY WritingValue
<1> DEFINE Good(n) == /\ DOMAIN f[n] = AfFields /\ IsList(f[n].rows) /\ Len(f[n].rows) = n
                      /\ \A k \in 1..n : f[n].rows[k] = RowOf(f[k - 1], t[k])
           G == {n \in Nat : n <= Len(t) => Good(n)}
<1>2. 0 \in G
  <2>1. IsList(f[0].rows) /\ Len(f[0].rows) = 0
      BY <1>1, EmptyList
  <2> QED
      BY <1>1, <2>1
<1>3. ASSUME NEW n \in Nat, n \in G, n + 1 <= Len(t) PROVE Good(n + 1)
  <2>1. Good(n)
      BY <1>3
  <2>2. n + 1 \in 1..Len(t) /\ (n + 1) - 1 = n
      BY <1>3
  <2>3. f[n + 1] = Written(f[n], t[n + 1])
      BY <1>1, <2>2
  <2>4. /\ DOMAIN f[n + 1] = AfFields
        /\ f[n + 1].rows = Append(f[n].rows, RowOf(f[n], t[n + 1]))
      BY <2>1, <2>3, WrittenIs
  <2> DEFINE x == RowOf(f[n], t[n + 1])
  <2> HIDE DEF x
  <2>5. /\ IsList(f[n + 1].rows) /\ Len(f[n + 1].rows) = n + 1
        /\ f[n + 1].rows[n + 1] = x /\ \A i \in 1..n : f[n + 1].rows[i] = f[n].rows[i]
      BY <2>1, <2>4, AppendIs DEF x
  <2>6. ASSUME NEW k \in 1..(n + 1) PROVE f[n + 1].rows[k] = RowOf(f[k - 1], t[k])
    <3>1. CASE k = n + 1
        BY <2>2, <2>5, <3>1 DEF x
    <3>2. CASE k \in 1..n
        BY <2>1, <2>5, <3>2
    <3>3. k = n + 1 \/ k \in 1..n
        OBVIOUS
    <3> QED
        BY <3>1, <3>2, <3>3
  <2> QED
      BY <2>4, <2>5, <2>6
<1>4. \A n \in Nat : n \in G => n + 1 \in G
  <2> SUFFICES ASSUME NEW n \in Nat, n \in G PROVE n + 1 \in G
      OBVIOUS
  <2>1. n + 1 <= Len(t) => Good(n + 1)
      BY <1>3
  <2> HIDE DEF Good
  <2> QED
      BY <2>1
<1>5. Nat \subseteq G
  <2> HIDE DEF G
  <2> QED
      BY <1>2, <1>4, Induction
<1>6. \A n \in 0..Len(t) : Good(n)
  <2> SUFFICES ASSUME NEW n \in 0..Len(t) PROVE Good(n)
      OBVIOUS
  <2>1. n \in Nat /\ n <= Len(t)
      OBVIOUS
  <2> HIDE DEF Good
  <2> QED
      BY <1>5, <2>1
<1>7. \A n \in 0..Len(t) : DOMAIN f[n] = AfFields
    BY <1>6
<1>8. Good(Len(t))
  <2>1. Len(t) \in 0..Len(t)
      OBVIOUS
  <2> HIDE DEF Good
  <2> QED
      BY <1>6, <2>1
<1> QED
    BY <1>1, <1>7, <1>8

\* What is known of a row after it was written to a file.
LEMMA Remembered ==
    ASSUME NEW a, DOMAIN a = AfFields, NEW d, ~opt.json, ~opt.to_screen,
           NEW c \in Columns \cap DetailColumns, NEW none
    PROVE  Previous(Written(a, d), c, none) = d.cells[c]
<1>1. Written(a, d).prev_message = NextPrevMessage(a, d)
  <2>1. "prev_message" \in DOMAIN a
      BY FieldsAre
  <2> QED
      BY <2>1, Zenon DEF Written
<1>2. NextPrevMessage(a, d) = Replacing(Details(d), a.prev_message)
    BY DEF NextPrevMessage
<1>3. c \in DOMAIN Details(d) /\ Details(d)[c] = d.cells[c]
    BY DEF Details
<1>4. /\ c \in DOMAIN Replacing(Details(d), a.prev_message)
      /\ Replacing(Details(d), a.prev_message)[c] = d.cells[c]
    BY <1>3 DEF Replacing
<1> QED
    BY <1>1, <1>2, <1>4 DEF Previous

HasCells(d) == d.cells = [c \in Columns |-> d.cells[c]]

\* When nothing is marked a row is what it is.
LEMMA Unmarked ==
    ASSUME NEW rows, Len(rows) \in Nat, NEW i \in 1..Len(rows), NEW u, rows[i].cells = u,
           u = [c \in DOMAIN u |-> u[c]],
           \A c \in DOMAIN u \cap DetailColumns : u[c] # Dup
    PROVE  Recovered(rows)[i] = u
<1>1. Recovered(rows)[i] =
        [c \in DOMAIN rows[i].cells |->
            IF c \in DetailColumns /\ rows[i].cells[c] = Dup THEN Recovered(rows)[i - 1][c]
            ELSE rows[i].cells[c]]
    BY RecoveredIs
<1>2. \A c \in DOMAIN u : (IF c \in DetailColumns /\ u[c] = Dup THEN Recovered(rows)[i - 1][c]
                           ELSE u[c]) = u[c]
    OBVIOUS
<1>3. Recovered(rows)[i] = [c \in DOMAIN u |-> u[c]]
    BY <1>1, <1>2
<1> QED
    BY <1>3


LEMMA RowCells ==
    ASSUME NEW a, NEW d
    PROVE  RowOf(a, d).cells = IF opt.json THEN JsonRow(a, d)
                               ELSE IF opt.to_screen THEN ScreenRow(d) ELSE CsvRow(a, d)
    BY DEF RowOf

LEMMA ReadBack ==
    ASSUME NEW a, DOMAIN a = AfFields, a.rows = <<>>, a.prev_message = <<>>,
           NEW t, Len(t) \in Nat, ~(opt.json /\ opt.remove_duplicate_data),
           \A i \in 1..Len(t) : HasCells(t[i]) /\ ~SaysDup(t[i])
    PROVE  \A i \in 1..Len(t) : Recovered(AllWritten(a, t).rows)[i] = Undisguised(t[i])
<1> DEFINE rows == AllWritten(a, t).rows
           r == Recovered(rows)
<1>1. PICK f : /\ f[0] = a
               /\ \A n \in 0..Len(t) : DOMAIN f[n] = AfFields
               /\ \A n \in 1..Len(t) : f[n] = Written(f[n - 1], t[n])
               /\ Len(rows) = Len(t)
               /\ \A n \in 1..Len(t) : rows[n] = RowOf(f[n - 1], t[n])
    BY WritingCells
<1> HIDE DEF rows
<1>2. CASE opt.json \/ opt.to_screen
  <2>1. ASSUME NEW i \in 1..Len(t) PROVE r[i] = Undisguised(t[i])
    <3> DEFINE u == Undisguised(t[i])
    <3>1. rows[i].cells = u
      <4>1. rows[i].cells = IF opt.json THEN JsonRow(f[i - 1], t[i])
                            ELSE IF opt.to_screen THEN ScreenRow(t[i]) ELSE CsvRow(f[i - 1], t[i])
          BY <1>1, RowCells
      <4>2. CASE opt.json
        <5>1. \A c : ~IsDup(f[i - 1], t[i], c)
            BY <4>2 DEF IsDup
        <5>2. JsonRow(f[i - 1], t[i]) = [c \in JsonColumns(t[i]) |-> JsonPlain(t[i], c)]
            BY <5>1 DEF JsonRow
        <5> QED
            BY <4>1, <4>2, <5>2 DEF Undisguised
      <4>3. CASE ~opt.json
          BY <1>2, <4>1, <4>3 DEF Undisguised
      <4> QED
          BY <4>2, <4>3
    <3>2. u = [c \in DOMAIN u |-> u[c]]
        BY <1>2 DEF Undisguised, ScreenRow
    <3>3. \A c \in DOMAIN u \cap DetailColumns : u[c] # Dup
        BY DEF SaysDup
    <3>4. i \in 1..Len(rows) /\ Len(rows) \in Nat
        BY <1>1
    <3> HIDE DEF u, r
    <3>5. Recovered(rows)[i] = u
        BY <3>1, <3>2, <3>3, <3>4, Unmarked
    <3> QED
        BY <3>5 DEF u, r
  <2> QED
      BY <2>1 DEF rows
<1>3. CASE ~opt.json /\ ~opt.to_screen
  <2> DEFINE known(n, c) == IF n = 0 THEN Plain(Dash) ELSE t[n].cells[c]
             Good(n) == \A c \in Columns \cap DetailColumns : r[n][c] = known(n, c)
             G == {n \in Nat : n <= Len(t) => Good(n)}
  <2>1. /\ r[0] = [c \in DetailColumns |-> Plain(Dash)]
        /\ \A i \in 1..Len(t) : r[i] =
                [c \in DOMAIN rows[i].cells |->
                    IF c \in DetailColumns /\ rows[i].cells[c] = Dup THEN r[i - 1][c]
                    ELSE rows[i].cells[c]]
      BY <1>1, RecoveredIs
  <2> HIDE DEF r
  <2>2. 0 \in G
      BY <2>1
  <2>3. ASSUME NEW n \in 0..Len(t), NEW c \in Columns \cap DetailColumns
        PROVE  Previous(f[n], c, Plain(Dash)) = known(n, c)
    <3>1. CASE n = 0
        BY <1>1, <3>1 DEF Previous
    <3>2. CASE n # 0
      <4>1. n \in 1..Len(t) /\ n - 1 \in 0..Len(t)
          BY <3>2
      <4>2. f[n] = Written(f[n - 1], t[n]) /\ DOMAIN f[n - 1] = AfFields
          BY <1>1, <4>1
      <4>3. Previous(Written(f[n - 1], t[n]), c, Plain(Dash)) = t[n].cells[c]
          BY <1>3, <4>2, Remembered
      <4> QED
          BY <3>2, <4>2, <4>3
    <3> QED
        BY <3>1, <3>2
  <2>4. ASSUME NEW n \in Nat, n + 1 <= Len(t), Good(n)
        PROVE  r[n + 1] = Undisguised(t[n + 1])
    <3> DEFINE d == t[n + 1]
               cs == rows[n + 1].cells
    <3>1. n + 1 \in 1..Len(t) /\ (n + 1) - 1 = n /\ n \in 0..Len(t)
        BY <2>4
    <3>2. cs = CsvRow(f[n], d)
        BY <1>1, <1>3, <3>1, RowCells
    <3>3. Undisguised(d) = d.cells /\ d.cells = [c \in Columns |-> d.cells[c]]
        BY <1>3, <3>1 DEF Undisguised, HasCells
    <3>4. \A c \in Columns \cap DetailColumns : d.cells[c] # Dup
        BY <3>1, <3>3 DEF SaysDup
    <3>5. cs = [c \in Columns |->
                    IF /\ c \in DetailColumns /\ opt.remove_duplicate_data
                       /\ d.cells[c] = Previous(f[n], c, Plain(Dash))
                    THEN Dup ELSE d.cells[c]]
        BY <3>2 DEF CsvRow
    <3>6. r[n + 1] = [c \in DOMAIN cs |->
                        IF c \in DetailColumns /\ cs[c] = Dup THEN r[n][c] ELSE cs[c]]
        BY <2>1, <3>1
    <3>7. \A c \in Columns \cap DetailColumns :
            r[n][c] = known(n, c) /\ Previous(f[n], c, Plain(Dash)) = known(n, c)
        BY <2>3, <2>4, <3>1
    <3> HIDE DEF cs, d, known
    <3>8. ASSUME NEW c \in Columns
          PROVE  (IF c \in DetailColumns /\ cs[c] = Dup THEN r[n][c] ELSE cs[c]) = d.cells[c]
        BY <3>4, <3>5, <3>7
    <3>9. DOMAIN cs = Columns
        BY <3>5
    <3>10. r[n + 1] = [c \in Columns |-> d.cells[c]]
        BY <3>6, <3>8, <3>9
    <3> QED
        BY <3>3, <3>10 DEF d
  <2>5. ASSUME NEW n \in Nat, n \in G PROVE n + 1 \in G
    <3> SUFFICES ASSUME n + 1 <= Len(t) PROVE Good(n + 1)
        OBVIOUS
    <3>1. Good(n)
        BY <2>5
    <3>2. r[n + 1] = Undisguised(t[n + 1])
        BY <2>4, <3>1
    <3>3. Undisguised(t[n + 1]) = t[n + 1].cells
        BY <1>3 DEF Undisguised
    <3> QED
        BY <3>2, <3>3
  <2>6. Nat \subseteq G
    <3> HIDE DEF G
    <3> QED
        BY <2>2, <2>5, Induction
  <2>7. ASSUME NEW i \in 1..Len(t) PROVE r[i] = Undisguised(t[i])
    <3>1. i - 1 \in Nat /\ i - 1 <= Len(t) /\ (i - 1) + 1 = i
        OBVIOUS
    <3>2. Good(i - 1)
        BY <2>6, <3>1
    <3> HIDE DEF Good
    <3>3. r[(i - 1) + 1] = Undisguised(t[(i - 1) + 1])
        BY <2>4, <3>1, <3>2
    <3> QED
        BY <3>1, <3>3
  <2> QED
      BY <2>7 DEF r, rows
<1> QED
    BY <1>2, <1>3


LEMMA SteadyRows ==
    ASSUME opt' = opt
    PROVE  \A d : Undisguised(d)' = Undisguised(d) /\ SaysDup(d)' = SaysDup(d)
<1>1. Columns' = Columns
    BY DEF Columns
<1>2. \A d, c : PlacesOf(d, c)' = PlacesOf(d, c)
    BY <1>1, Zenon DEF PlacesOf
<1>3. \A d, c : JsonObject(d, c)' = JsonObject(d, c)
    BY <1>2, Zenon DEF JsonObject
<1>4. \A d, c : JsonPlain(d, c)' = JsonPlain(d, c)
    BY <1>3, Zenon DEF JsonPlain
<1>5. \A d : JsonColumns(d)' = JsonColumns(d)
    BY <1>1, Zenon DEF JsonColumns
<1>6. \A d : ScreenRow(d)' = ScreenRow(d)
    BY <1>1, Zenon DEF ScreenRow
<1>7. \A d : Undisguised(d)' = Undisguised(d)
    BY <1>4, <1>5, <1>6, Zenon DEF Undisguised
<1>8. \A d : SaysDup(d)' = SaysDup(d)
    BY <1>7, Zenon DEF SaysDup
<1> QED
    BY <1>7, <1>8

LEMMA CollectedCells ==
    ASSUME NEW d \in Collected
    PROVE  HasCells(d)
<1>1. ASSUME NEW R, NEW S, d \in Gathered(R, S) PROVE HasCells(d)
  <2>1. PICK rule, r : d = create_log_record(rule, r)
      BY <1>1, GatheredIds
  <2>2. create_log_record(rule, r).cells
            = [c \in Columns |-> create_log_record(rule, r).cells[c]]
      BY DEF create_log_record
  <2> QED
      BY <2>1, <2>2 DEF HasCells
<1>2. ASSUME d \in Judged PROVE HasCells(d)
  <2>1. PICK rule : Judgement(d, rule, countdata[rule.id])
      BY <1>2, InJudged
  <2>2. PICK x : d = create_agg_log_record(rule, x)
      BY <2>1 DEF Judgement
  <2>3. create_agg_log_record(rule, x).cells
            = [c \in Columns |-> create_agg_log_record(rule, x).cells[c]]
      BY DEF create_agg_log_record
  <2> QED
      BY <2>2, <2>3 DEF HasCells
<1> QED
    BY <1>1, <1>2 DEF Collected

\* Rows that wait to be sorted are compared with nothing before.
Fresh == ~opt.is_low_memory /\ phase # "done" => af.prev_message = <<>>

LEMMA FreshStep == ScanInv /\ Fresh /\ [ScanNext]_scanVars => Fresh'
<1> SUFFICES ASSUME ScanInv, Fresh, [ScanNext]_scanVars, ~opt'.is_low_memory, phase' # "done"
             PROVE  af'.prev_message = <<>>
    BY DEF Fresh
<1>1. DOMAIN af = AfFields /\ "prev_message" \in DOMAIN af
    BY FieldsAre DEF ScanInv, Reports
<1>2. CASE UNCHANGED scanVars
    BY <1>2 DEF scanVars, report, Fresh
<1>3. CASE ScanNext
  <2>1. opt' = opt
      BY <1>3, ShapeStep DEF ScanInv
  <2>2. phase # "done" /\ af'.prev_message = af.prev_message
    <3>1. CASE ApplyChannelFilter \/ OpenFile \/ ReadRecord \/ StartTasks
        BY <3>1 DEF ApplyChannelFilter, OpenFile, ReadRecord, StartTasks, report
    <3>2. CASE EndFile
        BY <1>1, <3>2 DEF EndFile
    <3>3. CASE Task
        BY <3>3 DEF Task, TaskStep, report
    <3>4. CASE JoinTasks
      <4>1. PICK x : af' = [af EXCEPT !.detect_time = x]
          BY <2>1, <3>4 DEF JoinTasks
      <4>2. phase = "tasks"
          BY <3>4 DEF JoinTasks
      <4> QED
          BY <1>1, <4>1, <4>2
    <3>5. CASE Aggregate
        BY <2>1, <3>5 DEF Aggregate
    <3>6. CASE Output
        BY <3>6 DEF Output
    <3> QED
        BY <1>3, <3>1, <3>2, <3>3, <3>4, <3>5, <3>6 DEF ScanNext
  <2> QED
      BY <2>1, <2>2 DEF Fresh
<1> QED
    BY <1>2, <1>3

LEMMA DupOutput ==
    ASSUME ScanInv, Fresh, ScanNext, Output, ~opt.is_low_memory
    PROVE  DupRecoverable'
<1>1. /\ opt' = opt /\ phase = "output" /\ all_detect_infos' = all_detect_infos
      /\ \E s, D : /\ IsList(s) /\ ToSet(s) = ToSet(all_detect_infos) /\ Distinct(s)
                   /\ af' = emit_csv(af, s, D)
    BY OutputIs DEF ScanInv
<1>2. PICK s, D : /\ IsList(s) /\ ToSet(s) = ToSet(all_detect_infos) /\ Distinct(s)
                  /\ af' = emit_csv(af, s, D)
    BY <1>1
<1> DEFINE t == Without(s, D)
           b == AllWritten(af, t)
           all == ToSet(all_detect_infos)
<1>3. /\ DOMAIN af = AfFields /\ af.rows = <<>> /\ af.prev_message = <<>>
      /\ all = Collected
    BY <1>1 DEF ScanInv, Reports, Fresh
<1>4. IsList(t) /\ ToSet(t) \subseteq all
  <2>1. IsList(t) /\ ToSet(t) = {s[i] : i \in DOMAIN s \ D}
      BY <1>2, WithoutRange
  <2>2. {s[i] : i \in DOMAIN s \ D} \subseteq ToSet(s)
      BY DEF ToSet
  <2> QED
      BY <1>2, <2>1, <2>2
<1>5. DOMAIN t = 1..Len(t) /\ Len(t) \in Nat /\ \A i \in DOMAIN t : t[i] \in ToSet(t)
    BY <1>4, ListFacts
<1>6. Extended(b, af, t, Len(t))
    BY <1>3, <1>5, EmptyList, WritingRows
<1>7. af'.rows = b.rows
  <2>1. emit_csv(af, s, D) = AllCounted(b, t)
      BY DEF emit_csv, AllCounted, AllWritten
  <2>2. DOMAIN b = AfFields
      BY <1>6 DEF Extended
  <2> HIDE DEF t, b
  <2>3. AllCounted(b, t).rows = b.rows
      BY <1>5, <2>2, CountingIdset DEF CountedThem
  <2> QED
      BY <1>2, <2>1, <2>3
<1> HIDE DEF t, b
<1>8. \A x, y \in all : Id(x) = Id(y) => x = y
  <2>1. \A x \in ToSet(s) : \E i \in DOMAIN s : s[i] = x
      BY <1>2, ListFacts
  <2> QED
      BY <1>2, <2>1 DEF Distinct
<1> HIDE DEF all
<1> SUFFICES ASSUME ~(opt.json /\ opt.remove_duplicate_data), \A d \in all : ~SaysDup(d),
                    NEW i \in DOMAIN af'.rows, NEW d \in all, Id(d) = af'.rows[i].id
             PROVE  Recovered(af'.rows)[i] = Undisguised(d)
    BY <1>1, SteadyRows DEF DupRecoverable, all
<1>9. \A k \in 1..Len(t) : t[k] \in all /\ HasCells(t[k]) /\ ~SaysDup(t[k])
    BY <1>3, <1>4, <1>5, CollectedCells
<1>10. \A k \in 1..Len(t) : Recovered(b.rows)[k] = Undisguised(t[k])
    BY <1>3, <1>5, <1>9, ReadBack DEF b
<1>11. Len(<<>>) = 0
    OBVIOUS
<1>12. /\ IsList(b.rows) /\ Len(b.rows) = Len(t) /\ \A k \in 1..Len(t) : b.rows[k].id = Id(t[k])
    BY <1>3, <1>5, <1>6, <1>11 DEF Extended
<1>13. i \in 1..Len(t)
    BY <1>7, <1>12, ListFacts
<1>14. d = t[i]
    BY <1>7, <1>8, <1>9, <1>12, <1>13
<1> QED
    BY <1>7, <1>10, <1>13, <1>14

LEMMA DupStep == ScanInv /\ Fresh /\ DupRecoverable /\ [ScanNext]_scanVars => DupRecoverable'
<1> SUFFICES ASSUME ScanInv, Fresh, DupRecoverable, [ScanNext]_scanVars PROVE DupRecoverable'
    OBVIOUS
<1>1. ScanInv'
    BY ScanInvStep
<1>2. CASE UNCHANGED scanVars
  <2>1. opt' = opt /\ af' = af /\ all_detect_infos' = all_detect_infos
      BY <1>2 DEF scanVars, report
  <2> QED
      BY <2>1, SteadyRows DEF DupRecoverable
<1>3. CASE ScanNext /\ opt'.is_low_memory
  <2>1. all_detect_infos' = <<>>
      BY <1>1, <1>3 DEF ScanInv, Reports
  <2>2. ToSet(all_detect_infos') = {}
      BY <2>1, EmptyList
  <2> QED
      BY <2>2 DEF DupRecoverable
<1>4. CASE ScanNext /\ ~opt'.is_low_memory /\ phase' # "done"
  <2>1. af'.rows = <<>>
      BY <1>1, <1>4 DEF ScanInv, Reports
  <2>2. DOMAIN af'.rows = {}
      BY <2>1
  <2> QED
      BY <2>2 DEF DupRecoverable
<1>5. CASE ScanNext /\ ~opt'.is_low_memory /\ phase' = "done"
  <2>1. opt' = opt
      BY <1>5, ShapeStep DEF ScanInv
  <2>2. CASE Output
      BY <1>5, <2>1, <2>2, DupOutput
  <2>3. CASE Aggregate
    <3>1. af' = af /\ phase = "file"
        BY <1>5, <2>3 DEF Aggregate
    <3>2. af'.rows = <<>>
        BY <1>5, <2>1, <3>1 DEF ScanInv, Reports
    <3>3. DOMAIN af'.rows = {}
        BY <3>2
    <3> QED
        BY <3>3 DEF DupRecoverable
  <2>4. ~(ApplyChannelFilter \/ OpenFile \/ ReadRecord \/ StartTasks \/ EndFile \/ Task \/ JoinTasks)
    <3>1. ~(ApplyChannelFilter \/ OpenFile \/ ReadRecord \/ StartTasks \/ EndFile \/ JoinTasks)
        BY <1>5 DEF ApplyChannelFilter, OpenFile, ReadRecord, StartTasks, EndFile, JoinTasks
    <3>2. ~Task
        BY <1>5 DEF Task, TaskStep
    <3> QED
        BY <3>1, <3>2
  <2> QED
      BY <1>5, <2>2, <2>3, <2>4 DEF ScanNext
<1> QED
    BY <1>2, <1>3, <1>4, <1>5

\* What a CSV report writes as DUP can be followed back to what it stands for,
\* row by row, whatever is in the logs but the mark itself (afterfact.rs:442).
THEOREM DupRecoverableHolds == ScanSpec => []DupRecoverable
<1>1. ScanInit => ScanInv /\ Fresh /\ DupRecoverable
  <2> SUFFICES ASSUME ScanInit PROVE ScanInv /\ Fresh /\ DupRecoverable
      OBVIOUS
  <2>1. af.rows = <<>> /\ af.prev_message = <<>>
      BY DEF ScanInit, AfterfactInfo
  <2>2. DOMAIN af.rows = {}
      BY <2>1
  <2> QED
      BY <2>1, <2>2, ScanInvInit DEF Fresh, DupRecoverable
<1>2. /\ ScanInv /\ [ScanNext]_scanVars => ScanInv'
      /\ ScanInv /\ Fresh /\ [ScanNext]_scanVars => Fresh'
      /\ ScanInv /\ Fresh /\ DupRecoverable /\ [ScanNext]_scanVars => DupRecoverable'
    BY ScanInvStep, FreshStep, DupStep
<1> QED
    BY <1>1, <1>2, PTL DEF ScanSpec

=============================================================================
