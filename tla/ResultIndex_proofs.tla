------------------------ MODULE ResultIndex_proofs ------------------------
(***************************************************************************)
(* The invariants of ResultIndex hold for every file length, every choice  *)
(* of separator lines, every batch size and any number of restarts.        *)
(***************************************************************************)
EXTENDS ResultIndex, FiniteSetTheorems, TLAPS

-----------------------------------------------------------------------------
(* Lemmas about the numbering of a chunk. *)

\* A longer file has no fewer complete lines.
LEMMA CompleteMonotone ==
    ASSUME NEW v \in Nat, NEW w \in Nat, v <= w
    PROVE  Complete(v) \in Nat /\ Complete(w) \in Nat /\ Complete(v) <= Complete(w)
<1>1. \A n \in Nat : n \div 3 \in Nat /\ 3 * (n \div 3) <= n /\ n < 3 * (n \div 3) + 3
  OBVIOUS
<1> QED
  BY <1>1 DEF Complete

\* The parsed lines of a chunk are finitely many lines whose text it holds.
LEMMA ParsedFacts ==
    ASSUME NEW p \in Nat, NEW w \in Nat
    PROVE  /\ Parsed(p, w) \subseteq Line
           /\ IsFiniteSet(Parsed(p, w))
           /\ Cardinality(Parsed(p, w)) \in Nat
           /\ Parsed(p, w) # {} => Cardinality(Parsed(p, w)) > 0
           /\ \A l \in Parsed(p, w) :
                l <= Complete(w) /\ p <= 3 * (l - 1) /\ 3 * l - 1 <= w
<1>1. Parsed(p, w) \subseteq Line
  BY DEF Parsed
<1>2. IsFiniteSet(Line) /\ Line \subseteq Nat
  BY ConstantsAssumption, FS_Interval DEF Line
<1>3. IsFiniteSet(Parsed(p, w))
  BY <1>1, <1>2, FS_Subset
<1>4. Cardinality(Parsed(p, w)) \in Nat
  BY <1>3, FS_CardinalityType
<1>5. Parsed(p, w) # {} => Cardinality(Parsed(p, w)) > 0
  BY <1>3, <1>4, FS_EmptySet
<1>6. ASSUME NEW l \in Parsed(p, w)
      PROVE  l <= Complete(w) /\ p <= 3 * (l - 1) /\ 3 * l - 1 <= w
  <2>1. l \in Nat /\ p <= 3 * (l - 1) /\ 3 * l - 1 <= w
    BY <1>1, <1>2 DEF Parsed
  <2>2. l <= Complete(w)
    BY <2>1 DEF Complete
  <2> QED
    BY <2>1, <2>2
<1> QED
  BY <1>1, <1>3, <1>4, <1>5, <1>6

\* The rank of a line in a finite set of lines is between 1 and the size of the
\* set, and grows strictly with the line.
LEMMA RankFacts ==
    ASSUME NEW P, P \subseteq Line, IsFiniteSet(P)
    PROVE  /\ \A l \in P : Rank(l, P) \in 1..Cardinality(P)
           /\ \A k, l \in P : k < l => Rank(k, P) < Rank(l, P)
<1>0. P \subseteq Nat
  BY ConstantsAssumption DEF Line
<1> DEFINE UpTo(l) == {k \in P : k <= l}
<1>1. \A l \in P : /\ IsFiniteSet(UpTo(l))
                   /\ Cardinality(UpTo(l)) \in Nat
                   /\ Cardinality(UpTo(l)) <= Cardinality(P)
  BY FS_Subset, FS_CardinalityType
<1>2. ASSUME NEW l \in P
      PROVE  Rank(l, P) \in 1..Cardinality(P)
  <2>1. l \in UpTo(l)
    BY <1>0
  <2>2. Cardinality(UpTo(l)) # 0
    BY <2>1, <1>1, FS_EmptySet
  <2>3. Cardinality(P) \in Nat
    BY FS_CardinalityType
  <2> QED
    BY <1>1, <2>2, <2>3 DEF Rank
<1>3. ASSUME NEW k \in P, NEW l \in P, k < l
      PROVE  Rank(k, P) < Rank(l, P)
  <2>0. k \in Nat /\ l \in Nat /\ \A j \in P : j \in Nat
    BY <1>0
  <2>1. ASSUME NEW j \in UpTo(k) PROVE j \in UpTo(l)
    BY <2>0, <1>3
  <2>2. l \in UpTo(l) /\ l \notin UpTo(k)
    BY <1>0, <1>3
  <2>3. UpTo(k) # UpTo(l)
    BY <2>2
  <2>4. /\ Cardinality(UpTo(k)) <= Cardinality(UpTo(l))
        /\ Cardinality(UpTo(l)) = Cardinality(UpTo(k)) => UpTo(l) = UpTo(k)
    <3>1. UpTo(k) \in SUBSET UpTo(l)
      BY <2>1
    <3> QED
      BY <3>1, <1>1, FS_Subset
  <2> QED
    BY <1>1, <2>3, <2>4 DEF Rank
<1> QED
  BY <1>2, <1>3

\* A numbered chunk has one row per line, numbered from + 1 to from + |P| in the
\* order of the lines.
LEMMA NumberedFacts ==
    ASSUME NEW P, P \subseteq Line, IsFiniteSet(P), NEW from \in Nat
    PROVE  LET B == Numbered(P, from) IN
           /\ B \subseteq Row
           /\ IsFiniteSet(B)
           /\ Cardinality(B) = Cardinality(P)
           /\ \A r \in B : r.line \in P /\ from < r.no /\ r.no <= from + Cardinality(P)
           /\ \A r, q \in B : r.no < q.no => r.line < q.line
           /\ \A r, q \in B : r.no = q.no => r = q
<1>0. P \subseteq Nat /\ Cardinality(P) \in Nat
  BY ConstantsAssumption, FS_CardinalityType DEF Line
<1> DEFINE B == Numbered(P, from)
           f == [l \in P |-> [no |-> from + Rank(l, P), line |-> l]]
<1>1. \A l \in P : Rank(l, P) \in 1..Cardinality(P)
  BY RankFacts
<1>2. \A k, l \in P : k < l => Rank(k, P) < Rank(l, P)
  BY RankFacts
<1>3. \A r \in B : /\ r.line \in P
                   /\ r = [no |-> from + Rank(r.line, P), line |-> r.line]
  BY DEF Numbered
<1>4. B \subseteq Row
  BY <1>0, <1>1 DEF Numbered, Row
<1>5. IsFiniteSet(B) /\ Cardinality(B) = Cardinality(P)
  <2>1. f \in [P -> B]
    BY DEF Numbered
  <2>2. \A k, l \in P : f[k] = f[l] => k = l
    BY Zenon
  <2>3. \A r \in B : \E l \in P : f[l] = r
    BY <1>3
  <2>4. f \in Bijection(P, B)
    BY <2>1, <2>2, <2>3 DEF Bijection, Injection, Surjection, IsInjective
  <2>5. ExistsBijection(P, B)
    BY <2>4 DEF ExistsBijection
  <2> QED
    BY <2>5, FS_Bijection
<1>6. \A r \in B : r.line \in P /\ from < r.no /\ r.no <= from + Cardinality(P)
  BY <1>0, <1>1, <1>3
<1>7. ASSUME NEW r \in B, NEW q \in B
      PROVE  /\ r.no < q.no => r.line < q.line
             /\ r.no = q.no => r = q
  <2>1. r.line \in Nat /\ q.line \in Nat
    BY <1>0, <1>3
  <2>2. /\ Rank(r.line, P) \in Nat /\ Rank(q.line, P) \in Nat
        /\ r.no = from + Rank(r.line, P) /\ q.no = from + Rank(q.line, P)
    BY <1>0, <1>1, <1>3
  <2>3. /\ r.line < q.line => Rank(r.line, P) < Rank(q.line, P)
        /\ q.line < r.line => Rank(q.line, P) < Rank(r.line, P)
    BY <1>2, <1>3
  <2>4. r.line = q.line => r = q
    BY <1>3
  <2> QED
    BY <2>1, <2>2, <2>3, <2>4
<1> QED
  BY <1>4, <1>5, <1>6, <1>7

\* Numbering an interval of lines from its start gives every line its own number.
LEMMA IntervalNumbered ==
    ASSUME NEW lo \in Nat, NEW hi \in Nat
    PROVE  Numbered((lo + 1)..hi, lo)
             = {[no |-> l, line |-> l] : l \in (lo + 1)..hi}
<1>1. ASSUME NEW l \in (lo + 1)..hi
      PROVE  lo + Rank(l, (lo + 1)..hi) = l
  <2>1. {k \in (lo + 1)..hi : k <= l} = (lo + 1)..l
    BY <1>1
  <2>2. Cardinality((lo + 1)..l) = l - lo
    BY <1>1, FS_Interval
  <2>3. Rank(l, (lo + 1)..hi) = Cardinality((lo + 1)..l)
    BY <2>1, Zenon DEF Rank
  <2> QED
    BY <1>1, <2>2, <2>3
<1>2. \A l \in (lo + 1)..hi :
        [no |-> lo + Rank(l, (lo + 1)..hi), line |-> l] = [no |-> l, line |-> l]
  BY <1>1
<1> QED
  BY <1>2, Zenon DEF Numbered

\* A poll that tears no line, begun between two lines, parses exactly the lines
\* completed since, and ends between two lines.
LEMMA WholeChunk ==
    ASSUME NEW p \in Nat, p % 3 # 1, NEW w \in 0..(3 * NumLines), p < w,
           Touched(p, w) \subseteq Parsed(p, w)
    PROVE  /\ Parsed(p, w) = (Complete(p) + 1)..Complete(w)
           /\ w % 3 # 1
           /\ Complete(p) <= Complete(w)
<1>0. NumLines \in Nat /\ w \in Nat
  BY ConstantsAssumption
<1>1. Complete(p) \in Nat /\ Complete(w) \in Nat /\ Complete(p) <= Complete(w)
  BY <1>0 DEF Complete
<1>2. ASSUME NEW l \in Parsed(p, w)
      PROVE  l \in (Complete(p) + 1)..Complete(w)
  <2>1. l \in Nat /\ p <= 3 * (l - 1) /\ 3 * l - 1 <= w
    BY ConstantsAssumption DEF Parsed, Line
  <2> QED
    BY <1>0, <2>1 DEF Complete
<1>3. ASSUME NEW l \in (Complete(p) + 1)..Complete(w)
      PROVE  l \in Parsed(p, w)
  <2>1. l \in Nat /\ p < 3 * l - 1 /\ 3 * l - 2 <= w /\ l <= NumLines /\ l >= 1
    BY <1>0, <1>1 DEF Complete
  <2>2. l \in Touched(p, w)
    BY <2>1, <1>0 DEF Touched, Line
  <2> QED
    BY <2>2
<1>4. w % 3 # 1
  <2> SUFFICES ASSUME w % 3 = 1
               PROVE  FALSE
    OBVIOUS
  <2>1. PICK k \in Nat : w = 3 * k + 1
    <3>1. w = 3 * (w \div 3) + 1 /\ w \div 3 \in Nat
      BY <1>0
    <3> QED
      BY <3>1
  <2>2. k + 1 \in Touched(p, w)
    BY <2>1, <1>0 DEF Touched, Line
  <2>3. k + 1 \notin Parsed(p, w)
    BY <2>1, <1>0 DEF Parsed
  <2> QED
    BY <2>2, <2>3
<1> QED
  BY <1>1, <1>2, <1>3, <1>4

\* What an INSERT OR IGNORE adds.
LEMMA FreshFacts ==
    ASSUME IsFiniteSet(rows), IsFiniteSet(batch)
    PROVE  /\ Fresh(batch) \subseteq batch
           /\ IsFiniteSet(Fresh(batch))
           /\ Cardinality(batch) \in Nat
           /\ Cardinality(rows) \in Nat
           /\ Cardinality(Fresh(batch)) \in Nat
           /\ Cardinality(Fresh(batch)) <= Cardinality(batch)
           /\ IsFiniteSet(rows \cup Fresh(batch))
           /\ Cardinality(rows \cup Fresh(batch))
                = Cardinality(rows) + Cardinality(Fresh(batch))
<1>1. Fresh(batch) \in SUBSET batch
  BY DEF Fresh
<1>2. /\ IsFiniteSet(Fresh(batch))
      /\ Cardinality(Fresh(batch)) <= Cardinality(batch)
  BY <1>1, FS_Subset
<1>3. /\ Cardinality(batch) \in Nat /\ Cardinality(rows) \in Nat
      /\ Cardinality(Fresh(batch)) \in Nat
  BY <1>2, FS_CardinalityType
<1>4. rows \cap Fresh(batch) = {}
  BY DEF Fresh
<1>5. /\ IsFiniteSet(rows \cup Fresh(batch))
      /\ Cardinality(rows \cup Fresh(batch))
           = Cardinality(rows) + Cardinality(Fresh(batch)) - Cardinality(rows \cap Fresh(batch))
  BY <1>2, FS_Union
<1>6. Cardinality(rows \cap Fresh(batch)) = 0
  BY <1>4, FS_EmptySet
<1> QED
  BY <1>1, <1>2, <1>3, <1>5, <1>6

\* What the reindexer reads: a batch numbered like a chunk, of the lines just
\* after lineNo.
LEMMA ReindexReadFacts ==
    ASSUME TypeOK, ReindexRead
    PROVE  /\ lineNo' \in Nat /\ lineNo < lineNo' /\ lineNo' <= Complete(pos)
           /\ batch' = Numbered((lineNo + 1)..lineNo', lineNo)
           /\ batch' = {[no |-> l, line |-> l] : l \in (lineNo + 1)..lineNo'}
           /\ (lineNo + 1)..lineNo' \subseteq Line
           /\ IsFiniteSet((lineNo + 1)..lineNo')
           /\ Cardinality((lineNo + 1)..lineNo') = lineNo' - lineNo
<1>1. Complete(pos) \in 0..NumLines
  BY ConstantsAssumption DEF TypeOK, Complete
<1>2. lineNo' \in Nat /\ lineNo < lineNo' /\ lineNo' <= Complete(pos)
  BY <1>1, ConstantsAssumption DEF TypeOK, ReindexRead
<1>3. batch' = {[no |-> l, line |-> l] : l \in (lineNo + 1)..lineNo'}
  BY DEF ReindexRead
<1>4. batch' = Numbered((lineNo + 1)..lineNo', lineNo)
  BY <1>2, <1>3, IntervalNumbered DEF TypeOK
<1>5. (lineNo + 1)..lineNo' \subseteq Line
  BY <1>1, <1>2, ConstantsAssumption DEF TypeOK, Line
<1>6. /\ IsFiniteSet((lineNo + 1)..lineNo')
      /\ Cardinality((lineNo + 1)..lineNo') = lineNo' - lineNo
  <2>1. lineNo \in Nat /\ lineNo + 1 \in Int /\ lineNo' \in Int
    BY <1>2 DEF TypeOK
  <2>2. /\ IsFiniteSet((lineNo + 1)..lineNo')
        /\ Cardinality((lineNo + 1)..lineNo')
             = IF lineNo + 1 > lineNo' THEN 0 ELSE lineNo' - (lineNo + 1) + 1
    BY <2>1, FS_Interval
  <2> QED
    BY <1>2, <2>1, <2>2
<1> QED
  BY <1>2, <1>3, <1>4, <1>5, <1>6

-----------------------------------------------------------------------------
(* Types, and what is in flight at each step of the indexer. *)

LEMMA TypeInit == Init => TypeOK /\ InFlight
  BY ConstantsAssumption, FS_EmptySet DEF Init, TypeOK, InFlight

LEMMA TypeStep == TypeOK /\ InFlight /\ [Next]_vars => TypeOK' /\ InFlight'
<1> SUFFICES ASSUME TypeOK, InFlight, [Next]_vars
             PROVE  TypeOK' /\ InFlight'
  OBVIOUS
<1> USE ConstantsAssumption
<1>1. CASE EngineWrite
  BY <1>1 DEF EngineWrite, TypeOK, InFlight, tailVars, dbVars
<1>2. CASE EngineExit
  BY <1>2 DEF EngineExit, TypeOK, InFlight, tailVars, dbVars
<1>3. CASE TailRead
  <2> DEFINE P == Parsed(pos, written)
  <2>1. /\ P \subseteq Line /\ IsFiniteSet(P) /\ Cardinality(P) \in Nat
    BY ParsedFacts DEF TypeOK
  <2>2. batch' \subseteq Row /\ IsFiniteSet(batch')
    <3>1. lineNo \in Nat /\ batch' = Numbered(P, lineNo)
      BY <1>3 DEF TailRead, TypeOK
    <3> HIDE DEF P
    <3> QED
      BY <2>1, <3>1, NumberedFacts
  <2>3. P = {} => batch' = {}
    BY <1>3 DEF TailRead, Numbered
  <2> HIDE DEF P
  <2>4. TypeOK'
    BY <1>3, <2>1, <2>2 DEF P, TailRead, TypeOK, fileVars, dbVars
  <2> QED
    BY <1>3, <2>2, <2>3, <2>4 DEF P, TailRead, TypeOK, InFlight, fileVars, dbVars
<1>4. CASE TailExit
  BY <1>4 DEF TailExit, TypeOK, InFlight, fileVars, dbVars
<1>5. CASE Insert
  <2>1. /\ Fresh(batch) \subseteq batch
        /\ Cardinality(Fresh(batch)) \in Nat
        /\ IsFiniteSet(rows \cup Fresh(batch))
    BY FreshFacts DEF InFlight
  <2>2. IsFiniteSet({})
    BY FS_EmptySet
  <2> QED
    BY <1>5, <2>1, <2>2 DEF Insert, TypeOK, InFlight, fileVars
<1>6. CASE Bump
  BY <1>6 DEF Bump, TypeOK, InFlight, fileVars
<1>7. CASE TailInsertFails
  BY <1>7, FS_EmptySet DEF TailInsertFails, TypeOK, InFlight, fileVars, dbVars
<1>8. CASE TailBumpFails
  BY <1>8 DEF TailBumpFails, TypeOK, InFlight, fileVars, dbVars
<1>9. CASE StopTailer
  BY <1>9 DEF StopTailer, TypeOK, InFlight, fileVars, tailVars, dbVars
<1>10. CASE FinishJob
  BY <1>10 DEF FinishJob, TypeOK, InFlight, fileVars, tailVars
<1>11. CASE Crash
  BY <1>11, FS_EmptySet DEF Crash, TypeOK, InFlight, fileVars, dbVars
<1>12. CASE Boot
  BY <1>12 DEF Boot, TypeOK, InFlight, fileVars, dbVars
<1>13. CASE ReindexRead
  <2>1. batch' \subseteq Row /\ IsFiniteSet(batch')
    <3> DEFINE S == (lineNo + 1)..lineNo'
    <3>1. S \subseteq Line /\ IsFiniteSet(S) /\ batch' = Numbered(S, lineNo)
      BY <1>13, ReindexReadFacts
    <3>2. lineNo \in Nat
      BY DEF TypeOK
    <3> HIDE DEF S
    <3> QED
      BY <3>1, <3>2, NumberedFacts
  <2>2. lineNo' \in Nat
    BY <1>13, ReindexReadFacts
  <2> QED
    BY <1>13, <2>1, <2>2 DEF ReindexRead, TypeOK, InFlight, fileVars, dbVars
<1>14. CASE ReindexDone
  BY <1>14 DEF ReindexDone, TypeOK, InFlight, fileVars, dbVars, Complete
<1>15. CASE UNCHANGED vars
  BY <1>15 DEF vars, TypeOK, InFlight
<1> QED
  BY <1>1, <1>2, <1>3, <1>4, <1>5, <1>6, <1>7, <1>8, <1>9, <1>10, <1>11, <1>12,
     <1>13, <1>14, <1>15 DEF Next

-----------------------------------------------------------------------------
(* Where the batch, the rows and the counter are with respect to line_no. *)

LEMMA WindowInit == Init => Window
  BY FS_EmptySet DEF Init, Window

LEMMA WindowStep == TypeOK /\ InFlight /\ Window /\ [Next]_vars => Window'
<1> SUFFICES ASSUME TypeOK, InFlight, Window, [Next]_vars
             PROVE  Window'
  OBVIOUS
<1>0. /\ Cardinality({}) = 0
      /\ Cardinality(batch) \in Nat
      /\ \A r \in rows \cup batch : r.no \in Nat /\ r.line \in Nat
  BY FS_EmptySet, FS_CardinalityType, ConstantsAssumption DEF InFlight, TypeOK, Row, Line
<1>1. CASE EngineWrite \/ EngineExit \/ StopTailer
  BY <1>1 DEF EngineWrite, EngineExit, StopTailer, Window, fileVars, tailVars, dbVars
<1>2. CASE TailRead
  <2> DEFINE P == Parsed(pos, written)
             c == Cardinality(P)
  <2>0. pos \in Nat /\ written \in Nat
    BY ConstantsAssumption DEF TypeOK
  <2>1. /\ P \subseteq Line /\ IsFiniteSet(P) /\ c \in Nat
        /\ \A l \in P : l <= Complete(written) /\ pos <= 3 * (l - 1) /\ 3 * l - 1 <= written
    BY <2>0, ParsedFacts
  <2>2. /\ batch' = Numbered(P, lineNo) /\ lineNo' = lineNo + c
        /\ rows' = rows /\ indexed' = indexed /\ ins' = ins /\ phase' = phase
        /\ pos' = written /\ phase = "live" /\ pc = "read" /\ pos < written
    BY <1>2 DEF TailRead, dbVars
  <2>3. /\ Cardinality(batch') = c
        /\ \A r \in batch' : r.line \in P /\ lineNo < r.no /\ r.no <= lineNo + c
        /\ \A r, q \in batch' : r.no < q.no => r.line < q.line
        /\ \A r, q \in batch' : r.no = q.no => r = q
        /\ batch' \subseteq Row
    BY <2>1, <2>2, NumberedFacts DEF TypeOK
  <2>4. \A r \in batch' : r.no \in Nat /\ r.line \in Nat
    BY <2>3, ConstantsAssumption DEF Row, Line
  <2>5. batch = {} /\ ins = 0 /\ lineNo \in Nat /\ indexed \in Nat
        /\ pos \in Nat /\ written \in Nat
    BY <2>2, ConstantsAssumption DEF InFlight, TypeOK
  <2> HIDE DEF P, c
  <2>6. indexed' + ins' + Cardinality(batch') <= lineNo'
    BY <1>0, <2>1, <2>2, <2>3, <2>5 DEF Window
  <2>7. \A r \in batch' : /\ lineNo' - Cardinality(batch') < r.no
                          /\ r.no <= lineNo'
                          /\ r.line <= Complete(pos')
    BY <2>1, <2>2, <2>3, <2>4, <2>5
  <2>8. \A r \in rows' : r.no <= lineNo' - Cardinality(batch')
    BY <1>0, <2>1, <2>2, <2>3, <2>5 DEF Window
  <2>9. \A r \in rows' \cup batch' : 3 * r.line - 1 <= pos'
    BY <1>0, <2>1, <2>2, <2>3, <2>4, <2>5 DEF Window
  <2>10. ASSUME NEW r \in rows' \cup batch', NEW q \in rows' \cup batch', r.no < q.no
         PROVE  r.line < q.line
    <3>1. CASE r \in rows /\ q \in rows
      BY <2>2, <2>5, <2>10, <3>1 DEF Window
    <3>2. CASE r \in batch' /\ q \in batch'
      BY <2>3, <2>10, <3>2
    <3>3. CASE r \in rows /\ q \in batch'
      <4>1. 3 * r.line - 1 <= pos /\ pos <= 3 * (q.line - 1)
        BY <2>1, <2>2, <2>3, <3>3 DEF Window
      <4> QED
        BY <1>0, <2>4, <2>5, <3>3, <4>1
    <3>4. CASE r \in batch' /\ q \in rows
      <4>1. lineNo < r.no /\ q.no <= lineNo
        BY <1>0, <2>2, <2>3, <2>5, <3>4 DEF Window
      <4> QED
        BY <1>0, <2>4, <2>5, <2>10, <3>4, <4>1
    <3> QED
      BY <2>2, <3>1, <3>2, <3>3, <3>4
  <2> QED
    BY <2>3, <2>6, <2>7, <2>8, <2>9, <2>10 DEF Window
<1>3. CASE TailExit
  BY <1>3 DEF TailExit, Window, fileVars, dbVars
<1>4. CASE Insert
  <2>1. /\ Fresh(batch) \subseteq batch
        /\ Cardinality(Fresh(batch)) \in Nat
        /\ Cardinality(Fresh(batch)) <= Cardinality(batch)
    BY FreshFacts DEF InFlight
  <2>2. ins = 0 /\ lineNo \in Nat /\ indexed \in Nat
    BY <1>4 DEF Insert, InFlight, TypeOK
  <2> QED
    BY <1>0, <1>4, <2>1, <2>2 DEF Insert, Window, fileVars
<1>5. CASE Bump
  <2>1. batch = {} /\ ins \in Nat /\ indexed \in Nat
    BY <1>5 DEF Bump, InFlight, TypeOK
  <2> QED
    BY <1>0, <1>5, <2>1 DEF Bump, Window, fileVars
<1>6. CASE TailInsertFails
  <2>1. ins \in Nat /\ indexed \in Nat /\ lineNo \in Nat
    BY DEF TypeOK
  <2> QED
    BY <1>0, <1>6, <2>1 DEF TailInsertFails, Window, fileVars, dbVars
<1>7. CASE TailBumpFails
  <2>1. ins \in Nat /\ indexed \in Nat /\ lineNo \in Nat
    BY DEF TypeOK
  <2> QED
    BY <1>0, <1>7, <2>1 DEF TailBumpFails, Window, fileVars, dbVars
<1>8. CASE FinishJob
  BY <1>8 DEF FinishJob, Window, fileVars, tailVars
<1>9. CASE Crash
  BY <1>9 DEF Crash, Window, fileVars, dbVars
<1>10. CASE Boot
  <2>1. batch = {} /\ ins = 0 /\ indexed \in Nat
    BY <1>10 DEF Boot, InFlight, TypeOK
  <2> QED
    BY <1>0, <1>10, <2>1 DEF Boot, Window, fileVars, dbVars
<1>11. CASE ReindexRead
  <2>1. /\ lineNo' \in Nat /\ lineNo < lineNo' /\ lineNo' <= Complete(pos)
        /\ batch' = {[no |-> l, line |-> l] : l \in (lineNo + 1)..lineNo'}
    BY <1>11, ReindexReadFacts
  <2>2. Cardinality(batch') = lineNo' - lineNo
    <3> DEFINE S == (lineNo + 1)..lineNo'
    <3>1. /\ S \subseteq Line /\ IsFiniteSet(S) /\ batch' = Numbered(S, lineNo)
          /\ Cardinality(S) = lineNo' - lineNo
      BY <1>11, ReindexReadFacts
    <3>2. lineNo \in Nat
      BY DEF TypeOK
    <3> HIDE DEF S
    <3> QED
      BY <3>1, <3>2, NumberedFacts
  <2>3. \A r \in batch' : r.no = r.line /\ r.no \in (lineNo + 1)..lineNo'
                         /\ r = [no |-> r.no, line |-> r.no]
    BY <2>1
  <2>4. batch = {} /\ ins = 0 /\ indexed \in Nat /\ lineNo \in Nat
        /\ Complete(pos) \in Nat
    BY <1>11, ConstantsAssumption DEF ReindexRead, InFlight, TypeOK, Complete
  <2>5. /\ phase' = "reindex" /\ phase = "reindex" /\ ins' = 0
        /\ indexed' = indexed /\ pos' = pos
    BY <1>11, <2>4 DEF ReindexRead, dbVars
  <2>6. \A r \in batch' : /\ lineNo' - Cardinality(batch') < r.no
                          /\ r.no <= lineNo'
                          /\ r.line <= Complete(pos')
    BY <2>1, <2>2, <2>3, <2>4, <2>5
  <2>7. indexed' + ins' + Cardinality(batch') <= lineNo'
    BY <1>0, <2>1, <2>2, <2>4, <2>5 DEF Window
  <2>8. \A r, q \in batch' : r.no = q.no => r = q
    BY <2>3
  <2> QED
    BY <2>5, <2>6, <2>7, <2>8 DEF Window
<1>12. CASE ReindexDone
  BY <1>12 DEF ReindexDone, Window, fileVars, dbVars
<1>13. CASE UNCHANGED vars
  BY <1>13 DEF vars, Window
<1> QED
  BY <1>1, <1>2, <1>3, <1>4, <1>5, <1>6, <1>7, <1>8, <1>9, <1>10, <1>11, <1>12,
     <1>13 DEF Next

-----------------------------------------------------------------------------
(* The rows are real lines, once each per number, and in order while live. *)

LEMMA RowsStep ==
    /\ TypeOK /\ InFlight /\ Window /\ RowsAreReal /\ LiveRowsInFileOrder
    /\ [Next]_vars
    => RowsAreReal' /\ LiveRowsInFileOrder'
<1> SUFFICES ASSUME TypeOK, InFlight, Window, RowsAreReal, LiveRowsInFileOrder,
                    [Next]_vars
             PROVE  RowsAreReal' /\ LiveRowsInFileOrder'
  OBVIOUS
<1>0. /\ \A r \in rows \cup batch : r.no \in Nat /\ r.line \in Nat
      /\ written \in Nat /\ pos \in Nat /\ boots \in Nat
  BY ConstantsAssumption DEF TypeOK, Row, Line
<1>1. CASE EngineWrite
  <2>1. written' \in Nat /\ written <= written'
    BY <1>0, <1>1, ConstantsAssumption DEF EngineWrite
  <2>2. Complete(written) <= Complete(written')
        /\ Complete(written) \in Nat /\ Complete(written') \in Nat
    BY <1>0, <2>1, CompleteMonotone
  <2>3. rows' = rows /\ boots' = boots
    BY <1>1 DEF EngineWrite, dbVars
  <2>4. \A r \in rows' : r.line <= Complete(written')
    BY <1>0, <2>2, <2>3 DEF RowsAreReal
  <2> QED
    BY <2>3, <2>4 DEF RowsAreReal, LiveRowsInFileOrder
<1>2. CASE Insert
  <2>1. rows' = rows \cup Fresh(batch) /\ Fresh(batch) \subseteq batch
        /\ written' = written /\ boots' = boots /\ phase \in {"live", "reindex"}
    BY <1>2, FreshFacts DEF Insert, fileVars, InFlight
  <2>2. Complete(pos) <= Complete(written) /\ Complete(pos) \in Nat
        /\ Complete(written) \in Nat
    BY <1>0 DEF InFlight, Complete
  <2>3. \A r \in rows' : r.line <= Complete(written')
    BY <1>0, <2>1, <2>2 DEF RowsAreReal, Window
  <2>4. \A r, q \in rows' : r.no = q.no => r = q
    BY <2>1 DEF RowsAreReal, Window, Fresh
  <2>5. LiveRowsInFileOrder'
    BY <1>0, <2>1 DEF LiveRowsInFileOrder, Window, InFlight
  <2> QED
    BY <2>3, <2>4, <2>5 DEF RowsAreReal
<1>3. CASE Boot
  BY <1>0, <1>3 DEF Boot, fileVars, dbVars, RowsAreReal, LiveRowsInFileOrder
<1>4. CASE \/ EngineExit \/ TailRead \/ TailExit \/ Bump \/ TailInsertFails
           \/ TailBumpFails \/ StopTailer \/ FinishJob \/ Crash \/ ReindexRead
           \/ ReindexDone \/ UNCHANGED vars
  <2>1. rows' = rows /\ written' = written /\ boots' = boots
    BY <1>4 DEF EngineExit, TailRead, TailExit, Bump, TailInsertFails, TailBumpFails,
       StopTailer, FinishJob, Crash, ReindexRead, ReindexDone, vars, fileVars, dbVars
  <2> QED
    BY <2>1 DEF RowsAreReal, LiveRowsInFileOrder
<1> QED
  BY <1>1, <1>2, <1>3, <1>4 DEF Next

-----------------------------------------------------------------------------
(* The counters. *)

LEMMA CountStep ==
    /\ TypeOK /\ InFlight /\ Window /\ FoundExact /\ CountExact /\ [Next]_vars
    => FoundExact' /\ CountExact'
<1> SUFFICES ASSUME TypeOK, InFlight, Window, FoundExact, CountExact, [Next]_vars
             PROVE  FoundExact' /\ CountExact'
  OBVIOUS
<1>0. /\ Cardinality({}) = 0
      /\ Cardinality(batch) \in Nat /\ Cardinality(rows) \in Nat
      /\ found \in Nat /\ dbCount \in Nat /\ ins \in Nat
  BY FS_EmptySet, FS_CardinalityType DEF InFlight, TypeOK
<1>1. CASE TailRead
  <2> DEFINE P == Parsed(pos, written)
             c == Cardinality(P)
  <2>0. pos \in Nat /\ written \in Nat /\ lineNo \in Nat
    BY ConstantsAssumption DEF TypeOK
  <2>1. P \subseteq Line /\ IsFiniteSet(P) /\ c \in Nat
    BY <2>0, ParsedFacts
  <2>2. Cardinality(Numbered(P, lineNo)) = c
    BY <2>0, <2>1, NumberedFacts
  <2>3. /\ found' = found + c /\ Cardinality(batch') = c
        /\ rows' = rows /\ dbCount' = dbCount /\ ins' = ins /\ phase' = phase
        /\ mishaps \subseteq mishaps' /\ batch = {} /\ phase = "live"
    BY <1>1, <2>2 DEF TailRead, InFlight, dbVars
  <2> HIDE DEF P, c
  <2> QED
    BY <1>0, <2>1, <2>3 DEF FoundExact, CountExact
<1>2. CASE Insert
  <2>1. /\ Cardinality(Fresh(batch)) \in Nat
        /\ Cardinality(rows \cup Fresh(batch)) = Cardinality(rows) + Cardinality(Fresh(batch))
    BY FreshFacts DEF InFlight
  <2>2. phase = "live" => Fresh(batch) = batch
    <3>1. \A r \in rows \cup batch : r.no \in Nat
      BY DEF TypeOK, Row
    <3>2. lineNo \in Nat
      BY DEF TypeOK
    <3>3. ASSUME phase = "live", NEW r \in batch, NEW q \in rows
          PROVE  q.no # r.no
      BY <1>0, <3>1, <3>2, <3>3 DEF Window
    <3> QED
      BY <3>3 DEF Fresh
  <2>3. /\ ins = 0 /\ ins' = Cardinality(Fresh(batch)) /\ batch' = {}
        /\ rows' = rows \cup Fresh(batch)
        /\ dbCount' = dbCount /\ found' = found /\ mishaps' = mishaps /\ phase' = phase
    BY <1>2 DEF Insert, InFlight
  <2> QED
    BY <1>0, <2>1, <2>2, <2>3 DEF FoundExact, CountExact
<1>3. CASE Bump
  BY <1>0, <1>3 DEF Bump, FoundExact, CountExact
<1>4. CASE TailInsertFails \/ TailBumpFails
  BY <1>4 DEF TailInsertFails, TailBumpFails, FoundExact, CountExact
<1>5. CASE FinishJob
  <2>1. CASE pc = "exited"
    BY <1>0, <1>5, <2>1 DEF FinishJob, FoundExact, CountExact, InFlight, tailVars
  <2>2. CASE pc # "exited"
    BY <1>5, <2>2 DEF FinishJob, FoundExact, CountExact
  <2> QED
    BY <2>1, <2>2
<1>6. CASE Crash
  <2>1. CASE pc = "bump"
    BY <1>6, <2>1 DEF Crash, FoundExact, CountExact
  <2>2. CASE pc # "bump"
    BY <1>0, <1>6, <2>2 DEF Crash, FoundExact, CountExact, InFlight, dbVars
  <2> QED
    BY <2>1, <2>2
<1>7. CASE Boot \/ ReindexRead \/ ReindexDone
  BY <1>7 DEF Boot, ReindexRead, ReindexDone, FoundExact, CountExact, dbVars
<1>8. CASE EngineWrite \/ EngineExit \/ TailExit \/ StopTailer \/ UNCHANGED vars
  BY <1>8 DEF EngineWrite, EngineExit, TailExit, StopTailer, vars, tailVars, dbVars,
     FoundExact, CountExact
<1> QED
  BY <1>1, <1>2, <1>3, <1>4, <1>5, <1>6, <1>7, <1>8 DEF Next

-----------------------------------------------------------------------------
(* In lockstep, line numbers are physical and nothing is skipped. *)

LEMMA LockstepStep ==
    /\ TypeOK /\ InFlight /\ Window /\ Covered /\ LockstepNumbering
    /\ RecoveredAfterBoot /\ [Next]_vars
    => Covered' /\ LockstepNumbering' /\ RecoveredAfterBoot'
<1> SUFFICES ASSUME TypeOK, InFlight, Window, Covered, LockstepNumbering,
                    RecoveredAfterBoot, [Next]_vars
             PROVE  Covered' /\ LockstepNumbering' /\ RecoveredAfterBoot'
  OBVIOUS
<1> DEFINE At(n) == [no |-> n, line |-> n]
<1>0. /\ Cardinality({}) = 0 /\ Cardinality(batch) \in Nat
      /\ indexed \in Nat /\ ins \in Nat /\ lineNo \in Nat
      /\ pos \in Nat /\ written \in Nat /\ Complete(pos) \in Nat
  <2>1. /\ indexed \in Nat /\ ins \in Nat /\ lineNo \in Nat
        /\ pos \in Nat /\ written \in Nat
    BY ConstantsAssumption DEF TypeOK
  <2> QED
    BY <2>1, CompleteMonotone, FS_EmptySet, FS_CardinalityType DEF InFlight
<1>1. CASE TailRead
  <2> DEFINE P == Parsed(pos, written)
  <2>1. /\ phase = "live" /\ phase' = "live" /\ pos < written /\ pos' = written
        /\ lineNo' = lineNo + Cardinality(P) /\ batch' = Numbered(P, lineNo)
        /\ rows' = rows /\ indexed' = indexed /\ batch = {}
        /\ Lockstep' => Lockstep /\ Touched(pos, written) \subseteq P
    BY <1>1 DEF TailRead, InFlight, Lockstep, dbVars
  <2>2. SUFFICES ASSUME Lockstep'
                 PROVE  Covered' /\ LockstepNumbering' /\ RecoveredAfterBoot'
    BY DEF Covered, LockstepNumbering, RecoveredAfterBoot
  <2>3. lineNo = Complete(pos) /\ pos % 3 # 1
    BY <2>1, <2>2 DEF Covered
  <2>4. /\ P = (lineNo + 1)..Complete(written)
        /\ written % 3 # 1 /\ lineNo <= Complete(written)
    BY <1>0, <2>1, <2>2, <2>3, WholeChunk DEF TypeOK
  <2>5. Complete(written) \in Nat
    BY <1>0, CompleteMonotone
  <2>6. lineNo' = Complete(written)
    <3>1. Cardinality((lineNo + 1)..Complete(written)) = Complete(written) - lineNo
      BY <1>0, <2>4, <2>5, FS_Interval
    <3> QED
      BY <1>0, <2>1, <2>4, <2>5, <3>1
  <2>7. batch' = {At(l) : l \in (lineNo + 1)..Complete(written)}
    BY <1>0, <2>1, <2>4, <2>5, IntervalNumbered
  <2>8. \A n \in 1..lineNo' : At(n) \in rows' \cup batch'
    <3>1. \A n \in 1..lineNo : At(n) \in rows
      BY <2>1, <2>2 DEF Covered
    <3>2. \A n \in 1..lineNo' : n \in 1..lineNo \/ n \in (lineNo + 1)..Complete(written)
      BY <1>0, <2>5, <2>6
    <3>3. \A n \in (lineNo + 1)..Complete(written) : At(n) \in batch'
      BY <2>7
    <3> QED
      BY <2>1, <3>1, <3>2, <3>3
  <2>9. \A r \in batch' : r.no = r.line
    BY <2>7
  <2>10. Covered'
    BY <2>1, <2>4, <2>6, <2>8, <2>9 DEF Covered
  <2> QED
    BY <2>1, <2>2, <2>10 DEF LockstepNumbering, RecoveredAfterBoot
<1>2. CASE Insert
  <2>1. /\ rows' = rows \cup Fresh(batch) /\ batch' = {} /\ mishaps' = mishaps
        /\ phase' = phase /\ phase \in {"live", "reindex"}
        /\ lineNo' = lineNo /\ indexed' = indexed /\ pos' = pos
        /\ Fresh(batch) \subseteq batch
    BY <1>2, FreshFacts DEF Insert, fileVars, InFlight
  <2>2. SUFFICES ASSUME Lockstep
                 PROVE  Covered' /\ LockstepNumbering' /\ RecoveredAfterBoot'
    BY <2>1 DEF Covered, LockstepNumbering, RecoveredAfterBoot, Lockstep
  <2>3. \A r \in batch \cup rows : r \in Row /\ r.no = r.line
    BY <2>2 DEF Covered, LockstepNumbering, TypeOK
  <2>4. \A r \in batch : r \in rows'
    <3> SUFFICES ASSUME NEW r \in batch, r \notin Fresh(batch)
                 PROVE  r \in rows
      BY <2>1
    <3>1. PICK q \in rows : q.no = r.no
      BY DEF Fresh
    <3>2. q = r
      BY <2>3, <3>1 DEF Row
    <3> QED
      BY <3>2
  <2>5. \A n \in 1..lineNo : At(n) \in rows'
    BY <2>1, <2>2, <2>4 DEF Covered
  <2>6. Covered'
    BY <2>1, <2>2, <2>5 DEF Covered, Lockstep
  <2>7. LockstepNumbering'
    BY <2>1, <2>2, <2>3 DEF LockstepNumbering
  <2> QED
    BY <2>1, <2>6, <2>7 DEF RecoveredAfterBoot
<1>3. CASE Bump
  <2>1. /\ phase \in {"live", "reindex"} /\ batch = {} /\ indexed' = indexed + ins
        /\ rows' = rows /\ batch' = batch /\ lineNo' = lineNo /\ pos' = pos
        /\ phase' = phase /\ mishaps' = mishaps
    BY <1>3 DEF Bump, InFlight, fileVars
  <2>2. indexed' <= lineNo
    BY <1>0, <2>1 DEF Window
  <2>3. Lockstep => \A n \in 1..indexed' : At(n) \in rows
    <3>1. Lockstep => \A n \in 1..lineNo : At(n) \in rows
      BY <2>1 DEF Covered
    <3>2. 1..indexed' \subseteq 1..lineNo
      BY <1>0, <2>1, <2>2
    <3> QED
      BY <3>1, <3>2
  <2> QED
    BY <2>1, <2>3 DEF Covered, LockstepNumbering, RecoveredAfterBoot, Lockstep
<1>4. CASE TailInsertFails
  BY <1>4 DEF TailInsertFails, Covered, LockstepNumbering, RecoveredAfterBoot, Lockstep
<1>5. CASE TailBumpFails
  BY <1>5 DEF TailBumpFails, Covered, LockstepNumbering, RecoveredAfterBoot, Lockstep,
     fileVars, dbVars
<1>6. CASE FinishJob
  BY <1>6 DEF FinishJob, Covered, LockstepNumbering, RecoveredAfterBoot, Lockstep,
     fileVars, tailVars
<1>7. CASE Crash
  BY <1>7 DEF Crash, Covered, LockstepNumbering, RecoveredAfterBoot, Lockstep,
     fileVars, dbVars
<1>8. CASE Boot
  BY <1>8 DEF Boot, Covered, LockstepNumbering, RecoveredAfterBoot, Lockstep, InFlight,
     fileVars, dbVars
<1>9. CASE ReindexRead
  <2>1. /\ lineNo' \in Nat /\ lineNo < lineNo'
        /\ batch' = {At(l) : l \in (lineNo + 1)..lineNo'}
    BY <1>9, ReindexReadFacts
  <2>2. /\ phase = "reindex" /\ phase' = "reindex" /\ rows' = rows /\ batch = {}
        /\ indexed' = indexed /\ pos' = pos /\ mishaps' = mishaps
    BY <1>9 DEF ReindexRead, InFlight, dbVars
  <2>3. Lockstep => \A n \in 1..lineNo : At(n) \in rows
    BY <2>2 DEF Covered
  <2>4. Lockstep => \A n \in 1..lineNo' : At(n) \in rows' \cup batch'
    <3>1. \A n \in 1..lineNo' : n \in 1..lineNo \/ n \in (lineNo + 1)..lineNo'
      BY <1>0, <2>1
    <3>2. \A n \in (lineNo + 1)..lineNo' : At(n) \in batch'
      BY <2>1
    <3> QED
      BY <2>2, <2>3, <3>1, <3>2
  <2>5. \A r \in batch' : r.no = r.line
    BY <2>1
  <2> QED
    BY <2>2, <2>4, <2>5 DEF Covered, LockstepNumbering, RecoveredAfterBoot, Lockstep
<1>10. CASE ReindexDone
  <2>1. /\ phase = "reindex" /\ phase' = "serving" /\ batch = {} /\ batch' = batch
        /\ rows' = rows /\ indexed' = indexed /\ pos' = pos /\ mishaps' = mishaps
        /\ lineNo >= Complete(pos)
    BY <1>10 DEF ReindexDone, InFlight, dbVars
  <2>2. Lockstep => \A n \in 1..Complete(pos) : At(n) \in rows
    <3>1. Lockstep => \A n \in 1..lineNo : At(n) \in rows
      BY <2>1 DEF Covered
    <3>2. 1..Complete(pos) \subseteq 1..lineNo
      BY <1>0, <2>1
    <3> QED
      BY <3>1, <3>2
  <2> QED
    BY <2>1, <2>2 DEF Covered, LockstepNumbering, RecoveredAfterBoot, Lockstep
<1>11. CASE EngineWrite \/ EngineExit \/ TailExit \/ StopTailer \/ UNCHANGED vars
  BY <1>11 DEF EngineWrite, EngineExit, TailExit, StopTailer, vars, tailVars, dbVars,
     Covered, LockstepNumbering, RecoveredAfterBoot, Lockstep
<1> QED
  BY <1>1, <1>2, <1>3, <1>4, <1>5, <1>6, <1>7, <1>8, <1>9, <1>10, <1>11 DEF Next

-----------------------------------------------------------------------------
(* What a reindex has gone through keeps its rows. *)

LEMMA SettledStep ==
    TypeOK /\ InFlight /\ Window /\ SettledStored /\ [Next]_vars => SettledStored'
<1> SUFFICES ASSUME TypeOK, InFlight, Window, SettledStored, [Next]_vars
             PROVE  SettledStored'
  OBVIOUS
<1>0. indexed \in Nat /\ ins \in Nat /\ lineNo \in Nat /\ settled \in Nat
  BY ConstantsAssumption DEF TypeOK
<1>1. CASE Insert
  <2>1. /\ rows' = rows \cup Fresh(batch) /\ batch' = {} /\ phase' = phase
        /\ lineNo' = lineNo /\ indexed' = indexed /\ settled' = settled
    BY <1>1 DEF Insert
  <2>2. ASSUME NEW n, \E r \in rows \cup batch : r.no = n
        PROVE  \E r \in rows' : r.no = n
    BY <2>1, <2>2 DEF Fresh
  <2>3. \A n \in 1..settled : indexed < n => \E r \in rows' : r.no = n
    BY <2>2 DEF SettledStored
  <2>4. phase = "reindex" =>
          \A n \in 1..lineNo : indexed < n => \E r \in rows' : r.no = n
    BY <2>2 DEF SettledStored
  <2> QED
    BY <2>1, <2>3, <2>4 DEF SettledStored
<1>2. CASE Bump
  <2>1. /\ rows' = rows /\ batch' = batch /\ phase' = phase
        /\ lineNo' = lineNo /\ settled' = settled
        /\ indexed' \in Nat /\ indexed <= indexed'
    BY <1>0, <1>2 DEF Bump
  <2>2. \A n \in Nat : indexed' < n => indexed < n
    BY <1>0, <2>1
  <2>3. 1..settled \subseteq Nat /\ 1..lineNo \subseteq Nat
    BY <1>0
  <2> QED
    BY <2>1, <2>2, <2>3 DEF SettledStored
<1>3. CASE TailRead \/ TailInsertFails
  <2>1. phase = "live" /\ phase' = phase /\ rows' = rows /\ indexed' = indexed
        /\ settled' = settled
    BY <1>3 DEF TailRead, TailInsertFails, dbVars
  <2> QED
    BY <2>1 DEF SettledStored
<1>4. CASE Crash
  BY <1>4 DEF Crash, SettledStored, dbVars
<1>5. CASE Boot
  <2>1. /\ rows' = rows /\ lineNo' = indexed /\ indexed' = indexed
        /\ settled' = settled
    BY <1>5 DEF Boot, dbVars
  <2>2. \A n \in 1..lineNo' : ~ (indexed' < n)
    BY <1>0, <2>1
  <2> QED
    BY <2>1, <2>2 DEF SettledStored
<1>6. CASE ReindexRead
  <2>1. /\ lineNo' \in Nat /\ lineNo < lineNo'
        /\ batch' = {[no |-> l, line |-> l] : l \in (lineNo + 1)..lineNo'}
    BY <1>6, ReindexReadFacts
  <2>2. /\ phase = "reindex" /\ rows' = rows /\ batch = {} /\ indexed' = indexed
        /\ settled' = settled
    BY <1>6 DEF ReindexRead, InFlight, dbVars
  <2>3. \A n \in 1..lineNo' : n \in 1..lineNo \/ n \in (lineNo + 1)..lineNo'
    BY <1>0, <2>1
  <2>4. ASSUME NEW n \in (lineNo + 1)..lineNo'
        PROVE  \E r \in batch' : r.no = n
    <3>1. [no |-> n, line |-> n] \in batch'
      BY <2>1
    <3> QED
      BY <3>1
  <2> QED
    BY <2>2, <2>3, <2>4 DEF SettledStored
<1>7. CASE ReindexDone
  <2>1. /\ phase = "reindex" /\ phase' = "serving" /\ batch = {} /\ rows' = rows
        /\ indexed' = indexed /\ settled' = Complete(pos) /\ lineNo >= Complete(pos)
    BY <1>7 DEF ReindexDone, InFlight, dbVars
  <2>2. Complete(pos) \in Nat
    <3>1. pos \in Nat
      BY ConstantsAssumption DEF TypeOK
    <3> QED
      BY <3>1, CompleteMonotone
  <2>3. 1..settled' \subseteq 1..lineNo
    BY <1>0, <2>1, <2>2
  <2> QED
    BY <2>1, <2>3 DEF SettledStored
<1>8. CASE \/ EngineWrite \/ EngineExit \/ TailExit \/ TailBumpFails \/ StopTailer
           \/ FinishJob \/ UNCHANGED vars
  BY <1>8 DEF EngineWrite, EngineExit, TailExit, TailBumpFails, StopTailer, FinishJob,
     vars, tailVars, dbVars, SettledStored
<1> QED
  BY <1>1, <1>2, <1>3, <1>4, <1>5, <1>6, <1>7, <1>8 DEF Next

\* A step of a reindex adds rows only above what earlier reindexes went through.
LEMMA IdempotentStep ==
    TypeOK /\ InFlight /\ Window /\ SettledStored /\ [Next]_vars
    => \A r \in rows' \ rows : phase = "reindex" => r.no > settled
<1> SUFFICES ASSUME TypeOK, InFlight, Window, SettledStored, [Next]_vars,
                    NEW r \in rows' \ rows, phase = "reindex"
             PROVE  r.no > settled
  OBVIOUS
<1>1. CASE Insert
  <2>1. r \in Fresh(batch) /\ r \in batch
    BY <1>1 DEF Insert, Fresh
  <2>2. r.no \in Nat \ {0} /\ settled \in Nat /\ lineNo \in Nat /\ indexed \in Nat
        /\ ins \in Nat /\ Cardinality(batch) \in Nat
    BY <2>1, ConstantsAssumption, FS_CardinalityType DEF TypeOK, Row, InFlight
  <2>3. indexed < r.no
    BY <2>1, <2>2 DEF Window
  <2>4. \A q \in rows : q.no # r.no
    BY <2>1 DEF Fresh
  <2>5. r.no \notin 1..settled
    BY <2>3, <2>4 DEF SettledStored
  <2> QED
    BY <2>2, <2>5
<1>2. CASE ~ Insert
  BY <1>2 DEF Next, vars, EngineWrite, EngineExit, TailRead, TailExit, Bump,
     TailInsertFails, TailBumpFails, StopTailer, FinishJob, Crash, Boot, ReindexRead,
     ReindexDone, dbVars
<1> QED
  BY <1>1, <1>2

-----------------------------------------------------------------------------
(* The theorems. *)

LEMMA IndInvInit == Init => TypeOK /\ IndInv
<1> SUFFICES ASSUME Init
             PROVE  IndInv
  BY TypeInit
<1>1. InFlight /\ Window
  BY TypeInit, WindowInit
<1>2. Covered /\ SettledStored /\ RecoveredAfterBoot
  BY DEF Init, Covered, SettledStored, RecoveredAfterBoot, Complete
<1>3. FoundExact /\ CountExact
  BY FS_EmptySet DEF Init, FoundExact, CountExact
<1>4. RowsAreReal /\ LiveRowsInFileOrder /\ LockstepNumbering
  BY DEF Init, RowsAreReal, LiveRowsInFileOrder, LockstepNumbering
<1> QED
  BY <1>1, <1>2, <1>3, <1>4 DEF IndInv

LEMMA IndInvStep == TypeOK /\ IndInv /\ [Next]_vars => TypeOK' /\ IndInv'
  BY TypeStep, WindowStep, RowsStep, CountStep, LockstepStep, SettledStep DEF IndInv

\* The types and the inductive invariant hold in every reachable state.
THEOREM Inductive == Spec => [](TypeOK /\ IndInv)
<1>1. Init => TypeOK /\ IndInv
  BY IndInvInit
<1>2. TypeOK /\ IndInv /\ [Next]_vars => (TypeOK /\ IndInv)'
  BY IndInvStep
<1> QED
  BY <1>1, <1>2, PTL DEF Spec

\* Every variable keeps its type.
THEOREM TypeCorrect == Spec => []TypeOK
  BY Inductive, PTL

\* Only complete lines become rows, and no line number is used twice, whatever
\* tears, failed transactions, late tailers, crashes and restarts happen.
THEOREM RowsAreRealThm == Spec => []RowsAreReal
<1>1. IndInv => RowsAreReal
  BY DEF IndInv
<1> QED
  BY <1>1, Inductive, PTL

\* Before the first restart rows follow the file and no line is stored twice.
THEOREM LiveOrderThm == Spec => []LiveRowsInFileOrder
<1>1. IndInv => LiveRowsInFileOrder
  BY DEF IndInv
<1> QED
  BY <1>1, Inductive, PTL

\* While nothing is torn and no insert fails, line numbers are physical and
\* indexed_lines never passes a line without its row.
THEOREM LockstepThm == Spec => []LockstepNumbering
<1>1. IndInv => LockstepNumbering
  BY DEF IndInv
<1> QED
  BY <1>1, Inductive, PTL

\* Under the same condition a finished reindex leaves every line it saw stored,
\* after any number of crashes between any two steps.
THEOREM RecoveryThm == Spec => []RecoveredAfterBoot
<1>1. IndInv => RecoveredAfterBoot
  BY DEF IndInv
<1> QED
  BY <1>1, Inductive, PTL

\* The detection count of the job is the number of its rows unless a transaction
\* was lost or the tailer outlived run_job.
THEOREM CountThm == Spec => []CountExact
<1>1. IndInv => CountExact
  BY DEF IndInv
<1> QED
  BY <1>1, Inductive, PTL

\* A second reindex never adds a row for a line the first went through.
THEOREM IdempotentThm == Spec => ReindexIdempotent
<1>1. TypeOK /\ IndInv /\ [Next]_vars
      => [\A r \in rows' \ rows : phase = "reindex" => r.no > settled]_vars
  BY IdempotentStep DEF IndInv
<1> QED
  BY <1>1, Inductive, PTL DEF Spec, ReindexIdempotent

=============================================================================
