--------------------------- MODULE Engine_proofs ---------------------------
(***************************************************************************)
(* Proofs about the engine: first about Timeframe, for any rules, times and *)
(* groups (the counters are those of the records in the window, no record   *)
(* is in two results, a count "at least n" stays within the timeframe, and  *)
(* no burst is missed), then about Commands, for any disk, any logs and any *)
(* command lines (no command overwrites unasked what was there, and every   *)
(* record in scope is accounted for exactly once).                          *)
(***************************************************************************)
EXTENDS Timeframe, Commands, FiniteSetTheorems, FunctionTheorems, SequenceTheorems,
        WellFoundedInduction, TLAPS

-----------------------------------------------------------------------------
(* Seconds and what is left of one.                                          *)

(* Times are ordered as their seconds and then what is left of one.          *)
LEMMA TimeOrder ==
    ASSUME NEW s \in Nat, NEW t \in Nat, s <= t
    PROVE  /\ Seconds(s) \in Nat /\ Nanos(s) \in Nat
           /\ Seconds(t) \in Nat /\ Nanos(t) \in Nat
           /\ \/ Seconds(s) < Seconds(t)
              \/ Seconds(s) = Seconds(t) /\ Nanos(s) <= Nanos(t)
<1> DEFINE T == TicksPerSecond
<1>1. T \in Nat \ {0}
    BY TimeframeAssumption
<1>2. \A x \in Nat : /\ Seconds(x) \in Nat /\ Nanos(x) \in 0 .. T - 1
                     /\ x = T * Seconds(x) + Nanos(x)
    BY <1>1 DEF Seconds, Nanos
<1> DEFINE q == Seconds(s)
           Q == Seconds(t)
<1>3. q \in Nat /\ Q \in Nat /\ s = T * q + Nanos(s) /\ t = T * Q + Nanos(t)
    BY <1>2
<1>4. q > Q => T * q >= T * Q + T
  <2>1. SUFFICES ASSUME q > Q PROVE T * q >= T * Q + T
      OBVIOUS
  <2> HIDE DEF q, Q, T
  <2>2. PICK d \in Nat : q = Q + 1 + d
      <3>1. q - Q - 1 \in Nat /\ q = Q + 1 + (q - Q - 1)
          BY <1>3, <2>1
      <3> QED BY <3>1
  <2>3. T * q = T * Q + T + T * d /\ T * d >= 0
      BY <1>1, <1>3, <2>2
  <2>4. T * q \in Int /\ T * Q \in Int /\ T * d \in Int
      BY <1>1, <1>3, <2>2
  <2> QED BY <1>1, <2>3, <2>4
<1>5. Nanos(s) \in 0 .. T - 1 /\ Nanos(t) \in 0 .. T - 1
    BY <1>2
<1>6. T * q \in Nat /\ T * Q \in Nat
    BY <1>1, <1>3
<1>7. ~(q > Q)
    BY <1>1, <1>3, <1>4, <1>5, <1>6
<1>8. q = Q => Nanos(s) <= Nanos(t)
    BY <1>1, <1>3, <1>5, <1>6
<1> QED
    BY <1>3, <1>5, <1>7, <1>8, <1>1

LEMMA TimeType == \A t \in Nat : Seconds(t) \in Nat /\ Nanos(t) \in Nat
BY TimeframeAssumption DEF Seconds, Nanos

(* Times between two others are not further apart.                           *)
LEMMA ApartMonotone ==
    ASSUME NEW a \in Nat, NEW b \in Nat, NEW c \in Nat, NEW d \in Nat,
           a <= b, b <= c, c <= d
    PROVE  Apart(a, d) \in Int /\ Apart(b, c) \in Int /\ Apart(b, c) <= Apart(a, d)
<1> DEFINE Before(s, t) == \/ Seconds(s) < Seconds(t)
                           \/ Seconds(s) = Seconds(t) /\ Nanos(s) <= Nanos(t)
<1>1. Before(a, b) /\ Before(b, c) /\ Before(c, d)
  <2>1. \A s, t \in Nat : s <= t => Before(s, t)
      BY TimeOrder
  <2> QED BY <2>1
<1>2. /\ Seconds(a) \in Nat /\ Seconds(b) \in Nat /\ Seconds(c) \in Nat /\ Seconds(d) \in Nat
      /\ Nanos(a) \in Nat /\ Nanos(b) \in Nat /\ Nanos(c) \in Nat /\ Nanos(d) \in Nat
    BY TimeType
<1> QED
    BY <1>1, <1>2 DEF Apart

(* Every index of the code names a match, with its time and its value.       *)
LEMMA Matches ==
    ASSUME NEW d \in Seq(AggRecordTimeInfo), NEW i \in Int, 0 <= i, i < Len(d)
    PROVE  /\ i + 1 \in DOMAIN d
           /\ d[i + 1] \in AggRecordTimeInfo
           /\ d[i + 1].time \in Nat
           /\ d[i + 1].field_value \in FieldValues
<1>1. Len(d) \in Nat /\ DOMAIN d = 1 .. Len(d)
    OBVIOUS
<1>2. i + 1 \in 1 .. Len(d)
    BY <1>1
<1>3. d[i + 1] \in AggRecordTimeInfo
    BY <1>2
<1> QED
    BY <1>1, <1>2, <1>3 DEF AggRecordTimeInfo

(* The matches of a group are in order of time.                              *)
Sorted(d) == \A i, j \in DOMAIN d : i <= j => d[i].time <= d[j].time

LEMMA FrameType ==
    ASSUME rule \in Rules, datas \in Seq(AggRecordTimeInfo), datas # <<>>, Sorted(datas)
    PROVE  /\ Frame \in Nat
           /\ HasTimeframe => Frame = get_sec_timeframe(0)
<1>1. rule.timeframe \in TimeFrameInfo
    BY TimeframeAssumption DEF AggregationParseInfo
<1>2. UnitSeconds(rule.timeframe.type) \in {1, 60, 3600, 86400}
    BY DEF UnitSeconds
<1>3. HasTimeframe => rule.timeframe.num \in Nat
    BY <1>1 DEF HasTimeframe, TimeFrameInfo
<1>4. DefFrame(datas) \in Nat
  <2>1. 1 \in DOMAIN datas /\ Len(datas) \in DOMAIN datas
      OBVIOUS
  <2>2. datas[1].time \in Nat /\ datas[Len(datas)].time \in Nat
    <3>1. datas[1] \in AggRecordTimeInfo /\ datas[Len(datas)] \in AggRecordTimeInfo
        BY <2>1
    <3> QED BY <3>1 DEF AggRecordTimeInfo
  <2>3. datas[1].time <= datas[Len(datas)].time
      BY <2>1 DEF Sorted
  <2>4. \A s, t \in Nat : s <= t => Seconds(t) - Seconds(s) \in Nat
    <3> SUFFICES ASSUME NEW s \in Nat, NEW t \in Nat, s <= t
                 PROVE  Seconds(t) - Seconds(s) \in Nat
        OBVIOUS
    <3>1. Seconds(s) \in Nat /\ Seconds(t) \in Nat
        BY TimeType
    <3>2. Seconds(s) < Seconds(t) \/ Seconds(s) = Seconds(t)
        BY TimeOrder
    <3> QED BY <3>1, <3>2
  <2> QED BY <2>2, <2>3, <2>4 DEF DefFrame
<1>5. HasTimeframe => rule.timeframe.num * UnitSeconds(rule.timeframe.type) \in Nat
    BY <1>2, <1>3
<1> QED
    BY <1>4, <1>5 DEF Frame, get_sec_timeframe

(* A window inside of one within the timeframe is within the timeframe.      *)
LEMMA InFrameMonotone ==
    ASSUME rule \in Rules, datas \in Seq(AggRecordTimeInfo), Sorted(datas),
           NEW a \in Nat, NEW b \in Nat, NEW c \in Nat, NEW d \in Nat,
           a <= b, b <= c, c <= d, d < Len(datas), InFrame(a, d)
    PROVE  InFrame(b, c)
<1>1. \A i \in {a, b, c, d} : i + 1 \in DOMAIN datas /\ datas[i + 1].time \in Nat
  <2>1. SUFFICES ASSUME NEW i \in {a, b, c, d}
                 PROVE  i + 1 \in DOMAIN datas /\ datas[i + 1].time \in Nat
      OBVIOUS
  <2>2. Len(datas) \in Nat /\ i \in Int /\ 0 <= i /\ i < Len(datas)
      BY <2>1
  <2> QED
      BY <2>2, Matches
<1>2. /\ datas[a + 1].time <= datas[b + 1].time
      /\ datas[b + 1].time <= datas[c + 1].time
      /\ datas[c + 1].time <= datas[d + 1].time
    BY <1>1 DEF Sorted
<1>3. Frame \in Nat
    BY FrameType, <1>1
<1>4. Apart(datas[a + 1].time, datas[d + 1].time) <= Frame
    BY DEF InFrame, Apart
<1>5. Apart(datas[b + 1].time, datas[c + 1].time) <= Frame
  <2> DEFINE A == datas[a + 1].time
             B == datas[b + 1].time
             C == datas[c + 1].time
             D == datas[d + 1].time
  <2>1. A \in Nat /\ B \in Nat /\ C \in Nat /\ D \in Nat /\ A <= B /\ B <= C /\ C <= D
      BY <1>1, <1>2
  <2>2. Apart(A, D) <= Frame
      BY <1>4
  <2> HIDE DEF A, B, C, D
  <2>3. Apart(A, D) \in Int /\ Apart(B, C) \in Int /\ Apart(B, C) <= Apart(A, D)
      BY <2>1, ApartMonotone
  <2>4. Apart(B, C) <= Frame
      BY <1>3, <2>2, <2>3
  <2> QED BY <2>4 DEF B, C
<1> QED
    BY <1>5 DEF InFrame, Apart

(* A match alone is within the timeframe.                                    *)
LEMMA InFrameAlone ==
    ASSUME rule \in Rules, datas \in Seq(AggRecordTimeInfo), Sorted(datas),
           NEW a \in Nat, a < Len(datas)
    PROVE  InFrame(a, a)
<1>1. datas[a + 1].time \in Nat
    BY Matches
<1>2. Seconds(datas[a + 1].time) \in Nat /\ Nanos(datas[a + 1].time) \in Nat
    BY <1>1, TimeType
<1>3. Frame \in Nat
    BY FrameType
<1> QED
    BY <1>2, <1>3 DEF InFrame

-----------------------------------------------------------------------------
(* Counting: the matches of a value, and the values, in a stretch.           *)

Occurrences(d, l, r, v) == {i \in l + 1 .. r : d[i].field_value = v}

LEMMA OccurrencesFinite ==
    ASSUME NEW d, NEW l \in Int, NEW r \in Int, NEW v
    PROVE  /\ IsFiniteSet(Occurrences(d, l, r, v))
           /\ Cardinality(Occurrences(d, l, r, v)) \in Nat
           /\ Cardinality(Occurrences(d, l, r, v)) > 0 <=>
                 \E m \in l + 1 .. r : d[m].field_value = v
<1> DEFINE O == Occurrences(d, l, r, v)
<1>1. IsFiniteSet(l + 1 .. r)
    BY FS_Interval
<1>2. O \in SUBSET (l + 1 .. r)
    BY DEF Occurrences
<1>3. IsFiniteSet(O)
    BY <1>1, <1>2, FS_Subset
<1>4. Cardinality(O) \in Nat /\ (Cardinality(O) = 0 <=> O = {})
    BY <1>3, FS_CardinalityType, FS_EmptySet
<1>5. O = {} <=> ~\E m \in l + 1 .. r : d[m].field_value = v
    BY DEF Occurrences
<1>6. Cardinality(O) > 0 <=> Cardinality(O) # 0
    BY <1>4
<1> QED
    BY <1>3, <1>4, <1>5, <1>6

LEMMA OccurrencesAdded ==
    ASSUME NEW d, NEW l \in Int, NEW r \in Int, l <= r, NEW v
    PROVE  Cardinality(Occurrences(d, l, r + 1, v)) =
             Cardinality(Occurrences(d, l, r, v)) +
                (IF d[r + 1].field_value = v THEN 1 ELSE 0)
<1>1. l + 1 .. r + 1 = (l + 1 .. r) \cup {r + 1} /\ r + 1 \notin l + 1 .. r
    OBVIOUS
<1>2. CASE d[r + 1].field_value = v
  <2>1. Occurrences(d, l, r + 1, v) = Occurrences(d, l, r, v) \cup {r + 1}
      BY <1>1, <1>2 DEF Occurrences
  <2>2. r + 1 \notin Occurrences(d, l, r, v)
      BY <1>1 DEF Occurrences
  <2> QED
      BY <1>2, <2>1, <2>2, OccurrencesFinite, FS_AddElement
<1>3. CASE d[r + 1].field_value # v
  <2>1. Occurrences(d, l, r + 1, v) = Occurrences(d, l, r, v)
      BY <1>1, <1>3 DEF Occurrences
  <2> QED
      BY <1>3, <2>1, OccurrencesFinite
<1> QED
    BY <1>2, <1>3

LEMMA OccurrencesRemoved ==
    ASSUME NEW d, NEW l \in Int, NEW r \in Int, l < r, NEW v
    PROVE  Cardinality(Occurrences(d, l + 1, r, v)) =
             Cardinality(Occurrences(d, l, r, v)) -
                (IF d[l + 1].field_value = v THEN 1 ELSE 0)
<1>1. l + 2 .. r = (l + 1 .. r) \ {l + 1} /\ l + 1 \in l + 1 .. r /\ l + 1 + 1 = l + 2
    OBVIOUS
<1>2. CASE d[l + 1].field_value = v
  <2>1. Occurrences(d, l + 1, r, v) = Occurrences(d, l, r, v) \ {l + 1}
      BY <1>1, <1>2 DEF Occurrences
  <2>2. l + 1 \in Occurrences(d, l, r, v)
      BY <1>1, <1>2 DEF Occurrences
  <2> QED
      BY <1>2, <2>1, <2>2, OccurrencesFinite, FS_RemoveElement
<1>3. CASE d[l + 1].field_value # v
  <2>1. Occurrences(d, l + 1, r, v) = Occurrences(d, l, r, v)
      BY <1>1, <1>3 DEF Occurrences
  <2> QED
      BY <1>3, <2>1, OccurrencesFinite
<1> QED
    BY <1>2, <1>3

(* A longer stretch counts at least as much.                                 *)
LEMMA CountOfMonotone ==
    ASSUME NEW a \in Nat, NEW b \in Nat, NEW c \in Nat, NEW d \in Nat,
           a <= b, b <= c, c <= d
    PROVE  CountOf(a, d) \in Nat /\ CountOf(b, c) \in Nat /\ CountOf(b, c) <= CountOf(a, d)
<1>1. CASE rule.field
  <2> DEFINE In(i, j) == {v \in FieldValues : \E m \in i + 1 .. j : datas[m].field_value = v}
  <2>1. IsFiniteSet(FieldValues)
      BY TimeframeAssumption, FS_AddElement DEF FieldValues
  <2>2. In(a, d) \in SUBSET FieldValues /\ b + 1 .. c \subseteq a + 1 .. d
      OBVIOUS
  <2>3. In(b, c) \in SUBSET In(a, d)
      BY <2>2
  <2>4. IsFiniteSet(In(a, d))
      BY <2>1, <2>2, FS_Subset
  <2>5. IsFiniteSet(In(b, c)) /\ Cardinality(In(b, c)) <= Cardinality(In(a, d))
      BY <2>3, <2>4, FS_Subset
  <2>6. Cardinality(In(a, d)) \in Nat /\ Cardinality(In(b, c)) \in Nat
      BY <2>4, <2>5, FS_CardinalityType
  <2> QED
      BY <1>1, <2>5, <2>6 DEF CountOf
<1>2. CASE ~rule.field
    BY <1>2 DEF CountOf
<1> QED
    BY <1>1, <1>2

LEMMA FitsGrows ==
    ASSUME rule \in Rules, GrowsWithWindow, NEW n \in Int, NEW k \in Int, n <= k,
           select_aggcon(n)
    PROVE  select_aggcon(k)
<1>1. rule.num \in Nat
    BY TimeframeAssumption DEF AggregationParseInfo
<1>2. CASE rule.op = "GE"
  <2>1. \A x : select_aggcon(x) <=> x >= rule.num
      BY <1>2 DEF select_aggcon
  <2> QED BY <1>1, <2>1
<1>3. CASE rule.op = "GT"
  <2>1. \A x : select_aggcon(x) <=> x > rule.num
      BY <1>3 DEF select_aggcon
  <2> QED BY <1>1, <2>1
<1> QED
    BY <1>2, <1>3 DEF GrowsWithWindow

-----------------------------------------------------------------------------
(* The inductive invariant.  The window is a stretch of sorted matches whose *)
(* right end may be one past the last.                                       *)
Bounds ==
    pc = "slide" =>
        /\ datas # <<>> /\ Sorted(datas)
        /\ left <= right /\ left <= Len(datas) /\ right <= Len(datas) + 1

(* Results belong to groups that were picked; those of the group at work end *)
(* before the window.                                                        *)
Keyed ==
    /\ pc = "scan" => todo = {} /\ ret = <<>>
    /\ pc = "slide" => key \notin todo
    /\ todo \subseteq {k \in Keys : countdata[k] # <<>>}
    /\ \A i \in DOMAIN ret :
          /\ ret[i].key \notin todo
          /\ pc = "slide" /\ ret[i].key = key => ret[i].to <= left

(* A window of records that fits was extended by the turn before.            *)
Within ==
    pc = "slide" /\ GrowsWithWindow /\ ~rule.field /\ left < right /\ right <= Len(datas) =>
        ~select_aggcon(right - left) \/ InFrame(left, right - 1)

(* What the window has left behind is covered, and behind the end of the     *)
(* data nothing is left to find.                                             *)
Behind ==
    pc = "slide" /\ GrowsWithWindow =>
        /\ \A i, j \in 0..Len(datas) :
              i < left /\ i < j /\ InFrame(i, j - 1) /\ select_aggcon(CountOf(i, j)) => Covered(i, j)
        /\ right = Len(datas) + 1 =>
              \A i, j \in 0..Len(datas) : left <= i /\ i < j => ~select_aggcon(CountOf(i, j))

LEMMA InitTypeOK == Init => TypeOK /\ Bounds
<1> SUFFICES ASSUME Init PROVE TypeOK /\ Bounds
    OBVIOUS
<1>1. AllGroups \in Keys
    BY DEF Keys
<1> QED
    BY <1>1 DEF Init, TypeOK, Bounds, Empty

(* What the steps of the counters keep.                                      *)
LEMMA CountersType ==
    ASSUME TypeOK
    PROVE  /\ Count \in Int
           /\ Empty \in [FieldValues -> Nat]
           /\ \A i \in Nat : /\ Added(i).cnt \in Int
                             /\ Added(i).vals \in [FieldValues -> Nat]
           /\ \A i, j \in Nat : /\ Removed(Added(i), j).cnt \in Int
                                /\ Removed(Added(i), j).vals \in [FieldValues -> Nat]
<1>1. \A i \in Nat : ~Outside(i) => datas[i + 1].field_value \in FieldValues
  <2> SUFFICES ASSUME NEW i \in Nat, ~Outside(i) PROVE datas[i + 1].field_value \in FieldValues
      OBVIOUS
  <2>1. i < Len(datas)
      BY DEF Outside, TypeOK
  <2> QED BY <2>1, Matches DEF TypeOK
<1>2. Count \in Int
  <2>1. IsFiniteSet(FieldValues)
      BY TimeframeAssumption, FS_AddElement DEF FieldValues
  <2> DEFINE V == {v \in FieldValues : value_2_cnt[v] > 0}
  <2>2. Cardinality(V) \in Nat
      BY <2>1, FS_Subset, FS_CardinalityType
  <2> QED BY <2>2 DEF Count, TypeOK
<1>3. \A i \in Nat : Added(i).cnt \in Int /\ Added(i).vals \in [FieldValues -> Nat]
    BY <1>1 DEF Added, TypeOK
<1>4. \A i, j \in Nat : /\ Removed(Added(i), j).cnt \in Int
                       /\ Removed(Added(i), j).vals \in [FieldValues -> Nat]
  <2> SUFFICES ASSUME NEW i \in Nat, NEW j \in Nat, NEW c, c = Added(i)
               PROVE  Removed(c, j).cnt \in Int /\ Removed(c, j).vals \in [FieldValues -> Nat]
      OBVIOUS
  <2>1. PICK n \in Int, f \in [FieldValues -> Nat] : c = [cnt |-> n, vals |-> f]
    <3>1. c = [cnt |-> Added(i).cnt, vals |-> Added(i).vals]
        BY DEF Added
    <3> QED BY <3>1, <1>3
  <2> QED
      BY <2>1, <1>1 DEF Removed
<1>5. Empty \in [FieldValues -> Nat]
    BY DEF Empty
<1> QED
    BY <1>2, <1>3, <1>4, <1>5

(* A window that cannot be extended holds a match: one alone fits the frame. *)
LEMMA NotAlone ==
    ASSUME TypeOK, Bounds, Looping, ~CanExtend
    PROVE  /\ left \in Nat /\ right \in Nat /\ Len(datas) \in Nat
           /\ left < right /\ right <= Len(datas)
           /\ right < Len(datas) => ~InFrame(left, right)
<1>1. left \in Nat /\ right \in Nat /\ Len(datas) \in Nat /\ left <= right /\ right <= Len(datas)
    BY DEF TypeOK, Bounds, Looping
<1>2. left # right
  <2> SUFFICES ASSUME left = right PROVE FALSE
      OBVIOUS
  <2>1. left < Len(datas)
      BY DEF Looping
  <2>2. InFrame(left, left)
      BY <1>1, <2>1, InFrameAlone DEF TypeOK, Bounds, Looping
  <2> QED
      BY <2>1, <2>2 DEF CanExtend
<1> QED
    BY <1>1, <1>2 DEF CanExtend

(* Sorting by a permutation keeps the type and brings the order.             *)
LEMMA SortedMatches ==
    ASSUME TypeOK, NEW k \in Keys, NEW p \in SortOrders(countdata[k])
    PROVE  LET d == [i \in DOMAIN countdata[k] |-> countdata[k][p[i]]]
           IN  d \in Seq(AggRecordTimeInfo) /\ Len(d) = Len(countdata[k]) /\ Sorted(d)
<1> DEFINE c == countdata[k]
           d == [i \in DOMAIN c |-> c[p[i]]]
<1>1. c \in Seq(AggRecordTimeInfo) /\ DOMAIN c = 1 .. Len(c) /\ Len(c) \in Nat
    BY DEF TypeOK
<1>2. p \in [DOMAIN c -> DOMAIN c]
    BY DEF SortOrders
<1>3. \A i \in DOMAIN c : c[p[i]] \in AggRecordTimeInfo /\ c[p[i]].time \in Nat
  <2>1. \A m \in DOMAIN c : c[m] \in AggRecordTimeInfo /\ c[m].time \in Nat
    <3>1. \A m \in DOMAIN c : c[m] \in AggRecordTimeInfo
        BY <1>1
    <3> QED BY <3>1 DEF AggRecordTimeInfo
  <2>2. \A i \in DOMAIN c : p[i] \in DOMAIN c
      BY <1>2
  <2> QED
      BY <2>1, <2>2
<1>4. d \in Seq(AggRecordTimeInfo) /\ Len(d) = Len(c)
    BY <1>1, <1>3
<1>5. \A i, j \in DOMAIN c : i < j => c[p[i]].time <= c[p[j]].time
    BY <1>3 DEF SortOrders
<1>6. Sorted(d)
  <2> SUFFICES ASSUME NEW i \in DOMAIN c, NEW j \in DOMAIN c, i <= j
               PROVE  c[p[i]].time <= c[p[j]].time
      BY DEF Sorted
  <2>1. CASE i = j
      BY <1>3, <2>1
  <2>2. CASE i # j
      BY <1>1, <1>5, <2>2
  <2> QED
      BY <2>1, <2>2
<1> QED
    BY <1>4, <1>6

(* Types and the place of the window, action by action.                      *)
LEMMA NextTypeOK == TypeOK /\ Bounds /\ Keyed /\ [Next]_vars => TypeOK' /\ Bounds'
<1> SUFFICES ASSUME TypeOK, Bounds, Keyed, [Next]_vars PROVE TypeOK' /\ Bounds'
    OBVIOUS
<1>1. ASSUME NEW e \in Event, Countup(e) PROVE TypeOK' /\ Bounds'
  <2>1. CountKey(e) \in Keys
      BY DEF CountKey, Keys, Event
  <2>2. FieldValue(e) \in FieldValues
      BY DEF FieldValue, FieldValues, Event
  <2>3. (IF e.time = Missing THEN DefaultTime ELSE e.time) \in Nat
      BY TimeframeAssumption DEF Event, DefaultTime
  <2>4. [field_value |-> FieldValue(e),
         time |-> IF e.time = Missing THEN DefaultTime ELSE e.time] \in AggRecordTimeInfo
      BY <2>2, <2>3 DEF AggRecordTimeInfo
  <2> QED
      BY <1>1, <2>1, <2>4, AppendProperties DEF Countup, TypeOK, Bounds, window
<1>2. CASE EndOfRecords
    BY <1>2 DEF EndOfRecords, TypeOK, Bounds, window
<1>3. ASSUME NEW k \in Keys, JudgeKey(k) PROVE TypeOK' /\ Bounds'
  <2>1. datas' \in Seq(AggRecordTimeInfo) /\ Len(datas') = Len(countdata[k]) /\ Sorted(datas')
    <3>1. PICK p \in SortOrders(countdata[k]) :
             datas' = [i \in DOMAIN countdata[k] |-> countdata[k][p[i]]]
        BY <1>3 DEF JudgeKey
    <3> QED BY <3>1, SortedMatches
  <2>2. Len(countdata[k]) # 0 /\ Len(countdata[k]) \in Nat
    <3>1. countdata[k] # <<>> /\ countdata[k] \in Seq(AggRecordTimeInfo)
        BY <1>3 DEF JudgeKey, Keyed, TypeOK
    <3> QED BY <3>1, EmptySeq
  <2>3. TypeOK'
      BY <1>3, <2>1, CountersType DEF JudgeKey, TypeOK
  <2>4. Bounds'
      BY <1>3, <2>1, <2>2, EmptySeq DEF JudgeKey, Bounds
  <2> QED BY <2>3, <2>4
<1>4. CASE Extend
  <2>1. right \in Nat /\ Added(right).cnt \in Int /\ Added(right).vals \in [FieldValues -> Nat]
      BY CountersType DEF TypeOK
  <2>2. TypeOK'
      BY <1>4, <2>1 DEF Extend, TypeOK
  <2>3. Bounds'
      BY <1>4 DEF Extend, Looping, CanExtend, Bounds, TypeOK
  <2> QED BY <2>2, <2>3
<1>5. CASE Report
  <2>1. /\ left \in Nat /\ right \in Nat /\ Len(datas) \in Nat
        /\ left < right /\ right <= Len(datas)
      BY <1>5, NotAlone DEF Report
  <2>2. datas[left + 1].time \in Nat
      BY <2>1, Matches DEF TypeOK
  <2>3. SubSeq(datas, left + 1, right) \in Seq(AggRecordTimeInfo)
      BY <2>1, SubSeqProperties DEF TypeOK
  <2>4. [data |-> Count, key |-> key, from |-> left, to |-> right,
         start |-> datas[left + 1].time,
         records |-> SubSeq(datas, left + 1, right)] \in AggResult
      BY <2>1, <2>2, <2>3, CountersType DEF AggResult, TypeOK
  <2>5. ret' \in Seq(AggResult)
      BY <1>5, <2>4, AppendProperties DEF Report, TypeOK
  <2>6. cnt' \in Int /\ value_2_cnt' \in [FieldValues -> Nat]
      BY <1>5, CountersType DEF Report, TypeOK
  <2>7. TypeOK'
      BY <1>5, <2>1, <2>5, <2>6 DEF Report, TypeOK, AfterResult
  <2>8. Bounds'
      BY <1>5, <2>1 DEF Report, Bounds, Looping, AfterResult
  <2> QED BY <2>7, <2>8
<1>6. CASE Slide
  <2>1. /\ left \in Nat /\ right \in Nat /\ Len(datas) \in Nat
        /\ left < right /\ right <= Len(datas)
      BY <1>6, NotAlone DEF Slide
  <2>2. cnt' \in Int /\ value_2_cnt' \in [FieldValues -> Nat]
      BY <1>6, <2>1, CountersType DEF Slide
  <2>3. TypeOK'
      BY <1>6, <2>1, <2>2 DEF Slide, TypeOK
  <2>4. Bounds'
      BY <1>6, <2>1 DEF Slide, Bounds, Looping
  <2> QED BY <2>3, <2>4
<1>7. CASE EndOfKey
    BY <1>7 DEF EndOfKey, TypeOK, Bounds, window
<1>8. CASE Judged
    BY <1>8 DEF Judged, TypeOK, Bounds, window
<1>9. CASE UNCHANGED vars
    BY <1>9 DEF vars, TypeOK, Bounds
<1> QED
    BY <1>1, <1>2, <1>3, <1>4, <1>5, <1>6, <1>7, <1>8, <1>9 DEF Next, Judge

(* Results and groups: a group is judged once, and each result starts where  *)
(* the one before ended or later.                                            *)
LEMMA NextKeyed ==
    TypeOK /\ Bounds /\ Keyed /\ ResultsDisjoint /\ [Next]_vars => Keyed' /\ ResultsDisjoint'
<1> SUFFICES ASSUME TypeOK, Bounds, Keyed, ResultsDisjoint, [Next]_vars
             PROVE  Keyed' /\ ResultsDisjoint'
    OBVIOUS
<1>1. ASSUME NEW e \in Event, Countup(e) PROVE Keyed' /\ ResultsDisjoint'
    BY <1>1 DEF Countup, Keyed, ResultsDisjoint
<1>2. CASE EndOfRecords
    BY <1>2 DEF EndOfRecords, Keyed, ResultsDisjoint
<1>3. ASSUME NEW k \in Keys, JudgeKey(k) PROVE Keyed' /\ ResultsDisjoint'
    BY <1>3 DEF JudgeKey, Keyed, ResultsDisjoint
<1>4. CASE Extend
    BY <1>4 DEF Extend, Looping, Keyed, ResultsDisjoint
<1>5. CASE Report
  <2>1. left \in Nat /\ right \in Nat /\ left < right
      BY <1>5, NotAlone DEF Report
  <2> DEFINE new == [data |-> Count, key |-> key, from |-> left, to |-> right,
                     start |-> datas[left + 1].time,
                     records |-> SubSeq(datas, left + 1, right)]
  <2>2. /\ ret' = Append(ret, new) /\ new.key = key /\ new.from = left /\ new.to = right
        /\ left' = right /\ UNCHANGED <<rule, todo, key, pc, countdata>> /\ pc = "slide"
      BY <1>5 DEF Report, Looping, AfterResult
  <2> HIDE DEF new
  <2>3. /\ Len(ret) \in Nat /\ DOMAIN ret = 1 .. Len(ret) /\ DOMAIN ret' = 1 .. Len(ret) + 1
        /\ \A i \in DOMAIN ret : ret'[i] = ret[i] /\ ret[i].to \in Nat
        /\ ret'[Len(ret) + 1] = new
    <3>1. ret \in Seq(AggResult)
        BY DEF TypeOK
    <3>2. \A i \in DOMAIN ret : ret[i].to \in Nat
      <4>1. \A i \in DOMAIN ret : ret[i] \in AggResult
          BY <3>1
      <4> QED BY <4>1 DEF AggResult
    <3> QED BY <2>2, <3>1, <3>2
  <2>4. Keyed'
      BY <2>1, <2>2, <2>3 DEF Keyed
  <2>5. ResultsDisjoint'
      BY <2>1, <2>2, <2>3 DEF Keyed, ResultsDisjoint
  <2> QED BY <2>4, <2>5
<1>6. CASE Slide
  <2>1. \A i \in DOMAIN ret : ret[i].to \in Nat
    <3>1. \A i \in DOMAIN ret : ret[i] \in AggResult
        BY DEF TypeOK
    <3> QED BY <3>1 DEF AggResult
  <2> QED
      BY <1>6, <2>1 DEF Slide, Looping, Keyed, ResultsDisjoint, TypeOK
<1>7. CASE EndOfKey
    BY <1>7 DEF EndOfKey, Keyed, ResultsDisjoint
<1>8. CASE Judged
    BY <1>8 DEF Judged, Keyed, ResultsDisjoint, window
<1>9. CASE UNCHANGED vars
    BY <1>9 DEF vars, Keyed, ResultsDisjoint
<1> QED
    BY <1>1, <1>2, <1>3, <1>4, <1>5, <1>6, <1>7, <1>8, <1>9 DEF Next, Judge

(* The counters, on their own: when the window has grown to the right, or    *)
(* moved by one.                                                             *)
LEMMA CounterStart ==
    ASSUME NEW d, NEW l \in Int, NEW v \in FieldValues
    PROVE  Cardinality(Occurrences(d, l, l, v)) = 0 /\ Empty[v] = 0
<1>1. Occurrences(d, l, l, v) = {}
    BY DEF Occurrences
<1> QED
    BY <1>1, FS_EmptySet DEF Empty

LEMMA NextCounter ==
    TypeOK /\ Bounds /\ Keyed /\ CounterIsWindow /\ [Next]_vars => CounterIsWindow'
<1> SUFFICES ASSUME TypeOK, Bounds, Keyed, CounterIsWindow, [Next]_vars
             PROVE  CounterIsWindow'
    OBVIOUS
<1> DEFINE Num(l, r, v) == Cardinality(Occurrences(datas, l, r, v))
<1>0. Len(datas) \in Nat /\ left \in Nat /\ right \in Nat
    BY DEF TypeOK
<1>1. ASSUME NEW e \in Event, Countup(e) PROVE CounterIsWindow'
    BY <1>1 DEF Countup, CounterIsWindow
<1>2. CASE EndOfRecords
    BY <1>2 DEF EndOfRecords, CounterIsWindow
<1>3. ASSUME NEW k \in Keys, JudgeKey(k) PROVE CounterIsWindow'
  <2>1. left' = 0 /\ right' = 0 /\ cnt' = 0 /\ value_2_cnt' = Empty /\ Len(datas') \in Nat
      BY <1>3, NextTypeOK DEF JudgeKey, TypeOK
  <2>2. Low' = 0
      BY <2>1 DEF Low
  <2>3. \A v \in FieldValues : Cardinality(Occurrences(datas', 0, 0, v)) = 0 /\ Empty[v] = 0
      BY CounterStart
  <2> QED
      BY <2>1, <2>2, <2>3 DEF CounterIsWindow, Occurrences
<1>4. CASE Extend
  <2>1. pc = "slide" /\ right < Len(datas) /\ left <= right
      BY <1>4 DEF Extend, Looping, CanExtend, Bounds
  <2>2. Low = right /\ Low' = right + 1 /\ ~Outside(right)
      BY <1>0, <1>4, <2>1 DEF Low, Extend, Outside
  <2>3. CASE ~rule.field
      BY <1>0, <1>4, <2>1, <2>2, <2>3 DEF Extend, Added, CounterIsWindow, TypeOK
  <2>4. CASE rule.field
    <3>1. value_2_cnt' = [value_2_cnt EXCEPT ![datas[right + 1].field_value] = @ + 1]
        BY <1>4, <2>2, <2>4 DEF Extend, Added
    <3>2. \A v \in FieldValues : value_2_cnt[v] = Num(left, right, v)
        BY <2>1, <2>2, <2>4 DEF CounterIsWindow, Occurrences
    <3>3. \A v \in FieldValues :
             Num(left, right + 1, v) =
               Num(left, right, v) + (IF datas[right + 1].field_value = v THEN 1 ELSE 0)
        BY <1>0, <2>1, OccurrencesAdded
    <3>4. \A v \in FieldValues : value_2_cnt'[v] = Num(left, right + 1, v)
      <4> SUFFICES ASSUME NEW v \in FieldValues PROVE value_2_cnt'[v] = Num(left, right + 1, v)
          OBVIOUS
      <4>1. Num(left, right, v) \in Nat
          BY <1>0, OccurrencesFinite
      <4>2. value_2_cnt'[v] =
               value_2_cnt[v] + (IF datas[right + 1].field_value = v THEN 1 ELSE 0)
        <5>1. value_2_cnt \in [FieldValues -> Nat]
            BY DEF TypeOK
        <5>2. CASE datas[right + 1].field_value = v
            BY <3>1, <5>1, <5>2
        <5>3. CASE datas[right + 1].field_value # v
            BY <3>1, <5>1, <5>3
        <5> QED BY <5>2, <5>3
      <4> QED
          BY <3>2, <3>3, <4>1, <4>2
    <3> QED
        BY <1>4, <2>1, <2>2, <2>4, <3>4 DEF Extend, CounterIsWindow, Occurrences
  <2> QED BY <2>3, <2>4
<1>5. CASE Report
  <2>1. /\ left' = right /\ right' = right /\ UNCHANGED <<rule, datas>> /\ right <= Len(datas)
        /\ pc = "slide"
      BY <1>5, NotAlone DEF Report, AfterResult, Looping
  <2>2. Low' = right
      BY <1>0, <2>1 DEF Low
  <2>3. \A v \in FieldValues : Num(right, right, v) = 0 /\ Empty[v] = 0
      BY <1>0, CounterStart
  <2>4. (~rule.field => cnt' = 0) /\ (rule.field => value_2_cnt' = Empty)
      BY <1>5 DEF Report
  <2> QED
      BY <1>0, <2>1, <2>2, <2>3, <2>4 DEF CounterIsWindow, Occurrences
<1>6. CASE Slide
  <2>1. /\ pc = "slide" /\ left < right /\ right <= Len(datas)
      BY <1>6, NotAlone DEF Slide, Looping
  <2>2. /\ left' = left + 1 /\ right' = right + 1 /\ UNCHANGED <<rule, datas>>
        /\ cnt' = Removed(Added(right), left).cnt
        /\ value_2_cnt' = Removed(Added(right), left).vals
      BY <1>6 DEF Slide
  <2>3. Low = right /\ ~Outside(left)
      BY <1>0, <2>1 DEF Low, Outside
  <2>4. CASE ~rule.field
    <3>1. cnt = right - left
        BY <2>1, <2>3, <2>4 DEF CounterIsWindow
    <3>2. Low' - left' = IF right < Len(datas) THEN right - left ELSE right - left - 1
        BY <1>0, <2>1, <2>2 DEF Low
    <3> DEFINE n == IF right < Len(datas) THEN cnt + 1 ELSE cnt
    <3>3. cnt' = n - 1
      <4>1. Outside(right) <=> ~(right < Len(datas))
          BY <1>0 DEF Outside
      <4>2. Added(right) = [cnt |-> n, vals |-> value_2_cnt]
          BY <2>4, <4>1 DEF Added
      <4> HIDE DEF n
      <4>3. Removed([cnt |-> n, vals |-> value_2_cnt], left).cnt = n - 1
          BY <2>3, <2>4 DEF Removed
      <4> QED BY <2>2, <4>2, <4>3
    <3>4. n = IF right < Len(datas) THEN right - left + 1 ELSE right - left
        BY <3>1
    <3> HIDE DEF n
    <3>5. n - 1 = Low' - left'
        BY <1>0, <3>2, <3>4
    <3> QED
        BY <2>1, <2>2, <2>4, <3>3, <3>5 DEF CounterIsWindow
  <2>5. CASE rule.field
    <3> DEFINE mid == Added(right).vals
               end == Low'
               gone == datas[left + 1].field_value
    <3>1. \A v \in FieldValues : value_2_cnt[v] = Num(left, right, v)
        BY <2>1, <2>3, <2>5 DEF CounterIsWindow, Occurrences
    <3>2. /\ end \in Nat /\ left < end
          /\ mid \in [FieldValues -> Nat]
          /\ \A v \in FieldValues : mid[v] = Num(left, end, v)
      <4>1. CASE right < Len(datas)
        <5>1. end = right + 1 /\ ~Outside(right)
            BY <1>0, <2>2, <4>1 DEF Low, Outside
        <5>2. mid = [value_2_cnt EXCEPT ![datas[right + 1].field_value] = @ + 1]
            BY <2>5, <5>1 DEF Added
        <5>3. \A v \in FieldValues :
                 /\ Num(left, right + 1, v) =
                      Num(left, right, v) + (IF datas[right + 1].field_value = v THEN 1 ELSE 0)
                 /\ Num(left, right, v) \in Nat
            BY <1>0, <2>1, OccurrencesAdded, OccurrencesFinite
        <5>4. value_2_cnt \in [FieldValues -> Nat]
            BY DEF TypeOK
        <5>5. mid \in [FieldValues -> Nat]
            BY <1>0, CountersType
        <5>6. ASSUME NEW v \in FieldValues PROVE mid[v] = Num(left, right + 1, v)
          <6>1. CASE datas[right + 1].field_value = v
              BY <3>1, <5>2, <5>3, <5>4, <6>1
          <6>2. CASE datas[right + 1].field_value # v
              BY <3>1, <5>2, <5>3, <5>4, <6>2
          <6> QED BY <6>1, <6>2
        <5> HIDE DEF mid
        <5> QED BY <1>0, <2>1, <5>1, <5>5, <5>6
      <4>2. CASE ~(right < Len(datas))
        <5>1. end = right /\ Outside(right)
            BY <1>0, <2>1, <2>2, <4>2 DEF Low, Outside
        <5>2. mid = value_2_cnt
            BY <5>1 DEF Added
        <5> QED BY <1>0, <2>1, <3>1, <5>1, <5>2 DEF TypeOK
      <4> QED BY <4>1, <4>2
    <3>3. gone \in FieldValues
      <4>1. left \in Int /\ 0 <= left /\ left < Len(datas) /\ datas \in Seq(AggRecordTimeInfo)
          BY <1>0, <2>1 DEF TypeOK
      <4> QED BY <4>1, Matches
    <3>4. value_2_cnt' = [mid EXCEPT ![gone] = IF @ <= 1 THEN 0 ELSE @ - 1]
      <4>1. Added(right) = [cnt |-> Added(right).cnt, vals |-> mid]
          BY DEF Added
      <4> QED BY <2>2, <2>3, <2>5, <4>1 DEF Removed
    <3>5. \A v \in FieldValues :
             /\ Num(left + 1, end, v) = Num(left, end, v) - (IF gone = v THEN 1 ELSE 0)
             /\ Num(left + 1, end, v) \in Nat
        BY <1>0, <3>2, OccurrencesRemoved, OccurrencesFinite
    <3> HIDE DEF mid, end, gone
    <3>6. ASSUME NEW v \in FieldValues PROVE value_2_cnt'[v] = Num(left + 1, end, v)
      <4> HIDE DEF Num
      <4>1. CASE gone = v
        <5>1. mid[v] \in Nat /\ mid[v] = Num(left + 1, end, v) + 1
            BY <3>2, <3>5, <4>1
        <5>2. value_2_cnt'[v] = IF mid[v] <= 1 THEN 0 ELSE mid[v] - 1
            BY <3>2, <3>4, <4>1
        <5>3. Num(left + 1, end, v) \in Nat
            BY <3>5
        <5> QED BY <5>1, <5>2, <5>3
      <4>2. CASE gone # v
        <5>1. value_2_cnt'[v] = mid[v]
            BY <3>2, <3>4, <4>2
        <5> QED BY <3>2, <3>5, <4>2, <5>1
      <4> QED BY <4>1, <4>2
    <3> QED
        BY <2>1, <2>2, <2>5, <3>6 DEF CounterIsWindow, Occurrences, end
  <2> QED BY <2>4, <2>5
<1>7. CASE EndOfKey
    BY <1>7 DEF EndOfKey, CounterIsWindow
<1>8. CASE Judged
    BY <1>8 DEF Judged, CounterIsWindow, window
<1>9. CASE UNCHANGED vars
    BY <1>9 DEF vars, CounterIsWindow, Low
<1> QED
    BY <1>1, <1>2, <1>3, <1>4, <1>5, <1>6, <1>7, <1>8, <1>9 DEF Next, Judge

-----------------------------------------------------------------------------
(* The count the code compares is that of the records in the window.         *)
LEMMA CountIsOfWindow ==
    ASSUME TypeOK, CounterIsWindow, pc = "slide", right <= Len(datas)
    PROVE  /\ Count = CountOf(left, right)
           /\ ~rule.field => Count = right - left
<1>1. Len(datas) \in Nat /\ left \in Nat /\ right \in Nat /\ Low = right
    BY DEF TypeOK, Low
<1>2. CASE ~rule.field
    BY <1>1, <1>2 DEF Count, CountOf, CounterIsWindow
<1>3. CASE rule.field
  <2>1. ASSUME NEW v \in FieldValues
        PROVE  value_2_cnt[v] > 0 <=> \E m \in left + 1 .. right : datas[m].field_value = v
    <3>1. value_2_cnt[v] = Cardinality(Occurrences(datas, left, right, v))
        BY <1>1, <1>3 DEF CounterIsWindow, Occurrences
    <3> QED
        BY <1>1, <3>1, OccurrencesFinite
  <2>2. {v \in FieldValues : value_2_cnt[v] > 0} =
           {v \in FieldValues : \E m \in left + 1 .. right : datas[m].field_value = v}
      BY <2>1
  <2> QED
      BY <1>3, <2>2 DEF Count, CountOf
<1> QED
    BY <1>2, <1>3

(* A window that fits the frame holds a result within the frame.             *)
LEMMA ResultFits ==
    ASSUME TypeOK, Bounds, pc = "slide", right <= Len(datas),
           HasTimeframe, InFrame(left, right - 1),
           NEW i \in 1 .. right - left, NEW j \in 1 .. right - left, i < j
    PROVE  LET r == SubSeq(datas, left + 1, right)
           IN  Apart(r[i].time, r[j].time) <= get_sec_timeframe(0)
<1> DEFINE r == SubSeq(datas, left + 1, right)
           a == left + i - 1
           b == left + j - 1
<1>1. left \in Nat /\ right \in Nat /\ Len(datas) \in Nat /\ datas \in Seq(AggRecordTimeInfo)
    BY DEF TypeOK
<1>2. r[i] = datas[a + 1] /\ r[j] = datas[b + 1]
    BY <1>1, SubSeqProperties
<1>3. /\ a \in Nat /\ b \in Nat /\ right - 1 \in Nat
      /\ left <= a /\ a <= b /\ b <= right - 1 /\ right - 1 < Len(datas)
    BY <1>1
<1> HIDE DEF a, b
<1>4. InFrame(a, b)
    BY <1>1, <1>3, InFrameMonotone DEF TypeOK, Bounds
<1>5. Apart(datas[a + 1].time, datas[b + 1].time) <= Frame
    BY <1>4 DEF InFrame, Apart
<1>6. Frame = get_sec_timeframe(0)
    BY FrameType DEF TypeOK, Bounds
<1> QED
    BY <1>2, <1>5, <1>6

LEMMA NextWithin ==
    /\ TypeOK /\ Bounds /\ Keyed /\ CounterIsWindow /\ Within /\ CountWithinTimeframe
    /\ [Next]_vars
    => Within' /\ CountWithinTimeframe'
<1> SUFFICES ASSUME TypeOK, Bounds, Keyed, CounterIsWindow, Within, CountWithinTimeframe,
                    [Next]_vars
             PROVE  Within' /\ CountWithinTimeframe'
    OBVIOUS
<1>0. Len(datas) \in Nat /\ left \in Nat /\ right \in Nat
    BY DEF TypeOK
<1> USE DEF Fits, HasTimeframe, GrowsWithWindow, get_sec_timeframe, Apart
<1>1. ASSUME NEW e \in Event, Countup(e) PROVE Within' /\ CountWithinTimeframe'
    BY <1>1 DEF Countup, Within, CountWithinTimeframe
<1>2. CASE EndOfRecords
    BY <1>2 DEF EndOfRecords, Within, CountWithinTimeframe
<1>3. ASSUME NEW k \in Keys, JudgeKey(k) PROVE Within' /\ CountWithinTimeframe'
    BY <1>3 DEF JudgeKey, Within, CountWithinTimeframe
<1>4. CASE Extend
  <2>1. CountWithinTimeframe'
      BY <1>4 DEF Extend, CountWithinTimeframe
  <2>2. UNCHANGED <<rule, datas, left>> /\ right' = right + 1 /\ InFrame(left, right)
      BY <1>4 DEF Extend, CanExtend
  <2>3. right' - 1 = right
      BY <1>0, <2>2
  <2>4. InFrame(left, right - 1)'
      BY <2>2, <2>3 DEF InFrame, Frame, DefFrame
  <2> QED BY <2>1, <2>4 DEF Within
<1>5. CASE Report
  <2>1. left' = right' /\ right' \in Nat /\ UNCHANGED <<rule, datas>>
      BY <1>0, <1>5 DEF Report, AfterResult
  <2>2. Within'
      BY <2>1 DEF Within
  <2>3. pc = "slide" /\ left < right /\ right <= Len(datas) /\ select_aggcon(Count)
      BY <1>5, NotAlone DEF Report, Looping
  <2> DEFINE new == [data |-> Count, key |-> key, from |-> left, to |-> right,
                     start |-> datas[left + 1].time,
                     records |-> SubSeq(datas, left + 1, right)]
  <2>4. ret' = Append(ret, new) /\ new.records = SubSeq(datas, left + 1, right)
      BY <1>5 DEF Report
  <2>5. DOMAIN new.records = 1 .. right - left
      BY <1>0, <2>3, <2>4, SubSeqProperties DEF TypeOK
  <2> HIDE DEF new
  <2>6. Fits(new)
    <3> SUFFICES ASSUME HasTimeframe, GrowsWithWindow, ~rule.field,
                        NEW i \in DOMAIN new.records, NEW j \in DOMAIN new.records, i < j
                 PROVE  Apart(new.records[i].time, new.records[j].time) <= get_sec_timeframe(0)
        BY DEF Fits
    <3>1. Count = right - left
        BY <2>3, CountIsOfWindow
    <3>2. InFrame(left, right - 1)
      <4>1. select_aggcon(right - left)
          BY <2>3, <3>1
      <4> HIDE DEF Fits, HasTimeframe, GrowsWithWindow, get_sec_timeframe, Apart
      <4> QED BY <2>3, <4>1 DEF Within
    <3>3. i \in 1 .. right - left /\ j \in 1 .. right - left
        BY <2>5
    <3> USE DEF new
    <3> QED
        BY <2>3, <2>4, <3>2, <3>3, ResultFits
  <2>7. /\ Len(ret) \in Nat /\ DOMAIN ret = 1 .. Len(ret) /\ DOMAIN ret' = 1 .. Len(ret) + 1
        /\ \A i \in DOMAIN ret : ret'[i] = ret[i]
        /\ ret'[Len(ret) + 1] = new
      BY <2>4 DEF TypeOK
  <2>8. \A i \in DOMAIN ret' : Fits(ret'[i])
      BY <2>6, <2>7 DEF CountWithinTimeframe
  <2>9. CountWithinTimeframe'
      BY <2>1, <2>8 DEF CountWithinTimeframe
  <2> QED BY <2>2, <2>9
<1>6. CASE Slide
  <2>1. CountWithinTimeframe'
      BY <1>6 DEF Slide, CountWithinTimeframe
  <2>2. /\ pc = "slide" /\ left < right /\ right <= Len(datas) /\ ~select_aggcon(Count)
        /\ left' = left + 1 /\ right' = right + 1 /\ UNCHANGED <<rule, datas>>
      BY <1>6, NotAlone DEF Slide, Looping
  <2>3. ~rule.field => ~select_aggcon(right - left)
      BY <2>2, CountIsOfWindow
  <2>4. right' - left' = right - left
      BY <1>0, <2>2
  <2>5. (~rule.field => ~select_aggcon(right - left))'
      BY <2>2, <2>3, <2>4 DEF select_aggcon
  <2> QED BY <2>1, <2>5 DEF Within
<1>7. CASE EndOfKey
    BY <1>7 DEF EndOfKey, Within, CountWithinTimeframe, window
<1>8. CASE Judged
    BY <1>8 DEF Judged, Within, CountWithinTimeframe, window
<1>9. CASE UNCHANGED vars
    BY <1>9 DEF vars, Within, CountWithinTimeframe, InFrame, select_aggcon, Frame, DefFrame
<1> QED
    BY <1>1, <1>2, <1>3, <1>4, <1>5, <1>6, <1>7, <1>8, <1>9 DEF Next, Judge

(* What a stretch is depends on the rule and the data only.                  *)
LEMMA SameData ==
    ASSUME UNCHANGED <<rule, datas>>
    PROVE  /\ GrowsWithWindow' <=> GrowsWithWindow
           /\ \A i, j : (InFrame(i, j - 1)' <=> InFrame(i, j - 1))
           /\ \A i, j : (select_aggcon(CountOf(i, j))' <=> select_aggcon(CountOf(i, j)))
<1>1. UNCHANGED rule /\ UNCHANGED datas
    OBVIOUS
<1>2. GrowsWithWindow' <=> GrowsWithWindow
    BY <1>1 DEF GrowsWithWindow
<1>3. \A i, j : (InFrame(i, j - 1)' <=> InFrame(i, j - 1))
    BY <1>1 DEF InFrame, Frame, DefFrame, get_sec_timeframe, HasTimeframe
<1>4. \A i, j : (select_aggcon(CountOf(i, j))' <=> select_aggcon(CountOf(i, j)))
    BY <1>1 DEF select_aggcon, CountOf
<1> QED
    BY <1>2, <1>3, <1>4

LEMMA NextBehind ==
    TypeOK /\ Bounds /\ Keyed /\ CounterIsWindow /\ Behind /\ [Next]_vars => Behind'
<1> SUFFICES ASSUME TypeOK, Bounds, Keyed, CounterIsWindow, Behind, [Next]_vars
             PROVE  Behind'
    OBVIOUS
<1>0. Len(datas) \in Nat /\ left \in Nat /\ right \in Nat
    BY DEF TypeOK
<1>1. ASSUME NEW e \in Event, Countup(e) PROVE Behind'
    BY <1>1 DEF Countup, Behind
<1>2. CASE EndOfRecords
    BY <1>2 DEF EndOfRecords, Behind
<1>3. ASSUME NEW k \in Keys, JudgeKey(k) PROVE Behind'
  <2>1. left' = 0 /\ right' = 0 /\ Len(datas') \in Nat
      BY <1>3, NextTypeOK DEF JudgeKey, TypeOK
  <2> QED BY <2>1 DEF Behind
<1>4. CASE Extend
  <2>1. /\ UNCHANGED <<rule, datas, left, ret, key, pc>>
        /\ right' = right + 1 /\ right < Len(datas)
      BY <1>4 DEF Extend, CanExtend
  <2>2. right' # Len(datas) + 1
      BY <1>0, <2>1
  <2>3. /\ GrowsWithWindow' <=> GrowsWithWindow
        /\ \A i, j : (InFrame(i, j - 1)' <=> InFrame(i, j - 1))
        /\ \A i, j : (select_aggcon(CountOf(i, j))' <=> select_aggcon(CountOf(i, j)))
        /\ \A i, j : Covered(i, j)' <=> Covered(i, j)
      BY <2>1, SameData DEF Covered
  <2> QED
      BY <2>1, <2>2, <2>3 DEF Behind
<1>5. CASE Report
  <2>1. /\ pc = "slide" /\ left < right /\ right <= Len(datas)
        /\ left' = right /\ UNCHANGED <<rule, datas, right, key>>
      BY <1>5, NotAlone DEF Report, AfterResult, Looping
  <2> DEFINE new == [data |-> Count, key |-> key, from |-> left, to |-> right,
                     start |-> datas[left + 1].time,
                     records |-> SubSeq(datas, left + 1, right)]
  <2>2. ret' = Append(ret, new) /\ new.key = key /\ new.from = left /\ new.to = right
      BY <1>5 DEF Report
  <2> HIDE DEF new
  <2>3. /\ Len(ret) \in Nat /\ DOMAIN ret = 1 .. Len(ret) /\ DOMAIN ret' = 1 .. Len(ret) + 1
        /\ \A i \in DOMAIN ret : ret'[i] = ret[i]
        /\ ret'[Len(ret) + 1] = new
      BY <2>2 DEF TypeOK
  <2>4. ASSUME NEW i \in 0..Len(datas), NEW j \in 0..Len(datas), i < right, i < j,
               InFrame(i, j - 1), select_aggcon(CountOf(i, j)), GrowsWithWindow
        PROVE  Covered(i, j)'
    <3>1. CASE i < left
      <4>1. Covered(i, j)
          BY <2>1, <2>4, <3>1 DEF Behind
      <4>2. PICK m \in DOMAIN ret : ret[m].key = key /\ ret[m].from < j /\ i < ret[m].to
          BY <4>1 DEF Covered
      <4>3. m \in DOMAIN ret' /\ ret'[m] = ret[m]
          BY <2>3
      <4> QED BY <2>1, <4>2, <4>3 DEF Covered
    <3>2. CASE ~(i < left)
      <4>1. left < j /\ i < right
          BY <1>0, <2>4, <3>2
      <4>2. Len(ret) + 1 \in DOMAIN ret'
          BY <2>3
      <4> QED BY <2>1, <2>2, <2>3, <4>1, <4>2 DEF Covered
    <3> QED BY <3>1, <3>2
  <2>5. right' # Len(datas) + 1
      BY <1>0, <2>1
  <2>6. /\ GrowsWithWindow' <=> GrowsWithWindow
        /\ \A i, j : (InFrame(i, j - 1)' <=> InFrame(i, j - 1))
        /\ \A i, j : (select_aggcon(CountOf(i, j))' <=> select_aggcon(CountOf(i, j)))
      BY <2>1, SameData
  <2> QED
      BY <2>1, <2>4, <2>5, <2>6 DEF Behind
<1>6. CASE Slide
  <2>1. /\ pc = "slide" /\ left < right /\ right <= Len(datas)
        /\ right < Len(datas) => ~InFrame(left, right)
        /\ ~select_aggcon(Count)
        /\ left' = left + 1 /\ right' = right + 1 /\ UNCHANGED <<rule, datas, ret, key, pc>>
      BY <1>6, NotAlone DEF Slide, Looping
  <2>2. ASSUME NEW i \in Nat, NEW j \in Nat, left <= i, i < j, j <= right, GrowsWithWindow
        PROVE  ~select_aggcon(CountOf(i, j))
    <3>1. /\ CountOf(i, j) \in Nat /\ CountOf(left, right) \in Nat
          /\ CountOf(i, j) <= CountOf(left, right)
        BY <1>0, <2>2, CountOfMonotone
    <3>2. ~select_aggcon(CountOf(left, right))
        BY <2>1, CountIsOfWindow
    <3> QED
        BY <2>2, <3>1, <3>2, FitsGrows DEF TypeOK
  <2>3. ASSUME NEW j \in 0..Len(datas), left < j, InFrame(left, j - 1), right < j
        PROVE  FALSE
    <3>1. /\ right < Len(datas) /\ j - 1 \in Nat /\ right <= j - 1 /\ j - 1 < Len(datas)
          /\ left <= right
        BY <1>0, <2>1, <2>3
    <3>2. InFrame(left, right)
        BY <1>0, <2>1, <2>3, <3>1, InFrameMonotone DEF TypeOK, Bounds
    <3> QED BY <2>1, <3>1, <3>2
  <2>4. ASSUME NEW i \in 0..Len(datas), NEW j \in 0..Len(datas), i < left + 1, i < j,
               InFrame(i, j - 1), select_aggcon(CountOf(i, j)), GrowsWithWindow
        PROVE  Covered(i, j)
    <3>1. CASE i < left
        BY <2>1, <2>4, <3>1 DEF Behind
    <3>2. CASE ~(i < left)
      <4>1. i = left
          BY <1>0, <2>4, <3>2
      <4>2. j <= right
          BY <1>0, <2>3, <2>4, <4>1
      <4> QED
          BY <1>0, <2>2, <2>4, <4>1, <4>2
    <3> QED BY <3>1, <3>2
  <2>5. ASSUME GrowsWithWindow, right + 1 = Len(datas) + 1,
               NEW i \in 0..Len(datas), NEW j \in 0..Len(datas), left + 1 <= i, i < j
        PROVE  ~select_aggcon(CountOf(i, j))
    <3>1. left <= i /\ j <= right
        BY <1>0, <2>5
    <3> QED
        BY <2>2, <2>5, <3>1
  <2>6. /\ GrowsWithWindow' <=> GrowsWithWindow
        /\ \A i, j : (InFrame(i, j - 1)' <=> InFrame(i, j - 1))
        /\ \A i, j : (select_aggcon(CountOf(i, j))' <=> select_aggcon(CountOf(i, j)))
        /\ \A i, j : Covered(i, j)' <=> Covered(i, j)
      BY <2>1, SameData DEF Covered
  <2> QED
      BY <2>1, <2>4, <2>5, <2>6 DEF Behind
<1>7. CASE EndOfKey
    BY <1>7 DEF EndOfKey, Behind
<1>8. CASE Judged
    BY <1>8 DEF Judged, Behind
<1>9. CASE UNCHANGED vars
  <2>1. UNCHANGED <<rule, datas, left, right, ret, key, pc>>
      BY <1>9 DEF vars
  <2>2. /\ GrowsWithWindow' <=> GrowsWithWindow
        /\ \A i, j : (InFrame(i, j - 1)' <=> InFrame(i, j - 1))
        /\ \A i, j : (select_aggcon(CountOf(i, j))' <=> select_aggcon(CountOf(i, j)))
        /\ \A i, j : Covered(i, j)' <=> Covered(i, j)
      BY <2>1, SameData DEF Covered
  <2> QED
      BY <2>1, <2>2 DEF Behind
<1> QED
    BY <1>1, <1>2, <1>3, <1>4, <1>5, <1>6, <1>7, <1>8, <1>9 DEF Next, Judge

-----------------------------------------------------------------------------
IndInv ==
    /\ TypeOK /\ Bounds /\ Keyed /\ ResultsDisjoint /\ CounterIsWindow
    /\ Within /\ CountWithinTimeframe /\ Behind

LEMMA InitIndInv == Init => IndInv
<1> SUFFICES ASSUME Init PROVE IndInv
    OBVIOUS
<1>1. TypeOK /\ Bounds
    BY InitTypeOK
<1> QED
    BY <1>1 DEF Init, IndInv, Keyed, ResultsDisjoint, CounterIsWindow, Within,
                CountWithinTimeframe, Behind

LEMMA NextIndInv == IndInv /\ [Next]_vars => IndInv'
BY NextTypeOK, NextKeyed, NextCounter, NextWithin, NextBehind DEF IndInv

LEMMA Inductive == Spec => []IndInv
BY InitIndInv, NextIndInv, PTL DEF Spec

(* The variables of the judging loop keep their types (count.rs 482-543).    *)
THEOREM TypeCorrect == Spec => []TypeOK
BY Inductive, PTL DEF IndInv

(* The counters of count.rs 358-457 are those of the window, for every       *)
(* timeframe, group and value.                                               *)
THEOREM CounterThm == Spec => []CounterIsWindow
BY Inductive, PTL DEF IndInv

(* A result is of a record at least, and two results of a group share none   *)
(* (count.rs 522-529).                                                       *)
THEOREM DisjointThm == Spec => []ResultsDisjoint
BY Inductive, PTL DEF IndInv

(* A count of records with GE or GT reports only records that lie within the *)
(* timeframe (count.rs 530-537).                                             *)
THEOREM WithinThm == Spec => []CountWithinTimeframe
BY Inductive, PTL DEF IndInv

(* With GE or GT no burst is missed: when a group is done, each stretch of   *)
(* its records within the timeframe that fits overlaps a result.             *)
THEOREM MissedThm == Spec => []NothingMissed
<1>1. IndInv => NothingMissed
  <2> SUFFICES ASSUME IndInv, pc = "slide", ~Looping, GrowsWithWindow,
                      NEW i \in 0..Len(datas), NEW j \in 0..Len(datas),
                      i < j, InFrame(i, j - 1), select_aggcon(CountOf(i, j))
               PROVE  Covered(i, j)
      BY DEF NothingMissed
  <2>1. Len(datas) \in Nat /\ left \in Nat /\ right \in Nat
      BY DEF IndInv, TypeOK
  <2>2. left >= Len(datas) \/ right = Len(datas) + 1
      BY <2>1 DEF IndInv, Looping, Bounds
  <2>3. i < left
      BY <2>1, <2>2 DEF IndInv, Behind
  <2> QED
      BY <2>3 DEF IndInv, Behind
<1> QED
    BY Inductive, <1>1, PTL

-----------------------------------------------------------------------------
(* Commands: the files that a command writes are among those it was checked  *)
(* to leave alone, but for the list of critical systems.                     *)

(* What the check on the command line promised, as long as the command runs. *)
Spared ==
    phase \in {"collect", "filter", "read", "reported", "finish"} =>
        cmd.clobber \/ Guarded(cmd) \cap DOMAIN before = {}

(* Before the check nothing is written.                                      *)
Untouched == phase = "exec" => disk = before

ClobberInv == NoClobber /\ Spared /\ Untouched

(* What path p holds is the same on disk e as on disk d. *)
Stays(p, d, e) == p \in DOMAIN d => p \in DOMAIN e /\ e[p] = d[p]

(* Writing elsewhere, in one way or another.                                 *)
LEMMA OverStays ==
    ASSUME NEW new, NEW d, NEW p, p \notin DOMAIN new
    PROVE  Stays(p, d, Over(new, d))
BY DEF Over, Stays

LEMMA WrittenStays ==
    ASSUME NEW d, NEW path, NEW text, NEW p, p # path
    PROVE  Stays(p, d, Written(d, path, text))
<1>1. DOMAIN [q \in {path} |-> File(text)] = {path}
    OBVIOUS
<1> QED
    BY <1>1, OverStays DEF Written

LEMMA LinesStay ==
    ASSUME NEW d, NEW names, NEW p, p # CriticalSystems
    PROVE  Stays(p, d, WithLines(d, names))
BY WrittenStays DEF WithLines, Stays

(* A table goes to the screen, or to a file that was checked.                *)
LEMMA TablesAreOutputs ==
    ASSUME NEW c, NEW t, NEW p \in DOMAIN Tables(c, t)
    PROVE  p[1] = Absent \/ p \in Outputs(c)
<1> DEFINE out == Path(c.output)
<1>1. out[1] = c.output
    BY DEF Path
<1>2. CASE c.action = "logon-summary"
  <2>1. p \in {<<c.output, "-successful.csv">>, <<c.output, "-failed.csv">>}
    BY <1>2 DEF Tables, tm_logon_stats, Nothing, At, Over, Timelines
  <2> QED
    BY <1>2, <2>1 DEF Outputs
<1>3. CASE c.action \in {"eid-metrics", "computer-metrics", "log-metrics", "search", "extract-base64"} \cup Timelines
  <2>1. p = out
    BY <1>3 DEF Tables, Nothing, At, Timelines
  <2> QED
    BY <1>1, <1>3, <2>1 DEF Outputs, Timelines
<1>4. CASE c.action \notin {"eid-metrics", "computer-metrics", "log-metrics", "search", "extract-base64", "logon-summary"} \cup Timelines
    BY <1>4 DEF Tables, Nothing, Timelines
<1> QED
    BY <1>2, <1>3, <1>4

(* A step that leaves alone what the check names leaves alone what was there. *)
LEMMA SparesBefore ==
    ASSUME ClobberInv, phase \in {"collect", "filter", "read", "reported", "finish"},
           cmd' = cmd, before' = before, phase' # "exec",
           \A p : p[1] # Absent /\ p # CriticalSystems /\ p \notin Guarded(cmd)
                    => Stays(p, disk, disk')
    PROVE  ClobberInv'
<1>1. Guarded(cmd)' = Guarded(cmd)
    BY DEF Guarded, Outputs, HtmlReport
<1>2. Spared'
    BY <1>1 DEF ClobberInv, Spared
<1>3. NoClobber'
  <2> SUFFICES ASSUME NEW p \in DOMAIN before, p[1] # Absent, p # CriticalSystems, ~cmd.clobber
               PROVE  p \in DOMAIN disk' /\ disk'[p] = before[p]
      BY DEF NoClobber
  <2>1. p \notin Guarded(cmd)
      BY DEF ClobberInv, Spared
  <2>2. p \in DOMAIN disk /\ disk[p] = before[p]
      BY DEF ClobberInv, NoClobber
  <2>3. Stays(p, disk, disk')
      BY <2>1
  <2> QED
      BY <2>2, <2>3 DEF Stays
<1> QED
    BY <1>2, <1>3 DEF ClobberInv, Untouched

LEMMA ClobberStep == ClobberInv /\ [CommandNext]_commandVars => ClobberInv'
<1> SUFFICES ASSUME ClobberInv, [CommandNext]_commandVars PROVE ClobberInv'
    OBVIOUS
<1>1. CASE Issue
    BY <1>1 DEF Issue, ClobberInv, NoClobber, Spared, Untouched
<1>2. CASE Refuse
    BY <1>2 DEF Refuse, ClobberInv, NoClobber, Spared, Untouched
<1>3. CASE Begin
  <2>1. disk = before /\ (cmd.clobber \/ Guarded(cmd) \cap DOMAIN before = {})
      BY <1>3 DEF Begin, Refused, Exists, ClobberInv, Untouched
  <2>2. phase' = "collect" /\ cmd' = cmd /\ before' = before
      BY <1>3 DEF Begin
  <2>3. \A p : p # CriticalSystems => Stays(p, disk, disk')
    <3> SUFFICES ASSUME NEW p, p # CriticalSystems PROVE Stays(p, disk, disk')
        OBVIOUS
    <3>1. disk' = disk \/ disk' = Written(disk, CriticalSystems, <<>>)
        BY <1>3 DEF Begin
    <3> QED
        BY <3>1, WrittenStays DEF Stays
  <2>4. NoClobber'
      BY <2>1, <2>2, <2>3 DEF NoClobber, Stays
  <2>5. Guarded(cmd)' = Guarded(cmd)
      BY <2>2 DEF Guarded, Outputs, HtmlReport
  <2> QED
      BY <2>1, <2>2, <2>4, <2>5 DEF ClobberInv, Spared, Untouched
<1>4. CASE Collect
    BY <1>4, SparesBefore DEF Collect, Stays
<1>5. CASE InitWriter
  <2>1. phase = "filter" /\ phase' = "read" /\ cmd' = cmd /\ before' = before
      BY <1>5 DEF InitWriter
  <2>2. ASSUME NEW p, p \notin Guarded(cmd) PROVE Stays(p, disk, disk')
    <3>1. CASE cmd.output = Absent \/ cmd.action \in {"pivot-keywords-list", "logon-summary"}
        BY <1>5, <3>1 DEF InitWriter, Stays
    <3>2. CASE ~(cmd.output = Absent \/ cmd.action \in {"pivot-keywords-list", "logon-summary"})
      <4>1. Path(cmd.output) \in Guarded(cmd)
          BY <3>2 DEF Guarded, Outputs
      <4>2. disk' = Written(disk, Path(cmd.output), <<>>)
          BY <1>5, <3>2 DEF InitWriter
      <4> QED
          BY <2>2, <4>1, <4>2, WrittenStays
    <3> QED
        BY <3>1, <3>2
  <2> QED
      BY <2>1, <2>2, SparesBefore
<1>6. CASE AnalyseFile
  <2>1. phase = "read" /\ phase' = "read" /\ cmd' = cmd /\ before' = before
      BY <1>6 DEF AnalyseFile
  <2>2. ASSUME NEW p, p[1] # Absent, p \notin Guarded(cmd) PROVE Stays(p, disk, disk')
    <3>1. CASE cmd.action # "search"
        BY <1>6, <3>1 DEF AnalyseFile, Stays
    <3>2. CASE cmd.action = "search"
      <4>1. disk' = Written(disk, Path(cmd.output), tl'.written)
          BY <1>6, <3>2 DEF AnalyseFile
      <4>2. p # Path(cmd.output)
        <5>1. Path(cmd.output)[1] = cmd.output
            BY DEF Path
        <5>2. cmd.output # Absent => Path(cmd.output) \in Guarded(cmd)
            BY <3>2 DEF Guarded, Outputs
        <5> QED
            BY <2>2, <5>1, <5>2
      <4> QED
          BY <4>1, <4>2, WrittenStays
    <3> QED
        BY <3>1, <3>2
  <2> QED
      BY <2>1, <2>2, SparesBefore
<1>7. CASE WriteTables
  <2>1. phase = "read" /\ phase' = "reported" /\ cmd' = cmd /\ before' = before
      BY <1>7 DEF WriteTables
  <2>2. PICK yes \in SUBSET {"dc", "fs"} :
            disk' = WithLines(Over(Tables(cmd, tl), disk), UNION {tl.critical[k] : k \in yes})
      BY <1>7 DEF WriteTables
  <2>3. ASSUME NEW p, p[1] # Absent, p # CriticalSystems, p \notin Guarded(cmd)
        PROVE  Stays(p, disk, disk')
    <3>1. p \notin DOMAIN Tables(cmd, tl)
        BY <2>3, TablesAreOutputs DEF Guarded
    <3>2. Stays(p, disk, Over(Tables(cmd, tl), disk))
        BY <3>1, OverStays
    <3>3. Stays(p, Over(Tables(cmd, tl), disk), disk')
        BY <2>2, <2>3, LinesStay
    <3> QED
        BY <3>2, <3>3 DEF Stays
  <2> QED
      BY <2>1, <2>3, SparesBefore
<1>8. CASE Finish
  <2>1. phase \in {"reported", "finish"} /\ phase' = "over" /\ cmd' = cmd /\ before' = before
      BY <1>8 DEF Finish
  <2> DEFINE keywords == IF cmd.action = "pivot-keywords-list" THEN Outputs(cmd) ELSE {}
             text == [q \in keywords |-> File(<<<<"keywords", tl.detected>>>>)]
             html == [q \in HtmlReport(cmd) |-> File(<<<<"html", cmd.action>>>>)]
  <2>2. disk' = Over(text, Over(html, disk))
      BY <1>8 DEF Finish
  <2>3. DOMAIN text \subseteq Guarded(cmd) /\ DOMAIN html \subseteq Guarded(cmd)
      BY DEF Guarded
  <2>4. ASSUME NEW p, p \notin Guarded(cmd) PROVE Stays(p, disk, disk')
    <3>1. Stays(p, disk, Over(html, disk)) /\ Stays(p, Over(html, disk), Over(text, Over(html, disk)))
        BY <2>3, <2>4, OverStays
    <3> QED
        BY <2>2, <3>1 DEF Stays
  <2> QED
      BY <2>1, <2>4, SparesBefore
<1>9. CASE UNCHANGED commandVars
  <2>1. disk' = disk /\ before' = before /\ cmd' = cmd /\ phase' = phase
      BY <1>9 DEF commandVars
  <2> QED
      BY <2>1 DEF ClobberInv, NoClobber, Spared, Untouched, Guarded, Outputs, HtmlReport
<1> QED
    BY <1>1, <1>2, <1>3, <1>4, <1>5, <1>6, <1>7, <1>8, <1>9 DEF CommandNext

(* Without --clobber no command changes a file that was there when it began, *)
(* whatever it writes, and whatever the commands before it have written.     *)
THEOREM ClobberThm == CommandSpec => []NoClobber
<1>1. CommandInit => ClobberInv
    BY DEF CommandInit, ClobberInv, NoClobber, Spared, Untouched
<1>2. ClobberInv => NoClobber
    BY DEF ClobberInv
<1> QED
    BY <1>1, <1>2, ClobberStep, PTL DEF CommandSpec

-----------------------------------------------------------------------------
(* Commands, every event once.  The loops over items, records, batches and   *)
(* files are FlattenSeq and folds; what they come to is proved once, for     *)
(* parts and for steps (Fold), and then used along each loop with what a     *)
(* state accounts for.                                                       *)

(* A set of numbers with a member has a least one.                           *)
LEMMA Smallest ==
    ASSUME NEW T \in SUBSET Nat, T # {}
    PROVE  \E x \in T : \A y \in T : x <= y
<1> DEFINE R == {ss \in Nat \X Nat : ss[1] < ss[2]}
<1>1. IsWellFoundedOn(R, Nat)
    BY NatLessThanWellFounded DEF OpToRel
<1>2. \A x, y \in Nat : <<y, x>> \in R <=> y < x
    OBVIOUS
<1>3. \E x \in T : \A y \in T : ~ (<<y, x>> \in R)
  <2> HIDE DEF R
  <2> QED
      BY <1>1, WFMin
<1>4. PICK x \in T : \A y \in T : ~ (y < x)
    BY <1>2, <1>3
<1>5. \A y \in T : x <= y
    BY <1>4
<1> QED
    BY <1>5

(* What holds of 0 and of the successor holds of every number.               *)
LEMMA Induction ==
    ASSUME NEW G, 0 \in G, \A n \in Nat : n \in G => n + 1 \in G
    PROVE  Nat \subseteq G
<1> DEFINE T == Nat \ G
<1> SUFFICES ASSUME T # {} PROVE FALSE
    OBVIOUS
<1>1. PICK x \in T : \A y \in T : x <= y
  <2>1. T \in SUBSET Nat
      OBVIOUS
  <2> HIDE DEF T
  <2> QED
      BY <2>1, Smallest
<1>2. x # 0 /\ x - 1 \in Nat /\ x - 1 < x /\ (x - 1) + 1 = x
    BY <1>1
<1> QED
    BY <1>1, <1>2

(* The function inside FlattenSeq, for the first n members of s.             *)
IsFlat(f, s, n) ==
    f = [i \in 1..n |-> IF i = 1 THEN s[i] ELSE f[i - 1] \o s[i]]

(* The function inside FlattenSeq exists, for any number of members.         *)
LEMMA FlatExists ==
    ASSUME NEW s
    PROVE  \A n \in Nat : \E f : IsFlat(f, s, n)
<1> DEFINE G == {n \in Nat : \E f : IsFlat(f, s, n)}
<1>1. 0 \in G
  <2>1. IsFlat([i \in 1..0 |-> 0], s, 0)
      BY DEF IsFlat
  <2> QED
      BY <2>1
<1>2. ASSUME NEW n \in Nat, n \in G PROVE n + 1 \in G
  <2>1. PICK f : IsFlat(f, s, n)
      BY <1>2
  <2> DEFINE g == [i \in 1..(n + 1) |->
                      IF i = n + 1 THEN IF i = 1 THEN s[i] ELSE f[i - 1] \o s[i]
                      ELSE f[i]]
             h == [i \in 1..(n + 1) |-> IF i = 1 THEN s[i] ELSE g[i - 1] \o s[i]]
  <2>2. ASSUME NEW i \in 1..(n + 1) PROVE g[i] = h[i]
    <3>1. CASE i = n + 1
      <4>1. i # 1 => i - 1 \in 1..(n + 1) /\ i - 1 # n + 1
          BY <3>1
      <4> QED
          BY <3>1, <4>1
    <3>2. CASE i # n + 1
      <4>1. i \in 1..n /\ (i # 1 => i - 1 \in 1..(n + 1) /\ i - 1 # n + 1)
          BY <3>2
      <4>2. f[i] = IF i = 1 THEN s[i] ELSE f[i - 1] \o s[i]
          BY <2>1, <4>1 DEF IsFlat
      <4> QED
          BY <3>2, <4>1, <4>2
    <3> QED
        BY <3>1, <3>2
  <2>3. g = h
      BY <2>2
  <2>4. IsFlat(g, s, n + 1)
      BY <2>3 DEF IsFlat
  <2> HIDE DEF g
  <2> QED
      BY <2>4
<1> HIDE DEF G
<1>3. Nat \subseteq G
    BY <1>1, <1>2, Induction
<1> QED
    BY <1>3 DEF G

(* FlattenSeq gives the last value of that function.                         *)
LEMMA FlatValue ==
    ASSUME NEW s, Len(s) \in Nat \ {0}
    PROVE  \E f : IsFlat(f, s, Len(s)) /\ FlattenSeq(s) = f[Len(s)]
<1> DEFINE F == CHOOSE f : f = [i \in 1..Len(s) |->
                                   IF i = 1 THEN s[i] ELSE f[i - 1] \o s[i]]
<1>1. \E f : f = [i \in 1..Len(s) |-> IF i = 1 THEN s[i] ELSE f[i - 1] \o s[i]]
    BY FlatExists DEF IsFlat
<1>2. IsFlat(F, s, Len(s))
    BY <1>1, Zenon DEF IsFlat
<1>3. FlattenSeq(s) = F[Len(s)]
    BY Zenon DEF FlattenSeq
<1> QED
    BY <1>2, <1>3

(* The first members decide what comes of them.                              *)
LEMMA FlatUnique ==
    ASSUME NEW s, NEW t, NEW m \in Nat, NEW n \in Nat, n <= m,
           \A i \in 1..n : s[i] = t[i],
           NEW f, IsFlat(f, s, m), NEW g, IsFlat(g, t, n)
    PROVE  \A i \in 1..n : f[i] = g[i]
<1> DEFINE G == {k \in Nat : k \in 1..n => f[k] = g[k]}
<1>1. 0 \in G
    OBVIOUS
<1>2. ASSUME NEW k \in Nat, k \in G, k + 1 \in 1..n PROVE f[k + 1] = g[k + 1]
  <2>0. k + 1 \in 1..m
      BY <1>2
  <2>1. /\ f[k + 1] = IF k + 1 = 1 THEN s[k + 1] ELSE f[(k + 1) - 1] \o s[k + 1]
        /\ g[k + 1] = IF k + 1 = 1 THEN t[k + 1] ELSE g[(k + 1) - 1] \o t[k + 1]
      BY <1>2, <2>0, Zenon DEF IsFlat
  <2>2. k + 1 # 1 => k \in 1..n /\ (k + 1) - 1 = k
      BY <1>2
  <2> QED
      BY <1>2, <2>1, <2>2
<1>3. \A k \in Nat : k \in G => k + 1 \in G
    BY <1>2
<1>4. Nat \subseteq G
  <2> HIDE DEF G
  <2> QED
      BY <1>1, <1>3, Induction
<1> QED
    BY <1>4

(* The first n parts, one behind the other.                                  *)
Flat(P, n) == FlattenSeq([i \in 1..n |-> P[i]])

AreParts(P, n, C) == \A i \in 1..n : P[i] \in Seq(C)

(* No parts come to nothing.                                                 *)
LEMMA FlatEmpty == ASSUME NEW P PROVE Flat(P, 0) = <<>>
<1>1. [i \in 1..0 |-> P[i]] = <<>>
    OBVIOUS
<1> QED
    BY <1>1, EmptySeq DEF Flat, FlattenSeq

(* What the parts come to is the last value of a function over them.         *)
LEMMA FlatFunction ==
    ASSUME NEW P, NEW n \in Nat \ {0}
    PROVE  \E f : IsFlat(f, P, n) /\ Flat(P, n) = f[n]
<1> DEFINE s == [i \in 1..n |-> P[i]]
<1>1. Len(s) = n
    OBVIOUS
<1>2. Flat(P, n) = FlattenSeq(s)
    BY DEF Flat
<1>3. \A i \in 1..n : s[i] = P[i]
    OBVIOUS
<1> HIDE DEF s
<1>4. PICK f : IsFlat(f, s, n) /\ FlattenSeq(s) = f[n]
    BY <1>1, FlatValue
<1>5. IsFlat(f, P, n)
    BY <1>3, <1>4 DEF IsFlat
<1> QED
    BY <1>2, <1>4, <1>5

(* The next part goes behind what there is; the first is all there is.       *)
LEMMA FlatGrows ==
    ASSUME NEW C, NEW P, NEW n \in Nat, P[n + 1] \in Seq(C)
    PROVE  Flat(P, n + 1) = IF n = 0 THEN P[1] ELSE Flat(P, n) \o P[n + 1]
<1>1. n + 1 \in Nat \ {0} /\ n <= n + 1 /\ (n + 1) - 1 = n /\ n + 1 \in 1..(n + 1)
    OBVIOUS
<1>2. PICK f : IsFlat(f, P, n + 1) /\ Flat(P, n + 1) = f[n + 1]
    BY <1>1, FlatFunction
<1>3. f[n + 1] = IF n + 1 = 1 THEN P[n + 1] ELSE f[(n + 1) - 1] \o P[n + 1]
    BY <1>1, <1>2, Zenon DEF IsFlat
<1>4. ASSUME n # 0 PROVE f[n] = Flat(P, n)
  <2>1. PICK g : IsFlat(g, P, n) /\ Flat(P, n) = g[n]
      BY <1>4, FlatFunction
  <2>2. \A i \in 1..n : f[i] = g[i]
      BY <1>1, <1>2, <2>1, FlatUnique
  <2> QED
      BY <1>4, <2>1, <2>2
<1> QED
    BY <1>1, <1>2, <1>3, <1>4

(* Parts over C come to a sequence over C.                                   *)
LEMMA FlatType ==
    ASSUME NEW C, NEW P, NEW n \in Nat, AreParts(P, n, C)
    PROVE  Flat(P, n) \in Seq(C)
<1> DEFINE G == {k \in Nat : k <= n => Flat(P, k) \in Seq(C)}
<1>1. 0 \in G
    BY FlatEmpty, EmptySeq
<1>2. ASSUME NEW k \in Nat, k \in G, k + 1 <= n PROVE Flat(P, k + 1) \in Seq(C)
  <2>1. P[k + 1] \in Seq(C) /\ Flat(P, k) \in Seq(C)
      BY <1>2 DEF AreParts
  <2>2. Flat(P, k) \o P[k + 1] \in Seq(C)
      BY <2>1, ConcatProperties
  <2>3. Flat(P, k + 1) = IF k = 0 THEN P[1] ELSE Flat(P, k) \o P[k + 1]
      BY <2>1, FlatGrows
  <2>4. k = 0 => P[1] = P[k + 1]
      OBVIOUS
  <2> QED
      BY <2>1, <2>2, <2>3, <2>4, Zenon
<1>3. \A k \in Nat : k \in G => k + 1 \in G
    BY <1>2
<1>4. Nat \subseteq G
  <2> HIDE DEF G
  <2> QED
      BY <1>1, <1>3, Induction
<1> QED
    BY <1>4

(* One more part.                                                            *)
LEMMA FlatStep ==
    ASSUME NEW C, NEW P, NEW n \in Nat, AreParts(P, n + 1, C)
    PROVE  /\ Flat(P, n) \in Seq(C) /\ P[n + 1] \in Seq(C)
           /\ Flat(P, n + 1) \in Seq(C)
           /\ Flat(P, n + 1) = Flat(P, n) \o P[n + 1]
<1>1. AreParts(P, n, C) /\ P[n + 1] \in Seq(C)
    BY DEF AreParts
<1>2. Flat(P, n) \in Seq(C) /\ Flat(P, n + 1) \in Seq(C)
    BY <1>1, FlatType
<1>3. n = 0 => Flat(P, n) \o P[n + 1] = P[1]
    BY <1>1, FlatEmpty, ConcatEmptySeq
<1> QED
    BY <1>1, <1>2, <1>3, FlatGrows

-----------------------------------------------------------------------------
(* Lists.                                                                    *)

(* A sequence is a list of its members.                                      *)
LEMMA ListOf ==
    ASSUME NEW T, NEW s \in Seq(T)
    PROVE  IsList(s) /\ ToSet(s) \subseteq T
<1>1. DOMAIN s = 1..Len(s) /\ Len(s) \in Nat /\ \A i \in 1..Len(s) : s[i] \in T
    OBVIOUS
<1>2. s \in [1..Len(s) -> ToSet(s)]
    BY <1>1 DEF ToSet
<1> QED
    BY <1>1, <1>2 DEF IsList, ToSet

(* A list has its members at 1 up to its length.                             *)
LEMMA ListFacts ==
    ASSUME NEW s, IsList(s)
    PROVE  /\ Len(s) \in Nat /\ DOMAIN s = 1..Len(s)
           /\ \A i \in DOMAIN s : s[i] \in ToSet(s)
           /\ \A x \in ToSet(s) : \E i \in DOMAIN s : s[i] = x
    BY DEF IsList, ToSet

(* The empty sequence is a list of nothing.                                  *)
LEMMA EmptyList == IsList(<<>>) /\ ToSet(<<>>) = {}
    BY DEF IsList, ToSet

(* One more member makes a list.                                             *)
LEMMA ListAppend ==
    ASSUME NEW s, IsList(s), NEW x
    PROVE  IsList(Append(s, x)) /\ ToSet(Append(s, x)) = ToSet(s) \cup {x}
<1> DEFINE T == ToSet(s) \cup {x}
<1>1. s \in Seq(T) /\ x \in T
    BY DEF IsList, ToSet
<1> HIDE DEF T
<1>2. Append(s, x) \in Seq(T) /\ Len(Append(s, x)) = Len(s) + 1 /\ Append(s, x)[Len(s) + 1] = x
      /\ \A i \in 1..Len(s) : Append(s, x)[i] = s[i]
    BY <1>1
<1>3. DOMAIN Append(s, x) = 1..(Len(s) + 1) /\ DOMAIN s = 1..Len(s) /\ Len(s) \in Nat
    BY <1>1, <1>2
<1>4. ToSet(Append(s, x)) = ToSet(s) \cup {x}
    BY <1>2, <1>3 DEF ToSet
<1> QED
    BY <1>2, <1>4, ListOf

(* Two lists, one behind the other, are a list of what both have.            *)
LEMMA ListJoin ==
    ASSUME NEW s, IsList(s), NEW t, IsList(t)
    PROVE  IsList(s \o t) /\ ToSet(s \o t) = ToSet(s) \cup ToSet(t)
<1> DEFINE T == ToSet(s) \cup ToSet(t)
<1>1. s \in Seq(T) /\ t \in Seq(T)
    BY DEF IsList, ToSet
<1> HIDE DEF T
<1>2. /\ s \o t \in Seq(T) /\ Len(s \o t) = Len(s) + Len(t)
      /\ \A i \in 1..Len(s) : (s \o t)[i] = s[i]
      /\ \A i \in 1..Len(t) : (s \o t)[Len(s) + i] = t[i]
    BY <1>1, ConcatProperties
<1>3. DOMAIN (s \o t) = 1..(Len(s) + Len(t)) /\ DOMAIN s = 1..Len(s) /\ DOMAIN t = 1..Len(t)
      /\ Len(s) \in Nat /\ Len(t) \in Nat
    BY <1>1, <1>2
<1>4. ToSet(s) \subseteq ToSet(s \o t)
    BY <1>2, <1>3 DEF ToSet
<1>5. ToSet(t) \subseteq ToSet(s \o t)
  <2> SUFFICES ASSUME NEW i \in 1..Len(t) PROVE t[i] \in ToSet(s \o t)
      BY <1>3 DEF ToSet
  <2>1. Len(s) + i \in DOMAIN (s \o t)
      BY <1>3
  <2>2. (s \o t)[Len(s) + i] = t[i]
      BY <1>2
  <2> QED
      BY <2>1, <2>2 DEF ToSet
<1>6. ToSet(s \o t) \subseteq ToSet(s) \cup ToSet(t)
  <2> SUFFICES ASSUME NEW i \in 1..(Len(s) + Len(t)) PROVE (s \o t)[i] \in ToSet(s) \cup ToSet(t)
      BY <1>3 DEF ToSet
  <2>1. i \in 1..Len(s) \/ (i - Len(s) \in 1..Len(t) /\ Len(s) + (i - Len(s)) = i)
      BY <1>3
  <2> QED
      BY <1>2, <1>3, <2>1 DEF ToSet
<1> QED
    BY <1>2, <1>4, <1>5, <1>6, ListOf

(* A list but for its first member is a list.                                *)
LEMMA ListTail ==
    ASSUME NEW s, IsList(s), s # <<>>
    PROVE  /\ Head(s) = s[1] /\ 1 \in DOMAIN s /\ Head(s) \in ToSet(s)
           /\ IsList(Tail(s)) /\ ToSet(Tail(s)) \subseteq ToSet(s)
           /\ \A i \in DOMAIN Tail(s) : i + 1 \in DOMAIN s /\ Tail(s)[i] = s[i + 1] /\ i \in Nat
<1>1. /\ Len(s) \in Nat \ {0} /\ DOMAIN s = 1..Len(s) /\ Head(s) = s[1]
      /\ Tail(s) \in Seq(ToSet(s)) /\ Len(Tail(s)) = Len(s) - 1
      /\ \A i \in 1..Len(Tail(s)) : Tail(s)[i] = s[i + 1]
    BY HeadTailProperties DEF IsList
<1>2. DOMAIN Tail(s) = 1..(Len(s) - 1)
    BY <1>1
<1>3. Head(s) \in ToSet(s)
    BY <1>1 DEF ToSet
<1>4. \A i \in DOMAIN Tail(s) : i + 1 \in DOMAIN s /\ Tail(s)[i] = s[i + 1] /\ i \in Nat
    BY <1>1, <1>2
<1>5. 1 \in DOMAIN s
    BY <1>1
<1>6. IsList(Tail(s)) /\ ToSet(Tail(s)) \subseteq ToSet(s)
  <2> DEFINE T == ToSet(s)
  <2> HIDE DEF T
  <2>1. Tail(s) \in Seq(T)
      BY <1>1 DEF T
  <2> QED
      BY <2>1, ListOf DEF T
<1> QED
    BY <1>1, <1>3, <1>4, <1>5, <1>6

-----------------------------------------------------------------------------
(* Joining and choosing.                                                     *)

(* The parts of P, and then the parts of Q.                                  *)
Joined(R, P, n, Q, m) ==
    /\ \A i \in 1..n : R[i] = P[i]
    /\ \A i \in 1..m : R[n + i] = Q[i]

(* Sequences may be joined in any grouping.                                  *)
LEMMA JoinAssociative ==
    ASSUME NEW C, NEW s \in Seq(C), NEW t \in Seq(C), NEW u \in Seq(C)
    PROVE  (s \o t) \o u = s \o (t \o u)
BY ConcatAssociative

(* Parts of two sequences of parts come to what each comes to, joined.       *)
LEMMA FlatJoin ==
    ASSUME NEW C, NEW P, NEW n \in Nat, AreParts(P, n, C), NEW Q, NEW m \in Nat, AreParts(Q, m, C),
           NEW R, Joined(R, P, n, Q, m)
    PROVE  /\ Flat(P, n) \in Seq(C) /\ Flat(Q, m) \in Seq(C)
           /\ Flat(R, n + m) = Flat(P, n) \o Flat(Q, m)
<1> DEFINE Good(k) == Flat(R, n + k) = Flat(P, n) \o Flat(Q, k)
           G == {k \in Nat : k <= m => Good(k)}
<1>0. Flat(P, n) \in Seq(C) /\ Flat(Q, m) \in Seq(C)
    BY FlatType
<1>1. 0 \in G
  <2>1. [i \in 1..n |-> R[i]] = [i \in 1..n |-> P[i]]
      BY DEF Joined
  <2>2. Flat(R, n + 0) = Flat(P, n)
      BY <2>1 DEF Flat
  <2>3. Flat(P, n) \o <<>> = Flat(P, n)
      BY <1>0, ConcatEmptySeq
  <2> QED
      BY <2>2, <2>3, FlatEmpty
<1>2. ASSUME NEW k \in Nat, k \in G, k + 1 <= m
      PROVE  Good(k + 1)
  <2>1. AreParts(Q, k + 1, C)
      BY <1>2 DEF AreParts
  <2>2. AreParts(R, n + (k + 1), C)
    <3> SUFFICES ASSUME NEW i \in 1..(n + (k + 1)) PROVE R[i] \in Seq(C)
        BY DEF AreParts
    <3>1. CASE i <= n
        BY <3>1 DEF AreParts, Joined
    <3>2. CASE i > n
      <4>1. i - n \in 1..m /\ n + (i - n) = i
          BY <1>2, <3>2
      <4>2. R[n + (i - n)] = Q[i - n]
          BY <4>1 DEF Joined
      <4> QED
          BY <4>1, <4>2 DEF AreParts
    <3> QED
        BY <3>1, <3>2
  <2>3. (n + k) + 1 = n + (k + 1) /\ n + k \in Nat /\ k + 1 \in 1..m
      BY <1>2
  <2>4. Flat(R, (n + k) + 1) = Flat(R, n + k) \o R[(n + k) + 1]
      BY <2>2, <2>3, FlatStep
  <2>5. /\ Flat(Q, k) \in Seq(C) /\ Q[k + 1] \in Seq(C)
        /\ Flat(Q, k + 1) = Flat(Q, k) \o Q[k + 1]
      BY <2>1, FlatStep
  <2>6. R[n + (k + 1)] = Q[k + 1]
      BY <2>3 DEF Joined
  <2>7. Flat(R, n + k) = Flat(P, n) \o Flat(Q, k)
      BY <1>2
  <2>8. (Flat(P, n) \o Flat(Q, k)) \o Q[k + 1] = Flat(P, n) \o (Flat(Q, k) \o Q[k + 1])
    <3> DEFINE p == Flat(P, n)
               q == Flat(Q, k)
               r == Q[k + 1]
    <3>1. p \in Seq(C) /\ q \in Seq(C) /\ r \in Seq(C)
        BY <1>0, <2>5
    <3> HIDE DEF p, q, r
    <3>2. (p \o q) \o r = p \o (q \o r)
        BY <3>1, JoinAssociative
    <3> QED
        BY <3>2 DEF p, q, r
  <2> QED
      BY <2>3, <2>4, <2>5, <2>6, <2>7, <2>8
<1>3. \A k \in Nat : k \in G => k + 1 \in G
  <2> HIDE DEF Good
  <2> QED
      BY <1>2
<1>4. Nat \subseteq G
  <2> HIDE DEF G
  <2> QED
      BY <1>1, <1>3, Induction
<1> QED
    BY <1>0, <1>4

(* What FlattenSeq does with a sequence of sequences.                        *)
LEMMA FlattenParts ==
    ASSUME NEW C, NEW s \in Seq(Seq(C))
    PROVE  /\ AreParts(s, Len(s), C) /\ Len(s) \in Nat
           /\ FlattenSeq(s) = Flat(s, Len(s)) /\ FlattenSeq(s) \in Seq(C)
<1>1. Len(s) \in Nat /\ s = [i \in 1..Len(s) |-> s[i]] /\ AreParts(s, Len(s), C)
    BY DEF AreParts
<1>2. FlattenSeq(s) = Flat(s, Len(s))
    BY <1>1, Zenon DEF Flat
<1> QED
    BY <1>1, <1>2, FlatType

(* One more sequence at the end goes behind the others.                      *)
LEMMA FlattenAppend ==
    ASSUME NEW C, NEW s \in Seq(Seq(C)), NEW x \in Seq(C)
    PROVE  /\ FlattenSeq(s) \in Seq(C)
           /\ FlattenSeq(Append(s, x)) = FlattenSeq(s) \o x
<1> DEFINE t == Append(s, x)
           n == Len(s)
<1>1. t \in Seq(Seq(C)) /\ Len(t) = n + 1 /\ n \in Nat /\ t[n + 1] = x /\ \A i \in 1..n : t[i] = s[i]
    OBVIOUS
<1> HIDE DEF t, n
<1>2. FlattenSeq(t) = Flat(t, n + 1) /\ AreParts(t, n + 1, C)
    BY <1>1, FlattenParts
<1>3. Flat(t, n + 1) = Flat(t, n) \o t[n + 1]
    BY <1>1, <1>2, FlatStep
<1>4. FlattenSeq(s) = Flat(s, n) /\ FlattenSeq(s) \in Seq(C)
    BY FlattenParts DEF n
<1>5. [i \in 1..n |-> t[i]] = [i \in 1..n |-> s[i]]
    BY <1>1
<1> QED
    BY <1>1, <1>2, <1>3, <1>4, <1>5 DEF Flat, t

-----------------------------------------------------------------------------
(* What comes of each member of a sequence, one behind the other.            *)

(* The records of file f that are in the scope of c.                         *)
ScopeOf(c, f) ==
    IF c.action = "computer-metrics" THEN RecordsIn(ItemsOf(f, c))
    ELSE Unfiltered(RecordsIn(ItemsOf(f, c)), f, c)

Part(k, p, x) ==
    CASE k = "chosen" -> IF x \in p THEN <<x>> ELSE <<>>
      [] k = "records" -> IF x.ok THEN x.records ELSE <<>>
      [] k = "base64" -> process_record(x)
      [] k = "scope" -> ScopeOf(p, x)

Parts(k, p, s) == [i \in DOMAIN s |-> Part(k, p, s[i])]
Mapped(k, p, s) == FlattenSeq(Parts(k, p, s))

(* Chosen, RecordsIn and process_evtx_record_infos map each member to a      *)
(* part.                                                                     *)
LEMMA MappedIs ==
    /\ \A s, S : Chosen(s, S) = Mapped("chosen", S, s)
    /\ \A s : RecordsIn(s) = Mapped("records", 0, s)
    /\ \A s : process_evtx_record_infos(s) = Mapped("base64", 0, s)
<1>1. ASSUME NEW s, NEW S PROVE Chosen(s, S) = Mapped("chosen", S, s)
  <2>1. \A x : Part("chosen", S, x) = IF x \in S THEN <<x>> ELSE <<>>
      BY DEF Part
  <2>2. Parts("chosen", S, s) = [i \in DOMAIN s |-> IF s[i] \in S THEN <<s[i]>> ELSE <<>>]
      BY <2>1 DEF Parts
  <2> QED
      BY <2>2 DEF Mapped, Chosen
<1>2. ASSUME NEW s PROVE RecordsIn(s) = Mapped("records", 0, s)
  <2>1. \A x : Part("records", 0, x) = IF x.ok THEN x.records ELSE <<>>
      BY DEF Part
  <2>2. Parts("records", 0, s) = [i \in DOMAIN s |-> IF s[i].ok THEN s[i].records ELSE <<>>]
      BY <2>1 DEF Parts
  <2> QED
      BY <2>2 DEF Mapped, RecordsIn
<1>3. ASSUME NEW s PROVE process_evtx_record_infos(s) = Mapped("base64", 0, s)
  <2>1. \A x : Part("base64", 0, x) = process_record(x)
      BY DEF Part
  <2>2. Parts("base64", 0, s) = [i \in DOMAIN s |-> process_record(s[i])]
      BY <2>1 DEF Parts
  <2> QED
      BY <2>2 DEF Mapped, process_evtx_record_infos
<1> QED
    BY <1>1, <1>2, <1>3

(* Each member of D comes to a sequence of members of C.                     *)
Yields(k, p, D, C) == \A x \in D : Part(k, p, x) \in Seq(C)

(* What a sequence is mapped to is its parts, one behind the other.          *)
LEMMA MappedParts ==
    ASSUME NEW k, NEW p, NEW D, NEW C, Yields(k, p, D, C), NEW s \in Seq(D)
    PROVE  /\ Len(s) \in Nat /\ AreParts(Parts(k, p, s), Len(s), C)
           /\ Mapped(k, p, s) = Flat(Parts(k, p, s), Len(s)) /\ Mapped(k, p, s) \in Seq(C)
<1>1. Len(s) \in Nat /\ DOMAIN s = 1..Len(s) /\ \A i \in 1..Len(s) : s[i] \in D
    OBVIOUS
<1>2. Parts(k, p, s) \in [1..Len(s) -> Seq(C)]
    BY <1>1 DEF Parts, Yields
<1>3. Parts(k, p, s) \in Seq(Seq(C)) /\ Len(Parts(k, p, s)) = Len(s)
    BY <1>1, <1>2
<1> QED
    BY <1>1, <1>3, FlattenParts DEF Mapped

Joins(k, p, s, t) == Mapped(k, p, s \o t) = Mapped(k, p, s) \o Mapped(k, p, t)

(* A mapping goes through joined sequences one after the other.              *)
LEMMA MappedJoin ==
    ASSUME NEW k, NEW p, NEW D, NEW C, Yields(k, p, D, C), NEW s \in Seq(D), NEW t \in Seq(D)
    PROVE  /\ Mapped(k, p, s) \in Seq(C) /\ Mapped(k, p, t) \in Seq(C)
           /\ Joins(k, p, s, t)
<1> DEFINE u == s \o t
           n == Len(s)
           m == Len(t)
           P == Parts(k, p, s)
           Q == Parts(k, p, t)
           R == Parts(k, p, u)
<1>1. /\ u \in Seq(D) /\ Len(u) = n + m /\ n \in Nat /\ m \in Nat
      /\ \A i \in 1..n : u[i] = s[i]
      /\ \A i \in 1..m : u[n + i] = t[i]
    BY ConcatProperties
<1>2. DOMAIN u = 1..(n + m) /\ DOMAIN s = 1..n /\ DOMAIN t = 1..m
    BY <1>1
<1>3. /\ AreParts(P, n, C) /\ Mapped(k, p, s) = Flat(P, n) /\ Mapped(k, p, s) \in Seq(C)
      /\ AreParts(Q, m, C) /\ Mapped(k, p, t) = Flat(Q, m) /\ Mapped(k, p, t) \in Seq(C)
    BY MappedParts
<1> HIDE DEF u, n, m
<1>4. Joined(R, P, n, Q, m)
  <2>1. ASSUME NEW i \in 1..n PROVE R[i] = P[i]
    <3>1. i \in DOMAIN u /\ i \in DOMAIN s /\ u[i] = s[i]
        BY <1>1, <1>2
    <3> QED
        BY <3>1 DEF Parts
  <2>2. ASSUME NEW i \in 1..m PROVE R[n + i] = Q[i]
    <3>1. n + i \in DOMAIN u /\ i \in DOMAIN t /\ u[n + i] = t[i]
        BY <1>1, <1>2
    <3> QED
        BY <3>1 DEF Parts
  <2> HIDE DEF P, Q, R
  <2> QED
      BY <2>1, <2>2 DEF Joined
<1>5. Mapped(k, p, u) = Flat(R, n + m)
    BY <1>1, MappedParts
<1> HIDE DEF P, Q, R
<1>6. Flat(R, n + m) = Flat(P, n) \o Flat(Q, m)
  <2>1. n \in Nat /\ m \in Nat /\ AreParts(P, n, C) /\ AreParts(Q, m, C)
      BY <1>1, <1>3
  <2> QED
      BY <2>1, <1>4, FlatJoin
<1>7. Mapped(k, p, u) = Mapped(k, p, s) \o Mapped(k, p, t)
    BY <1>3, <1>5, <1>6
<1> QED
    BY <1>3, <1>7 DEF u, Joins

(* One member comes to its part.                                             *)
LEMMA MappedOne ==
    ASSUME NEW k, NEW p, NEW C, NEW x, Part(k, p, x) \in Seq(C)
    PROVE  Mapped(k, p, <<x>>) = Part(k, p, x)
<1> DEFINE D == {x}
           P == Parts(k, p, <<x>>)
<1>1. <<x>> \in Seq(D) /\ Len(<<x>>) = 0 + 1 /\ Yields(k, p, D, C)
    BY DEF Yields
<1>2. AreParts(P, 0 + 1, C) /\ Mapped(k, p, <<x>>) = Flat(P, 0 + 1)
    BY <1>1, MappedParts
<1>3. P[0 + 1] = Part(k, p, x)
    BY DEF Parts
<1> HIDE DEF P
<1>4. Flat(P, 0 + 1) = Flat(P, 0) \o P[0 + 1]
    BY <1>2, FlatStep
<1>5. <<>> \o Part(k, p, x) = Part(k, p, x)
    BY ConcatEmptySeq
<1> QED
    BY <1>2, <1>3, <1>4, <1>5, FlatEmpty

(* Nothing comes to nothing.                                                 *)
LEMMA MappedEmpty == ASSUME NEW k, NEW p PROVE Mapped(k, p, <<>>) = <<>>
<1>1. Parts(k, p, <<>>) = <<>>
    BY DEF Parts
<1> QED
    BY <1>1, EmptySeq DEF Mapped, FlattenSeq

(* One more member adds its part at the end.                                 *)
LEMMA MappedAppend ==
    ASSUME NEW k, NEW p, NEW D, NEW C, Yields(k, p, D, C), NEW s \in Seq(D), NEW x \in D
    PROVE  /\ Append(s, x) \in Seq(D) /\ Append(s, x) = s \o <<x>>
           /\ Mapped(k, p, s) \in Seq(C) /\ Part(k, p, x) \in Seq(C)
           /\ Mapped(k, p, Append(s, x)) = Mapped(k, p, s) \o Part(k, p, x)
<1>1. <<x>> \in Seq(D) /\ Append(s, x) \in Seq(D) /\ Append(s, x) = s \o <<x>>
    OBVIOUS
<1>2. Part(k, p, x) \in Seq(C)
    BY DEF Yields
<1>3. Mapped(k, p, <<x>>) = Part(k, p, x)
    BY <1>2, MappedOne
<1>4. /\ Mapped(k, p, s) \in Seq(C)
      /\ Mapped(k, p, s \o <<x>>) = Mapped(k, p, s) \o Mapped(k, p, <<x>>)
  <2> DEFINE y == <<x>>
  <2>1. y \in Seq(D)
      BY <1>1
  <2> HIDE DEF y
  <2>2. Mapped(k, p, s) \in Seq(C) /\ Joins(k, p, s, y)
      BY <2>1, MappedJoin
  <2> QED
      BY <2>2 DEF y, Joins
<1> QED
    BY <1>1, <1>2, <1>3, <1>4

(* Mappings with the same parts are the same.                                *)
LEMMA MappedSame ==
    ASSUME NEW k, NEW s, NEW p, NEW q, \A i \in DOMAIN s : Part(k, p, s[i]) = Part(k, q, s[i])
    PROVE  Mapped(k, p, s) = Mapped(k, q, s)
<1>1. Parts(k, p, s) = Parts(k, q, s)
    BY DEF Parts
<1> QED
    BY <1>1 DEF Mapped

(* A choice takes a member or leaves it.                                     *)
LEMMA ChosenYields ==
    ASSUME NEW S, NEW C
    PROVE  /\ Yields("chosen", S, C, C \cap S) /\ Yields("chosen", S, C, C)
           /\ \A x : Part("chosen", S, x) = IF x \in S THEN <<x>> ELSE <<>>
<1>1. \A x : Part("chosen", S, x) = IF x \in S THEN <<x>> ELSE <<>>
    BY DEF Part
<1>2. \A T : <<>> \in Seq(T) /\ \A x \in T : <<x>> \in Seq(T)
    OBVIOUS
<1> QED
    BY <1>1, <1>2 DEF Yields

(* A choice of S has only members of S.                                      *)
LEMMA ChosenType ==
    ASSUME NEW C, NEW s \in Seq(C), NEW S
    PROVE  Chosen(s, S) \in Seq(C \cap S) /\ Chosen(s, S) \in Seq(C)
BY MappedIs, MappedParts, ChosenYields

-----------------------------------------------------------------------------
(* Records, and the choices of them.                                         *)

ItemsIn(f) == ToSet(Logs[f].items)
RecordsOf(f) == UNION {ToSet(item.records) : item \in ItemsIn(f)}
AllRecords == UNION {RecordsOf(f) : f \in DOMAIN Logs}

(* A log is items, an item records, and each record names its log.           *)
LEMMA RecordFacts ==
    ASSUME NEW f \in DOMAIN Logs
    PROVE  /\ Logs[f].items \in Seq(ItemsIn(f))
           /\ \A item \in ItemsIn(f) : item.records \in Seq(RecordsOf(f))
           /\ Yields("records", 0, ItemsIn(f), RecordsOf(f))
           /\ RecordsOf(f) \subseteq AllRecords
           /\ \A r \in RecordsOf(f) : r.file = f /\ \A k \in DOMAIN r.payloads : IsList(r.payloads[k])
<1>1. Logs[f].items \in Seq(ItemsIn(f))
    BY CommandAssumption DEF IsList, ItemsIn
<1>2. ASSUME NEW item \in ItemsIn(f) PROVE item.records \in Seq(RecordsOf(f))
  <2>1. item.records \in Seq(ToSet(item.records))
      BY CommandAssumption DEF IsList, ItemsIn
  <2>2. ToSet(item.records) \subseteq RecordsOf(f)
      BY DEF RecordsOf
  <2> QED
      BY <2>1, <2>2
<1>3. Yields("records", 0, ItemsIn(f), RecordsOf(f))
  <2> SUFFICES ASSUME NEW x \in ItemsIn(f) PROVE Part("records", 0, x) \in Seq(RecordsOf(f))
      BY DEF Yields
  <2>1. Part("records", 0, x) = IF x.ok THEN x.records ELSE <<>>
      BY DEF Part
  <2>2. <<>> \in Seq(RecordsOf(f))
      OBVIOUS
  <2> QED
      BY <1>2, <2>1, <2>2
<1>4. RecordsOf(f) \subseteq AllRecords
    BY DEF AllRecords
<1>5. ASSUME NEW r \in RecordsOf(f)
      PROVE  r.file = f /\ \A k \in DOMAIN r.payloads : IsList(r.payloads[k])
  <2>1. PICK item \in ItemsIn(f) : r \in ToSet(item.records)
      BY DEF RecordsOf
  <2> QED
      BY <2>1, CommandAssumption DEF ItemsIn
<1> QED
    BY <1>1, <1>2, <1>3, <1>4, <1>5

(* The items a command reads of a log, reversed or not, are the log's.       *)
LEMMA ItemsAre ==
    ASSUME NEW f \in DOMAIN Logs, NEW c
    PROVE  /\ ItemsOf(f, c) \in Seq(ItemsIn(f))
           /\ RecordsIn(ItemsOf(f, c)) \in Seq(RecordsOf(f))
<1>1. <<>> \in Seq(ItemsIn(f))
    OBVIOUS
<1>2. ItemsOf(f, c) \in Seq(ItemsIn(f))
    BY <1>1, RecordFacts, ChosenType DEF ItemsOf
<1> QED
    BY <1>2, RecordFacts, MappedIs, MappedParts

(* What a choice of kind k looks for.                                        *)
Wanted(k, p, r) ==
    CASE k = "scope" -> ~is_filtered_record(r, p[1], p[2])
      [] k = "id" -> r.eid # NoEventId
      [] k = "logon" -> r.numeric /\ is_target_event(r) # "none"
      [] k = "file" -> r.file = p
      [] k = "computer" -> r.computer = p
      [] k = "keyword" -> filter_record(r, create_filter_rule(p.filter)) /\ contain_keywords(r, p)
      [] k = "regex" -> filter_record(r, create_filter_rule(p.filter)) /\ RegexMatch(p.regex, r.words)

Pick(k, p, s) == Chosen(s, {r \in ToSet(s) : Wanted(k, p, r)})

(* Each selection of records in Commands and Search is a Pick.               *)
LEMMA PickIs ==
    /\ \A s, f, c : Unfiltered(s, f, c) = Pick("scope", <<c, InJson(f)>>, s)
    /\ \A s : WithId(s) = Pick("id", 0, s)
    /\ \A s : Logons(s) = Pick("logon", 0, s)
    /\ \A s, f : OfFile(s, f) = Pick("file", f, s)
    /\ \A s, name : OfComputer(s, name) = Pick("computer", name, s)
    /\ \A s, c : search_keyword(s, c) = Pick("keyword", c, s)
    /\ \A s, c : search_regex(s, c) = Pick("regex", c, s)
<1>1. ASSUME NEW s, NEW f, NEW c PROVE Unfiltered(s, f, c) = Pick("scope", <<c, InJson(f)>>, s)
  <2>1. \A r : Wanted("scope", <<c, InJson(f)>>, r) <=> ~is_filtered_record(r, c, InJson(f))
      BY DEF Wanted
  <2> QED
      BY <2>1 DEF Unfiltered, Pick
<1>2. ASSUME NEW s PROVE WithId(s) = Pick("id", 0, s)
  <2>1. \A r : Wanted("id", 0, r) <=> r.eid # NoEventId
      BY DEF Wanted
  <2> QED
      BY <2>1 DEF WithId, Pick
<1>3. ASSUME NEW s PROVE Logons(s) = Pick("logon", 0, s)
  <2>1. \A r : Wanted("logon", 0, r) <=> (r.numeric /\ is_target_event(r) # "none")
      BY DEF Wanted
  <2> QED
      BY <2>1 DEF Logons, Pick
<1>4. ASSUME NEW s, NEW f PROVE OfFile(s, f) = Pick("file", f, s)
  <2>1. \A r : Wanted("file", f, r) <=> r.file = f
      BY DEF Wanted
  <2> QED
      BY <2>1 DEF OfFile, Pick
<1>5. ASSUME NEW s, NEW name PROVE OfComputer(s, name) = Pick("computer", name, s)
  <2>1. \A r : Wanted("computer", name, r) <=> r.computer = name
      BY DEF Wanted
  <2> QED
      BY <2>1 DEF OfComputer, Pick
<1>6. ASSUME NEW s, NEW c PROVE search_keyword(s, c) = Pick("keyword", c, s)
  <2>1. \A r : Wanted("keyword", c, r)
                  <=> (filter_record(r, create_filter_rule(c.filter)) /\ contain_keywords(r, c))
      BY DEF Wanted
  <2> QED
      BY <2>1 DEF search_keyword, Pick
<1>7. ASSUME NEW s, NEW c PROVE search_regex(s, c) = Pick("regex", c, s)
  <2>1. \A r : Wanted("regex", c, r)
                  <=> (filter_record(r, create_filter_rule(c.filter)) /\ RegexMatch(c.regex, r.words))
      BY DEF Wanted
  <2> QED
      BY <2>1 DEF search_regex, Pick
<1> QED
    BY <1>1, <1>2, <1>3, <1>4, <1>5, <1>6, <1>7

(* What is picked depends on the members, not on the set they come from.     *)
LEMMA PickMapped ==
    ASSUME NEW C, NEW s \in Seq(C), NEW k, NEW p
    PROVE  Pick(k, p, s) = Mapped("chosen", {r \in C : Wanted(k, p, r)}, s)
<1> DEFINE S == {r \in ToSet(s) : Wanted(k, p, r)}
           T == {r \in C : Wanted(k, p, r)}
<1>1. DOMAIN s = 1..Len(s) /\ \A i \in DOMAIN s : s[i] \in C /\ s[i] \in ToSet(s)
    BY DEF ToSet
<1>2. \A i \in DOMAIN s : s[i] \in S <=> s[i] \in T
    BY <1>1
<1> HIDE DEF S, T
<1>3. \A i \in DOMAIN s : Part("chosen", S, s[i]) = Part("chosen", T, s[i])
    BY <1>2 DEF Part
<1>4. Mapped("chosen", S, s) = Mapped("chosen", T, s)
    BY <1>3, MappedSame
<1> QED
    BY <1>4, MappedIs DEF Pick, S, T

(* Of nothing, nothing is picked.                                            *)
LEMMA PickEmpty == ASSUME NEW k, NEW p PROVE Pick(k, p, <<>>) = <<>>
BY MappedIs, MappedEmpty DEF Pick

PickJoins(k, p, s, t) == Pick(k, p, s \o t) = Pick(k, p, s) \o Pick(k, p, t)

(* Picking goes through joined sequences one after the other.                *)
LEMMA PickJoin ==
    ASSUME NEW C, NEW s \in Seq(C), NEW t \in Seq(C), NEW k, NEW p
    PROVE  /\ s \o t \in Seq(C)
           /\ Pick(k, p, s) \in Seq(C) /\ Pick(k, p, t) \in Seq(C)
           /\ PickJoins(k, p, s, t)
<1> DEFINE S == {r \in C : Wanted(k, p, r)}
<1>0. \A v \in Seq(C) : Pick(k, p, v) = Mapped("chosen", S, v)
    BY PickMapped
<1> HIDE DEF S
<1>1. s \o t \in Seq(C)
    BY ConcatProperties
<1>2. Yields("chosen", S, C, C)
    BY ChosenYields
<1>3. Mapped("chosen", S, s) \in Seq(C) /\ Mapped("chosen", S, t) \in Seq(C)
      /\ Joins("chosen", S, s, t)
    BY <1>2, MappedJoin
<1>4. Pick(k, p, s) = Mapped("chosen", S, s) /\ Pick(k, p, t) = Mapped("chosen", S, t)
      /\ Pick(k, p, s \o t) = Mapped("chosen", S, s \o t)
    BY <1>0, <1>1
<1> QED
    BY <1>1, <1>3, <1>4 DEF Joins, PickJoins

(* What is picked is wanted.                                                 *)
LEMMA PickType ==
    ASSUME NEW C, NEW s \in Seq(C), NEW k, NEW p
    PROVE  Pick(k, p, s) \in Seq({r \in C : Wanted(k, p, r)}) /\ Pick(k, p, s) \in Seq(C)
<1> DEFINE S == {r \in C : Wanted(k, p, r)}
<1>1. C \cap S = S
    OBVIOUS
<1>2. Pick(k, p, s) = Mapped("chosen", S, s)
    BY PickMapped
<1> HIDE DEF S
<1>3. Mapped("chosen", S, s) \in Seq(S) /\ Mapped("chosen", S, s) \in Seq(C)
    BY <1>1, ChosenYields, MappedParts
<1> QED
    BY <1>2, <1>3 DEF S

(* One more record is picked, at the end, if it is wanted.                   *)
LEMMA PickAppend ==
    ASSUME NEW C, NEW s \in Seq(C), NEW x \in C, NEW k, NEW p
    PROVE  /\ Append(s, x) \in Seq(C)
           /\ Pick(k, p, s) \in Seq(C)
           /\ Pick(k, p, Append(s, x)) =
                IF Wanted(k, p, x) THEN Append(Pick(k, p, s), x) ELSE Pick(k, p, s)
<1> DEFINE S == {r \in C : Wanted(k, p, r)}
           u == Append(s, x)
<1>1. u \in Seq(C)
    OBVIOUS
<1>2. Part("chosen", S, x) = IF Wanted(k, p, x) THEN <<x>> ELSE <<>>
    BY ChosenYields
<1>3. Mapped("chosen", S, s) \in Seq(C)
      /\ Mapped("chosen", S, u) = Mapped("chosen", S, s) \o Part("chosen", S, x)
  <2> HIDE DEF S
  <2>1. Yields("chosen", S, C, C)
      BY ChosenYields
  <2> QED
      BY <2>1, MappedAppend
<1> HIDE DEF u
<1>4. Pick(k, p, s) = Mapped("chosen", S, s) /\ Pick(k, p, u) = Mapped("chosen", S, u)
    BY <1>1, PickMapped
<1> HIDE DEF S
<1>5. /\ Pick(k, p, s) \in Seq(C)
      /\ Pick(k, p, u) = Pick(k, p, s) \o (IF Wanted(k, p, x) THEN <<x>> ELSE <<>>)
    BY <1>2, <1>3, <1>4
<1>6. Pick(k, p, s) \o <<>> = Pick(k, p, s)
    BY <1>5, ConcatEmptySeq
<1>7. Pick(k, p, s) \o <<x>> = Append(Pick(k, p, s), x)
    BY <1>5
<1> QED
    BY <1>1, <1>5, <1>6, <1>7 DEF u

-----------------------------------------------------------------------------
(* What search and extract-base64 find, in one part after the other.         *)

(* The parser of the command line takes keywords or a regex, not both.       *)
OneQuery(c) == c.keywords = {} \/ c.regex = Absent

HitsJoin(s, t, c) == Hits(s \o t, c) = Hits(s, c) \o Hits(t, c)

(* A search looks for keywords or for a regex, or finds nothing.             *)
LEMMA HitsAre ==
    ASSUME NEW C, NEW s \in Seq(C), NEW c, OneQuery(c)
    PROVE  /\ c.keywords # {} => Hits(s, c) = Pick("keyword", c, s)
           /\ c.keywords = {} /\ c.regex # Absent => Hits(s, c) = Pick("regex", c, s)
           /\ c.keywords = {} /\ c.regex = Absent => Hits(s, c) = <<>>
           /\ Hits(s, c) \in Seq(C)
<1>1. search_keyword(s, c) = Pick("keyword", c, s) /\ search_regex(s, c) = Pick("regex", c, s)
    BY PickIs
<1>2. Pick("keyword", c, s) \in Seq(C) /\ Pick("regex", c, s) \in Seq(C)
    BY PickType
<1>3. /\ Pick("keyword", c, s) \o <<>> = Pick("keyword", c, s)
      /\ <<>> \o Pick("regex", c, s) = Pick("regex", c, s)
    BY <1>2, ConcatEmptySeq
<1>4. <<>> \o <<>> = <<>> /\ <<>> \in Seq(C)
    BY ConcatEmptySeq
<1>5. CASE c.keywords # {}
    BY <1>1, <1>2, <1>3, <1>5 DEF Hits, OneQuery
<1>6. CASE c.keywords = {} /\ c.regex # Absent
    BY <1>1, <1>2, <1>3, <1>6 DEF Hits
<1>7. CASE c.keywords = {} /\ c.regex = Absent
    BY <1>4, <1>7 DEF Hits
<1> QED
    BY <1>5, <1>6, <1>7

(* The hits of two batches are the hits of the records of both.              *)
LEMMA HitsJoined ==
    ASSUME NEW C, NEW s \in Seq(C), NEW t \in Seq(C), NEW c, OneQuery(c)
    PROVE  HitsJoin(s, t, c) /\ Hits(s, c) \in Seq(C) /\ Hits(t, c) \in Seq(C)
<1>1. s \o t \in Seq(C)
    BY ConcatProperties
<1>2. Hits(s, c) \in Seq(C) /\ Hits(t, c) \in Seq(C)
    BY HitsAre
<1>3. PickJoins("keyword", c, s, t) /\ PickJoins("regex", c, s, t)
    BY PickJoin
<1>4. CASE c.keywords # {}
  <2>1. \A v \in Seq(C) : Hits(v, c) = Pick("keyword", c, v)
      BY <1>4, HitsAre
  <2> QED
      BY <1>1, <1>2, <1>3, <2>1 DEF HitsJoin, PickJoins
<1>5. CASE c.keywords = {} /\ c.regex # Absent
  <2>1. \A v \in Seq(C) : Hits(v, c) = Pick("regex", c, v)
      BY <1>5, HitsAre
  <2> QED
      BY <1>1, <1>2, <1>3, <2>1 DEF HitsJoin, PickJoins
<1>6. CASE c.keywords = {} /\ c.regex = Absent
  <2>1. \A v \in Seq(C) : Hits(v, c) = <<>>
      BY <1>6, HitsAre
  <2>2. <<>> \o <<>> = <<>>
      BY ConcatEmptySeq
  <2> QED
      BY <1>1, <1>2, <2>1, <2>2 DEF HitsJoin
<1> QED
    BY <1>4, <1>5, <1>6

(* Everything extract-base64 can find.                                       *)
Findable == UNION {ToSet(process_record(r)) : r \in AllRecords}

(* One or two values are a list.                                             *)
LEMMA OneOrTwo == \A x, y : IsList(<<x>>) /\ IsList(<<x, y>>)
<1> TAKE x, y
<1> DEFINE T == {x, y}
<1>1. x \in T /\ y \in T
    OBVIOUS
<1> HIDE DEF T
<1>2. <<x>> \in Seq(T) /\ <<x, y>> \in Seq(T)
    BY <1>1
<1>3. \A s \in Seq(T) : IsList(s)
    BY ListOf
<1> QED
    BY <1>2, <1>3

(* The fields an event is looked for in.                                     *)
LEMMA FieldsAreList ==
    ASSUME NEW r
    PROVE  \E fields : IsList(fields)
                /\ extract_payload(r) = Chosen(fields, {f \in DOMAIN r.payloads : r.numeric})
<1> DEFINE is(channels, id) == r.channel \in channels /\ r.eid = id
           S == {f \in DOMAIN r.payloads : r.numeric}
           p1 == is({"Security"}, 4688)
           p2 == is({"Microsoft-Windows-Sysmon/Operational"}, 1)
           p3 == is(PowerShell, 4104)
           p4 == is(PowerShell, 4103)
           p5 == is({"Windows PowerShell"}, 400)
           p6 == is({"System"}, 7045)
           s1 == <<"CommandLine">>
           s2 == <<"CommandLine", "ParentCommandLine">>
           s3 == <<"ScriptBlockText">>
           s4 == <<"Payload">>
           s5 == <<"Data[2]">>
           s6 == <<"ImagePath">>
           s7 == <<>>
           wanted == CASE p1 -> s1 [] p2 -> s2 [] p3 -> s3 [] p4 -> s4 [] p5 -> s5 [] p6 -> s6
                       [] OTHER -> s7
<1>1. extract_payload(r) = Chosen(wanted, S)
    BY Zenon DEF extract_payload
<1>2. IsList(s1) /\ IsList(s2) /\ IsList(s3) /\ IsList(s4) /\ IsList(s5) /\ IsList(s6) /\ IsList(s7)
    BY OneOrTwo, EmptyList, Zenon
<1> HIDE DEF p1, p2, p3, p4, p5, p6, s1, s2, s3, s4, s5, s6, s7
<1>3. \/ wanted = s1 \/ wanted = s2 \/ wanted = s3 \/ wanted = s4 \/ wanted = s5
      \/ wanted = s6 \/ wanted = s7
    OBVIOUS
<1> HIDE DEF wanted
<1>4. IsList(wanted)
    BY <1>2, <1>3
<1> QED
    BY <1>1, <1>4

(* What is found in a record is a list.                                      *)
LEMMA FoundAreLists ==
    ASSUME NEW r, \A k \in DOMAIN r.payloads : IsList(r.payloads[k])
    PROVE  IsList(process_record(r))
<1> DEFINE fields == extract_payload(r)
           L == [i \in DOMAIN fields |->
                    create_base64_extracted_record(r, r.payloads[fields[i]])]
           C == UNION {ToSet(L[i]) : i \in DOMAIN fields}
<1>1. fields \in Seq(DOMAIN r.payloads)
  <2> DEFINE S == {f \in DOMAIN r.payloads : r.numeric}
  <2>1. PICK names : IsList(names) /\ extract_payload(r) = Chosen(names, S)
      BY FieldsAreList
  <2> DEFINE N == ToSet(names)
  <2>2. names \in Seq(N)
      BY <2>1 DEF IsList
  <2>3. N \cap S \subseteq DOMAIN r.payloads
      OBVIOUS
  <2> HIDE DEF S, N
  <2>4. Chosen(names, S) \in Seq(N \cap S)
      BY <2>2, ChosenType
  <2> QED
      BY <2>1, <2>3, <2>4
<1>2. Len(fields) \in Nat /\ DOMAIN fields = 1..Len(fields)
      /\ \A i \in DOMAIN fields : fields[i] \in DOMAIN r.payloads
    BY <1>1
<1> HIDE DEF fields
<1>3. ASSUME NEW i \in DOMAIN fields PROVE IsList(L[i])
  <2> DEFINE payload == r.payloads[fields[i]]
             found == Chosen(payload, {t \in ToSet(payload) : IsWorthDecoding(t) /\ ~t.hyphen})
  <2>1. payload \in Seq(ToSet(payload))
      BY <1>2 DEF IsList
  <2> HIDE DEF payload
  <2>2. found \in Seq(ToSet(payload))
      BY <2>1, ChosenType
  <2>3. DOMAIN found = 1..Len(found) /\ Len(found) \in Nat
      BY <2>2
  <2>4. \E g : L[i] = [k \in DOMAIN found |-> g[k]]
    <3> DEFINE g == create_base64_extracted_record(r, payload)
    <3>1. L[i] = g
        BY DEF payload
    <3>2. g = [k \in DOMAIN found |-> g[k]]
        BY DEF create_base64_extracted_record
    <3> QED
        BY <3>1, <3>2
  <2> HIDE DEF found, L
  <2>5. PICK g : L[i] = [k \in DOMAIN found |-> g[k]]
      BY <2>4
  <2>6. L[i] \in Seq(ToSet(L[i]))
      BY <2>3, <2>5 DEF ToSet
  <2> QED
      BY <2>6 DEF IsList
<1>4. ASSUME NEW i \in DOMAIN fields PROVE L[i] \in Seq(C)
  <2>1. L[i] \in Seq(ToSet(L[i])) /\ ToSet(L[i]) \subseteq C
      BY <1>3 DEF IsList
  <2> HIDE DEF L, C
  <2> QED
      BY <2>1
<1>5. L \in Seq(Seq(C))
  <2>1. L \in [1..Len(fields) -> Seq(C)]
    <3> HIDE DEF C
    <3> QED
        BY <1>2, <1>4
  <2> HIDE DEF L, C
  <2> QED
      BY <1>2, <2>1
<1>6. process_record(r) = FlattenSeq(L)
    BY DEF process_record, fields
<1> HIDE DEF L, C
<1> QED
    BY <1>5, <1>6, FlattenParts, ListOf

(* Each record comes to a list of findings, whichever batch it is in.        *)
LEMMA Base64Yields == Yields("base64", 0, AllRecords, Findable)
<1> SUFFICES ASSUME NEW r \in AllRecords PROVE Part("base64", 0, r) \in Seq(Findable)
    BY DEF Yields
<1>1. Part("base64", 0, r) = process_record(r)
    BY DEF Part
<1>2. PICK f \in DOMAIN Logs : r \in RecordsOf(f)
    BY DEF AllRecords
<1>3. IsList(process_record(r))
    BY <1>2, RecordFacts, FoundAreLists
<1>4. ToSet(process_record(r)) \subseteq Findable
    BY DEF Findable
<1> QED
    BY <1>1, <1>3, <1>4 DEF IsList

-----------------------------------------------------------------------------
(* Tables: what counts how many times.                                       *)

UnitsOf(B) == UNION {{k} \X (1..B[k]) : k \in DOMAIN B}
IsTable(B) == (\A k \in DOMAIN B : B[k] \in Nat) /\ IsFiniteSet(UnitsOf(B))
Size(B) == Cardinality(UnitsOf(B))

(* A is B with n more of k.                                                  *)
Grown(A, B, k, n) ==
    /\ DOMAIN A = DOMAIN B \cup {k}
    /\ A[k] = IF k \in DOMAIN B THEN B[k] + n ELSE n
    /\ \A j \in DOMAIN B \ {k} : A[j] = B[j]

(* An empty table counts nothing.                                            *)
LEMMA EmptyTable ==
    ASSUME NEW B, DOMAIN B = {}
    PROVE  IsTable(B) /\ Size(B) = 0
<1>1. UnitsOf(B) = {}
    BY DEF UnitsOf
<1> QED
    BY <1>1, FS_EmptySet DEF IsTable, Size

(* A unit of a table is a key and a number up to its count.                  *)
LEMMA UnitIs ==
    ASSUME NEW B
    PROVE  \A u : u \in UnitsOf(B) <=>
                    \E k \in DOMAIN B : \E i \in 1..B[k] : u = <<k, i>>
BY DEF UnitsOf

(* A table in which one key counts n more counts n more.                     *)
LEMMA TableGrows ==
    ASSUME NEW A, NEW B, IsTable(B), NEW k, NEW n \in Nat, Grown(A, B, k, n)
    PROVE  IsTable(A) /\ Size(A) = Size(B) + n /\ Size(B) \in Nat
<1> DEFINE m == IF k \in DOMAIN B THEN B[k] ELSE 0
           I == (m + 1)..(m + n)
           more == {k} \X I
<1>1. m \in Nat
    BY DEF IsTable
<1>2. IsFiniteSet(I) /\ Cardinality(I) = n
  <2>1. m + 1 \in Int /\ m + n \in Int /\ (IF m + 1 > m + n THEN 0 ELSE (m + n) - (m + 1) + 1) = n
      BY <1>1
  <2> QED
      BY <2>1, FS_Interval
<1>3. IsFiniteSet(more) /\ Cardinality(more) = n
  <2>1. IsFiniteSet({k}) /\ Cardinality({k}) = 1
      BY FS_Singleton
  <2> HIDE DEF I
  <2>2. IsFiniteSet({k} \X I) /\ Cardinality({k} \X I) = Cardinality({k}) * Cardinality(I)
      BY <1>2, <2>1, FS_Product
  <2> QED
      BY <1>2, <2>1, <2>2
<1>4. \A j \in DOMAIN A : A[j] \in Nat /\ (j # k => j \in DOMAIN B /\ A[j] = B[j])
    BY DEF IsTable, Grown
<1>5. A[k] = m + n /\ k \in DOMAIN A /\ DOMAIN B \subseteq DOMAIN A
    BY <1>1 DEF Grown
<1>6. UnitsOf(A) = UnitsOf(B) \cup more
  <2>1. ASSUME NEW u \in UnitsOf(A) PROVE u \in UnitsOf(B) \cup more
    <3>0. PICK j \in DOMAIN A : \E i \in 1..A[j] : u = <<j, i>>
        BY UnitIs
    <3>1. PICK i \in 1..A[j] : u = <<j, i>>
        BY <3>0
    <3>2. CASE j # k
        BY <1>4, <3>1, <3>2, UnitIs
    <3>3. CASE j = k /\ i <= m
      <4>1. k \in DOMAIN B /\ i \in 1..B[k]
          BY <1>1, <3>1, <3>3
      <4> QED
          BY <3>1, <3>3, <4>1, UnitIs
    <3>4. CASE j = k /\ i > m
      <4>1. i \in I
          BY <1>1, <1>5, <3>1, <3>4
      <4> QED
          BY <3>1, <3>4, <4>1
    <3> QED
        BY <1>1, <3>1, <3>2, <3>3, <3>4
  <2>2. ASSUME NEW u \in UnitsOf(B) PROVE u \in UnitsOf(A)
    <3>0. PICK j \in DOMAIN B : \E i \in 1..B[j] : u = <<j, i>>
        BY UnitIs
    <3>1. PICK i \in 1..B[j] : u = <<j, i>>
        BY <3>0
    <3>2. j \in DOMAIN A /\ i \in 1..A[j]
      <4>1. CASE j # k
          BY <1>4, <1>5, <3>1, <4>1
      <4>2. CASE j = k
          BY <1>1, <1>5, <3>1, <4>2
      <4> QED
          BY <4>1, <4>2
    <3> QED
        BY <3>1, <3>2, UnitIs
  <2>3. ASSUME NEW u \in more PROVE u \in UnitsOf(A)
    <3>1. PICK i \in I : u = <<k, i>>
        OBVIOUS
    <3>2. i \in 1..A[k]
        BY <1>1, <1>5
    <3> QED
        BY <1>5, <3>1, <3>2, UnitIs
  <2> QED
      BY <2>1, <2>2, <2>3
<1>7. UnitsOf(B) \cap more = {}
  <2> SUFFICES ASSUME NEW u \in UnitsOf(B), u \in more PROVE FALSE
      OBVIOUS
  <2>0. PICK j \in DOMAIN B : \E i \in 1..B[j] : u = <<j, i>>
      BY UnitIs
  <2>1. PICK i \in 1..B[j] : u = <<j, i>>
      BY <2>0
  <2>2. j = k /\ i \in I
      BY <2>1
  <2> QED
      BY <1>1, <2>1, <2>2
<1> HIDE DEF more
<1>8. IsFiniteSet(UnitsOf(B)) /\ Size(B) \in Nat
    BY FS_CardinalityType DEF IsTable, Size
<1>9. /\ IsFiniteSet(UnitsOf(B) \cup more)
      /\ Cardinality(UnitsOf(B) \cup more)
            = Cardinality(UnitsOf(B)) + Cardinality(more) - Cardinality(UnitsOf(B) \cap more)
    BY <1>3, <1>8, FS_Union
<1>10. Cardinality(UnitsOf(A)) = Cardinality(UnitsOf(B)) + n
  <2>1. Cardinality(UnitsOf(B) \cap more) = 0
      BY <1>7, FS_EmptySet
  <2> QED
      BY <1>3, <1>6, <1>8, <1>9, <2>1 DEF Size
<1>11. IsFiniteSet(UnitsOf(A)) /\ \A j \in DOMAIN A : A[j] \in Nat
    BY <1>4, <1>6, <1>9
<1> QED
    BY <1>8, <1>10, <1>11 DEF IsTable, Size

(* A printed table accounts for as much as what it was made of.              *)
LEMMA TotalOf ==
    ASSUME NEW B, IsTable(B), NEW rows, DOMAIN rows = DOMAIN B,
           \A k \in DOMAIN B : rows[k].count = B[k],
           \A j, k \in DOMAIN B : rows[j] = rows[k] => j = k,
           NEW table, table = {rows[k] : k \in DOMAIN B}
    PROVE  Total(table) = Size(B) /\ Size(B) \in Nat
<1> DEFINE S == UnitsOf(B)
           T == UNION {{row} \X (1..row.count) : row \in table}
           F == [u \in S |-> <<rows[u[1]], u[2]>>]
<1>1. \A v : v \in T <=> \E row \in table : \E i \in 1..row.count : v = <<row, i>>
    OBVIOUS
<1>2. \A u : u \in S <=> \E k \in DOMAIN B : \E i \in 1..B[k] : u = <<k, i>>
    BY UnitIs
<1> HIDE DEF S, T
<1>3. ASSUME NEW u \in S PROVE F[u] \in T
  <2>0. PICK k \in DOMAIN B : \E i \in 1..B[k] : u = <<k, i>>
      BY <1>2
  <2>1. PICK i \in 1..B[k] : u = <<k, i>>
      BY <2>0
  <2>2. F[u] = <<rows[k], i>> /\ rows[k] \in table /\ i \in 1..rows[k].count
      BY <2>1
  <2> HIDE DEF F
  <2> QED
      BY <1>1, <2>2
<1>4. ASSUME NEW u \in S, NEW w \in S, F[u] = F[w] PROVE u = w
  <2>0. PICK k \in DOMAIN B : \E i \in 1..B[k] : u = <<k, i>>
      BY <1>2
  <2>1. PICK i \in 1..B[k] : u = <<k, i>>
      BY <2>0
  <2>20. PICK l \in DOMAIN B : \E j \in 1..B[l] : w = <<l, j>>
      BY <1>2
  <2>2. PICK j \in 1..B[l] : w = <<l, j>>
      BY <2>20
  <2>3. F[u] = <<rows[k], i>> /\ F[w] = <<rows[l], j>>
      BY <2>1, <2>2
  <2>4. rows[k] = rows[l] /\ i = j
      BY <1>4, <2>3
  <2>5. k = l
      BY <2>4
  <2> QED
      BY <2>1, <2>2, <2>4, <2>5
<1>5. ASSUME NEW v \in T PROVE \E u \in S : F[u] = v
  <2>0. PICK row \in table : \E i \in 1..row.count : v = <<row, i>>
      BY <1>1
  <2>1. PICK i \in 1..row.count : v = <<row, i>>
      BY <2>0
  <2>2. PICK k \in DOMAIN B : row = rows[k]
      OBVIOUS
  <2>3. <<k, i>> \in S
      BY <1>2, <2>1, <2>2
  <2>4. F[<<k, i>>] = v
      BY <2>1, <2>2, <2>3
  <2> HIDE DEF F
  <2> QED
      BY <2>3, <2>4
<1>6. F \in Bijection(S, T)
  <2>1. F \in [S -> T]
    <3>1. F = [u \in S |-> F[u]]
        OBVIOUS
    <3> HIDE DEF F
    <3> QED
        BY <1>3, <3>1
  <2> HIDE DEF F
  <2>2. F \in Injection(S, T)
      BY <1>4, <2>1 DEF Injection, IsInjective
  <2>3. F \in Surjection(S, T)
      BY <1>5, <2>1 DEF Surjection
  <2> QED
      BY <2>2, <2>3 DEF Bijection
<1>7. ExistsBijection(S, T)
    BY <1>6 DEF ExistsBijection
<1>8. IsFiniteSet(S)
    BY DEF IsTable, S
<1>9. Cardinality(T) = Cardinality(S) /\ Cardinality(S) \in Nat
    BY <1>7, <1>8, FS_Bijection, FS_CardinalityType
<1> QED
    BY <1>9 DEF Total, Size, S, T

-----------------------------------------------------------------------------
(* One after the other: what Each comes to, for each step it is used with.   *)

(* The step of Batches.                                                      *)
BatchAdded(f, c, acc, item) ==
    LET batch == acc.open \o Unfiltered(RecordsIn(<<item>>), f, c)
    IN  IF Len(batch) >= MAX_DETECT_RECORDS
        THEN [full |-> Append(acc.full, batch), open |-> <<>>]
        ELSE [full |-> acc.full, open |-> batch]

StepOf(k, p, x, e) ==
    CASE k = "eid" -> stats_eventid(x, e, p)
      [] k = "logon" -> stats_login_eventid(x, e, p)
      [] k = "update" -> update(x, e)
      [] k = "computer" -> countup_event_by_computer(x, e)
      [] k = "batch" -> BatchAdded(p[1], p[2], x, e)
      [] k = "start" -> start(p, x, e)

IsSteps(f, k, p, a, s, m) ==
    f = [n \in 0..m |-> IF n = 0 THEN a
            ELSE CHOOSE y \in {StepOf(k, p, x, s[n]) : x \in {f[n - 1]}} : TRUE]

Eids(c, a, s) == Each(LAMBDA st, r : stats_eventid(st, r, c), a, s)
LogonsOver(c, a, s) == Each(LAMBDA st, r : stats_login_eventid(st, r, c), a, s)
Starts(c, a, s) == Each(LAMBDA u, b : start(c, u, b), a, s)
Batched(f, c, a, s) ==
    LET add(acc, item) ==
            LET batch == acc.open \o Unfiltered(RecordsIn(<<item>>), f, c)
            IN  IF Len(batch) >= MAX_DETECT_RECORDS
                THEN [full |-> Append(acc.full, batch), open |-> <<>>]
                ELSE [full |-> acc.full, open |-> batch]
    IN  Each(add, a, s)

(* A function goes through a sequence by steps, for each kind of step.       *)
LEMMA StepsExist ==
    ASSUME NEW k, NEW p, NEW a, NEW s
    PROVE  \A m \in Nat : \E f : IsSteps(f, k, p, a, s, m)
<1> DEFINE G == {m \in Nat : \E f : IsSteps(f, k, p, a, s, m)}
<1>1. 0 \in G
  <2>1. IsSteps([n \in 0..0 |-> a], k, p, a, s, 0)
      BY DEF IsSteps
  <2> QED
      BY <2>1
<1>2. ASSUME NEW m \in Nat, m \in G PROVE m + 1 \in G
  <2>1. PICK f : IsSteps(f, k, p, a, s, m)
      BY <1>2
  <2> DEFINE step(x, n) == CHOOSE y \in {StepOf(k, p, z, s[n]) : z \in {x}} : TRUE
             g == [n \in 0..(m + 1) |-> IF n = m + 1 THEN step(f[m], n) ELSE f[n]]
             h == [n \in 0..(m + 1) |-> IF n = 0 THEN a ELSE step(g[n - 1], n)]
  <2>0. f = [n \in 0..m |-> IF n = 0 THEN a ELSE step(f[n - 1], n)]
      BY <2>1 DEF IsSteps
  <2> HIDE DEF step
  <2>2. ASSUME NEW n \in 0..(m + 1) PROVE g[n] = h[n]
    <3>1. CASE n = m + 1
      <4>1. n # 0 /\ n - 1 = m /\ m \in 0..(m + 1) /\ m # m + 1
          BY <3>1
      <4> QED
          BY <3>1, <4>1
    <3>2. CASE n # m + 1
      <4>1. n \in 0..m /\ (n # 0 => n - 1 \in 0..(m + 1) /\ n - 1 # m + 1)
          BY <3>2
      <4> QED
          BY <2>0, <3>2, <4>1
    <3> QED
        BY <3>1, <3>2
  <2>3. g = h
      BY <2>2
  <2>4. IsSteps(g, k, p, a, s, m + 1)
      BY <2>3 DEF IsSteps, step
  <2> HIDE DEF g
  <2> QED
      BY <2>4
<1> HIDE DEF G
<1>3. Nat \subseteq G
    BY <1>1, <1>2, Induction
<1> QED
    BY <1>3 DEF G

(* f goes from a through the members of s.                                   *)
Runs(k, p, f, a, s) ==
    f[0] = a /\ \A n \in 1..Len(s) : f[n] = StepOf(k, p, f[n - 1], s[n])

(* eid-metrics goes through a batch by steps.                                *)
LEMMA EachEid ==
    ASSUME NEW c, NEW a, NEW s, Len(s) \in Nat
    PROVE  \E f : Runs("eid", c, f, a, s) /\ Eids(c, a, s) = f[Len(s)]
<1> DEFINE op(x, e) == stats_eventid(x, e, c)
           Goes(f) == f = [n \in 0..Len(s) |-> IF n = 0 THEN a
                        ELSE CHOOSE y \in {op(x, s[n]) : x \in {f[n - 1]}} : TRUE]
           F == CHOOSE f : Goes(f)
<1>1. PICK g : IsSteps(g, "eid", c, a, s, Len(s))
    BY StepsExist
<1>2. \A x, e : StepOf("eid", c, x, e) = op(x, e)
    BY DEF StepOf
<1>3. Eids(c, a, s) = F[Len(s)]
    BY Zenon DEF Each, Eids
<1> HIDE DEF op
<1>4. ASSUME NEW n
      PROVE  {StepOf("eid", c, x, s[n]) : x \in {g[n - 1]}} = {op(x, s[n]) : x \in {g[n - 1]}}
    BY <1>2
<1>5. Goes(g)
    BY <1>1, <1>4 DEF IsSteps
<1>6. Goes(F)
    BY <1>5, Zenon
<1> HIDE DEF F
<1>7. ASSUME NEW n \in 1..Len(s) PROVE F[n] = op(F[n - 1], s[n])
  <2>1. n \in 0..Len(s) /\ n # 0
      OBVIOUS
  <2> QED
      BY <1>6, <2>1
<1>8. F[0] = a
    BY <1>6
<1> QED
    BY <1>2, <1>3, <1>7, <1>8 DEF Runs

(* logon-summary goes through a batch by steps.                              *)
LEMMA EachLogon ==
    ASSUME NEW c, NEW a, NEW s, Len(s) \in Nat
    PROVE  \E f : Runs("logon", c, f, a, s) /\ LogonsOver(c, a, s) = f[Len(s)]
<1> DEFINE op(x, e) == stats_login_eventid(x, e, c)
           Goes(f) == f = [n \in 0..Len(s) |-> IF n = 0 THEN a
                        ELSE CHOOSE y \in {op(x, s[n]) : x \in {f[n - 1]}} : TRUE]
           F == CHOOSE f : Goes(f)
<1>1. PICK g : IsSteps(g, "logon", c, a, s, Len(s))
    BY StepsExist
<1>2. \A x, e : StepOf("logon", c, x, e) = op(x, e)
    BY DEF StepOf
<1>3. LogonsOver(c, a, s) = F[Len(s)]
    BY Zenon DEF Each, LogonsOver
<1> HIDE DEF op
<1>4. ASSUME NEW n
      PROVE  {StepOf("logon", c, x, s[n]) : x \in {g[n - 1]}} = {op(x, s[n]) : x \in {g[n - 1]}}
    BY <1>2
<1>5. Goes(g)
    BY <1>1, <1>4 DEF IsSteps
<1>6. Goes(F)
    BY <1>5, Zenon
<1> HIDE DEF F
<1>7. ASSUME NEW n \in 1..Len(s) PROVE F[n] = op(F[n - 1], s[n])
  <2>1. n \in 0..Len(s) /\ n # 0
      OBVIOUS
  <2> QED
      BY <1>6, <2>1
<1>8. F[0] = a
    BY <1>6
<1> QED
    BY <1>2, <1>3, <1>7, <1>8 DEF Runs

(* A row of log-metrics is made by steps.                                    *)
LEMMA EachUpdate ==
    ASSUME NEW q, NEW a, NEW s, Len(s) \in Nat
    PROVE  \E f : Runs("update", q, f, a, s) /\ Each(update, a, s) = f[Len(s)]
<1> DEFINE op(x, e) == update(x, e)
           Goes(f) == f = [n \in 0..Len(s) |-> IF n = 0 THEN a
                        ELSE CHOOSE y \in {op(x, s[n]) : x \in {f[n - 1]}} : TRUE]
           F == CHOOSE f : Goes(f)
<1>1. PICK g : IsSteps(g, "update", q, a, s, Len(s))
    BY StepsExist
<1>2. \A x, e : StepOf("update", q, x, e) = op(x, e)
    BY DEF StepOf
<1>3. Each(update, a, s) = F[Len(s)]
    BY Zenon DEF Each
<1> HIDE DEF op
<1>4. ASSUME NEW n
      PROVE  {StepOf("update", q, x, s[n]) : x \in {g[n - 1]}} = {op(x, s[n]) : x \in {g[n - 1]}}
    BY <1>2
<1>5. Goes(g)
    BY <1>1, <1>4 DEF IsSteps
<1>6. Goes(F)
    BY <1>5, Zenon
<1> HIDE DEF F
<1>7. ASSUME NEW n \in 1..Len(s) PROVE F[n] = op(F[n - 1], s[n])
  <2>1. n \in 0..Len(s) /\ n # 0
      OBVIOUS
  <2> QED
      BY <1>6, <2>1
<1>8. F[0] = a
    BY <1>6
<1> QED
    BY <1>2, <1>3, <1>7, <1>8 DEF Runs

(* computer-metrics goes through a file by steps.                            *)
LEMMA EachComputer ==
    ASSUME NEW q, NEW a, NEW s, Len(s) \in Nat
    PROVE  \E f : Runs("computer", q, f, a, s) /\ Each(countup_event_by_computer, a, s) = f[Len(s)]
<1> DEFINE op(x, e) == countup_event_by_computer(x, e)
           Goes(f) == f = [n \in 0..Len(s) |-> IF n = 0 THEN a
                        ELSE CHOOSE y \in {op(x, s[n]) : x \in {f[n - 1]}} : TRUE]
           F == CHOOSE f : Goes(f)
<1>1. PICK g : IsSteps(g, "computer", q, a, s, Len(s))
    BY StepsExist
<1>2. \A x, e : StepOf("computer", q, x, e) = op(x, e)
    BY DEF StepOf
<1>3. Each(countup_event_by_computer, a, s) = F[Len(s)]
    BY Zenon DEF Each
<1> HIDE DEF op
<1>4. ASSUME NEW n
      PROVE  {StepOf("computer", q, x, s[n]) : x \in {g[n - 1]}} = {op(x, s[n]) : x \in {g[n - 1]}}
    BY <1>2
<1>5. Goes(g)
    BY <1>1, <1>4 DEF IsSteps
<1>6. Goes(F)
    BY <1>5, Zenon
<1> HIDE DEF F
<1>7. ASSUME NEW n \in 1..Len(s) PROVE F[n] = op(F[n - 1], s[n])
  <2>1. n \in 0..Len(s) /\ n # 0
      OBVIOUS
  <2> QED
      BY <1>6, <2>1
<1>8. F[0] = a
    BY <1>6
<1> QED
    BY <1>2, <1>3, <1>7, <1>8 DEF Runs

(* Timeline.start goes through the batches of a file by steps.               *)
LEMMA EachStart ==
    ASSUME NEW c, NEW a, NEW s, Len(s) \in Nat
    PROVE  \E f : Runs("start", c, f, a, s) /\ Starts(c, a, s) = f[Len(s)]
<1> DEFINE op(x, e) == start(c, x, e)
           Goes(f) == f = [n \in 0..Len(s) |-> IF n = 0 THEN a
                        ELSE CHOOSE y \in {op(x, s[n]) : x \in {f[n - 1]}} : TRUE]
           F == CHOOSE f : Goes(f)
<1>1. PICK g : IsSteps(g, "start", c, a, s, Len(s))
    BY StepsExist
<1>2. \A x, e : StepOf("start", c, x, e) = op(x, e)
    BY DEF StepOf
<1>3. Starts(c, a, s) = F[Len(s)]
    BY Zenon DEF Each, Starts
<1> HIDE DEF op
<1>4. ASSUME NEW n
      PROVE  {StepOf("start", c, x, s[n]) : x \in {g[n - 1]}} = {op(x, s[n]) : x \in {g[n - 1]}}
    BY <1>2
<1>5. Goes(g)
    BY <1>1, <1>4 DEF IsSteps
<1>6. Goes(F)
    BY <1>5, Zenon
<1> HIDE DEF F
<1>7. ASSUME NEW n \in 1..Len(s) PROVE F[n] = op(F[n - 1], s[n])
  <2>1. n \in 0..Len(s) /\ n # 0
      OBVIOUS
  <2> QED
      BY <1>6, <2>1
<1>8. F[0] = a
    BY <1>6
<1> QED
    BY <1>2, <1>3, <1>7, <1>8 DEF Runs

(* The batches of a file are made of its items by steps.                     *)
LEMMA EachBatch ==
    ASSUME NEW d, NEW c, NEW a, NEW s, Len(s) \in Nat
    PROVE  \E f : Runs("batch", <<d, c>>, f, a, s) /\ Batched(d, c, a, s) = f[Len(s)]
<1> DEFINE op(x, e) == BatchAdded(d, c, x, e)
           Goes(f) == f = [n \in 0..Len(s) |-> IF n = 0 THEN a
                        ELSE CHOOSE y \in {op(x, s[n]) : x \in {f[n - 1]}} : TRUE]
           F == CHOOSE f : Goes(f)
<1>1. PICK g : IsSteps(g, "batch", <<d, c>>, a, s, Len(s))
    BY StepsExist
<1>2. \A x, e : StepOf("batch", <<d, c>>, x, e) = op(x, e)
    BY DEF StepOf
<1>3. Batched(d, c, a, s) = F[Len(s)]
    BY Zenon DEF Each, Batched, BatchAdded
<1> HIDE DEF op
<1>4. ASSUME NEW n
      PROVE  {StepOf("batch", <<d, c>>, x, s[n]) : x \in {g[n - 1]}} = {op(x, s[n]) : x \in {g[n - 1]}}
    BY <1>2
<1>5. Goes(g)
    BY <1>1, <1>4 DEF IsSteps
<1>6. Goes(F)
    BY <1>5, Zenon
<1> HIDE DEF F
<1>7. ASSUME NEW n \in 1..Len(s) PROVE F[n] = op(F[n - 1], s[n])
  <2>1. n \in 0..Len(s) /\ n # 0
      OBVIOUS
  <2> QED
      BY <1>6, <2>1
<1>8. F[0] = a
    BY <1>6
<1> QED
    BY <1>2, <1>3, <1>7, <1>8 DEF Runs

-----------------------------------------------------------------------------
(* What a state accounts for.                                                *)

(* The records a command counts.                                             *)
Scope(c) ==
    {r \in AllRecords : c.action \notin {"search", "computer-metrics"}
                            => ~is_filtered_by_computer_name(r, c)}

RecordKeys(rs) == {Counted(r) : r \in ToSet(rs)}
Remembers(c, st, rs) == c.remove_duplicate_detections => st.counted_rec = RecordKeys(rs)

(* Of eid-metrics and of logon-summary, when the records that count are rs.  *)
EidHolds(c, st, rs) ==
    /\ DOMAIN st = DOMAIN EventMetrics
    /\ IsTable(st.stats_list)
    /\ Size(st.stats_list) = Countable(rs, c)
    /\ Remembers(c, st, rs)

LogonHolds(c, st, rs) ==
    /\ DOMAIN st = DOMAIN EventMetrics
    /\ IsTable(st.successful) /\ IsTable(st.failed)
    /\ Size(st.successful) + Size(st.failed) = Countable(rs, c)
    /\ Remembers(c, st, rs)

(* Of a row of log-metrics that was lm.                                      *)
Computers(rs) == {r.computer : r \in ToSet(rs)} \ {Absent}
UpdateHolds(lm, x, rs) ==
    /\ DOMAIN x = DOMAIN lm /\ x.filepath = lm.filepath
    /\ x.event_count = lm.event_count + Len(rs)
    /\ x.computers = lm.computers \cup Computers(rs)

(* Of computer-metrics.                                                      *)
ComputerHolds(st, rs) ==
    /\ DOMAIN st = DOMAIN EventMetrics
    /\ DOMAIN st.stats_computer = Computers(rs)
    /\ \A name \in DOMAIN st.stats_computer :
        /\ DOMAIN st.stats_computer[name] = DOMAIN NewComputer
        /\ st.stats_computer[name].count = Len(Pick("computer", name, rs))

(* Of log-metrics: the rows of a file.                                       *)
RowsFor(rows, f) == [i \in {j \in DOMAIN rows : rows[j].filepath = f} |-> rows[i].event_count]
IsRow(lm) == DOMAIN lm = DOMAIN LogMetrics(Absent) /\ lm.event_count \in Nat
LogHolds(c, rows, rs) ==
    /\ IsList(rows)
    /\ \A i \in DOMAIN rows : IsRow(rows[i]) /\ ~IsHidden(rows[i], c)
    /\ \A f \in DOMAIN Logs : /\ IsTable(RowsFor(rows, f))
                              /\ Size(RowsFor(rows, f)) = Len(Pick("file", f, rs))

(* Of search.                                                                *)
Infos(hits) == [i \in DOMAIN hits |-> extract_search_event_info(hits[i])]
HitRows(hits) == [i \in DOMAIN hits |-> <<"hit", extract_search_event_info(hits[i])>>]
SearchHolds(c, t, hits) ==
    /\ t.search.search_result_cnt = Len(hits)
    /\ t.search.search_result = IF c.sort_events THEN ToSet(Infos(hits)) ELSE {}
    /\ t.written = IF c.sort_events THEN <<>> ELSE WithHeader(TRUE, HitRows(hits))

(* Of a timeline, when the records in scope were rs.                         *)
TimelineHolds(c, t, rs) ==
    /\ DOMAIN t = DOMAIN EmptyTimeline /\ DOMAIN t.stats = DOMAIN EventMetrics
    /\ DOMAIN t.search = DOMAIN EventSearch
    /\ c.action = "eid-metrics" => EidHolds(c, t.stats, Pick("id", 0, rs))
    /\ c.action = "logon-summary" => LogonHolds(c, t.stats, Pick("logon", 0, rs))
    /\ c.action = "log-metrics" => LogHolds(c, t.stats.stats_logfile, rs)
    /\ c.action = "computer-metrics" => ComputerHolds(t.stats, rs)
    /\ c.action = "search" => SearchHolds(c, t, Hits(rs, c))
    /\ c.action = "extract-base64" => t.base64 = process_evtx_record_infos(rs)
    /\ c.action \in Timelines => t.detected = rs
    /\ c.action # "config-critical-systems" => t.critical = NoSystems

(* Of Batches, for the items whose records came to rs.                       *)
Kept(f, c) == {r \in RecordsOf(f) : ~is_filtered_record(r, c, InJson(f))}
BatchHolds(p, acc, rs) ==
    /\ acc.full \in Seq(Seq(Kept(p[1], p[2])) \ {<<>>})
    /\ acc.open \in Seq(Kept(p[1], p[2]))
    /\ FlattenSeq(acc.full) \o acc.open = rs

Holds(k, p, x, rs) ==
    CASE k = "eid" -> EidHolds(p, x, Pick("id", 0, rs))
      [] k = "logon" -> LogonHolds(p, x, Pick("logon", 0, rs))
      [] k = "update" -> UpdateHolds(p, x, rs)
      [] k = "computer" -> ComputerHolds(x, rs)
      [] k = "batch" -> BatchHolds(p, x, rs)
      [] k = "start" -> TimelineHolds(p, x, rs)

(* What Holds says, kind by kind.                                            *)
LEMMA HoldsIs ==
    ASSUME NEW p, NEW x, NEW rs
    PROVE  /\ Holds("eid", p, x, rs) <=> EidHolds(p, x, Pick("id", 0, rs))
           /\ Holds("logon", p, x, rs) <=> LogonHolds(p, x, Pick("logon", 0, rs))
           /\ Holds("update", p, x, rs) <=> UpdateHolds(p, x, rs)
           /\ Holds("computer", p, x, rs) <=> ComputerHolds(x, rs)
           /\ Holds("batch", p, x, rs) <=> BatchHolds(p, x, rs)
           /\ Holds("start", p, x, rs) <=> TimelineHolds(p, x, rs)
<1> HIDE DEF EidHolds, LogonHolds, UpdateHolds, ComputerHolds, BatchHolds, TimelineHolds
<1> QED
    BY DEF Holds

(* What StepOf does, kind by kind.                                           *)
LEMMA StepIs ==
    ASSUME NEW p, NEW x, NEW e
    PROVE  /\ StepOf("eid", p, x, e) = stats_eventid(x, e, p)
           /\ StepOf("logon", p, x, e) = stats_login_eventid(x, e, p)
           /\ StepOf("update", p, x, e) = update(x, e)
           /\ StepOf("computer", p, x, e) = countup_event_by_computer(x, e)
           /\ StepOf("batch", p, x, e) = BatchAdded(p[1], p[2], x, e)
           /\ StepOf("start", p, x, e) = start(p, x, e)
BY DEF StepOf

(* With one more member, e, that comes to the records q.                     *)
Steps(k, p, C, e, q) ==
    \A x : \A rs \in Seq(C) : Holds(k, p, x, rs) => Holds(k, p, StepOf(k, p, x, e), rs \o q)

(* What holds of rs, and is kept by each step for the part it adds, holds at *)
(* the end for rs and all the parts: the induction along every loop of the   *)
(* commands.                                                                 *)
LEMMA Fold ==
    ASSUME NEW k, NEW p, NEW C, NEW Q, NEW a, NEW s, Len(s) \in Nat, AreParts(Q, Len(s), C),
           NEW f, Runs(k, p, f, a, s), NEW rs \in Seq(C), Holds(k, p, a, rs),
           \A n \in 1..Len(s) : Steps(k, p, C, s[n], Q[n])
    PROVE  Holds(k, p, f[Len(s)], rs \o Flat(Q, Len(s)))
<1> DEFINE Good(n) == Holds(k, p, f[n], rs \o Flat(Q, n))
           G == {n \in Nat : n <= Len(s) => Good(n)}
<1>1. 0 \in G
  <2>1. rs \o <<>> = rs
      BY ConcatEmptySeq
  <2>2. Good(0)
      BY <2>1, FlatEmpty DEF Runs
  <2> QED
      BY <2>2
<1>2. ASSUME NEW n \in Nat, n \in G, n + 1 <= Len(s) PROVE Good(n + 1)
  <2>1. n + 1 \in 1..Len(s) /\ (n + 1) - 1 = n /\ n <= Len(s)
      BY <1>2
  <2>2. Good(n)
      BY <1>2, <2>1
  <2>3. AreParts(Q, n + 1, C)
      BY <2>1 DEF AreParts
  <2>4. /\ Flat(Q, n) \in Seq(C) /\ Q[n + 1] \in Seq(C)
        /\ Flat(Q, n + 1) = Flat(Q, n) \o Q[n + 1]
      BY <2>3, FlatStep
  <2>5. f[n + 1] = StepOf(k, p, f[n], s[n + 1])
      BY <2>1 DEF Runs
  <2> DEFINE u == Flat(Q, n)
             q == Q[n + 1]
             ru == rs \o u
  <2>6. ru \in Seq(C)
      BY <2>4, ConcatProperties
  <2>7. ru \o q = rs \o (u \o q)
    <3> HIDE DEF u, q
    <3>1. u \in Seq(C) /\ q \in Seq(C)
        BY <2>4 DEF u, q
    <3> QED
        BY <3>1, JoinAssociative
  <2>8. Steps(k, p, C, s[n + 1], q)
      BY <2>1
  <2>9. Holds(k, p, f[n], ru)
      BY <2>2
  <2> HIDE DEF ru, q
  <2>10. Holds(k, p, StepOf(k, p, f[n], s[n + 1]), ru \o q)
      BY <2>6, <2>8, <2>9 DEF Steps
  <2> QED
      BY <2>4, <2>5, <2>7, <2>10 DEF q
<1>3. \A n \in Nat : n \in G => n + 1 \in G
  <2> HIDE DEF Good
  <2> QED
      BY <1>2
<1>4. Nat \subseteq G
  <2> HIDE DEF G
  <2> QED
      BY <1>1, <1>3, Induction
<1> QED
    BY <1>4

(* One member more at the end.                                               *)
LEMMA AppendOne ==
    ASSUME NEW C, NEW u \in Seq(C), NEW x \in C
    PROVE  /\ u \o <<x>> = Append(u, x) /\ Append(u, x) \in Seq(C)
           /\ Len(u \o <<x>>) = Len(u) + 1 /\ (u \o <<x>>)[Len(u) + 1] = x
           /\ \A i \in 1..Len(u) : (u \o <<x>>)[i] = u[i]
<1>1. u \o <<x>> = Append(u, x)
    OBVIOUS
<1>2. /\ Append(u, x) \in Seq(C) /\ Len(Append(u, x)) = Len(u) + 1
      /\ Append(u, x)[Len(u) + 1] = x
      /\ \A i \in 1..Len(u) : Append(u, x)[i] = u[i]
    OBVIOUS
<1> QED
    BY <1>1, <1>2

(* A sequence is its members, one behind the other.                          *)
LEMMA FlatOnes ==
    ASSUME NEW C, NEW s \in Seq(C), NEW Q, Q = [i \in DOMAIN s |-> <<s[i]>>]
    PROVE  AreParts(Q, Len(s), C) /\ Flat(Q, Len(s)) = s
<1>1. Len(s) \in Nat /\ DOMAIN s = 1..Len(s) /\ \A i \in 1..Len(s) : s[i] \in C
    OBVIOUS
<1>2. AreParts(Q, Len(s), C)
  <2> SUFFICES ASSUME NEW i \in 1..Len(s) PROVE Q[i] \in Seq(C)
      BY DEF AreParts
  <2>1. Q[i] = <<s[i]>> /\ s[i] \in C
      BY <1>1
  <2> QED
      BY <2>1
<1> DEFINE Good(n) == Len(Flat(Q, n)) = n /\ \A i \in 1..n : Flat(Q, n)[i] = s[i]
           G == {n \in Nat : n <= Len(s) => Good(n)}
<1>3. 0 \in G
    BY FlatEmpty
<1>4. ASSUME NEW n \in Nat, n \in G, n + 1 <= Len(s) PROVE Good(n + 1)
  <2>1. AreParts(Q, n + 1, C) /\ Q[n + 1] = <<s[n + 1]>> /\ Good(n) /\ s[n + 1] \in C
      BY <1>1, <1>2, <1>4 DEF AreParts
  <2>2. Flat(Q, n) \in Seq(C) /\ Flat(Q, n + 1) = Flat(Q, n) \o Q[n + 1]
      BY <2>1, FlatStep
  <2> DEFINE u == Flat(Q, n)
             x == s[n + 1]
  <2>3. u \in Seq(C) /\ x \in C /\ Len(u) = n /\ Flat(Q, n + 1) = u \o <<x>>
      BY <2>1, <2>2
  <2>4. \A i \in 1..n : u[i] = s[i]
      BY <2>1
  <2> HIDE DEF u
  <2>5. /\ Len(u \o <<x>>) = n + 1 /\ (u \o <<x>>)[n + 1] = x
        /\ \A i \in 1..n : (u \o <<x>>)[i] = u[i]
      BY <2>3, AppendOne
  <2> DEFINE v == u \o <<x>>
  <2>6. Len(v) = n + 1 /\ v[n + 1] = s[n + 1] /\ \A i \in 1..n : v[i] = s[i]
      BY <2>4, <2>5
  <2>7. Flat(Q, n + 1) = v
      BY <2>3
  <2> HIDE DEF v
  <2>8. \A i \in 1..(n + 1) : i \in 1..n \/ i = n + 1
      OBVIOUS
  <2> QED
      BY <2>6, <2>7, <2>8
<1>5. \A n \in Nat : n \in G => n + 1 \in G
  <2> HIDE DEF Good
  <2> QED
      BY <1>4
<1>6. Nat \subseteq G
  <2> HIDE DEF G
  <2> QED
      BY <1>3, <1>5, Induction
<1>7. Good(Len(s))
    BY <1>1, <1>6
<1>8. Flat(Q, Len(s)) \in Seq(C)
    BY <1>1, <1>2, FlatType
<1>9. Flat(Q, Len(s)) = s
  <2> DEFINE t == Flat(Q, Len(s))
  <2>1. t \in Seq(C) /\ Len(t) = Len(s) /\ \A i \in 1..Len(s) : t[i] = s[i]
      BY <1>7, <1>8
  <2> HIDE DEF t
  <2>2. t = s
      BY <2>1, SeqEqual
  <2> QED
      BY <2>2 DEF t
<1> QED
    BY <1>2, <1>9

(* Fold, for steps that add the member they are made with.                   *)
LEMMA FoldEach ==
    ASSUME NEW k, NEW p, NEW C, NEW a, NEW s \in Seq(C), NEW f, Runs(k, p, f, a, s),
           NEW rs \in Seq(C), Holds(k, p, a, rs),
           \A n \in 1..Len(s) : Steps(k, p, C, s[n], <<s[n]>>)
    PROVE  Holds(k, p, f[Len(s)], rs \o s)
<1> DEFINE Q == [i \in DOMAIN s |-> <<s[i]>>]
<1>1. AreParts(Q, Len(s), C) /\ Flat(Q, Len(s)) = s /\ Len(s) \in Nat
    BY FlatOnes
<1>2. \A n \in 1..Len(s) : Q[n] = <<s[n]>>
    OBVIOUS
<1> HIDE DEF Q
<1>3. \A n \in 1..Len(s) : Steps(k, p, C, s[n], Q[n])
    BY <1>2
<1>4. Holds(k, p, f[Len(s)], rs \o Flat(Q, Len(s)))
    BY <1>1, <1>3, Fold
<1> QED
    BY <1>1, <1>4

-----------------------------------------------------------------------------
(* One record more.                                                          *)

(* One record more adds its key.                                             *)
LEMMA KeysAppend ==
    ASSUME NEW C, NEW w \in Seq(C), NEW r \in C
    PROVE  RecordKeys(Append(w, r)) = RecordKeys(w) \cup {Counted(r)}
<1>1. ToSet(Append(w, r)) = ToSet(w) \cup {r}
    BY ListOf, ListAppend
<1> QED
    BY <1>1 DEF RecordKeys

(* The keys of a sequence of records can be counted.                         *)
LEMMA KeysFinite ==
    ASSUME NEW C, NEW w \in Seq(C)
    PROVE  IsFiniteSet(RecordKeys(w)) /\ Cardinality(RecordKeys(w)) \in Nat
<1> DEFINE F == [i \in 1..Len(w) |-> Counted(w[i])]
<1>1. Len(w) \in Nat /\ DOMAIN w = 1..Len(w)
    OBVIOUS
<1>2. ASSUME NEW k \in RecordKeys(w) PROVE \E i \in 1..Len(w) : F[i] = k
  <2>1. PICK r \in ToSet(w) : k = Counted(r)
      BY DEF RecordKeys
  <2>2. PICK i \in DOMAIN w : w[i] = r
      BY DEF ToSet
  <2> QED
      BY <1>1, <2>1, <2>2
<1>3. ASSUME NEW i \in 1..Len(w) PROVE F[i] \in RecordKeys(w)
  <2>1. w[i] \in ToSet(w)
      BY <1>1 DEF ToSet
  <2> QED
      BY <2>1 DEF RecordKeys
<1>4. F \in Surjection(1..Len(w), RecordKeys(w))
  <2>1. F \in [1..Len(w) -> RecordKeys(w)]
      BY <1>3
  <2> HIDE DEF F
  <2> QED
      BY <1>2, <2>1 DEF Surjection
<1>5. IsFiniteSet(1..Len(w))
    BY <1>1, FS_Interval
<1> QED
    BY <1>4, <1>5, FS_Surjection, FS_CardinalityType

(* One record more counts one, unless -X has seen its like.                  *)
LEMMA CountableAppend ==
    ASSUME NEW C, NEW w \in Seq(C), NEW r \in C, NEW c
    PROVE  /\ Countable(w, c) \in Nat
           /\ Countable(Append(w, r), c) =
                IF c.remove_duplicate_detections /\ Counted(r) \in RecordKeys(w)
                THEN Countable(w, c) ELSE Countable(w, c) + 1
<1>1. Append(w, r) \in Seq(C) /\ Len(Append(w, r)) = Len(w) + 1 /\ Len(w) \in Nat
    OBVIOUS
<1>2. CASE c.remove_duplicate_detections
  <2>1. \A v : Countable(v, c) = Cardinality(RecordKeys(v))
      BY <1>2 DEF Countable, RecordKeys
  <2>2. RecordKeys(Append(w, r)) = RecordKeys(w) \cup {Counted(r)}
      BY KeysAppend
  <2>3. IsFiniteSet(RecordKeys(w)) /\ Cardinality(RecordKeys(w)) \in Nat
      BY KeysFinite
  <2>4. Cardinality(RecordKeys(w) \cup {Counted(r)})
            = IF Counted(r) \in RecordKeys(w) THEN Cardinality(RecordKeys(w)) ELSE Cardinality(RecordKeys(w)) + 1
      BY <2>3, FS_AddElement
  <2>5. /\ Countable(w, c) = Cardinality(RecordKeys(w))
        /\ Countable(Append(w, r), c) = Cardinality(RecordKeys(w) \cup {Counted(r)})
      BY <2>1, <2>2
  <2>6. CASE Counted(r) \in RecordKeys(w)
      BY <1>2, <2>3, <2>4, <2>5, <2>6
  <2>7. CASE Counted(r) \notin RecordKeys(w)
      BY <1>2, <2>3, <2>4, <2>5, <2>7
  <2> QED
      BY <2>6, <2>7
<1>3. CASE ~c.remove_duplicate_detections
    BY <1>1, <1>3 DEF Countable
<1> QED
    BY <1>2, <1>3

(* One more of k in a bag.                                                   *)
LEMMA BagGrows ==
    ASSUME NEW B, IsTable(B), NEW k
    PROVE  LET A == Bag!BagAdd(B, k)
           IN  IsTable(A) /\ Size(A) = Size(B) + 1 /\ Size(B) \in Nat
<1> DEFINE A == Bag!BagAdd(B, k)
<1>1. Grown(A, B, k, 1)
  <2>1. CASE k \in DOMAIN B
    <3>1. A = [e \in DOMAIN B |-> IF e = k THEN B[e] + 1 ELSE B[e]]
        BY <2>1 DEF Bag!BagAdd
    <3> HIDE DEF A
    <3> QED
        BY <2>1, <3>1 DEF Grown
  <2>2. CASE k \notin DOMAIN B
    <3>1. A = [e \in DOMAIN B \cup {k} |-> IF e = k THEN 1 ELSE B[e]]
        BY <2>2 DEF Bag!BagAdd
    <3> HIDE DEF A
    <3> QED
        BY <2>2, <3>1 DEF Grown
  <2> QED
      BY <2>1, <2>2
<1> HIDE DEF A
<1>2. IsTable(A) /\ Size(A) = Size(B) + 1 /\ Size(B) \in Nat
    BY <1>1, TableGrows
<1> QED
    BY <1>2 DEF A

(* What a metric remembers when it counts r, of the records w.               *)
LEMMA RemembersMore ==
    ASSUME NEW C, NEW w \in Seq(C), NEW r \in C, NEW c, NEW x, Remembers(c, x, w)
    PROVE  /\ IsDuplicate(x, r, c) <=> c.remove_duplicate_detections /\ Counted(r) \in RecordKeys(w)
           /\ IsDuplicate(x, r, c) => Remembers(c, x, Append(w, r))
           /\ \A y : y.counted_rec = Remembered(x, r, c) => Remembers(c, y, Append(w, r))
<1>1. RecordKeys(Append(w, r)) = RecordKeys(w) \cup {Counted(r)}
    BY KeysAppend
<1>2. IsDuplicate(x, r, c) <=> c.remove_duplicate_detections /\ Counted(r) \in RecordKeys(w)
    BY DEF IsDuplicate, Remembers
<1>3. IsDuplicate(x, r, c) => Remembers(c, x, Append(w, r))
    BY <1>1, <1>2 DEF Remembers
<1>4. ASSUME NEW y, y.counted_rec = Remembered(x, r, c) PROVE Remembers(c, y, Append(w, r))
    BY <1>1, <1>4 DEF Remembers, Remembered
<1> QED
    BY <1>2, <1>3, <1>4

(* eid-metrics counts a record in scope as EidHolds says.                    *)
LEMMA EidStep ==
    ASSUME NEW c, c.action = "eid-metrics", NEW r \in Scope(c)
    PROVE  Steps("eid", c, Scope(c), r, <<r>>)
<1> DEFINE C == Scope(c)
<1> SUFFICES ASSUME NEW x, NEW rs \in Seq(C), Holds("eid", c, x, rs)
             PROVE  Holds("eid", c, StepOf("eid", c, x, r), rs \o <<r>>)
    BY DEF Steps
<1> DEFINE w == Pick("id", 0, rs)
           y == stats_eventid(x, r, c)
           v == Pick("id", 0, Append(rs, r))
           id == <<r.eid, LowerCase(r.channel)>>
<1>1. EidHolds(c, x, w)
    BY HoldsIs
<1>2. rs \o <<r>> = Append(rs, r)
  <2> HIDE DEF C
  <2>1. r \in C
      BY DEF C
  <2> QED
      BY <2>1, AppendOne
<1>3. ~is_filtered_by_computer_name(r, c)
    BY DEF Scope
<1> HIDE DEF C
<1>4. r \in C
    BY DEF C
<1>5. w \in Seq(C) /\ v = IF r.eid # NoEventId THEN Append(w, r) ELSE w
  <2>1. Wanted("id", 0, r) <=> r.eid # NoEventId
      BY DEF Wanted
  <2> QED
      BY <1>4, <2>1, PickAppend
<1> SUFFICES EidHolds(c, y, v)
    BY <1>2, HoldsIs, StepIs
<1>6. CASE r.eid = NoEventId
    BY <1>1, <1>5, <1>6 DEF stats_eventid
<1>7. CASE r.eid # NoEventId /\ IsDuplicate(x, r, c)
  <2>1. y = x /\ v = Append(w, r)
      BY <1>5, <1>7 DEF stats_eventid
  <2> HIDE DEF w, v, y
  <2>2. Remembers(c, x, w)
      BY <1>1 DEF EidHolds
  <2>3. Remembers(c, x, v) /\ c.remove_duplicate_detections /\ Counted(r) \in RecordKeys(w)
      BY <1>4, <1>5, <1>7, <2>1, <2>2, RemembersMore
  <2>4. Countable(v, c) = Countable(w, c)
      BY <1>4, <1>5, <2>1, <2>3, CountableAppend
  <2> QED
      BY <1>1, <2>1, <2>3, <2>4 DEF EidHolds
<1>8. CASE r.eid # NoEventId /\ ~IsDuplicate(x, r, c)
  <2>1. y = [x EXCEPT !.stats_list = Bag!BagAdd(x.stats_list, id),
                      !.counted_rec = Remembered(x, r, c)] /\ v = Append(w, r)
      BY <1>3, <1>5, <1>8 DEF stats_eventid
  <2>2. DOMAIN x = DOMAIN EventMetrics /\ IsTable(x.stats_list)
        /\ Size(x.stats_list) = Countable(w, c) /\ Remembers(c, x, w)
      BY <1>1 DEF EidHolds
  <2>3. "stats_list" \in DOMAIN x /\ "counted_rec" \in DOMAIN x
      BY <2>2 DEF EventMetrics
  <2> DEFINE A == Bag!BagAdd(x.stats_list, id)
  <2> HIDE DEF id, w, v, y
  <2>4. IsTable(A) /\ Size(A) = Size(x.stats_list) + 1
      BY <2>2, BagGrows
  <2> HIDE DEF A
  <2>5. y.stats_list = A /\ y.counted_rec = Remembered(x, r, c) /\ DOMAIN y = DOMAIN x
      BY <2>1, <2>3 DEF A
  <2>6. Remembers(c, y, v) /\ ~(c.remove_duplicate_detections /\ Counted(r) \in RecordKeys(w))
    <3>1. w \in Seq(C) /\ Remembers(c, x, w)
        BY <1>5, <2>2
    <3>2. /\ IsDuplicate(x, r, c) <=> c.remove_duplicate_detections /\ Counted(r) \in RecordKeys(w)
          /\ y.counted_rec = Remembered(x, r, c) => Remembers(c, y, Append(w, r))
        BY <1>4, <3>1, RemembersMore
    <3>3. ~IsDuplicate(x, r, c) /\ v = Append(w, r) /\ y.counted_rec = Remembered(x, r, c)
        BY <1>8, <2>1, <2>5
    <3> QED
        BY <3>2, <3>3
  <2>7. Countable(v, c) = Countable(w, c) + 1
      BY <1>4, <1>5, <2>1, <2>6, CountableAppend
  <2> QED
      BY <2>2, <2>4, <2>5, <2>6, <2>7 DEF EidHolds
<1> QED
    BY <1>6, <1>7, <1>8

(* logon-summary counts a record as LogonHolds says.                         *)
LEMMA LogonStep ==
    ASSUME NEW C, NEW c, NEW r \in C
    PROVE  Steps("logon", c, C, r, <<r>>)
<1> SUFFICES ASSUME NEW x, NEW rs \in Seq(C), Holds("logon", c, x, rs)
             PROVE  Holds("logon", c, StepOf("logon", c, x, r), rs \o <<r>>)
    BY DEF Steps
<1> DEFINE w == Pick("logon", 0, rs)
           y == stats_login_eventid(x, r, c)
           v == Pick("logon", 0, Append(rs, r))
           counts == r.numeric /\ is_target_event(r) # "none"
<1>1. LogonHolds(c, x, w)
    BY HoldsIs
<1>2. rs \o <<r>> = Append(rs, r)
    BY AppendOne
<1>3. counts => r.eid # NoEventId
    BY CommandAssumption DEF is_target_event
<1>5. w \in Seq(C) /\ v = IF counts THEN Append(w, r) ELSE w
  <2>1. Wanted("logon", 0, r) <=> counts
      BY DEF Wanted
  <2> QED
      BY <2>1, PickAppend
<1> SUFFICES LogonHolds(c, y, v)
    BY <1>2, HoldsIs, StepIs
<1>6. CASE ~counts
  <2>1. y = x
      BY <1>6 DEF stats_login_eventid
  <2> QED
      BY <1>1, <1>5, <1>6, <2>1
<1>7. CASE counts /\ IsDuplicate(x, r, c)
  <2>1. y = x /\ v = Append(w, r)
      BY <1>5, <1>7 DEF stats_login_eventid
  <2> HIDE DEF w, v, y
  <2>2. Remembers(c, x, w)
      BY <1>1 DEF LogonHolds
  <2>3. Remembers(c, x, v) /\ c.remove_duplicate_detections /\ Counted(r) \in RecordKeys(w)
      BY <1>5, <1>7, <2>1, <2>2, RemembersMore
  <2>4. Countable(v, c) = Countable(w, c)
      BY <1>5, <2>1, <2>3, CountableAppend
  <2> QED
      BY <1>1, <2>1, <2>3, <2>4 DEF LogonHolds
<1>8. CASE counts /\ ~IsDuplicate(x, r, c)
  <2> DEFINE A == IF r.eid # 4625 THEN Bag!BagAdd(x.successful, LoginEvent(r)) ELSE x.successful
             B == IF r.eid = 4625 THEN Bag!BagAdd(x.failed, LoginEvent(r)) ELSE x.failed
  <2>1. y = [x EXCEPT !.successful = A, !.failed = B, !.counted_rec = Remembered(x, r, c)]
      BY <1>3, <1>8, Zenon DEF stats_login_eventid
  <2>0. v = Append(w, r)
      BY <1>5, <1>8
  <2>2. DOMAIN x = DOMAIN EventMetrics /\ IsTable(x.successful) /\ IsTable(x.failed)
        /\ Size(x.successful) + Size(x.failed) = Countable(w, c) /\ Remembers(c, x, w)
      BY <1>1 DEF LogonHolds
  <2>3. "successful" \in DOMAIN x /\ "failed" \in DOMAIN x /\ "counted_rec" \in DOMAIN x
      BY <2>2 DEF EventMetrics
  <2> DEFINE e == LoginEvent(r)
  <2>4. /\ IsTable(Bag!BagAdd(x.successful, e)) /\ IsTable(Bag!BagAdd(x.failed, e))
        /\ Size(Bag!BagAdd(x.successful, e)) = Size(x.successful) + 1
        /\ Size(Bag!BagAdd(x.failed, e)) = Size(x.failed) + 1
        /\ Size(x.successful) \in Nat /\ Size(x.failed) \in Nat
    <3> HIDE DEF e
    <3> QED
        BY <2>2, BagGrows
  <2> HIDE DEF w, v, y
  <2>5. IsTable(A) /\ IsTable(B) /\ Size(A) + Size(B) = Size(x.successful) + Size(x.failed) + 1
    <3> HIDE DEF e
    <3>1. CASE r.eid = 4625
      <4>1. A = x.successful /\ B = Bag!BagAdd(x.failed, e)
          BY <3>1 DEF e
      <4> HIDE DEF A, B
      <4> QED
          BY <2>2, <2>4, <4>1
    <3>2. CASE r.eid # 4625
      <4>1. B = x.failed /\ A = Bag!BagAdd(x.successful, e)
          BY <3>2 DEF e
      <4> HIDE DEF A, B
      <4> QED
          BY <2>2, <2>4, <4>1
    <3> QED
        BY <3>1, <3>2
  <2> HIDE DEF A, B
  <2>6. y.successful = A /\ y.failed = B /\ y.counted_rec = Remembered(x, r, c)
        /\ DOMAIN y = DOMAIN x
      BY <2>1, <2>3
  <2>7. Remembers(c, y, v) /\ ~(c.remove_duplicate_detections /\ Counted(r) \in RecordKeys(w))
      BY <1>5, <1>8, <2>0, <2>2, <2>6, RemembersMore
  <2>8. Countable(v, c) = Countable(w, c) + 1
      BY <1>5, <2>0, <2>7, CountableAppend
  <2> QED
      BY <2>2, <2>5, <2>6, <2>7, <2>8 DEF LogonHolds
<1> QED
    BY <1>6, <1>7, <1>8

Cmds == {create_static_data(line) : line \in CommandLines}

(* A row of log-metrics counts the record it is given.                       *)
LEMMA UpdateStep ==
    ASSUME NEW lm, IsRow(lm), NEW C, NEW r \in C
    PROVE  Steps("update", lm, C, r, <<r>>)
<1> SUFFICES ASSUME NEW x, NEW rs \in Seq(C), Holds("update", lm, x, rs)
             PROVE  Holds("update", lm, StepOf("update", lm, x, r), rs \o <<r>>)
    BY DEF Steps
<1> DEFINE y == update(x, r)
           u == Append(rs, r)
<1>1. UpdateHolds(lm, x, rs)
    BY HoldsIs
<1>2. rs \o <<r>> = u /\ Len(u) = Len(rs) + 1 /\ Len(rs) \in Nat
    BY AppendOne
<1>3. ToSet(u) = ToSet(rs) \cup {r}
    BY ListOf, ListAppend
<1>4. Computers(u) = Computers(rs) \cup Named(r.computer)
    BY <1>3 DEF Computers, Named
<1>5. DOMAIN x = DOMAIN lm /\ {"event_count", "computers", "filepath"} \subseteq DOMAIN x
    BY <1>1 DEF UpdateHolds, IsRow, LogMetrics
<1>6. DOMAIN y = DOMAIN x /\ y.filepath = x.filepath
      /\ y.event_count = x.event_count + 1
      /\ y.computers = x.computers \cup Named(r.computer)
    BY <1>5 DEF update
<1> HIDE DEF y, u
<1>7. UpdateHolds(lm, y, u)
  <2>1. lm.event_count \in Nat
      BY DEF IsRow
  <2>2. /\ DOMAIN x = DOMAIN lm /\ x.filepath = lm.filepath
        /\ x.event_count = lm.event_count + Len(rs)
        /\ x.computers = lm.computers \cup Computers(rs)
      BY <1>1 DEF UpdateHolds
  <2>3. y.event_count = lm.event_count + Len(u)
    <3> DEFINE n == Len(rs)
               e == lm.event_count
    <3>1. n \in Nat /\ e \in Nat /\ Len(u) = n + 1
        BY <1>2, <2>1
    <3>2. y.event_count = (e + n) + 1
        BY <1>6, <2>2
    <3> HIDE DEF n, e
    <3> QED
        BY <3>1, <3>2 DEF e
  <2> QED
      BY <1>4, <1>6, <2>2, <2>3 DEF UpdateHolds
<1> QED
    BY <1>2, <1>7, HoldsIs, StepIs DEF y

(* What update makes of a row with the records of a batch.                   *)
LEMMA RowUpdated ==
    ASSUME NEW lm, IsRow(lm), NEW C, NEW batch \in Seq(C)
    PROVE  UpdateHolds(lm, Each(update, lm, batch), batch)
<1>1. Len(batch) \in Nat
    OBVIOUS
<1>2. PICK f : Runs("update", lm, f, lm, batch) /\ Each(update, lm, batch) = f[Len(batch)]
    BY <1>1, EachUpdate
<1>3. <<>> \in Seq(C) /\ <<>> \o batch = batch
    BY ConcatEmptySeq
<1>4. Holds("update", lm, lm, <<>>)
  <2>1. Computers(<<>>) = {} /\ Len(<<>>) = 0
      BY EmptyList DEF Computers
  <2> QED
      BY <2>1, HoldsIs DEF UpdateHolds, IsRow
<1>5. \A n \in 1..Len(batch) : Steps("update", lm, C, batch[n], <<batch[n]>>)
  <2>1. \A n \in 1..Len(batch) : batch[n] \in C
      OBVIOUS
  <2> QED
      BY <2>1, UpdateStep
<1>6. Holds("update", lm, f[Len(batch)], <<>> \o batch)
    BY <1>2, <1>3, <1>4, <1>5, FoldEach
<1> QED
    BY <1>2, <1>3, <1>6, HoldsIs

(* computer-metrics counts the record it is given.                           *)
LEMMA ComputerStep ==
    ASSUME NEW q, NEW C, NEW r \in C
    PROVE  Steps("computer", q, C, r, <<r>>)
<1> SUFFICES ASSUME NEW x, NEW rs \in Seq(C), Holds("computer", q, x, rs)
             PROVE  Holds("computer", q, StepOf("computer", q, x, r), rs \o <<r>>)
    BY DEF Steps
<1> DEFINE y == countup_event_by_computer(x, r)
           u == Append(rs, r)
           met == x.stats_computer
           was == IF r.computer \in DOMAIN met THEN met[r.computer] ELSE NewComputer
           seen == IF r.channel = "System" /\ r.eid # NoEventId /\ r.numeric
                   THEN SystemEvent(was, r) ELSE was
           one == [seen EXCEPT !.count = @ + 1]
<1>1. ComputerHolds(x, rs)
    BY HoldsIs
<1>2. rs \o <<r>> = u
    BY AppendOne
<1>3. ToSet(u) = ToSet(rs) \cup {r}
    BY ListOf, ListAppend
<1>4. ASSUME NEW name
      PROVE  /\ Pick("computer", name, rs) \in Seq(C)
             /\ Len(Pick("computer", name, rs)) \in Nat
             /\ Len(Pick("computer", name, u)) = IF r.computer = name
                    THEN Len(Pick("computer", name, rs)) + 1 ELSE Len(Pick("computer", name, rs))
  <2>1. Wanted("computer", name, r) <=> r.computer = name
      BY DEF Wanted
  <2> DEFINE p == Pick("computer", name, rs)
             v == Pick("computer", name, u)
  <2>2. p \in Seq(C) /\ v = IF r.computer = name THEN Append(p, r) ELSE p
      BY <2>1, PickAppend
  <2> HIDE DEF p, v
  <2>3. Len(p) \in Nat /\ Len(Append(p, r)) = Len(p) + 1
      BY <2>2
  <2> QED
      BY <2>2, <2>3 DEF p, v
<1>5. CASE r.computer = Absent
  <2>1. y = x
      BY <1>5 DEF countup_event_by_computer
  <2>2. Computers(u) = Computers(rs)
      BY <1>3, <1>5 DEF Computers
  <2>3. \A name \in Computers(rs) : name # r.computer
      BY <1>5 DEF Computers
  <2> HIDE DEF u, y
  <2>4. ComputerHolds(y, u)
      BY <1>1, <1>4, <2>1, <2>2, <2>3 DEF ComputerHolds
  <2> QED
      BY <1>2, <2>4, HoldsIs, StepIs DEF y
<1>6. CASE r.computer # Absent
  <2>1. y = [x EXCEPT !.stats_computer =
                [name \in DOMAIN met \cup {r.computer} |-> IF name = r.computer THEN one ELSE met[name]]]
      BY <1>6 DEF countup_event_by_computer
  <2>2. Computers(u) = Computers(rs) \cup {r.computer}
      BY <1>3, <1>6 DEF Computers
  <2>3. DOMAIN x = DOMAIN EventMetrics /\ "stats_computer" \in DOMAIN x
      BY <1>1 DEF ComputerHolds, EventMetrics
  <2>4. DOMAIN met = Computers(rs)
      BY <1>1 DEF ComputerHolds
  <2>5. /\ DOMAIN was = DOMAIN NewComputer
        /\ was.count = Len(Pick("computer", r.computer, rs))
    <3>1. CASE r.computer \in DOMAIN met
        BY <1>1, <3>1 DEF ComputerHolds
    <3>2. CASE r.computer \notin DOMAIN met
      <4>1. was = NewComputer
          BY <3>2
      <4>2. Pick("computer", r.computer, rs) = <<>>
        <5> DEFINE S == {e \in ToSet(rs) : Wanted("computer", r.computer, e)}
                   p == Pick("computer", r.computer, rs)
        <5>1. \A e : Wanted("computer", r.computer, e) <=> e.computer = r.computer
            BY DEF Wanted
        <5>2. S = {}
            BY <1>6, <2>4, <3>2, <5>1 DEF Computers
        <5>3. rs \in Seq(ToSet(rs))
            BY ListOf DEF IsList
        <5>4. p \in Seq({})
            BY <5>2, <5>3, PickType
        <5> HIDE DEF p
        <5>5. p = <<>>
            BY <5>4
        <5> QED
            BY <5>5 DEF p
      <4>3. NewComputer.count = 0 /\ Len(<<>>) = 0
          BY DEF NewComputer
      <4> QED
          BY <4>1, <4>2, <4>3
    <3> QED
        BY <3>1, <3>2
  <2> HIDE DEF was
  <2>6. DOMAIN seen = DOMAIN was /\ seen.count = was.count /\ "count" \in DOMAIN was
      BY <2>5 DEF SystemEvent, NewComputer
  <2> HIDE DEF seen
  <2>7. DOMAIN one = DOMAIN NewComputer /\ one.count = was.count + 1
      BY <2>5, <2>6
  <2> HIDE DEF one
  <2> DEFINE now == [name \in DOMAIN met \cup {r.computer} |->
                        IF name = r.computer THEN one ELSE met[name]]
  <2>8. /\ DOMAIN now = DOMAIN met \cup {r.computer} /\ now[r.computer] = one
        /\ \A name \in DOMAIN met : name # r.computer => now[name] = met[name]
      OBVIOUS
  <2> HIDE DEF now
  <2>9. y.stats_computer = now /\ DOMAIN y = DOMAIN x
      BY <2>1, <2>3 DEF now
  <2>10. ASSUME NEW name \in DOMAIN now
         PROVE  /\ DOMAIN now[name] = DOMAIN NewComputer
                /\ now[name].count = Len(Pick("computer", name, u))
    <3> HIDE DEF u
    <3>1. CASE name = r.computer
        BY <1>4, <2>5, <2>7, <2>8, <3>1
    <3>2. CASE name # r.computer
      <4>1. now[name] = met[name] /\ name \in DOMAIN met
          BY <2>8, <3>2
      <4>2. DOMAIN met[name] = DOMAIN NewComputer
            /\ met[name].count = Len(Pick("computer", name, rs))
          BY <1>1, <4>1 DEF ComputerHolds
      <4> QED
          BY <1>4, <3>2, <4>1, <4>2
    <3> QED
        BY <3>1, <3>2
  <2> HIDE DEF u, y, met
  <2>11. ComputerHolds(y, u)
      BY <2>2, <2>3, <2>4, <2>8, <2>9, <2>10 DEF ComputerHolds
  <2> QED
      BY <1>2, <2>11, HoldsIs, StepIs DEF y
<1> QED
    BY <1>5, <1>6

(* Where all are wanted all are picked, where none is, none.                 *)
LEMMA PickAll ==
    ASSUME NEW C, NEW s \in Seq(C), NEW k, NEW p
    PROVE  /\ (\A r \in C : Wanted(k, p, r)) => Pick(k, p, s) = s
           /\ (\A r \in C : ~Wanted(k, p, r)) => Pick(k, p, s) = <<>>
<1>1. ASSUME \A r \in C : Wanted(k, p, r) PROVE Pick(k, p, s) = s
  <2> DEFINE S == {r \in C : Wanted(k, p, r)}
             Q == [i \in DOMAIN s |-> <<s[i]>>]
  <2>1. Pick(k, p, s) = Mapped("chosen", S, s)
      BY PickMapped
  <2>2. S = C
      BY <1>1
  <2>3. ASSUME NEW i \in DOMAIN s PROVE Part("chosen", C, s[i]) = <<s[i]>>
    <3>1. s[i] \in C
        OBVIOUS
    <3> QED
        BY <3>1 DEF Part
  <2>4. Parts("chosen", C, s) = Q
      BY <2>3 DEF Parts
  <2> HIDE DEF S, Q
  <2>5. Mapped("chosen", C, s) = Flat(Q, Len(s))
      BY <2>4, ChosenYields, MappedParts
  <2>6. Flat(Q, Len(s)) = s
      BY FlatOnes DEF Q
  <2> QED
      BY <2>1, <2>2, <2>5, <2>6
<1>2. ASSUME \A r \in C : ~Wanted(k, p, r) PROVE Pick(k, p, s) = <<>>
  <2> DEFINE t == Pick(k, p, s)
  <2>1. {r \in C : Wanted(k, p, r)} = {}
      BY <1>2
  <2>2. t \in Seq({})
      BY <2>1, PickType
  <2> HIDE DEF t
  <2>3. t = <<>>
      BY <2>2
  <2> QED
      BY <2>3 DEF t
<1> QED
    BY <1>1, <1>2

(* The records of a batch are of one log.                                    *)
OfOneLog(b) == \E f \in DOMAIN Logs : b \in Seq(RecordsOf(f))

(* The row i, of log f, is new or counts n more.                             *)
RowGrows(now, rows, i, f, n) ==
    /\ IsList(now) /\ DOMAIN now = DOMAIN rows \cup {i}
    /\ \A j \in DOMAIN rows : j # i => now[j] = rows[j]
    /\ IsRow(now[i]) /\ now[i].filepath = f
    /\ now[i].event_count = IF i \in DOMAIN rows THEN rows[i].event_count + n ELSE n
    /\ i \in DOMAIN rows => rows[i].filepath = f

(* A row that counts a batch more accounts for it, and no other file         *)
(* changes.                                                                  *)
LEMMA LogGrows ==
    ASSUME NEW c, NEW C, NEW rows, NEW rs \in Seq(C), LogHolds(c, rows, rs),
           NEW f \in DOMAIN Logs, NEW batch \in Seq(C), \A r \in ToSet(batch) : r.file = f,
           NEW now, NEW i, RowGrows(now, rows, i, f, Len(batch)), ~IsHidden(now[i], c)
    PROVE  LogHolds(c, now, rs \o batch)
<1> DEFINE B(g) == RowsFor(rows, g)
           A(g) == RowsFor(now, g)
<1>1. IsList(now) /\ \A j \in DOMAIN now : IsRow(now[j]) /\ ~IsHidden(now[j], c)
    BY DEF LogHolds, RowGrows
<1>2. Len(batch) \in Nat /\ batch \in Seq(ToSet(batch))
    BY ListOf DEF IsList
<1>3. ASSUME NEW g \in DOMAIN Logs
      PROVE  /\ Pick("file", g, rs) \in Seq(C)
             /\ Pick("file", g, rs \o batch) = Pick("file", g, rs) \o (IF g = f THEN batch ELSE <<>>)
  <2>1. \A r : Wanted("file", g, r) <=> r.file = g
      BY DEF Wanted
  <2>2. Pick("file", g, rs) \in Seq(C) /\ PickJoins("file", g, rs, batch)
      BY PickJoin
  <2>3. Pick("file", g, batch) = IF g = f THEN batch ELSE <<>>
    <3>1. CASE g = f
      <4>1. \A r \in ToSet(batch) : Wanted("file", g, r)
          BY <2>1, <3>1
      <4> QED
          BY <1>2, <3>1, <4>1, PickAll
    <3>2. CASE g # f
      <4>1. \A r \in ToSet(batch) : ~Wanted("file", g, r)
          BY <2>1, <3>2
      <4> QED
          BY <1>2, <3>2, <4>1, PickAll
    <3> QED
        BY <3>1, <3>2
  <2> QED
      BY <2>2, <2>3 DEF PickJoins
<1>4. ASSUME NEW g \in DOMAIN Logs, g # f
      PROVE  A(g) = B(g) /\ Len(Pick("file", g, rs \o batch)) = Len(Pick("file", g, rs))
  <2>1. {j \in DOMAIN now : now[j].filepath = g} = {j \in DOMAIN rows : rows[j].filepath = g}
      BY <1>4 DEF RowGrows
  <2>2. \A j \in {k \in DOMAIN rows : rows[k].filepath = g} : now[j].event_count = rows[j].event_count
      BY <1>4 DEF RowGrows
  <2>3. A(g) = B(g)
      BY <2>1, <2>2 DEF RowsFor
  <2>4. Pick("file", g, rs) \o <<>> = Pick("file", g, rs)
      BY <1>3, ConcatEmptySeq
  <2> QED
      BY <1>3, <1>4, <2>3, <2>4
<1>5. /\ IsTable(A(f)) /\ Size(A(f)) = Size(B(f)) + Len(batch) /\ Size(B(f)) \in Nat
  <2>1. DOMAIN A(f) = {j \in DOMAIN now : now[j].filepath = f}
        /\ DOMAIN B(f) = {j \in DOMAIN rows : rows[j].filepath = f}
      BY DEF RowsFor
  <2>2. /\ \A j \in DOMAIN A(f) : A(f)[j] = now[j].event_count
        /\ \A j \in DOMAIN B(f) : B(f)[j] = rows[j].event_count
      BY DEF RowsFor
  <2> HIDE DEF A, B
  <2>3. DOMAIN A(f) = DOMAIN B(f) \cup {i}
      BY <2>1 DEF RowGrows
  <2>4. Grown(A(f), B(f), i, Len(batch))
      BY <2>1, <2>2, <2>3 DEF RowGrows, Grown
  <2>5. IsTable(B(f))
      BY DEF LogHolds, B
  <2> QED
      BY <1>2, <2>4, <2>5, TableGrows
<1>6. Len(Pick("file", f, rs \o batch)) = Len(Pick("file", f, rs)) + Len(batch)
  <2> DEFINE p == Pick("file", f, rs)
  <2>1. p \in Seq(C) /\ Pick("file", f, rs \o batch) = p \o batch
      BY <1>3
  <2> HIDE DEF p
  <2>2. Len(p \o batch) = Len(p) + Len(batch)
      BY <2>1, ConcatProperties
  <2> QED
      BY <2>1, <2>2 DEF p
<1>7. \A g \in DOMAIN Logs : IsTable(B(g)) /\ Size(B(g)) = Len(Pick("file", g, rs))
    BY DEF LogHolds
<1> HIDE DEF A, B
<1>8. ASSUME NEW g \in DOMAIN Logs
      PROVE  IsTable(A(g)) /\ Size(A(g)) = Len(Pick("file", g, rs \o batch))
  <2>1. CASE g = f
      BY <1>5, <1>6, <1>7, <2>1
  <2>2. CASE g # f
      BY <1>4, <1>7, <2>2
  <2> QED
      BY <2>1, <2>2
<1> QED
    BY <1>1, <1>8 DEF LogHolds, A

(* No row that counts a record in scope is hidden by its computers.          *)
LEMMA Shown ==
    ASSUME NEW c \in Cmds, c.action = "log-metrics",
           NEW batch \in Seq(Scope(c)), batch # <<>>,
           NEW row, NEW was, row.computers = was \cup Computers(batch),
           was \cap c.exclude_computer = {}
    PROVE  ~IsHidden(row, c)
<1>1. ASSUME NEW r \in ToSet(batch)
      PROVE  /\ c.include_computer # {} => r.computer \in c.include_computer
             /\ r.computer \notin c.exclude_computer
  <2>1. r \in Scope(c)
      BY ListOf
  <2> QED
      BY <2>1 DEF Scope, is_filtered_by_computer_name, IsFilteredOut
<1>2. batch[1] \in ToSet(batch)
  <2>1. Len(batch) \in Nat \ {0} /\ DOMAIN batch = 1..Len(batch)
      OBVIOUS
  <2>2. 1 \in DOMAIN batch
      BY <2>1
  <2> QED
      BY <2>2 DEF ToSet
<1>3. Absent \notin c.include_computer
    BY CommandAssumption DEF Cmds
<1>4. c.include_computer # {} => row.computers \cap c.include_computer # {}
    BY <1>1, <1>2, <1>3 DEF Computers
<1>5. row.computers \cap c.exclude_computer = {}
    BY <1>1 DEF Computers
<1> QED
    BY <1>4, <1>5 DEF IsHidden

(* log-metrics accounts for one batch more: its row is a new one or an old   *)
(* one of the same file, and is not hidden.                                  *)
LEMMA LogStep ==
    ASSUME NEW c \in Cmds, c.action = "log-metrics", NEW rs \in Seq(Scope(c)),
           NEW st, DOMAIN st = DOMAIN EventMetrics, LogHolds(c, st.stats_logfile, rs),
           NEW batch \in Seq(Scope(c)), batch # <<>>, OfOneLog(batch)
    PROVE  LET y == logfile_stats_start(st, batch)
           IN  DOMAIN y = DOMAIN st /\ LogHolds(c, y.stats_logfile, rs \o batch)
               /\ y.counted_rec = st.counted_rec
<1> DEFINE rows == st.stats_logfile
           C == Scope(c)
           y == logfile_stats_start(st, batch)
           file == Head(batch).file
           fits == {i \in DOMAIN rows : rows[i].filepath = file
                                          /\ Head(batch).computer \in rows[i].computers}
           i == CHOOSE j \in fits : \A k \in fits : j <= k
           now == IF fits = {} THEN Append(rows, Each(update, LogMetrics(file), batch))
                  ELSE [rows EXCEPT ![i] = Each(update, rows[i], batch)]
<1>1. PICK f \in DOMAIN Logs : batch \in Seq(RecordsOf(f))
    BY DEF OfOneLog
<1>2. \A r \in ToSet(batch) : r.file = f
    BY <1>1, ListOf, RecordFacts
<1>3. file = f
  <2>1. Head(batch) \in ToSet(batch)
      BY <1>1, ListOf, ListTail
  <2> QED
      BY <1>2, <2>1
<1>4. y = [st EXCEPT !.stats_logfile = now]
    BY Zenon DEF logfile_stats_start
<1>5. y.stats_logfile = now /\ DOMAIN y = DOMAIN st /\ y.counted_rec = st.counted_rec
  <2>1. "stats_logfile" \in DOMAIN st
      BY DEF EventMetrics
  <2> HIDE DEF now, y
  <2> QED
      BY <1>4, <2>1
<1>6. IsList(rows) /\ \A j \in DOMAIN rows : IsRow(rows[j]) /\ ~IsHidden(rows[j], c)
    BY DEF LogHolds
<1>7. Len(rows) \in Nat /\ DOMAIN rows = 1..Len(rows)
    BY <1>6, ListFacts
<1>8. \E k : RowGrows(now, rows, k, f, Len(batch)) /\ ~IsHidden(now[k], c)
  <2>1. CASE fits = {}
    <3> DEFINE row == Each(update, LogMetrics(file), batch)
               lm == LogMetrics(file)
               k == Len(rows) + 1
    <3>1. IsRow(lm) /\ lm.filepath = f /\ lm.event_count = 0 /\ lm.computers = {}
        BY <1>3 DEF IsRow, LogMetrics
    <3> HIDE DEF lm
    <3>2. UpdateHolds(lm, row, batch)
        BY <1>1, <3>1, RowUpdated DEF lm
    <3> HIDE DEF row
    <3>3. now = Append(rows, row)
        BY <2>1 DEF row
    <3>4. IsList(now) /\ DOMAIN now = DOMAIN rows \cup {k} /\ now[k] = row
          /\ \A j \in DOMAIN rows : now[j] = rows[j]
      <4> DEFINE T == ToSet(rows) \cup {row}
      <4>1. rows \in Seq(T) /\ row \in T
          BY <1>6 DEF IsList, ToSet
      <4> HIDE DEF T, now
      <4>2. /\ now \in Seq(T) /\ Len(now) = Len(rows) + 1 /\ now[k] = row
            /\ \A j \in 1..Len(rows) : now[j] = rows[j]
          BY <3>3, <4>1, AppendProperties
      <4>3. DOMAIN now = 1..(Len(rows) + 1)
          BY <4>2
      <4> QED
          BY <1>7, <4>2, <4>3, ListOf
    <3>5. k \notin DOMAIN rows /\ Len(batch) \in Nat
        BY <1>7
    <3>6. IsRow(row) /\ row.filepath = f /\ row.event_count = Len(batch)
          /\ row.computers = {} \cup Computers(batch)
        BY <3>1, <3>2, <3>5 DEF UpdateHolds, IsRow
    <3> HIDE DEF now, k
    <3>7. RowGrows(now, rows, k, f, Len(batch))
        BY <3>4, <3>5, <3>6 DEF RowGrows
    <3>8. ~IsHidden(now[k], c)
      <4> DEFINE none == {}
      <4>1. now[k].computers = none \cup Computers(batch) /\ none \cap c.exclude_computer = {}
          BY <3>4, <3>6
      <4> HIDE DEF none
      <4> QED
          BY <4>1, Shown
    <3> QED
        BY <3>7, <3>8
  <2>2. CASE fits # {}
    <3> DEFINE row == Each(update, rows[i], batch)
    <3>1. i \in fits
      <4>1. fits \in SUBSET Nat
          BY <1>7
      <4> HIDE DEF fits
      <4>2. \E j \in fits : \A k \in fits : j <= k
          BY <2>2, <4>1, Smallest
      <4> QED
          BY <4>2
    <3>2. i \in DOMAIN rows /\ rows[i].filepath = f
        BY <1>3, <3>1
    <3>3. now = [rows EXCEPT ![i] = row]
        BY <2>2
    <3> HIDE DEF i, fits
    <3>4. UpdateHolds(rows[i], row, batch) /\ IsRow(rows[i]) /\ ~IsHidden(rows[i], c)
        BY <1>1, <1>6, <3>2, RowUpdated
    <3> HIDE DEF row, now
    <3>5. DOMAIN now = DOMAIN rows /\ now[i] = row
          /\ \A j \in DOMAIN rows : j # i => now[j] = rows[j]
        BY <3>2, <3>3
    <3>6. IsList(now)
      <4> DEFINE T == ToSet(rows) \cup {row}
      <4>1. rows \in Seq(T) /\ row \in T
          BY <1>6 DEF IsList, ToSet
      <4> HIDE DEF T
      <4>2. now \in Seq(T)
          BY <1>7, <3>2, <3>3, <4>1, ExceptSeq
      <4> QED
          BY <4>2, ListOf
    <3>7. Len(batch) \in Nat
        OBVIOUS
    <3>8. IsRow(row) /\ row.filepath = f /\ row.event_count = rows[i].event_count + Len(batch)
          /\ row.computers = rows[i].computers \cup Computers(batch)
        BY <3>2, <3>4, <3>7 DEF UpdateHolds, IsRow
    <3>9. RowGrows(now, rows, i, f, Len(batch))
        BY <3>2, <3>5, <3>6, <3>8 DEF RowGrows
    <3>10. rows[i].computers \cap c.exclude_computer = {}
        BY <3>4 DEF IsHidden
    <3>11. ~IsHidden(now[i], c)
        BY <3>5, <3>8, <3>10, Shown
    <3> QED
        BY <3>9, <3>11
  <2> QED
      BY <2>1, <2>2
<1> HIDE DEF now, rows, y
<1>9. LogHolds(c, now, rs \o batch)
    BY <1>2, <1>8, LogGrows DEF rows
<1> QED
    BY <1>5, <1>9 DEF y

Imaged(g, s) == [i \in DOMAIN s |-> g[s[i]]]

ImagesJoin(g, s, t) == Imaged(g, s \o t) = Imaged(g, s) \o Imaged(g, t)

(* Images of joined sequences are joined.                                    *)
LEMMA ImagedJoin ==
    ASSUME NEW C, NEW s \in Seq(C), NEW t \in Seq(C), NEW R, NEW g \in [C -> R]
    PROVE  /\ Imaged(g, s) \in Seq(R) /\ Imaged(g, t) \in Seq(R)
           /\ Len(Imaged(g, s)) = Len(s)
           /\ ImagesJoin(g, s, t)
<1> DEFINE u == s \o t
           a == Imaged(g, s)
           b == Imaged(g, t)
           d == Imaged(g, u)
           n == Len(s)
           m == Len(t)
<1>1. /\ u \in Seq(C) /\ Len(u) = n + m /\ n \in Nat /\ m \in Nat
      /\ \A i \in 1..n : u[i] = s[i]
      /\ \A i \in 1..m : u[n + i] = t[i]
    BY ConcatProperties
<1>2. ASSUME NEW v \in Seq(C)
      PROVE  /\ Imaged(g, v) \in Seq(R) /\ Len(Imaged(g, v)) = Len(v)
             /\ \A i \in 1..Len(v) : Imaged(g, v)[i] = g[v[i]]
  <2>1. Len(v) \in Nat /\ DOMAIN v = 1..Len(v) /\ \A i \in 1..Len(v) : v[i] \in C
      OBVIOUS
  <2>2. Imaged(g, v) \in [1..Len(v) -> R]
      BY <2>1 DEF Imaged
  <2>3. \A i \in 1..Len(v) : Imaged(g, v)[i] = g[v[i]]
      BY <2>1 DEF Imaged
  <2> QED
      BY <2>1, <2>2, <2>3
<1> HIDE DEF u
<1>3. /\ a \in Seq(R) /\ Len(a) = n /\ \A i \in 1..n : a[i] = g[s[i]]
      /\ b \in Seq(R) /\ Len(b) = m /\ \A i \in 1..m : b[i] = g[t[i]]
      /\ d \in Seq(R) /\ Len(d) = n + m /\ \A i \in 1..(n + m) : d[i] = g[u[i]]
    BY <1>1, <1>2
<1> HIDE DEF a, b, d, n, m
<1> DEFINE e == a \o b
<1>0. a \in Seq(R) /\ b \in Seq(R)
    BY <1>3
<1>40. /\ e \in Seq(R) /\ Len(e) = Len(a) + Len(b)
       /\ \A i \in 1..Len(a) : e[i] = a[i]
       /\ \A i \in 1..Len(b) : e[Len(a) + i] = b[i]
    BY <1>0, ConcatProperties
<1> HIDE DEF e
<1>4. /\ e \in Seq(R) /\ Len(e) = n + m
      /\ \A i \in 1..n : e[i] = a[i]
      /\ \A i \in 1..m : e[n + i] = b[i]
    BY <1>3, <1>40
<1>5. ASSUME NEW i \in 1..(n + m) PROVE d[i] = e[i]
  <2>1. CASE i \in 1..n
    <3>1. u[i] = s[i]
        BY <1>1, <2>1
    <3>2. d[i] = g[u[i]]
        BY <1>3
    <3>3. e[i] = a[i] /\ a[i] = g[s[i]]
        BY <1>3, <1>4, <2>1
    <3> QED
        BY <3>1, <3>2, <3>3
  <2>2. CASE i \notin 1..n
    <3>1. i - n \in 1..m /\ n + (i - n) = i
        BY <1>1, <2>2
    <3>2. u[i] = t[i - n] /\ e[i] = b[i - n] /\ b[i - n] = g[t[i - n]]
        BY <1>1, <1>3, <1>4, <3>1
    <3>3. d[i] = g[u[i]]
        BY <1>3
    <3> QED
        BY <3>2, <3>3
  <2> QED
      BY <2>1, <2>2
<1>6. d = e
    BY <1>3, <1>4, <1>5, SeqEqual
<1> QED
    BY <1>3, <1>6 DEF a, b, d, e, n, u, ImagesJoin

(* The rows of the hits of two batches are joined.                           *)
LEMMA HitRowsJoin ==
    ASSUME NEW C, NEW s \in Seq(C), NEW t \in Seq(C)
    PROVE  /\ \E R : HitRows(s) \in Seq(R) /\ HitRows(t) \in Seq(R)
           /\ Len(HitRows(s)) = Len(s)
           /\ HitRows(s \o t) = HitRows(s) \o HitRows(t)
           /\ ToSet(Infos(s \o t)) = ToSet(Infos(s)) \cup ToSet(Infos(t))
<1> DEFINE g == [r \in C |-> <<"hit", extract_search_event_info(r)>>]
           h == [r \in C |-> extract_search_event_info(r)]
           G == {g[r] : r \in C}
           H == {h[r] : r \in C}
<1>1. g \in [C -> G] /\ h \in [C -> H]
    OBVIOUS
<1>2. ASSUME NEW v \in Seq(C) PROVE HitRows(v) = Imaged(g, v) /\ Infos(v) = Imaged(h, v)
  <2>1. \A i \in DOMAIN v : v[i] \in C
      OBVIOUS
  <2>2. \A i \in DOMAIN v : g[v[i]] = <<"hit", extract_search_event_info(v[i])>>
                            /\ h[v[i]] = extract_search_event_info(v[i])
      BY <2>1
  <2> HIDE DEF g, h
  <2> QED
      BY <2>2 DEF HitRows, Infos, Imaged
<1> HIDE DEF g, h, G, H
<1>3. s \o t \in Seq(C)
    BY ConcatProperties
<1>4. /\ Imaged(g, s) \in Seq(G) /\ Imaged(g, t) \in Seq(G)
      /\ Len(Imaged(g, s)) = Len(s)
      /\ ImagesJoin(g, s, t)
    BY <1>1, ImagedJoin
<1>5. /\ Imaged(h, s) \in Seq(H) /\ Imaged(h, t) \in Seq(H)
      /\ ImagesJoin(h, s, t)
    BY <1>1, ImagedJoin
<1>6. ToSet(Infos(s \o t)) = ToSet(Infos(s)) \cup ToSet(Infos(t))
  <2> DEFINE a == Imaged(h, s)
             b == Imaged(h, t)
  <2>1. a \in Seq(H) /\ b \in Seq(H) /\ Infos(s \o t) = a \o b /\ Infos(s) = a /\ Infos(t) = b
      BY <1>2, <1>3, <1>5 DEF ImagesJoin
  <2> HIDE DEF a, b
  <2>2. ToSet(a \o b) = ToSet(a) \cup ToSet(b)
      BY <2>1, ListOf, ListJoin
  <2> QED
      BY <2>1, <2>2
<1>7. /\ HitRows(s) \in Seq(G) /\ HitRows(t) \in Seq(G) /\ Len(HitRows(s)) = Len(s)
      /\ HitRows(s \o t) = HitRows(s) \o HitRows(t)
    BY <1>2, <1>3, <1>4 DEF ImagesJoin
<1> QED
    BY <1>6, <1>7

(* The header is written once, before the first rows of any.                 *)
LEMMA HeaderJoin ==
    ASSUME NEW R, NEW a \in Seq(R), NEW b \in Seq(R)
    PROVE  WithHeader(TRUE, a) \o WithHeader(Len(a) = 0, b) = WithHeader(TRUE, a \o b)
<1>1. CASE a = <<>>
  <2>1. WithHeader(TRUE, a) = <<>> /\ WithHeader(Len(a) = 0, b) = WithHeader(TRUE, b)
      BY <1>1 DEF WithHeader
  <2>2. a \o b = b
      BY <1>1, ConcatEmptySeq
  <2> DEFINE T == R \cup {Header}
             c == WithHeader(TRUE, b)
  <2>3. c \in Seq(T)
    <3> DEFINE x == Header
    <3>1. x \in T /\ b \in Seq(T)
        OBVIOUS
    <3> HIDE DEF x, T
    <3>2. <<x>> \in Seq(T) /\ <<x>> \o b \in Seq(T)
        BY <3>1, ConcatProperties
    <3> QED
        BY <3>1, <3>2 DEF WithHeader, x
  <2> HIDE DEF c, T
  <2>4. <<>> \o c = c
      BY <2>3, ConcatEmptySeq
  <2> QED
      BY <2>1, <2>2, <2>4 DEF c
<1>2. CASE a # <<>>
  <2>1. Len(a) # 0
      BY <1>2
  <2> DEFINE T == R \cup {Header}
             x == Header
  <2>2. a \in Seq(T) /\ b \in Seq(T) /\ x \in T
      OBVIOUS
  <2>3. a \o b # <<>>
    <3>1. Len(a \o b) = Len(a) + Len(b) /\ Len(a) \in Nat /\ Len(b) \in Nat
        BY ConcatProperties
    <3> QED
        BY <2>1, <3>1
  <2>4. /\ WithHeader(TRUE, a) = <<x>> \o a /\ WithHeader(Len(a) = 0, b) = b
        /\ WithHeader(TRUE, a \o b) = <<x>> \o (a \o b)
      BY <1>2, <2>1, <2>3 DEF WithHeader
  <2> HIDE DEF T, x
  <2> DEFINE y == <<x>>
  <2>5. y \in Seq(T)
      BY <2>2
  <2> HIDE DEF y
  <2>6. (y \o a) \o b = y \o (a \o b)
      BY <2>2, <2>5, JoinAssociative
  <2> QED
      BY <2>4, <2>6 DEF y
<1> QED
    BY <1>1, <1>2

Searched(c, t, batch) ==
    [t EXCEPT !.search = search_start(t.search, batch, c),
              !.written = t.written \o written(t.search, batch, c)]
OnlySearched(u, t) ==
    /\ DOMAIN u = DOMAIN t /\ u.stats = t.stats /\ u.critical = t.critical
    /\ DOMAIN u.search = DOMAIN EventSearch
HitsThen(h, batch, c) == h \o Hits(batch, c)

(* A search accounts for the hits of one batch more.                         *)
LEMMA SearchStep ==
    ASSUME NEW c, NEW t, DOMAIN t = DOMAIN EmptyTimeline, DOMAIN t.search = DOMAIN EventSearch,
           NEW C, NEW h \in Seq(C), SearchHolds(c, t, h),
           NEW batch, Hits(batch, c) \in Seq(C)
    PROVE  LET u == Searched(c, t, batch)
           IN  OnlySearched(u, t) /\ SearchHolds(c, u, HitsThen(h, batch, c))
<1> DEFINE u == Searched(c, t, batch)
           k == Hits(batch, c)
           s == search_start(t.search, batch, c)
           w == written(t.search, batch, c)
           all == HitsThen(h, batch, c)
<1>1. /\ u.search = s /\ u.written = t.written \o w
      /\ DOMAIN u = DOMAIN t /\ u.stats = t.stats /\ u.critical = t.critical
  <2>1. {"search", "written", "stats", "critical"} \subseteq DOMAIN t
      BY DEF EmptyTimeline
  <2> HIDE DEF s, w
  <2> DEFINE j == t.written \o w
  <2> HIDE DEF j
  <2>2. u = [t EXCEPT !.search = s, !.written = j]
      BY DEF s, w, j, Searched
  <2> HIDE DEF u
  <2> QED
      BY <2>1, <2>2 DEF j
<1>2. /\ s.search_result = IF c.sort_events THEN t.search.search_result \cup ToSet(Infos(k))
                           ELSE t.search.search_result
      /\ s.search_result_cnt = t.search.search_result_cnt + Len(k)
      /\ DOMAIN s = DOMAIN EventSearch
  <2>1. {extract_search_event_info(k[i]) : i \in DOMAIN k} = ToSet(Infos(k))
      BY DEF Infos, ToSet
  <2> HIDE DEF k
  <2> QED
      BY <2>1 DEF search_start, EventSearch, k
<1>3. w = IF c.sort_events THEN <<>> ELSE WithHeader(t.search.search_result_cnt = 0, HitRows(k))
    BY DEF written, HitRows
<1>4. Len(h) \in Nat /\ Len(k) \in Nat /\ Len(all) = Len(h) + Len(k)
    BY ConcatProperties DEF HitsThen
<1>5. /\ t.search.search_result_cnt = Len(h)
      /\ t.search.search_result = IF c.sort_events THEN ToSet(Infos(h)) ELSE {}
      /\ t.written = IF c.sort_events THEN <<>> ELSE WithHeader(TRUE, HitRows(h))
    BY DEF SearchHolds
<1>6. /\ \E R : HitRows(h) \in Seq(R) /\ HitRows(k) \in Seq(R)
      /\ Len(HitRows(h)) = Len(h)
      /\ HitRows(all) = HitRows(h) \o HitRows(k)
      /\ ToSet(Infos(all)) = ToSet(Infos(h)) \cup ToSet(Infos(k))
    BY HitRowsJoin DEF HitsThen
<1>7. WithHeader(TRUE, HitRows(h)) \o WithHeader(Len(HitRows(h)) = 0, HitRows(k))
        = WithHeader(TRUE, HitRows(h) \o HitRows(k))
    BY <1>6, HeaderJoin
<1> HIDE DEF u, k, s, w, all
<1>8. CASE c.sort_events
  <2>1. <<>> \o <<>> = <<>>
      BY ConcatEmptySeq
  <2>2. u.written = <<>>
      BY <1>1, <1>3, <1>5, <1>8, <2>1
  <2>3. u.search.search_result = ToSet(Infos(all)) /\ u.search.search_result_cnt = Len(all)
      BY <1>1, <1>2, <1>4, <1>5, <1>6, <1>8
  <2>4. SearchHolds(c, u, all)
      BY <1>8, <2>2, <2>3 DEF SearchHolds
  <2> QED
      BY <1>1, <1>2, <2>4 DEF all, u, OnlySearched
<1>9. CASE ~c.sort_events
  <2> DEFINE a == WithHeader(TRUE, HitRows(h))
             b == WithHeader(Len(HitRows(h)) = 0, HitRows(k))
             d == WithHeader(TRUE, HitRows(all))
  <2>1. a \o b = d
      BY <1>6, <1>7
  <2>2. t.written = a /\ w = b
      BY <1>3, <1>5, <1>6, <1>9
  <2> HIDE DEF a, b, d
  <2>3. u.written = d
      BY <1>1, <2>1, <2>2
  <2>4. u.search.search_result = {} /\ u.search.search_result_cnt = Len(all)
      BY <1>1, <1>2, <1>4, <1>5, <1>9
  <2>5. SearchHolds(c, u, all)
      BY <1>9, <2>3, <2>4 DEF SearchHolds, d
  <2> QED
      BY <1>1, <1>2, <2>5 DEF all, u, OnlySearched
<1> QED
    BY <1>8, <1>9

-----------------------------------------------------------------------------
(* One batch more.                                                           *)

GoodBatch(c, b) == b \in Seq(Scope(c)) /\ b # <<>> /\ OfOneLog(b)

(* u is t but for one field.                                                 *)
Sets(u, t, field, v) ==
    /\ DOMAIN u = DOMAIN t /\ u[field] = v
    /\ \A g \in DOMAIN t : g # field => u[g] = t[g]

(* stats_time_cnt leaves the tables alone.                                   *)
LEMMA TimedStats ==
    ASSUME NEW st, DOMAIN st = DOMAIN EventMetrics, NEW batch
    PROVE  LET s == stats_time_cnt(st, batch)
           IN  /\ DOMAIN s = DOMAIN EventMetrics
               /\ s.stats_list = st.stats_list /\ s.successful = st.successful
               /\ s.failed = st.failed /\ s.counted_rec = st.counted_rec
               /\ s.stats_computer = st.stats_computer /\ s.stats_logfile = st.stats_logfile
<1> DEFINE s == stats_time_cnt(st, batch)
           a == check_start_end_time(st, Head(batch).time)
           b == check_start_end_time(a, Last(batch).time)
<1>1. \A x, v : DOMAIN x = DOMAIN EventMetrics =>
          LET y == check_start_end_time(x, v)
          IN  /\ DOMAIN y = DOMAIN EventMetrics
              /\ y.stats_list = x.stats_list /\ y.successful = x.successful
              /\ y.failed = x.failed /\ y.counted_rec = x.counted_rec
              /\ y.stats_computer = x.stats_computer /\ y.stats_logfile = x.stats_logfile
    BY DEF check_start_end_time, EventMetrics
<1>2. /\ DOMAIN b = DOMAIN EventMetrics
      /\ b.stats_list = st.stats_list /\ b.successful = st.successful
      /\ b.failed = st.failed /\ b.counted_rec = st.counted_rec
      /\ b.stats_computer = st.stats_computer /\ b.stats_logfile = st.stats_logfile
  <2>1. /\ DOMAIN a = DOMAIN EventMetrics
        /\ a.stats_list = st.stats_list /\ a.successful = st.successful
        /\ a.failed = st.failed /\ a.counted_rec = st.counted_rec
        /\ a.stats_computer = st.stats_computer /\ a.stats_logfile = st.stats_logfile
      BY <1>1
  <2> HIDE DEF a
  <2> QED
      BY <1>1, <2>1
<1>3. s = [b EXCEPT !.filepath = Head(batch).file, !.total = b.total + Len(batch)]
    BY DEF stats_time_cnt
<1> HIDE DEF a, b, s
<1>4. /\ DOMAIN s = DOMAIN EventMetrics
      /\ s.stats_list = st.stats_list /\ s.successful = st.successful
      /\ s.failed = st.failed /\ s.counted_rec = st.counted_rec
      /\ s.stats_computer = st.stats_computer /\ s.stats_logfile = st.stats_logfile
    BY <1>2, <1>3 DEF EventMetrics
<1> QED
    BY <1>4 DEF s

Timed(t, batch) == [t EXCEPT !.stats = stats_time_cnt(t.stats, batch)]

StatsMade(c, x, batch) ==
    CASE c.action = "eid-metrics" -> Eids(c, x, batch)
      [] c.action = "logon-summary" -> LogonsOver(c, x, batch)
      [] c.action = "log-metrics" -> logfile_stats_start(x, batch)

(* The commands for which Timeline.start does something.                     *)
Kinds ==
    Timelines \cup {"eid-metrics", "logon-summary", "log-metrics", "search", "extract-base64",
                    "config-critical-systems", "pivot-keywords-list"}

(* What Timeline.start does for each command, and which field it changes.    *)
LEMMA StartIs ==
    ASSUME NEW c, NEW t, DOMAIN t = DOMAIN EmptyTimeline, NEW batch
    PROVE  LET u == start(c, t, batch)
               timed == Timed(t, batch)
           IN  /\ Sets(timed, t, "stats", stats_time_cnt(t.stats, batch))
               /\ c.action \in {"eid-metrics", "logon-summary", "log-metrics"} =>
                    Sets(u, timed, "stats", StatsMade(c, timed.stats, batch))
               /\ c.action = "search" => u = Searched(c, t, batch)
               /\ c.action = "extract-base64" =>
                    Sets(u, t, "base64", t.base64 \o process_evtx_record_infos(batch))
               /\ c.action \in Timelines =>
                    Sets(u, timed, "detected", timed.detected \o batch)
               /\ c.action = "config-critical-systems" =>
                    Sets(u, t, "critical", Each(find_critical_computers, t.critical, batch))
               /\ c.action = "pivot-keywords-list" =>
                    Sets(u, t, "detected", t.detected \o batch)
               /\ c.action \notin Kinds => u = t
<1> DEFINE u == start(c, t, batch)
           st == stats_time_cnt(t.stats, batch)
           timed == Timed(t, batch)
           E1 == Each(LAMBDA x, r : stats_eventid(x, r, c), timed.stats, batch)
           E2 == Each(LAMBDA x, r : stats_login_eventid(x, r, c), timed.stats, batch)
           E3 == logfile_stats_start(timed.stats, batch)
           E4 == search_start(t.search, batch, c)
           W4 == t.written \o written(t.search, batch, c)
           E5 == t.base64 \o process_evtx_record_infos(batch)
           E6 == Each(find_critical_computers, t.critical, batch)
           E7 == timed.detected \o batch
           E8 == t.detected \o batch
<1>1. u = CASE c.action = "eid-metrics" -> [timed EXCEPT !.stats = E1]
            [] c.action = "logon-summary" -> [timed EXCEPT !.stats = E2]
            [] c.action = "log-metrics" -> [timed EXCEPT !.stats = E3]
            [] c.action = "search" -> [t EXCEPT !.search = E4, !.written = W4]
            [] c.action = "extract-base64" -> [t EXCEPT !.base64 = E5]
            [] c.action = "config-critical-systems" -> [t EXCEPT !.critical = E6]
            [] c.action \in Timelines -> [timed EXCEPT !.detected = E7]
            [] c.action = "pivot-keywords-list" -> [t EXCEPT !.detected = E8]
            [] OTHER -> t
    BY Zenon DEF start, Timed
<1>2. /\ c.action = "eid-metrics" => StatsMade(c, timed.stats, batch) = E1
      /\ c.action = "logon-summary" => StatsMade(c, timed.stats, batch) = E2
      /\ c.action = "log-metrics" => StatsMade(c, timed.stats, batch) = E3
    BY Zenon DEF StatsMade, Eids, LogonsOver
<1>3. {"stats", "search", "written", "base64", "critical", "detected"} \subseteq DOMAIN t
    BY DEF EmptyTimeline
<1>4. Sets(timed, t, "stats", st)
  <2> HIDE DEF st
  <2> QED
      BY <1>3 DEF Timed, Sets, st
<1>5. \A x, field, v : field \in DOMAIN x => Sets([x EXCEPT ![field] = v], x, field, v)
    BY DEF Sets
<1> DEFINE M == StatsMade(c, timed.stats, batch)
<1>6. u = [t EXCEPT !.search = E4, !.written = W4] \/ c.action # "search"
  <2> HIDE DEF u, timed, E1, E2, E3, E4, W4, E5, E6, E7, E8
  <2> QED
      BY <1>1 DEF Timelines
<1> HIDE DEF u, st, timed, E1, E2, E3, E4, W4, E5, E6, E7, E8, M
<1>7. DOMAIN timed = DOMAIN t
    BY <1>4 DEF Sets
<1>8. CASE c.action \in {"eid-metrics", "logon-summary", "log-metrics"}
  <2>1. u = [timed EXCEPT !.stats = M]
    <3>1. CASE c.action = "eid-metrics"
      <4>1. u = [timed EXCEPT !.stats = E1]
          BY <1>1, <3>1 DEF Timelines
      <4>2. M = E1
          BY <1>2, <3>1, Zenon DEF M
      <4> QED
          BY <4>1, <4>2
    <3>2. CASE c.action = "logon-summary"
      <4>1. u = [timed EXCEPT !.stats = E2]
          BY <1>1, <3>2 DEF Timelines
      <4>2. M = E2
          BY <1>2, <3>2, Zenon DEF M
      <4> QED
          BY <4>1, <4>2
    <3>3. CASE c.action = "log-metrics"
      <4>1. u = [timed EXCEPT !.stats = E3]
          BY <1>1, <3>3 DEF Timelines
      <4>2. M = E3
          BY <1>2, <3>3, Zenon DEF M
      <4> QED
          BY <4>1, <4>2
    <3> QED
        BY <1>8, <3>1, <3>2, <3>3
  <2>2. Sets(u, timed, "stats", M)
      BY <1>3, <1>5, <1>7, <2>1
  <2> QED
      BY <1>4, <1>8, <2>2 DEF u, timed, st, M, Timelines, Kinds
<1>9. CASE c.action = "search"
  <2>1. u = Searched(c, t, batch)
      BY <1>6, <1>9, Zenon DEF E4, W4, Searched
  <2> QED
      BY <1>4, <1>9, <2>1 DEF u, timed, st, Timelines, Kinds
<1>10. CASE c.action = "extract-base64"
  <2>1. u = [t EXCEPT !.base64 = E5]
      BY <1>1, <1>10 DEF Timelines
  <2>2. Sets(u, t, "base64", E5)
      BY <1>3, <1>5, <2>1
  <2> QED
      BY <1>4, <1>10, <2>2 DEF u, timed, st, E5, Timelines, Kinds
<1>11. CASE c.action \in Timelines
  <2>1. u = [timed EXCEPT !.detected = E7]
      BY <1>1, <1>11 DEF Timelines
  <2>2. Sets(u, timed, "detected", E7)
      BY <1>3, <1>5, <1>7, <2>1
  <2> QED
      BY <1>4, <1>11, <2>2 DEF u, timed, st, E7, Timelines, Kinds
<1>12. CASE c.action = "config-critical-systems"
  <2>1. u = [t EXCEPT !.critical = E6]
      BY <1>1, <1>12 DEF Timelines
  <2>2. Sets(u, t, "critical", E6)
      BY <1>3, <1>5, <2>1
  <2> QED
      BY <1>4, <1>12, <2>2 DEF u, timed, st, E6, Timelines, Kinds
<1>13. CASE c.action = "pivot-keywords-list"
  <2>1. u = [t EXCEPT !.detected = E8]
      BY <1>1, <1>13 DEF Timelines
  <2>2. Sets(u, t, "detected", E8)
      BY <1>3, <1>5, <2>1
  <2> QED
      BY <1>4, <1>13, <2>2 DEF u, timed, st, E8, Timelines, Kinds
<1>14. CASE c.action \notin Kinds
  <2>1. u = t
      BY <1>1, <1>14 DEF Kinds
  <2> QED
      BY <1>4, <1>14, <2>1 DEF u, timed, st, Kinds
<1> QED
    BY <1>8, <1>9, <1>10, <1>11, <1>12, <1>13, <1>14 DEF Kinds

(* The metrics account for one batch more.                                   *)
LEMMA StatsMore ==
    ASSUME NEW c \in Cmds, NEW t, NEW rs \in Seq(Scope(c)), TimelineHolds(c, t, rs),
           NEW b, GoodBatch(c, b),
           c.action \in {"eid-metrics", "logon-summary", "log-metrics"}
    PROVE  LET st == StatsMade(c, Timed(t, b).stats, b)
           IN  /\ DOMAIN st = DOMAIN EventMetrics
               /\ c.action = "eid-metrics" => EidHolds(c, st, Pick("id", 0, rs \o b))
               /\ c.action = "logon-summary" => LogonHolds(c, st, Pick("logon", 0, rs \o b))
               /\ c.action = "log-metrics" => LogHolds(c, st.stats_logfile, rs \o b)
<1> DEFINE C == Scope(c)
           x == Timed(t, b).stats
           st == StatsMade(c, x, b)
<1> SUFFICES /\ DOMAIN st = DOMAIN EventMetrics
             /\ c.action = "eid-metrics" => EidHolds(c, st, Pick("id", 0, rs \o b))
             /\ c.action = "logon-summary" => LogonHolds(c, st, Pick("logon", 0, rs \o b))
             /\ c.action = "log-metrics" => LogHolds(c, st.stats_logfile, rs \o b)
    OBVIOUS
<1>1. DOMAIN t = DOMAIN EmptyTimeline /\ DOMAIN t.stats = DOMAIN EventMetrics
    BY DEF TimelineHolds
<1>2. x = stats_time_cnt(t.stats, b)
    BY <1>1 DEF Timed, EmptyTimeline
<1> HIDE DEF x
<1>3. /\ DOMAIN x = DOMAIN EventMetrics
      /\ x.stats_list = t.stats.stats_list /\ x.successful = t.stats.successful
      /\ x.failed = t.stats.failed /\ x.counted_rec = t.stats.counted_rec
      /\ x.stats_logfile = t.stats.stats_logfile
    BY <1>1, <1>2, TimedStats
<1>4. b \in Seq(C) /\ b # <<>> /\ OfOneLog(b) /\ Len(b) \in Nat /\ rs \in Seq(C)
    BY DEF GoodBatch
<1>5. \A n \in 1..Len(b) : b[n] \in C
    BY <1>4
<1>6. CASE c.action = "eid-metrics"
  <2> DEFINE w == Pick("id", 0, rs)
  <2>1. EidHolds(c, t.stats, w)
      BY <1>6 DEF TimelineHolds
  <2>2. EidHolds(c, x, w)
    <3> HIDE DEF w
    <3> QED
        BY <1>3, <2>1 DEF EidHolds, Remembers
  <2>3. Holds("eid", c, x, rs)
      BY <2>2, HoldsIs
  <2>4. PICK f : Runs("eid", c, f, x, b) /\ Eids(c, x, b) = f[Len(b)]
      BY <1>4, EachEid
  <2>5. st = f[Len(b)]
    <3>1. st = Eids(c, x, b)
        BY <1>6, Zenon DEF StatsMade
    <3> HIDE DEF st
    <3> QED
        BY <2>4, <3>1, Zenon
  <2>6. \A n \in 1..Len(b) : Steps("eid", c, C, b[n], <<b[n]>>)
      BY <1>5, <1>6, EidStep
  <2> HIDE DEF C, st, w
  <2>7. Holds("eid", c, f[Len(b)], rs \o b)
      BY <1>4, <2>3, <2>4, <2>6, FoldEach
  <2>8. EidHolds(c, st, Pick("id", 0, rs \o b))
      BY <2>5, <2>7, HoldsIs
  <2> QED
      BY <1>6, <2>8 DEF EidHolds
<1>7. CASE c.action = "logon-summary"
  <2> DEFINE w == Pick("logon", 0, rs)
  <2>1. LogonHolds(c, t.stats, w)
      BY <1>7 DEF TimelineHolds
  <2>2. LogonHolds(c, x, w)
    <3> HIDE DEF w
    <3> QED
        BY <1>3, <2>1 DEF LogonHolds, Remembers
  <2>3. Holds("logon", c, x, rs)
      BY <2>2, HoldsIs
  <2>4. PICK f : Runs("logon", c, f, x, b) /\ LogonsOver(c, x, b) = f[Len(b)]
      BY <1>4, EachLogon
  <2>5. st = f[Len(b)]
    <3>1. st = LogonsOver(c, x, b)
        BY <1>7, Zenon DEF StatsMade
    <3> HIDE DEF st
    <3> QED
        BY <2>4, <3>1, Zenon
  <2> HIDE DEF C
  <2>6. \A n \in 1..Len(b) : Steps("logon", c, C, b[n], <<b[n]>>)
      BY <1>5, LogonStep
  <2> HIDE DEF st, w
  <2>7. Holds("logon", c, f[Len(b)], rs \o b)
      BY <1>4, <2>3, <2>4, <2>6, FoldEach
  <2>8. LogonHolds(c, st, Pick("logon", 0, rs \o b))
      BY <2>5, <2>7, HoldsIs
  <2> QED
      BY <1>7, <2>8 DEF LogonHolds
<1>8. CASE c.action = "log-metrics"
  <2>1. LogHolds(c, x.stats_logfile, rs)
      BY <1>3, <1>8 DEF TimelineHolds
  <2>2. st = logfile_stats_start(x, b)
      BY <1>8, Zenon DEF StatsMade
  <2> HIDE DEF C, st
  <2>3. DOMAIN st = DOMAIN x /\ LogHolds(c, st.stats_logfile, rs \o b)
      BY <1>3, <1>4, <1>8, <2>1, <2>2, LogStep DEF C
  <2> QED
      BY <1>3, <1>8, <2>3
<1> QED
    BY <1>6, <1>7, <1>8

(* Whatever the command, Timeline.start accounts for one batch more.         *)
LEMMA StartStep ==
    ASSUME NEW c \in Cmds, c.action # "computer-metrics", NEW b, GoodBatch(c, b)
    PROVE  Steps("start", c, Scope(c), b, b)
<1> DEFINE C == Scope(c)
<1> SUFFICES ASSUME NEW t, NEW rs \in Seq(C), TimelineHolds(c, t, rs)
             PROVE  TimelineHolds(c, start(c, t, b), rs \o b)
    BY HoldsIs, StepIs DEF Steps
<1> DEFINE u == start(c, t, b)
           q == rs \o b
           timed == Timed(t, b)
<1>1. /\ DOMAIN t = DOMAIN EmptyTimeline /\ DOMAIN t.stats = DOMAIN EventMetrics
      /\ DOMAIN t.search = DOMAIN EventSearch
      /\ c.action # "config-critical-systems" => t.critical = NoSystems
    BY DEF TimelineHolds
<1>2. {"stats", "search", "written", "base64", "critical", "detected"} \subseteq DOMAIN t
    BY <1>1 DEF EmptyTimeline
<1>3. b \in Seq(C) /\ rs \in Seq(C) /\ C \subseteq AllRecords
    BY DEF GoodBatch, Scope
<1>4. /\ DOMAIN timed = DOMAIN t /\ timed.search = t.search /\ timed.critical = t.critical
      /\ timed.detected = t.detected /\ timed.stats = stats_time_cnt(t.stats, b)
  <2> DEFINE v == stats_time_cnt(t.stats, b)
  <2> HIDE DEF v
  <2> QED
      BY <1>2 DEF Timed, v
<1>5. DOMAIN timed.stats = DOMAIN EventMetrics
  <2> HIDE DEF timed
  <2> QED
      BY <1>1, <1>4, TimedStats
<1> HIDE DEF u, timed, C
<1>6. CASE c.action \in {"eid-metrics", "logon-summary", "log-metrics"}
  <2> DEFINE st == StatsMade(c, timed.stats, b)
  <2>1. Sets(u, timed, "stats", st)
      BY <1>1, <1>6, StartIs DEF u, timed
  <2>2. /\ DOMAIN st = DOMAIN EventMetrics
        /\ c.action = "eid-metrics" => EidHolds(c, st, Pick("id", 0, q))
        /\ c.action = "logon-summary" => LogonHolds(c, st, Pick("logon", 0, q))
        /\ c.action = "log-metrics" => LogHolds(c, st.stats_logfile, q)
      BY <1>6, StatsMore DEF C, timed
  <2> HIDE DEF st, q
  <2>3. DOMAIN u = DOMAIN t /\ u.stats = st /\ u.search = t.search /\ u.critical = t.critical
      BY <1>2, <1>4, <2>1 DEF Sets
  <2>4. TimelineHolds(c, u, q)
      BY <1>1, <1>6, <2>2, <2>3 DEF TimelineHolds, Timelines
  <2> QED
      BY <2>4 DEF u, q
<1>7. CASE c.action = "search"
  <2> DEFINE h == Hits(rs, c)
  <2>1. OneQuery(c)
      BY CommandAssumption DEF Cmds, OneQuery
  <2>2. HitsJoin(rs, b, c) /\ h \in Seq(C) /\ Hits(b, c) \in Seq(C)
      BY <1>3, <2>1, HitsJoined
  <2>3. u = Searched(c, t, b)
      BY <1>1, <1>7, StartIs DEF u
  <2>4. SearchHolds(c, t, h)
      BY <1>7 DEF TimelineHolds
  <2> HIDE DEF h
  <2>5. /\ DOMAIN u = DOMAIN t /\ u.stats = t.stats /\ u.critical = t.critical
        /\ DOMAIN u.search = DOMAIN EventSearch
        /\ SearchHolds(c, u, HitsThen(h, b, c))
    <3>1. h \in Seq(C) /\ Hits(b, c) \in Seq(C)
        BY <2>2
    <3>2. DOMAIN t = DOMAIN EmptyTimeline /\ DOMAIN t.search = DOMAIN EventSearch
        BY <1>1
    <3> DEFINE v == Searched(c, t, b)
    <3>3. OnlySearched(v, t)
        BY <2>4, <3>1, <3>2, SearchStep
    <3>4. SearchHolds(c, v, HitsThen(h, b, c))
        BY <2>4, <3>1, <3>2, SearchStep
    <3> QED
        BY <2>3, <3>3, <3>4 DEF OnlySearched
  <2>6. HitsThen(h, b, c) = Hits(q, c)
      BY <2>2, Zenon DEF HitsJoin, HitsThen, h, q
  <2>7. SearchHolds(c, u, Hits(q, c))
      BY <2>5, <2>6, Zenon
  <2> HIDE DEF q
  <2>8. TimelineHolds(c, u, q)
      BY <1>1, <1>7, <2>5, <2>7 DEF TimelineHolds, Timelines
  <2> QED
      BY <2>8 DEF u, q
<1>8. CASE c.action = "extract-base64"
  <2> DEFINE v == t.base64 \o process_evtx_record_infos(b)
  <2>1. Sets(u, t, "base64", v)
      BY <1>1, <1>8, StartIs DEF u
  <2>2. t.base64 = process_evtx_record_infos(rs)
      BY <1>8 DEF TimelineHolds
  <2>3. v = process_evtx_record_infos(q)
    <3>1. rs \in Seq(AllRecords) /\ b \in Seq(AllRecords)
        BY <1>3
    <3>2. Joins("base64", 0, rs, b)
        BY <3>1, Base64Yields, MappedJoin
    <3>3. Mapped("base64", 0, q) = Mapped("base64", 0, rs) \o Mapped("base64", 0, b)
        BY <3>2, Zenon DEF Joins, q
    <3>4. /\ process_evtx_record_infos(q) = Mapped("base64", 0, q)
          /\ process_evtx_record_infos(rs) = Mapped("base64", 0, rs)
          /\ process_evtx_record_infos(b) = Mapped("base64", 0, b)
        BY MappedIs
    <3> QED
        BY <2>2, <3>3, <3>4, Zenon DEF v
  <2> HIDE DEF v, q
  <2>4. /\ DOMAIN u = DOMAIN t /\ u.base64 = v /\ u.stats = t.stats /\ u.search = t.search
        /\ u.critical = t.critical
      BY <1>2, <2>1 DEF Sets
  <2>5. TimelineHolds(c, u, q)
      BY <1>1, <1>8, <2>3, <2>4 DEF TimelineHolds, Timelines
  <2> QED
      BY <2>5 DEF u, q
<1>9. CASE c.action \in Timelines
  <2> DEFINE v == timed.detected \o b
  <2>1. Sets(u, timed, "detected", v)
      BY <1>1, <1>9, StartIs DEF u, timed
  <2>2. t.detected = rs
      BY <1>9 DEF TimelineHolds
  <2>3. v = q
      BY <1>4, <2>2
  <2> HIDE DEF v, q
  <2>4. /\ DOMAIN u = DOMAIN t /\ u.detected = v /\ u.stats = timed.stats /\ u.search = t.search
        /\ u.critical = t.critical
      BY <1>2, <1>4, <2>1 DEF Sets
  <2>5. TimelineHolds(c, u, q)
      BY <1>1, <1>5, <1>9, <2>3, <2>4 DEF TimelineHolds, Timelines
  <2> QED
      BY <2>5 DEF u, q
<1>10. CASE c.action \in {"config-critical-systems", "pivot-keywords-list"}
  <2> DEFINE v == Each(find_critical_computers, t.critical, b)
             w == t.detected \o b
  <2>1. /\ c.action = "config-critical-systems" => Sets(u, t, "critical", v)
        /\ c.action = "pivot-keywords-list" => Sets(u, t, "detected", w)
      BY <1>1, StartIs DEF u
  <2> HIDE DEF v, w, q
  <2>2. /\ DOMAIN u = DOMAIN t /\ u.stats = t.stats /\ u.search = t.search
        /\ c.action # "config-critical-systems" => u.critical = t.critical
      BY <1>2, <1>10, <2>1 DEF Sets
  <2>3. TimelineHolds(c, u, q)
      BY <1>1, <1>10, <2>2 DEF TimelineHolds, Timelines
  <2> QED
      BY <2>3 DEF u, q
<1>11. CASE c.action \notin Kinds
  <2>1. u = t
      BY <1>1, <1>11, StartIs DEF u
  <2> HIDE DEF q
  <2>2. TimelineHolds(c, u, q)
      BY <1>1, <1>11, <2>1 DEF TimelineHolds, Timelines, Kinds
  <2> QED
      BY <2>2 DEF u, q
<1> QED
    BY <1>6, <1>7, <1>8, <1>9, <1>10, <1>11 DEF Kinds

-----------------------------------------------------------------------------
(* The batches of a file.                                                    *)

(* Picking part by part picks of the whole.                                  *)
LEMMA PickFlat ==
    ASSUME NEW C, NEW P, NEW m \in Nat, AreParts(P, m, C), NEW k, NEW p,
           NEW Q, \A i \in 1..m : Q[i] = Pick(k, p, P[i])
    PROVE  AreParts(Q, m, C) /\ Flat(Q, m) = Pick(k, p, Flat(P, m))
<1>1. AreParts(Q, m, C)
  <2> SUFFICES ASSUME NEW i \in 1..m PROVE Q[i] \in Seq(C)
      BY DEF AreParts
  <2>1. P[i] \in Seq(C)
      BY DEF AreParts
  <2> QED
      BY <2>1, PickType
<1> DEFINE Good(n) == Flat(Q, n) = Pick(k, p, Flat(P, n))
           G == {n \in Nat : n <= m => Good(n)}
<1>2. 0 \in G
  <2>1. Flat(Q, 0) = <<>> /\ Flat(P, 0) = <<>> /\ Pick(k, p, <<>>) = <<>>
      BY FlatEmpty, PickEmpty
  <2>2. Good(0)
      BY <2>1, Zenon
  <2> QED
      BY <2>2
<1>3. ASSUME NEW n \in Nat, n \in G, n + 1 <= m PROVE Good(n + 1)
  <2>1. AreParts(P, n + 1, C) /\ AreParts(Q, n + 1, C) /\ Good(n) /\ n + 1 \in 1..m
      BY <1>1, <1>3 DEF AreParts
  <2>2. /\ Flat(P, n) \in Seq(C) /\ P[n + 1] \in Seq(C)
        /\ Flat(P, n + 1) = Flat(P, n) \o P[n + 1]
      BY <2>1, FlatStep
  <2>3. Flat(Q, n + 1) = Flat(Q, n) \o Q[n + 1]
      BY <2>1, FlatStep
  <2>4. PickJoins(k, p, Flat(P, n), P[n + 1])
      BY <2>2, PickJoin
  <2>5. Pick(k, p, Flat(P, n + 1)) = Pick(k, p, Flat(P, n)) \o Pick(k, p, P[n + 1])
      BY <2>2, <2>4, Zenon DEF PickJoins
  <2>6. Q[n + 1] = Pick(k, p, P[n + 1]) /\ Flat(Q, n) = Pick(k, p, Flat(P, n))
      BY <2>1
  <2> QED
      BY <2>3, <2>5, <2>6, Zenon
<1>4. \A n \in Nat : n \in G => n + 1 \in G
  <2> HIDE DEF Good
  <2> QED
      BY <1>3
<1>5. Nat \subseteq G
  <2> HIDE DEF G
  <2> QED
      BY <1>2, <1>4, Induction
<1> QED
    BY <1>1, <1>5

(* An item goes to the open batch or closes it, and no record is lost        *)
(* between.                                                                  *)
LEMMA BatchStep ==
    ASSUME NEW f \in DOMAIN Logs, NEW c, NEW item \in ItemsIn(f)
    PROVE  LET q == Unfiltered(RecordsIn(<<item>>), f, c)
           IN  q \in Seq(Kept(f, c)) /\ Steps("batch", <<f, c>>, Kept(f, c), item, q)
<1> DEFINE K == Kept(f, c)
           q == Unfiltered(RecordsIn(<<item>>), f, c)
<1>1. q \in Seq(K)
  <2> DEFINE s == RecordsIn(<<item>>)
  <2>1. Part("records", 0, item) \in Seq(RecordsOf(f))
      BY RecordFacts DEF Yields
  <2>2. s = Part("records", 0, item)
      BY <2>1, MappedIs, MappedOne
  <2> HIDE DEF s
  <2>3. Pick("scope", <<c, InJson(f)>>, s)
            \in Seq({r \in RecordsOf(f) : Wanted("scope", <<c, InJson(f)>>, r)})
      BY <2>1, <2>2, PickType
  <2>4. {r \in RecordsOf(f) : Wanted("scope", <<c, InJson(f)>>, r)} = K
      BY DEF Wanted, Kept
  <2>5. q = Pick("scope", <<c, InJson(f)>>, s)
      BY PickIs DEF s
  <2> QED
      BY <2>3, <2>4, <2>5
<1> HIDE DEF q, K
<1>2. ASSUME NEW x, NEW rs \in Seq(K), BatchHolds(<<f, c>>, x, rs)
      PROVE  BatchHolds(<<f, c>>, BatchAdded(f, c, x, item), rs \o q)
  <2> DEFINE b == x.open \o q
             B == Seq(K) \ {<<>>}
             full == x.full
             open == x.open
             y == BatchAdded(f, c, x, item)
  <2>1. full \in Seq(B) /\ open \in Seq(K) /\ FlattenSeq(full) \o open = rs
      BY <1>2 DEF BatchHolds, K
  <2>2. y = IF Len(b) >= MAX_DETECT_RECORDS
            THEN [full |-> Append(full, b), open |-> <<>>] ELSE [full |-> full, open |-> b]
      BY Zenon DEF BatchAdded, q
  <2> HIDE DEF full, open
  <2>3. full \in Seq(Seq(K))
      BY <2>1
  <2>4. b = open \o q
      BY DEF open
  <2> HIDE DEF b, y
  <2>5. b \in Seq(K)
      BY <1>1, <2>1, <2>4, ConcatProperties
  <2>6. FlattenSeq(full) \in Seq(K) /\ FlattenSeq(Append(full, b)) = FlattenSeq(full) \o b
      BY <2>3, <2>5, FlattenAppend
  <2> DEFINE flat == FlattenSeq(full)
  <2> HIDE DEF flat
  <2>7. (flat \o open) \o q = flat \o (open \o q)
    <3>1. flat \in Seq(K) /\ open \in Seq(K) /\ q \in Seq(K)
        BY <1>1, <2>1, <2>6 DEF flat
    <3> QED
        BY <3>1, JoinAssociative
  <2>8. flat \o b = rs \o q
      BY <2>1, <2>4, <2>7, Zenon DEF flat
  <2>9. CASE Len(b) >= MAX_DETECT_RECORDS
    <3>1. y.full = Append(full, b) /\ y.open = <<>>
        BY <2>2, <2>9
    <3>2. b # <<>>
        BY <2>5, <2>9, CommandAssumption
    <3>3. Append(full, b) \in Seq(B)
        BY <2>1, <2>5, <3>2
    <3>4. FlattenSeq(Append(full, b)) = flat \o b
        BY <2>6 DEF flat
    <3>5. flat \o b \in Seq(K)
        BY <2>5, <2>6, ConcatProperties DEF flat
    <3> DEFINE all == flat \o b
    <3> HIDE DEF all
    <3>6. all \o <<>> = all
        BY <3>5, ConcatEmptySeq DEF all
    <3>7. FlattenSeq(y.full) \o y.open = all
        BY <3>1, <3>4, <3>6, Zenon DEF all
    <3>8. all = rs \o q
        BY <2>8 DEF all
    <3>9. <<>> \in Seq(K)
        OBVIOUS
    <3> HIDE DEF B
    <3> DEFINE e == rs \o q
    <3> HIDE DEF e
    <3>10. y.full \in Seq(B) /\ y.open \in Seq(K) /\ FlattenSeq(y.full) \o y.open = e
        BY <3>1, <3>3, <3>7, <3>8, <3>9 DEF e
    <3>11. BatchHolds(<<f, c>>, y, e)
        BY <3>10 DEF BatchHolds, B, K
    <3> QED
        BY <3>11, Zenon DEF e, y
  <2>10. CASE ~(Len(b) >= MAX_DETECT_RECORDS)
    <3>1. y.full = full /\ y.open = b
        BY <2>2, <2>10
    <3> HIDE DEF B
    <3> DEFINE e == rs \o q
    <3>2. FlattenSeq(y.full) \o y.open = e
        BY <2>8, <3>1, Zenon DEF flat
    <3> HIDE DEF e
    <3>3. y.full \in Seq(B) /\ y.open \in Seq(K) /\ FlattenSeq(y.full) \o y.open = e
        BY <2>1, <2>5, <3>1, <3>2
    <3>4. BatchHolds(<<f, c>>, y, e)
        BY <3>3 DEF BatchHolds, B, K
    <3> QED
        BY <3>4, Zenon DEF e, y
  <2> QED
      BY <2>9, <2>10
<1>3. ASSUME NEW x, NEW rs \in Seq(K), Holds("batch", <<f, c>>, x, rs)
      PROVE  Holds("batch", <<f, c>>, StepOf("batch", <<f, c>>, x, item), rs \o q)
  <2>1. BatchHolds(<<f, c>>, x, rs)
      BY <1>3, HoldsIs
  <2>2. BatchHolds(<<f, c>>, BatchAdded(f, c, x, item), rs \o q)
      BY <1>2, <2>1
  <2>3. StepOf("batch", <<f, c>>, x, item) = BatchAdded(f, c, x, item)
      BY StepIs
  <2> DEFINE e == rs \o q
             y == BatchAdded(f, c, x, item)
  <2> HIDE DEF e, y
  <2>4. BatchHolds(<<f, c>>, y, e)
      BY <2>2, Zenon DEF e, y
  <2>5. Holds("batch", <<f, c>>, y, e)
      BY <2>4, HoldsIs
  <2> QED
      BY <2>3, <2>5, Zenon DEF e, y
<1>4. Steps("batch", <<f, c>>, K, item, q)
    BY <1>3 DEF Steps
<1> QED
    BY <1>1, <1>4 DEF q, K

(* The batches of a file, one behind the other, are its unfiltered records.  *)
LEMMA BatchesAre ==
    ASSUME NEW f \in DOMAIN Logs, NEW c
    PROVE  /\ Batches(f, c) \in Seq(Seq(Kept(f, c)) \ {<<>>})
           /\ FlattenSeq(Batches(f, c)) = Unfiltered(RecordsIn(ItemsOf(f, c)), f, c)
<1> DEFINE K == Kept(f, c)
           B == Seq(K) \ {<<>>}
           R == RecordsOf(f)
           s == ItemsOf(f, c)
           P == Parts("records", 0, s)
           Q == [i \in DOMAIN s |-> Unfiltered(RecordsIn(<<s[i]>>), f, c)]
           p == <<c, InJson(f)>>
           none == [full |-> <<>>, open |-> <<>>]
           all == Batched(f, c, none, s)
<1>1. s \in Seq(ItemsIn(f)) /\ Len(s) \in Nat /\ DOMAIN s = 1..Len(s)
      /\ \A i \in 1..Len(s) : s[i] \in ItemsIn(f)
  <2>1. s \in Seq(ItemsIn(f))
      BY ItemsAre
  <2> HIDE DEF s
  <2> QED
      BY <2>1
<1>2. Yields("records", 0, ItemsIn(f), R)
    BY RecordFacts
<1>3. /\ AreParts(P, Len(s), R) /\ RecordsIn(s) = Flat(P, Len(s))
  <2> HIDE DEF s
  <2>1. AreParts(P, Len(s), R) /\ Mapped("records", 0, s) = Flat(P, Len(s))
      BY <1>1, <1>2, MappedParts
  <2>2. RecordsIn(s) = Mapped("records", 0, s)
      BY MappedIs
  <2> HIDE DEF P
  <2> QED
      BY <2>1, <2>2
<1> HIDE DEF s
<1>4. ASSUME NEW i \in 1..Len(s) PROVE Q[i] = Pick("scope", p, P[i])
  <2>1. s[i] \in ItemsIn(f) /\ i \in DOMAIN s
      BY <1>1
  <2>2. Part("records", 0, s[i]) \in Seq(R)
      BY <1>2, <2>1 DEF Yields
  <2>3. RecordsIn(<<s[i]>>) = Part("records", 0, s[i])
      BY <2>2, MappedIs, MappedOne
  <2>4. P[i] = Part("records", 0, s[i])
      BY <2>1 DEF Parts
  <2>5. Q[i] = Unfiltered(RecordsIn(<<s[i]>>), f, c)
      BY <2>1
  <2> HIDE DEF P, Q
  <2> QED
      BY <2>3, <2>4, <2>5, PickIs
<1> HIDE DEF P, p
<1>5. AreParts(Q, Len(s), R) /\ Flat(Q, Len(s)) = Pick("scope", p, Flat(P, Len(s)))
  <2> HIDE DEF Q
  <2> QED
      BY <1>1, <1>3, <1>4, PickFlat
<1>6. Flat(Q, Len(s)) = Unfiltered(RecordsIn(s), f, c)
  <2>1. Unfiltered(RecordsIn(s), f, c) = Pick("scope", p, RecordsIn(s))
      BY PickIs DEF p
  <2> QED
      BY <1>3, <1>5, <2>1, Zenon
<1>7. ASSUME NEW n \in 1..Len(s)
      PROVE  Q[n] \in Seq(K) /\ Steps("batch", <<f, c>>, K, s[n], Q[n])
  <2>1. s[n] \in ItemsIn(f) /\ Q[n] = Unfiltered(RecordsIn(<<s[n]>>), f, c)
      BY <1>1
  <2> HIDE DEF Q, K
  <2> QED
      BY <2>1, BatchStep DEF K
<1>8. AreParts(Q, Len(s), K)
    BY <1>7 DEF AreParts
<1>9. PICK g : Runs("batch", <<f, c>>, g, none, s) /\ all = g[Len(s)]
  <2> HIDE DEF none, all
  <2> QED
      BY <1>1, EachBatch DEF all
<1>10. Holds("batch", <<f, c>>, none, <<>>)
  <2>1. FlattenSeq(<<>>) \o <<>> = <<>>
    <3>1. FlattenSeq(<<>>) = <<>>
      <4>1. Flat(P, 0) = FlattenSeq(<<>>)
        <5>1. [i \in 1..0 |-> P[i]] = <<>>
            OBVIOUS
        <5> QED
            BY <5>1 DEF Flat
      <4> QED
          BY <4>1, FlatEmpty
    <3> QED
        BY <3>1, ConcatEmptySeq
  <2>2. none.full = <<>> /\ none.open = <<>>
      OBVIOUS
  <2> HIDE DEF none
  <2>3. BatchHolds(<<f, c>>, none, <<>>)
      BY <2>1, <2>2 DEF BatchHolds
  <2> QED
      BY <2>3, HoldsIs
<1> HIDE DEF Q, K, none, all
<1>11. Holds("batch", <<f, c>>, g[Len(s)], <<>> \o Flat(Q, Len(s)))
  <2>1. <<>> \in Seq(K)
      OBVIOUS
  <2> QED
      BY <1>1, <1>7, <1>8, <1>9, <1>10, <2>1, Fold
<1> DEFINE v == Flat(Q, Len(s))
<1>12. BatchHolds(<<f, c>>, all, v)
  <2>1. Flat(Q, Len(s)) \in Seq(K)
      BY <1>1, <1>8, FlatType
  <2>2. <<>> \o v = v
      BY <2>1, ConcatEmptySeq
  <2>3. Holds("batch", <<f, c>>, g[Len(s)], v)
      BY <1>11, <2>2, Zenon
  <2> HIDE DEF v
  <2> QED
      BY <1>9, <2>3, HoldsIs
<1> HIDE DEF v
<1>13. all.full \in Seq(B) /\ all.open \in Seq(K) /\ FlattenSeq(all.full) \o all.open = v
    BY <1>12 DEF BatchHolds, K
<1>14. Batches(f, c) = IF all.open = <<>> THEN all.full ELSE Append(all.full, all.open)
    BY Zenon DEF Batches, Batched, all, none, s
<1> DEFINE full == all.full
           open == all.open
<1> HIDE DEF full, open
<1>15. full \in Seq(B) /\ open \in Seq(K) /\ FlattenSeq(full) \o open = v
    BY <1>13 DEF full, open
<1>16. full \in Seq(Seq(K))
    BY <1>15
<1>17. FlattenSeq(full) \in Seq(K) /\ FlattenSeq(Append(full, open)) = FlattenSeq(full) \o open
    BY <1>15, <1>16, FlattenAppend
<1>18. Batches(f, c) \in Seq(B) /\ FlattenSeq(Batches(f, c)) = v
  <2>1. CASE open = <<>>
    <3>1. Batches(f, c) = full
        BY <1>14, <2>1 DEF full, open
    <3> DEFINE w == FlattenSeq(full)
    <3>2. w \in Seq(K)
        BY <1>17
    <3> HIDE DEF w
    <3>3. w \o <<>> = w
        BY <3>2, ConcatEmptySeq
    <3>4. w = v
        BY <1>15, <2>1, <3>3, Zenon DEF w
    <3> HIDE DEF B
    <3> QED
        BY <1>15, <3>1, <3>4 DEF w
  <2>2. CASE open # <<>>
    <3>1. Batches(f, c) = Append(full, open)
        BY <1>14, <2>2 DEF full, open
    <3>2. Append(full, open) \in Seq(B)
        BY <1>15, <2>2
    <3> HIDE DEF B
    <3>3. FlattenSeq(Append(full, open)) = v
        BY <1>15, <1>17, Zenon
    <3> QED
        BY <3>1, <3>2, <3>3, Zenon
  <2> QED
      BY <2>1, <2>2
<1> QED
    BY <1>6, <1>18, Zenon DEF v, K, s, B

-----------------------------------------------------------------------------
(* One file more.                                                            *)

(* What TimelineHolds says only of the tables.                               *)
LEMMA TablesOnly ==
    ASSUME NEW c, NEW t, NEW rs, TimelineHolds(c, t, rs), NEW u,
           Sets(u, t, "total_record_cnt", u.total_record_cnt)
    PROVE  TimelineHolds(c, u, rs)
<1>1. DOMAIN t = DOMAIN EmptyTimeline
    BY DEF TimelineHolds
<1>2. {"stats", "search", "written", "base64", "critical", "detected"} \subseteq DOMAIN t
    BY <1>1 DEF EmptyTimeline
<1>3. /\ DOMAIN u = DOMAIN t /\ u.stats = t.stats /\ u.search = t.search /\ u.written = t.written
      /\ u.base64 = t.base64 /\ u.critical = t.critical /\ u.detected = t.detected
    BY <1>2 DEF Sets
<1>4. \A hits : SearchHolds(c, t, hits) => SearchHolds(c, u, hits)
    BY <1>3 DEF SearchHolds
<1> QED
    BY <1>3, <1>4 DEF TimelineHolds

(* A record of a batch is in scope.                                          *)
LEMMA KeptInScope ==
    ASSUME NEW f \in DOMAIN Logs, NEW c
    PROVE  Kept(f, c) \subseteq Scope(c) /\ Kept(f, c) \subseteq RecordsOf(f)
<1>1. RecordsOf(f) \subseteq AllRecords
    BY RecordFacts
<1>2. ASSUME NEW r \in Kept(f, c) PROVE r \in Scope(c)
  <2>1. r \in AllRecords /\ ~is_filtered_record(r, c, InJson(f))
      BY <1>1 DEF Kept
  <2>2. c.action # "search" => ~is_filtered_by_computer_name(r, c)
      BY <2>1 DEF is_filtered_record
  <2> QED
      BY <2>1, <2>2 DEF Scope
<1> QED
    BY <1>2 DEF Kept

(* The part of analysis_file that goes through the batches.                  *)
LEMMA BatchesHold ==
    ASSUME NEW c \in Cmds, c.action # "computer-metrics", NEW f \in DOMAIN Logs,
           NEW t, NEW rs \in Seq(Scope(c)), TimelineHolds(c, t, rs)
    PROVE  /\ ScopeOf(c, f) \in Seq(Scope(c))
           /\ TimelineHolds(c, Starts(c, t, Batches(f, c)), rs \o ScopeOf(c, f))
<1> DEFINE K == Kept(f, c)
           C == Scope(c)
           s == Batches(f, c)
           more == ScopeOf(c, f)
<1>1. s \in Seq(Seq(K) \ {<<>>}) /\ FlattenSeq(s) = more
    BY BatchesAre DEF ScopeOf
<1>2. K \subseteq C /\ K \subseteq RecordsOf(f)
    BY KeptInScope
<1> HIDE DEF s, more
<1>3. s \in Seq(Seq(C)) /\ Len(s) \in Nat
    /\ \A n \in 1..Len(s) : s[n] \in Seq(K) \ {<<>>}
  <2>1. Seq(K) \ {<<>>} \subseteq Seq(C)
      BY <1>2
  <2> DEFINE B == Seq(K) \ {<<>>}
  <2>2. s \in Seq(B)
      BY <1>1
  <2> HIDE DEF B
  <2>3. \A n \in 1..Len(s) : s[n] \in B
      BY <2>2
  <2>4. B \subseteq Seq(C)
      BY <2>1 DEF B
  <2> HIDE DEF C
  <2>5. s \in Seq(Seq(C)) /\ Len(s) \in Nat
      BY <2>2, <2>4
  <2> QED
      BY <2>3, <2>5 DEF B
<1> HIDE DEF C
<1>4. AreParts(s, Len(s), C) /\ FlattenSeq(s) = Flat(s, Len(s)) /\ FlattenSeq(s) \in Seq(C)
    BY <1>3, FlattenParts
<1>5. ASSUME NEW n \in 1..Len(s) PROVE Steps("start", c, C, s[n], s[n])
  <2>1. s[n] \in Seq(K) /\ s[n] # <<>>
      BY <1>3
  <2>2. s[n] \in Seq(C) /\ s[n] \in Seq(RecordsOf(f))
    <3> HIDE DEF K
    <3> QED
        BY <1>2, <2>1
  <2>3. GoodBatch(c, s[n])
      BY <2>1, <2>2 DEF GoodBatch, OfOneLog, C
  <2> QED
      BY <2>3, StartStep DEF C
<1>6. PICK g : Runs("start", c, g, t, s) /\ Starts(c, t, s) = g[Len(s)]
    BY <1>3, EachStart
<1>7. Holds("start", c, t, rs)
    BY HoldsIs
<1>8. rs \in Seq(C)
    BY DEF C
<1>9. Holds("start", c, g[Len(s)], rs \o Flat(s, Len(s)))
    BY <1>3, <1>4, <1>5, <1>6, <1>7, <1>8, Fold
<1> DEFINE q == rs \o more
<1>10. Holds("start", c, Starts(c, t, s), q)
    BY <1>1, <1>4, <1>6, <1>9, Zenon
<1> HIDE DEF q
<1>11. TimelineHolds(c, Starts(c, t, s), q)
    BY <1>10, HoldsIs
<1>12. more \in Seq(C)
    BY <1>1, <1>4
<1> QED
    BY <1>11, <1>12, Zenon DEF q, more, s, C

(* computer-metrics makes nothing of the batches.                            *)
LEMMA NothingStarts ==
    ASSUME NEW c, c.action = "computer-metrics", NEW t, DOMAIN t = DOMAIN EmptyTimeline,
           NEW s, Len(s) \in Nat
    PROVE  Starts(c, t, s) = t
<1>1. PICK g : Runs("start", c, g, t, s) /\ Starts(c, t, s) = g[Len(s)]
    BY EachStart
<1> DEFINE G == {n \in Nat : n <= Len(s) => g[n] = t}
<1>2. 0 \in G
    BY <1>1 DEF Runs
<1>3. ASSUME NEW n \in Nat, n \in G, n + 1 <= Len(s) PROVE g[n + 1] = t
  <2>1. n + 1 \in 1..Len(s) /\ (n + 1) - 1 = n /\ g[n] = t
      BY <1>3
  <2>2. g[n + 1] = StepOf("start", c, t, s[n + 1])
      BY <1>1, <2>1 DEF Runs
  <2>3. g[n + 1] = start(c, t, s[n + 1])
      BY <2>2, StepIs
  <2>4. c.action \notin Kinds
      BY DEF Kinds, Timelines
  <2> QED
      BY <2>3, <2>4, StartIs
<1>4. \A n \in Nat : n \in G => n + 1 \in G
    BY <1>3
<1>5. Nat \subseteq G
  <2> HIDE DEF G
  <2> QED
      BY <1>2, <1>4, Induction
<1> QED
    BY <1>1, <1>5

(* analysis_file accounts for one file more.                                 *)
LEMMA FileStep ==
    ASSUME NEW c \in Cmds, NEW f \in DOMAIN Logs,
           NEW t, NEW rs \in Seq(Scope(c)), TimelineHolds(c, t, rs)
    PROVE  /\ ScopeOf(c, f) \in Seq(Scope(c))
           /\ TimelineHolds(c, analysis_file(c, t, f), rs \o ScopeOf(c, f))
<1> DEFINE counted == IF c.action = "computer-metrics"
                      THEN Each(countup_event_by_computer, t.stats, RecordsIn(ItemsOf(f, c)))
                      ELSE t.stats
           x == [t EXCEPT !.stats = counted]
           s == Batches(f, c)
           y == Starts(c, x, s)
           n == record_cnt(f, c)
           u == [y EXCEPT !.total_record_cnt = y.total_record_cnt + n]
           q == rs \o ScopeOf(c, f)
<1>1. analysis_file(c, t, f) = u
    BY Zenon DEF analysis_file, Starts
<1>2. DOMAIN t = DOMAIN EmptyTimeline /\ DOMAIN t.stats = DOMAIN EventMetrics
      /\ DOMAIN t.search = DOMAIN EventSearch
    BY DEF TimelineHolds
<1>3. ASSUME TimelineHolds(c, y, q) PROVE TimelineHolds(c, u, q)
  <2>1. DOMAIN y = DOMAIN EmptyTimeline
      BY <1>3 DEF TimelineHolds
  <2> HIDE DEF y, n, q
  <2>2. Sets(u, y, "total_record_cnt", u.total_record_cnt)
    <3> DEFINE m == y.total_record_cnt + n
    <3> HIDE DEF m
    <3>1. u = [y EXCEPT !.total_record_cnt = m]
        BY DEF m
    <3> QED
        BY <2>1, <3>1 DEF Sets
  <2> HIDE DEF u
  <2> QED
      BY <1>3, <2>2, TablesOnly
<1>4. Sets(x, t, "stats", counted)
  <2> HIDE DEF counted
  <2> QED
      BY <1>2 DEF Sets, EmptyTimeline
<1>5. DOMAIN x = DOMAIN EmptyTimeline /\ x.stats = counted /\ x.search = t.search
      /\ x.written = t.written /\ x.base64 = t.base64 /\ x.critical = t.critical
      /\ x.detected = t.detected
  <2>1. {"stats", "search", "written", "base64", "critical", "detected"} \subseteq DOMAIN t
      BY <1>2 DEF EmptyTimeline
  <2> HIDE DEF counted, x
  <2> QED
      BY <1>2, <1>4, <2>1 DEF Sets
<1>6. CASE c.action = "computer-metrics"
  <2> DEFINE C == Scope(c)
             w == RecordsIn(ItemsOf(f, c))
  <2>1. w \in Seq(C)
    <3>1. RecordsOf(f) \subseteq AllRecords /\ w \in Seq(RecordsOf(f))
        BY RecordFacts, ItemsAre
    <3>2. C = AllRecords
        BY <1>6 DEF Scope
    <3> HIDE DEF w, C
    <3> QED
        BY <3>1, <3>2
  <2>2. ScopeOf(c, f) = w
      BY <1>6 DEF ScopeOf
  <2>3. counted = Each(countup_event_by_computer, t.stats, w)
      BY <1>6
  <2> HIDE DEF w, C
  <2>4. Len(w) \in Nat /\ \A i \in 1..Len(w) : w[i] \in C
      BY <2>1
  <2>5. PICK g : Runs("computer", c, g, t.stats, w)
                 /\ Each(countup_event_by_computer, t.stats, w) = g[Len(w)]
      BY <2>4, EachComputer, Zenon
  <2>6. Holds("computer", c, t.stats, rs)
    <3>1. ComputerHolds(t.stats, rs)
        BY <1>6 DEF TimelineHolds
    <3> QED
        BY <3>1, HoldsIs
  <2>7. \A i \in 1..Len(w) : Steps("computer", c, C, w[i], <<w[i]>>)
      BY <2>4, ComputerStep
  <2>8. Holds("computer", c, g[Len(w)], rs \o w)
    <3>1. rs \in Seq(C)
        BY DEF C
    <3> QED
        BY <2>1, <2>5, <2>6, <2>7, <3>1, FoldEach
  <2> DEFINE e == rs \o w
  <2>9. counted = g[Len(w)]
      BY <2>3, <2>5, Zenon
  <2> HIDE DEF counted
  <2>10. Holds("computer", c, counted, e)
      BY <2>8, <2>9, Zenon
  <2> HIDE DEF e
  <2>11. ComputerHolds(counted, e)
      BY <2>10, HoldsIs
  <2>12. y = x
    <3>1. Len(s) \in Nat
      <4>1. s \in Seq(Seq(Kept(f, c)) \ {<<>>})
          BY BatchesAre
      <4> HIDE DEF s
      <4> QED
          BY <4>1
    <3> HIDE DEF s, x
    <3> QED
        BY <1>5, <1>6, <3>1, NothingStarts
  <2> HIDE DEF x, y
  <2>13. TimelineHolds(c, x, e)
    <3>1. DOMAIN counted = DOMAIN EventMetrics
        BY <2>11 DEF ComputerHolds
    <3>2. t.critical = NoSystems
        BY <1>6 DEF TimelineHolds
    <3> QED
        BY <1>2, <1>5, <1>6, <2>11, <3>1, <3>2 DEF TimelineHolds, Timelines
  <2>14. TimelineHolds(c, y, q)
    <3>1. q = e
        BY <2>2, Zenon DEF e
    <3> QED
        BY <2>12, <2>13, <3>1, Zenon
  <2>15. ScopeOf(c, f) \in Seq(Scope(c))
      BY <2>1, <2>2 DEF C
  <2>16. TimelineHolds(c, u, q)
      BY <1>3, <2>14
  <2> QED
      BY <1>1, <2>15, <2>16, Zenon
<1>7. CASE c.action # "computer-metrics"
  <2>1. counted = t.stats
      BY <1>7
  <2> HIDE DEF counted, x
  <2>2. TimelineHolds(c, x, rs)
    <3>1. \A hits : SearchHolds(c, t, hits) => SearchHolds(c, x, hits)
        BY <1>5 DEF SearchHolds
    <3> QED
        BY <1>5, <1>7, <2>1, <3>1 DEF TimelineHolds
  <2>3. ScopeOf(c, f) \in Seq(Scope(c)) /\ TimelineHolds(c, y, q)
    <3>1. /\ ScopeOf(c, f) \in Seq(Scope(c))
          /\ TimelineHolds(c, Starts(c, x, Batches(f, c)), rs \o ScopeOf(c, f))
        BY <1>7, <2>2, BatchesHold
    <3> QED
        BY <3>1, Zenon
  <2>4. TimelineHolds(c, u, q)
      BY <1>3, <2>3
  <2> QED
      BY <1>1, <2>3, <2>4, Zenon
<1> QED
    BY <1>6, <1>7

-----------------------------------------------------------------------------
(* The files, and a timeline of none.                                        *)

(* The files of a command are logs.                                          *)
LEMMA FilesAre ==
    ASSUME NEW c \in Cmds
    PROVE  FilesOf(c) \in Seq(DOMAIN Logs)
<1> DEFINE L == DOMAIN Logs
           D == DOMAIN Directories
<1>1. /\ c.input[1] \in {"live", "directories", "file"}
      /\ c.input[1] = "directories" => c.input[2] \in Seq(D)
  <2>1. /\ c.input[1] \in {"live", "directories", "file"}
        /\ c.input[1] = "directories" => IsList(c.input[2]) /\ ToSet(c.input[2]) \subseteq D
      BY CommandAssumption DEF Cmds
  <2>2. ASSUME c.input[1] = "directories" PROVE c.input[2] \in Seq(D)
    <3> DEFINE s == c.input[2]
               T == ToSet(s)
    <3>1. s \in Seq(T) /\ T \subseteq D
        BY <2>1, <2>2 DEF IsList
    <3> HIDE DEF s, T, D
    <3>2. s \in Seq(D)
        BY <3>1
    <3> QED
        BY <3>2 DEF s
  <2> QED
      BY <2>1, <2>2
<1>2. ASSUME NEW dir \in D PROVE collect_evtxfiles(c, dir) \in Seq(L)
  <2> DEFINE s == Directories[dir]
             T == ToSet(s)
  <2>1. s \in Seq(T) /\ T \subseteq L
      BY CommandAssumption DEF IsList
  <2> HIDE DEF s, T, L
  <2>2. s \in Seq(L)
      BY <2>1
  <2>3. Chosen(s, {f \in DOMAIN Logs : IsLog(c, f)}) \in Seq(L)
      BY <2>2, ChosenType
  <2> QED
      BY <2>3, Zenon DEF collect_evtxfiles, s
<1>3. CASE c.input[1] = "live"
  <2>1. FilesOf(c) = <<>>
      BY <1>3 DEF FilesOf
  <2> QED
      BY <2>1
<1>4. CASE c.input[1] = "directories"
  <2> DEFINE s == c.input[2]
             P == [i \in DOMAIN s |-> collect_evtxfiles(c, s[i])]
  <2>1. s \in Seq(D)
      BY <1>1, <1>4
  <2>2. FilesOf(c) = FlattenSeq(P)
      BY <1>4 DEF FilesOf
  <2> HIDE DEF s
  <2>3. P \in Seq(Seq(L))
    <3>1. Len(s) \in Nat /\ DOMAIN s = 1..Len(s) /\ \A i \in 1..Len(s) : s[i] \in D
        BY <2>1
    <3>2. \A i \in 1..Len(s) : P[i] \in Seq(L)
        BY <1>2, <3>1
    <3>3. P = [i \in 1..Len(s) |-> P[i]]
        BY <3>1
    <3> DEFINE S == Seq(L)
    <3> HIDE DEF P, S
    <3>4. P \in Seq(S)
        BY <3>1, <3>2, <3>3 DEF S
    <3> QED
        BY <3>4 DEF S
  <2> HIDE DEF P
  <2> QED
      BY <2>2, <2>3, FlattenParts
<1>5. CASE c.input[1] = "file"
  <2>1. FilesOf(c) = IF c.input[2] \in DOMAIN Logs /\ IsLog(c, c.input[2]) THEN <<c.input[2]>> ELSE <<>>
      BY <1>5 DEF FilesOf
  <2> DEFINE f == c.input[2]
  <2>2. FilesOf(c) = <<>> \/ (f \in L /\ FilesOf(c) = <<f>>)
      BY <2>1
  <2> HIDE DEF f, L
  <2> DEFINE fs == FilesOf(c)
  <2> HIDE DEF fs
  <2>3. fs = <<>> \/ (f \in L /\ fs = <<f>>)
      BY <2>2 DEF fs
  <2>4. fs \in Seq(L)
    <3>1. <<>> \in Seq(L)
        OBVIOUS
    <3>2. ASSUME f \in L PROVE <<f>> \in Seq(L)
        BY <3>2
    <3> QED
        BY <2>3, <3>1, <3>2
  <2> QED
      BY <2>4 DEF L, fs
<1> QED
    BY <1>1, <1>3, <1>4, <1>5

(* The files that are read are logs.                                         *)
LEMMA ScannedAre ==
    ASSUME NEW c, NEW fs \in Seq(DOMAIN Logs)
    PROVE  Scanned(c, fs) \in Seq(DOMAIN Logs)
<1> DEFINE L == DOMAIN Logs
<1>1. \A S : \A s \in Seq(L) : Chosen(s, S) \in Seq(L)
  <2> SUFFICES ASSUME NEW s \in Seq(L), NEW S PROVE Chosen(s, S) \in Seq(L)
      OBVIOUS
  <2> HIDE DEF L
  <2> QED
      BY ChosenType
<1>2. \A channels, x : \A s \in Seq(L) : apply_channel_filter(s, channels, x) \in Seq(L)
    BY <1>1 DEF apply_channel_filter
<1>3. \A names, x : \A s \in Seq(L) : apply_filename_filter(s, names, x) \in Seq(L)
    BY <1>1 DEF apply_filename_filter
<1>4. filter_evtx_files(fs, c) \in Seq(L)
    BY <1>2, <1>3 DEF filter_evtx_files
<1> HIDE DEF L
<1>5. fs \in Seq(L)
    BY DEF L
<1>6. \A S : Chosen(fs, S) \in Seq(L)
    BY <1>1, <1>5
<1>7. Scanned(c, fs) \in Seq(L)
    BY <1>4, <1>5, <1>6 DEF Scanned
<1> QED
    BY <1>7 DEF L

(* Every record in scope, of one file after the other.                       *)
AllScope(c) == Mapped("scope", c, Scanned(c, FilesOf(c)))

(* An empty timeline accounts for no records.                                *)
LEMMA NothingYet ==
    ASSUME NEW c \in Cmds
    PROVE  TimelineHolds(c, EmptyTimeline, <<>>)
<1> DEFINE t == EmptyTimeline
           st == EventMetrics
<1>1. /\ t.stats = st /\ t.search = EventSearch /\ t.base64 = <<>> /\ t.critical = NoSystems
      /\ t.detected = <<>> /\ t.written = <<>>
    BY DEF EmptyTimeline
<1>2. /\ st.stats_list = EmptyBag /\ st.successful = EmptyBag /\ st.failed = EmptyBag
      /\ st.stats_computer = <<>> /\ st.stats_logfile = <<>> /\ st.counted_rec = {}
    BY DEF EventMetrics
<1>3. \A k, p : Pick(k, p, <<>>) = <<>>
    BY PickEmpty
<1>4. IsTable(EmptyBag) /\ Size(EmptyBag) = 0
  <2>1. DOMAIN EmptyBag = {}
      BY DEF EmptyBag, SetToBag
  <2> QED
      BY <2>1, EmptyTable
<1>5. ToSet(<<>>) = {}
    BY EmptyList
<1>6. RecordKeys(<<>>) = {} /\ Countable(<<>>, c) = 0
  <2>1. RecordKeys(<<>>) = {}
      BY <1>5 DEF RecordKeys
  <2>2. Countable(<<>>, c) = IF c.remove_duplicate_detections THEN Cardinality(RecordKeys(<<>>)) ELSE 0
      BY DEF Countable, RecordKeys
  <2>3. Cardinality({}) = 0
      BY FS_EmptySet
  <2> QED
      BY <2>1, <2>2, <2>3
<1>7. EidHolds(c, st, <<>>) /\ LogonHolds(c, st, <<>>)
  <2> HIDE DEF st
  <2>1. Remembers(c, st, <<>>)
      BY <1>2, <1>6 DEF Remembers
  <2>2. DOMAIN st = DOMAIN EventMetrics
      BY DEF st
  <2>3. EidHolds(c, st, <<>>)
      BY <1>2, <1>4, <1>6, <2>1, <2>2 DEF EidHolds
  <2>4. LogonHolds(c, st, <<>>)
      BY <1>2, <1>4, <1>6, <2>1, <2>2 DEF LogonHolds
  <2> QED
      BY <2>3, <2>4
<1>8. LogHolds(c, <<>>, <<>>)
  <2>1. IsList(<<>>)
      BY EmptyList
  <2>2. ASSUME NEW f \in DOMAIN Logs
        PROVE  IsTable(RowsFor(<<>>, f)) /\ Size(RowsFor(<<>>, f)) = Len(Pick("file", f, <<>>))
    <3> DEFINE B == RowsFor(<<>>, f)
    <3>1. DOMAIN B = {}
        BY DEF RowsFor
    <3> HIDE DEF B
    <3>2. IsTable(B) /\ Size(B) = 0
        BY <3>1, EmptyTable
    <3> QED
        BY <1>3, <3>2 DEF B
  <2>3. DOMAIN <<>> = {}
      OBVIOUS
  <2> QED
      BY <2>1, <2>2, <2>3 DEF LogHolds
<1>9. ComputerHolds(st, <<>>)
  <2>1. Computers(<<>>) = {}
      BY <1>5 DEF Computers
  <2>2. DOMAIN st.stats_computer = {}
      BY <1>2
  <2> QED
      BY <2>1, <2>2 DEF ComputerHolds
<1>10. Hits(<<>>, c) = <<>>
  <2>1. OneQuery(c)
      BY CommandAssumption DEF Cmds, OneQuery
  <2>2. <<>> \in Seq({})
      OBVIOUS
  <2>3. /\ c.keywords # {} => Hits(<<>>, c) = Pick("keyword", c, <<>>)
        /\ c.keywords = {} /\ c.regex # Absent => Hits(<<>>, c) = Pick("regex", c, <<>>)
        /\ c.keywords = {} /\ c.regex = Absent => Hits(<<>>, c) = <<>>
      BY <2>1, <2>2, HitsAre
  <2> QED
      BY <1>3, <2>3
<1>11. SearchHolds(c, t, <<>>)
  <2>1. HitRows(<<>>) = <<>> /\ Infos(<<>>) = <<>>
      BY DEF HitRows, Infos
  <2>2. WithHeader(TRUE, HitRows(<<>>)) = <<>>
      BY <2>1 DEF WithHeader
  <2>3. t.search.search_result_cnt = 0 /\ t.search.search_result = {}
      BY <1>1 DEF EventSearch
  <2>4. ToSet(Infos(<<>>)) = {}
      BY <1>5, <2>1
  <2> HIDE DEF t
  <2> QED
      BY <1>1, <2>2, <2>3, <2>4 DEF SearchHolds
<1>12. process_evtx_record_infos(<<>>) = <<>>
    BY MappedIs, MappedEmpty
<1> HIDE DEF st
<1>13. DOMAIN t.stats = DOMAIN EventMetrics /\ DOMAIN t.search = DOMAIN EventSearch
       /\ DOMAIN t = DOMAIN EmptyTimeline
    BY <1>1 DEF st
<1> HIDE DEF t
<1>14. TimelineHolds(c, t, <<>>)
    BY <1>1, <1>2, <1>3, <1>7, <1>8, <1>9, <1>10, <1>11, <1>12, <1>13 DEF TimelineHolds
<1> QED
    BY <1>14 DEF t

(* The records in scope are those of one file after the other.               *)
LEMMA ScopeParts ==
    ASSUME NEW c \in Cmds, NEW fs, fs = Scanned(c, FilesOf(c))
    PROVE  /\ fs \in Seq(DOMAIN Logs) /\ Len(fs) \in Nat
           /\ AreParts(Parts("scope", c, fs), Len(fs), Scope(c))
           /\ AllScope(c) = Flat(Parts("scope", c, fs), Len(fs))
           /\ AllScope(c) \in Seq(Scope(c))
<1>1. fs \in Seq(DOMAIN Logs)
    BY FilesAre, ScannedAre
<1>2. Yields("scope", c, DOMAIN Logs, Scope(c))
  <2> SUFFICES ASSUME NEW f \in DOMAIN Logs PROVE Part("scope", c, f) \in Seq(Scope(c))
      BY DEF Yields
  <2>1. TimelineHolds(c, EmptyTimeline, <<>>) /\ <<>> \in Seq(Scope(c))
      BY NothingYet
  <2>2. ScopeOf(c, f) \in Seq(Scope(c))
      BY <2>1, FileStep
  <2> QED
      BY <2>2 DEF Part
<1>3. /\ Len(fs) \in Nat /\ AreParts(Parts("scope", c, fs), Len(fs), Scope(c))
      /\ Mapped("scope", c, fs) = Flat(Parts("scope", c, fs), Len(fs))
      /\ Mapped("scope", c, fs) \in Seq(Scope(c))
    BY <1>1, <1>2, MappedParts
<1> QED
    BY <1>1, <1>3 DEF AllScope

-----------------------------------------------------------------------------
(* What is written accounts for every record in scope.                       *)

(* EveryEventOnce, of the records rs, the timeline t and the disk d.         *)
RowsAt(d, p) == IF p \in DOMAIN d /\ d[p].text # <<>> THEN d[p].text[1][2] ELSE {}
EidsIn(c, rs, d) == Total(RowsAt(d, Path(c.output))) = Countable(WithId(rs), c)
LogonsIn(c, rs, d) ==
    Logons(rs) # <<>> =>
        Total(RowsAt(d, <<c.output, "-successful.csv">>)) + Total(RowsAt(d, <<c.output, "-failed.csv">>))
        = Countable(Logons(rs), c)
LogsIn(c, rs, d) ==
    \A f \in DOMAIN Logs :
        Total({row \in RowsAt(d, Path(c.output)) : row.key[2] = f}) = Len(OfFile(rs, f))
ComputersIn(c, rs, d) ==
    \A name \in {r.computer : r \in ToSet(rs)} \ {Absent} :
        Total({row \in RowsAt(d, Path(c.output)) : row.key = name}) = Len(OfComputer(rs, name))
TextOf(c, hits, infos) ==
    IF c.sort_events
    THEN WithHeader(TRUE, IF hits = <<>> THEN <<>> ELSE <<<<"hits", ToSet(infos)>>>>)
    ELSE WithHeader(TRUE, [i \in DOMAIN infos |-> <<"hit", infos[i]>>])
HitsIn(c, rs, t, d) ==
    LET hits == Hits(rs, c)
        infos == [i \in DOMAIN hits |-> extract_search_event_info(hits[i])]
    IN  /\ t.search.search_result_cnt = Len(hits)
        /\ d[Path(c.output)].text = TextOf(c, hits, infos)
Accounted(c, rs, t, d) ==
    /\ c.action = "eid-metrics" => EidsIn(c, rs, d)
    /\ c.action = "logon-summary" => LogonsIn(c, rs, d)
    /\ c.action = "log-metrics" => LogsIn(c, rs, d)
    /\ c.action = "computer-metrics" => ComputersIn(c, rs, d)
    /\ c.action = "search" => HitsIn(c, rs, t, d)
    /\ c.action = "extract-base64" => t.base64 = process_evtx_record_infos(rs)
    /\ c.action \in Timelines => d[Path(c.output)].text = <<<<"timeline", rs>>>>

(* What is at p when new has been written.                                   *)
LEMMA WrittenAt ==
    ASSUME NEW new, NEW d, NEW p \in DOMAIN new
    PROVE  p \in DOMAIN Over(new, d) /\ Over(new, d)[p] = new[p]
BY DEF Over

(* A table that was written is what is read back.                            *)
LEMMA RowsWritten ==
    ASSUME NEW new, NEW d, NEW p \in DOMAIN new, NEW table, new[p] = File(Rows(table))
    PROVE  RowsAt(Over(new, d), p) = table
<1>1. p \in DOMAIN Over(new, d) /\ Over(new, d)[p].text = <<<<"rows", table>>>>
    BY WrittenAt DEF File, Rows
<1> QED
    BY <1>1 DEF RowsAt

(* The table of eid-metrics accounts for what was counted.                   *)
LEMMA EidsWritten ==
    ASSUME NEW c, NEW rs, NEW st, EidHolds(c, st, Pick("id", 0, rs))
    PROVE  Total(tm_stats_set_msg(st)) = Countable(WithId(rs), c)
<1> DEFINE B == st.stats_list
           rows == [k \in DOMAIN B |->
               [count |-> B[k], rate |-> <<B[k], st.total>>, channel |-> Abbreviation(k[2]),
                key |-> k, known |-> <<k[2], k[1]>> \in EventTitles]]
           table == tm_stats_set_msg(st)
<1>1. IsTable(B) /\ Size(B) = Countable(WithId(rs), c)
    BY PickIs DEF EidHolds
<1>2. table = {rows[k] : k \in DOMAIN B}
    BY DEF tm_stats_set_msg
<1>3. DOMAIN rows = DOMAIN B /\ \A k \in DOMAIN B : rows[k].count = B[k] /\ rows[k].key = k
    OBVIOUS
<1> HIDE DEF B, rows, table
<1>4. Total(table) = Size(B)
    BY <1>1, <1>2, <1>3, TotalOf
<1> QED
    BY <1>1, <1>4 DEF table

(* A table of logon-summary accounts for what was counted.                   *)
LEMMA LogonsWritten ==
    ASSUME NEW B, IsTable(B)
    PROVE  Total(tm_loginstats_tb(B)) = Size(B) /\ Size(B) \in Nat
<1> DEFINE rows == [e \in DOMAIN B |-> [count |-> B[e], key |-> e]]
           table == tm_loginstats_tb(B)
<1>1. table = {rows[k] : k \in DOMAIN B}
    BY DEF tm_loginstats_tb
<1>2. DOMAIN rows = DOMAIN B /\ \A k \in DOMAIN B : rows[k].count = B[k] /\ rows[k].key = k
    OBVIOUS
<1> HIDE DEF rows, table
<1>3. Total(table) = Size(B) /\ Size(B) \in Nat
    BY <1>1, <1>2, TotalOf
<1> QED
    BY <1>3 DEF table

(* The rows of a file in log-metrics account for its records.                *)
LEMMA LogsWritten ==
    ASSUME NEW c, NEW rs, NEW st, LogHolds(c, st.stats_logfile, rs), NEW f \in DOMAIN Logs
    PROVE  Total({row \in log_metrics_table(st, c) : row.key[2] = f}) = Len(OfFile(rs, f))
<1> DEFINE ls == st.stats_logfile
           B == RowsFor(ls, f)
           line(i) == [count |-> ls[i].event_count, key |-> <<i, ls[i].filepath>>, row |-> ls[i]]
           rows == [i \in DOMAIN B |-> line(i)]
           table == {row \in log_metrics_table(st, c) : row.key[2] = f}
<1>1. /\ \A i \in DOMAIN ls : ~IsHidden(ls[i], c)
      /\ IsTable(B) /\ Size(B) = Len(OfFile(rs, f))
    BY PickIs DEF LogHolds
<1>2. /\ DOMAIN B = {i \in DOMAIN ls : ls[i].filepath = f}
      /\ \A i \in DOMAIN B : B[i] = ls[i].event_count
    BY DEF RowsFor
<1>3. log_metrics_table(st, c) = {line(i) : i \in DOMAIN ls}
  <2>1. {j \in DOMAIN ls : ~IsHidden(ls[j], c)} = DOMAIN ls
      BY <1>1
  <2> QED
      BY <2>1 DEF log_metrics_table
<1>4. \A i : line(i).key[2] = ls[i].filepath /\ line(i).count = ls[i].event_count
            /\ line(i).key[1] = i
    OBVIOUS
<1> HIDE DEF B, line, ls
<1>5. table = {line(i) : i \in DOMAIN B}
    BY <1>2, <1>3, <1>4
<1> HIDE DEF table
<1>6. /\ DOMAIN rows = DOMAIN B
      /\ \A k \in DOMAIN B : rows[k] = line(k)
    OBVIOUS
<1>7. table = {rows[k] : k \in DOMAIN B}
    BY <1>5
<1> HIDE DEF rows
<1>8. /\ \A k \in DOMAIN B : rows[k].count = B[k]
      /\ \A j, k \in DOMAIN B : rows[j] = rows[k] => j = k
    BY <1>2, <1>4, <1>6
<1>9. Total(table) = Size(B)
    BY <1>1, <1>6, <1>7, <1>8, TotalOf
<1> QED
    BY <1>1, <1>9 DEF table

(* The row of a computer accounts for its records.                           *)
LEMMA ComputersWritten ==
    ASSUME NEW C, NEW rs \in Seq(C), NEW st, ComputerHolds(st, rs), NEW name \in Computers(rs)
    PROVE  Total({row \in computer_table(st) : row.key = name}) = Len(OfComputer(rs, name))
<1> DEFINE met == st.stats_computer
           n == Len(OfComputer(rs, name))
           line(k) == [count |-> met[k].count, key |-> k, os |-> met[k].os,
                       uptime |-> calc_elapsed_seconds(met[k]), timezone |-> met[k].timezone]
           none == [k \in {} |-> 0]
           B == [k \in {name} |-> n]
           rows == [k \in {name} |-> line(k)]
           table == {row \in computer_table(st) : row.key = name}
<1>1. name \in DOMAIN met /\ met[name].count = n
    BY PickIs DEF ComputerHolds
<1>2. n \in Nat
  <2>1. OfComputer(rs, name) \in Seq(C)
      BY PickIs, PickType
  <2> QED
      BY <2>1
<1> HIDE DEF n, met
<1>3. computer_table(st) = {line(k) : k \in DOMAIN met}
    BY DEF computer_table, met
<1>4. \A k : line(k).key = k /\ line(k).count = met[k].count
    OBVIOUS
<1> HIDE DEF line
<1>5. table = {line(name)}
    BY <1>1, <1>3, <1>4
<1> HIDE DEF table
<1>6. IsTable(B) /\ Size(B) = n
  <2>1. IsTable(none) /\ Size(none) = 0
      BY EmptyTable
  <2>2. Grown(B, none, name, n)
      BY DEF Grown
  <2> HIDE DEF B, none
  <2>3. IsTable(B) /\ Size(B) = Size(none) + n
      BY <1>2, <2>1, <2>2, TableGrows
  <2> QED
      BY <1>2, <2>1, <2>3
<1>7. /\ DOMAIN rows = DOMAIN B /\ table = {rows[k] : k \in DOMAIN B}
      /\ \A k \in DOMAIN B : rows[k].count = B[k]
      /\ \A j, k \in DOMAIN B : rows[j] = rows[k] => j = k
    BY <1>1, <1>4, <1>5
<1> HIDE DEF rows, B
<1>8. Total(table) = Size(B)
    BY <1>6, <1>7, TotalOf
<1> QED
    BY <1>6, <1>8 DEF table, n

SearchTable(t, c) == t.written \o search_result_dsp_msg(t.search, c)

(* The rows of search, sorted or as they came, are the hits.                 *)
LEMMA HitsWritten ==
    ASSUME NEW C, NEW rs, NEW c, Hits(rs, c) \in Seq(C), NEW t, SearchHolds(c, t, Hits(rs, c)),
           NEW hits, hits = Hits(rs, c),
           NEW infos, infos = [i \in DOMAIN hits |-> extract_search_event_info(hits[i])]
    PROVE  /\ t.search.search_result_cnt = Len(hits)
           /\ SearchTable(t, c) = TextOf(c, hits, infos)
<1>1. infos = Infos(hits)
    BY Zenon DEF Infos
<1>2. hits \in Seq(C) /\ Len(hits) \in Nat /\ DOMAIN hits = 1..Len(hits)
    OBVIOUS
<1>3. [i \in DOMAIN infos |-> <<"hit", infos[i]>>] = HitRows(hits)
  <2>1. DOMAIN infos = DOMAIN hits
      OBVIOUS
  <2> QED
      BY <2>1 DEF HitRows
<1>4. /\ t.search.search_result_cnt = Len(hits)
      /\ t.search.search_result = IF c.sort_events THEN ToSet(infos) ELSE {}
      /\ t.written = IF c.sort_events THEN <<>> ELSE WithHeader(TRUE, HitRows(hits))
    BY <1>1 DEF SearchHolds
<1>5. ToSet(infos) = {} <=> hits = <<>>
  <2>1. DOMAIN infos = 1..Len(hits)
      BY <1>2
  <2>2. ASSUME ToSet(infos) = {} PROVE hits = <<>>
    <3>1. Len(hits) = 0
      <4>1. ASSUME Len(hits) # 0 PROVE FALSE
        <5>1. infos[1] \in ToSet(infos)
            BY <1>2, <2>1, <4>1 DEF ToSet
        <5> QED
            BY <2>2, <5>1
      <4> QED
          BY <4>1
    <3> QED
        BY <1>2, <3>1
  <2>3. ASSUME hits = <<>> PROVE ToSet(infos) = {}
      BY <2>1, <2>3 DEF ToSet
  <2> QED
      BY <2>2, <2>3
<1>6. CASE c.sort_events
  <2> DEFINE w == WithHeader(TRUE, IF hits = <<>> THEN <<>> ELSE <<<<"hits", ToSet(infos)>>>>)
  <2>1. search_result_dsp_msg(t.search, c) = w
      BY <1>4, <1>5, <1>6 DEF search_result_dsp_msg
  <2>2. \E S : w \in Seq(S)
    <3> DEFINE x == Header
               y == <<"hits", ToSet(infos)>>
    <3>1. w = <<>> \/ w = <<x>> \o <<y>>
      <4>1. CASE hits = <<>>
          BY <4>1 DEF WithHeader
      <4>2. CASE hits # <<>>
        <5>1. w = WithHeader(TRUE, <<y>>)
            BY <4>2
        <5>2. WithHeader(TRUE, <<y>>) = <<x>> \o <<y>>
          <6> HIDE DEF y
          <6> QED
              BY DEF WithHeader
        <5> QED
            BY <5>1, <5>2, Zenon
      <4> QED
          BY <4>1, <4>2
    <3> HIDE DEF x, y, w
    <3> DEFINE T == {x, y}
               a == <<x>>
               b == <<y>>
    <3>2. <<>> \in Seq(T) /\ a \in Seq(T) /\ b \in Seq(T)
        OBVIOUS
    <3>3. w = <<>> \/ w = a \o b
        BY <3>1
    <3> HIDE DEF T, a, b
    <3>4. a \o b \in Seq(T)
        BY <3>2, ConcatProperties
    <3> QED
        BY <3>2, <3>3, <3>4
  <2> HIDE DEF w
  <2>3. <<>> \o w = w
      BY <2>2, ConcatEmptySeq
  <2>4. t.written = <<>>
      BY <1>4, <1>6
  <2>5. SearchTable(t, c) = w
      BY <2>1, <2>3, <2>4, Zenon DEF SearchTable
  <2> QED
      BY <1>4, <1>6, <2>5 DEF w, TextOf
<1>7. CASE ~c.sort_events
  <2> DEFINE w == WithHeader(TRUE, HitRows(hits))
  <2>1. search_result_dsp_msg(t.search, c) = <<>> /\ t.written = w
      BY <1>4, <1>7 DEF search_result_dsp_msg
  <2>2. \E S : w \in Seq(S)
    <3>1. PICK R : HitRows(hits) \in Seq(R)
        BY <1>2, HitRowsJoin
    <3> DEFINE x == Header
               h == HitRows(hits)
               T == R \cup {x}
    <3>2. <<x>> \in Seq(T) /\ h \in Seq(T)
      <4> HIDE DEF x, h
      <4> QED
          BY <3>1 DEF h
    <3>3. w = h \/ w = <<x>> \o h
        BY DEF WithHeader
    <3> HIDE DEF x, h, T, w
    <3>4. <<x>> \o h \in Seq(T)
        BY <3>2, ConcatProperties
    <3> QED
        BY <3>2, <3>3, <3>4
  <2> HIDE DEF w
  <2>3. w \o <<>> = w
      BY <2>2, ConcatEmptySeq
  <2>4. SearchTable(t, c) = w
      BY <2>1, <2>3, Zenon DEF SearchTable
  <2> QED
      BY <1>3, <1>4, <1>7, <2>4 DEF w, TextOf
<1> QED
    BY <1>6, <1>7

(* Where nothing is counted there was no record.                             *)
LEMMA NoneCounted ==
    ASSUME NEW C, NEW w \in Seq(C), NEW c, Countable(w, c) = 0
    PROVE  w = <<>>
<1>1. Len(w) \in Nat /\ DOMAIN w = 1..Len(w)
    OBVIOUS
<1>2. CASE c.remove_duplicate_detections
  <2>1. Cardinality(RecordKeys(w)) = 0 /\ IsFiniteSet(RecordKeys(w))
      BY <1>2, KeysFinite DEF Countable, RecordKeys
  <2>2. RecordKeys(w) = {}
      BY <2>1, FS_EmptySet
  <2>3. ToSet(w) = {}
      BY <2>2 DEF RecordKeys
  <2>4. ASSUME Len(w) # 0 PROVE FALSE
    <3>1. w[1] \in ToSet(w)
        BY <1>1, <2>4 DEF ToSet
    <3> QED
        BY <2>3, <3>1
  <2> QED
      BY <1>1, <2>4
<1>3. CASE ~c.remove_duplicate_detections
  <2>1. Len(w) = 0
      BY <1>3 DEF Countable
  <2> QED
      BY <1>1, <2>1
<1> QED
    BY <1>2, <1>3

(* Nothing is added to the critical systems but by config-critical-systems.  *)
LEMMA NoLines ==
    ASSUME NEW c, NEW rs, NEW t, TimelineHolds(c, t, rs), c.action # "config-critical-systems",
           NEW yes \in SUBSET {"dc", "fs"}, NEW d
    PROVE  WithLines(d, UNION {t.critical[k] : k \in yes}) = d
<1>1. t.critical = NoSystems
    BY DEF TimelineHolds
<1>2. \A k \in yes : t.critical[k] = {}
    BY <1>1 DEF NoSystems
<1>3. UNION {t.critical[k] : k \in yes} = {}
    BY <1>2
<1> QED
    BY <1>3 DEF WithLines

(* The tables a command writes.                                              *)
LEMMA TablesAre ==
    ASSUME NEW c, NEW t
    PROVE  LET T == Tables(c, t)
               out == Path(c.output)
           IN  /\ c.action = "eid-metrics" => T = At(out, Rows(tm_stats_set_msg(t.stats)))
               /\ c.action = "logon-summary" => T = tm_logon_stats(c, t.stats)
               /\ c.action = "computer-metrics" =>
                    T = IF t.stats.stats_computer = <<>> THEN Nothing
                        ELSE At(out, Rows(computer_table(t.stats)))
               /\ c.action = "log-metrics" => T = At(out, Rows(log_metrics_table(t.stats, c)))
               /\ c.action = "search" => T = At(out, SearchTable(t, c))
               /\ c.action \in Timelines => T = At(out, <<<<"timeline", t.detected>>>>)
<1> DEFINE T == Tables(c, t)
           out == Path(c.output)
           T1 == At(out, Rows(tm_stats_set_msg(t.stats)))
           T2 == tm_logon_stats(c, t.stats)
           T3 == IF t.stats.stats_computer = <<>> THEN Nothing
                 ELSE At(out, Rows(computer_table(t.stats)))
           T4 == At(out, Rows(log_metrics_table(t.stats, c)))
           T5 == At(out, SearchTable(t, c))
           T6 == IF t.base64 = <<>> THEN Nothing ELSE At(out, output_all(t.base64))
           T7 == At(out, <<<<"timeline", t.detected>>>>)
<1>1. T = CASE c.action = "eid-metrics" -> T1
            [] c.action = "logon-summary" -> T2
            [] c.action = "computer-metrics" -> T3
            [] c.action = "log-metrics" -> T4
            [] c.action = "search" -> T5
            [] c.action = "extract-base64" -> T6
            [] c.action \in Timelines -> T7
            [] OTHER -> Nothing
    BY Zenon DEF Tables, SearchTable
<1> HIDE DEF T, T1, T2, T3, T4, T5, T6, T7
<1>2. /\ c.action = "eid-metrics" => T = T1
      /\ c.action = "logon-summary" => T = T2
      /\ c.action = "computer-metrics" => T = T3
      /\ c.action = "log-metrics" => T = T4
      /\ c.action = "search" => T = T5
      /\ c.action \in Timelines => T = T7
    BY <1>1 DEF Timelines
<1> QED
    BY <1>2, Zenon DEF T, T1, T2, T3, T4, T5, T7

(* Once written, the tables account for the records the timeline does.       *)
LEMMA TablesAccount ==
    ASSUME NEW c \in Cmds, NEW rs \in Seq(Scope(c)), NEW t, TimelineHolds(c, t, rs),
           NEW yes \in SUBSET {"dc", "fs"}, NEW d
    PROVE  Accounted(c, rs, t, WithLines(Over(Tables(c, t), d), UNION {t.critical[k] : k \in yes}))
<1> DEFINE T == Tables(c, t)
           now == Over(T, d)
           e == WithLines(now, UNION {t.critical[k] : k \in yes})
           out == Path(c.output)
           st == t.stats
<1>1. c.action # "config-critical-systems" => e = now
  <2> HIDE DEF now
  <2> QED
      BY NoLines
<1>2. \A x : out \in DOMAIN At(out, x) /\ At(out, x)[out] = File(x)
    BY DEF At
<1>3. \A p, x : p \in DOMAIN T /\ T[p] = File(x) => now[p].text = x
    BY WrittenAt DEF File
<1>4. \A p, table : p \in DOMAIN T /\ T[p] = File(Rows(table)) => RowsAt(now, p) = table
    BY RowsWritten
<1>5. CASE c.action = "eid-metrics"
  <2>1. T = At(out, Rows(tm_stats_set_msg(st)))
      BY <1>5, TablesAre
  <2>2. EidHolds(c, st, Pick("id", 0, rs))
      BY <1>5 DEF TimelineHolds
  <2>3. e = now
      BY <1>1, <1>5
  <2>4. Total(tm_stats_set_msg(st)) = Countable(WithId(rs), c)
      BY <2>2, EidsWritten
  <2> HIDE DEF T, now, e, out, st
  <2>5. RowsAt(e, out) = tm_stats_set_msg(st)
      BY <1>2, <1>4, <2>1, <2>3
  <2>6. EidsIn(c, rs, e)
      BY <2>4, <2>5 DEF EidsIn, out
  <2> QED
      BY <1>5, <2>6 DEF Accounted, Timelines, e, now, T
<1>6. CASE c.action = "logon-summary"
  <2> DEFINE p == <<c.output, "-successful.csv">>
             q == <<c.output, "-failed.csv">>
             A == st.successful
             B == st.failed
             N == Countable(Logons(rs), c)
  <2>1. IsTable(A) /\ IsTable(B) /\ Size(A) + Size(B) = N
      BY <1>6, PickIs DEF TimelineHolds, LogonHolds
  <2>2. /\ Total(tm_loginstats_tb(A)) = Size(A) /\ Total(tm_loginstats_tb(B)) = Size(B)
        /\ Size(A) \in Nat /\ Size(B) \in Nat
    <3> HIDE DEF A, B
    <3> QED
        BY <2>1, LogonsWritten
  <2>3. e = now
      BY <1>1, <1>6
  <2>4. T = IF A = EmptyBag /\ B = EmptyBag THEN Nothing
            ELSE Over(At(p, Rows(tm_loginstats_tb(A))), At(q, Rows(tm_loginstats_tb(B))))
      BY <1>6, TablesAre DEF tm_logon_stats
  <2>5. ASSUME Logons(rs) # <<>> => Total(RowsAt(e, p)) + Total(RowsAt(e, q)) = N
        PROVE  Accounted(c, rs, t, e)
    <3>1. LogonsIn(c, rs, e)
        BY <2>5, Zenon DEF LogonsIn
    <3> HIDE DEF e
    <3> QED
        BY <1>6, <3>1 DEF Accounted, Timelines
  <2>6. CASE A = EmptyBag /\ B = EmptyBag
    <3>1. DOMAIN EmptyBag = {}
        BY DEF EmptyBag, SetToBag
    <3>2. Size(EmptyBag) = 0
        BY <3>1, EmptyTable
    <3>3. N = 0
        BY <2>1, <2>6, <3>2
    <3>4. Logons(rs) \in Seq(Scope(c))
        BY PickIs, PickType
    <3>5. Logons(rs) = <<>>
        BY <3>3, <3>4, NoneCounted
    <3> QED
        BY <2>5, <3>5
  <2>7. CASE ~(A = EmptyBag /\ B = EmptyBag)
    <3> DEFINE a == tm_loginstats_tb(A)
               b == tm_loginstats_tb(B)
    <3>1. p # q
        OBVIOUS
    <3>2. T = Over(At(p, Rows(a)), At(q, Rows(b)))
        BY <2>4, <2>7
    <3> HIDE DEF a, b, p, q
    <3>3. /\ p \in DOMAIN T /\ T[p] = File(Rows(a))
          /\ q \in DOMAIN T /\ T[q] = File(Rows(b))
      <4> HIDE DEF T
      <4> QED
          BY <3>1, <3>2 DEF Over, At
    <3>4. RowsAt(now, p) = a /\ RowsAt(now, q) = b
        BY <1>4, <3>3
    <3> HIDE DEF e, now, A, B, N
    <3>5. Total(RowsAt(e, p)) + Total(RowsAt(e, q)) = N
        BY <2>1, <2>2, <2>3, <3>4 DEF a, b
    <3>6. Accounted(c, rs, t, e)
        BY <2>5, <3>5
    <3> HIDE DEF T
    <3> QED
        BY <3>6, Zenon DEF e, now, T
  <2> QED
      BY <2>6, <2>7
<1>7. CASE c.action = "log-metrics"
  <2>1. T = At(out, Rows(log_metrics_table(st, c)))
      BY <1>7, TablesAre
  <2>2. LogHolds(c, st.stats_logfile, rs)
      BY <1>7 DEF TimelineHolds
  <2>3. e = now
      BY <1>1, <1>7
  <2>4. \A f \in DOMAIN Logs :
            Total({row \in log_metrics_table(st, c) : row.key[2] = f}) = Len(OfFile(rs, f))
      BY <2>2, LogsWritten
  <2> HIDE DEF T, now, e, out, st
  <2>5. RowsAt(e, out) = log_metrics_table(st, c)
      BY <1>2, <1>4, <2>1, <2>3
  <2>6. LogsIn(c, rs, e)
      BY <2>4, <2>5 DEF LogsIn, out
  <2> QED
      BY <1>7, <2>6 DEF Accounted, Timelines, e, now, T
<1>8. CASE c.action = "computer-metrics"
  <2> DEFINE P(table) == \A name \in Computers(rs) :
                            Total({row \in table : row.key = name}) = Len(OfComputer(rs, name))
  <2>1. ComputerHolds(st, rs)
      BY <1>8 DEF TimelineHolds
  <2>2. T = IF st.stats_computer = <<>> THEN Nothing ELSE At(out, Rows(computer_table(st)))
      BY <1>8, TablesAre
  <2>3. e = now
      BY <1>1, <1>8
  <2>4. P(computer_table(st))
      BY <2>1, ComputersWritten
  <2>5. ASSUME P(RowsAt(e, out)) PROVE Accounted(c, rs, t, e)
    <3>1. ComputersIn(c, rs, e)
        BY <2>5, Zenon DEF ComputersIn, Computers
    <3> HIDE DEF e
    <3> QED
        BY <1>8, <3>1 DEF Accounted, Timelines
  <2>6. CASE st.stats_computer = <<>>
    <3>1. DOMAIN <<>> = {}
        OBVIOUS
    <3>2. Computers(rs) = {}
        BY <2>1, <2>6, <3>1 DEF ComputerHolds
    <3> QED
        BY <2>5, <3>2
  <2>7. CASE st.stats_computer # <<>>
    <3>1. T = At(out, Rows(computer_table(st)))
        BY <2>2, <2>7
    <3> HIDE DEF T, now, e, out, st, P
    <3>2. RowsAt(e, out) = computer_table(st)
        BY <1>2, <1>4, <2>3, <3>1
    <3> QED
        BY <2>4, <2>5, <3>2 DEF e, now, T
  <2> QED
      BY <2>6, <2>7
<1>9. CASE c.action = "search"
  <2> DEFINE hits == Hits(rs, c)
             infos == [i \in DOMAIN hits |-> extract_search_event_info(hits[i])]
             text == SearchTable(t, c)
  <2>1. T = At(out, text)
      BY <1>9, TablesAre
  <2>2. SearchHolds(c, t, hits)
      BY <1>9 DEF TimelineHolds
  <2>3. hits \in Seq(Scope(c))
    <3>1. OneQuery(c)
        BY CommandAssumption DEF Cmds, OneQuery
    <3> QED
        BY <3>1, HitsAre
  <2>4. t.search.search_result_cnt = Len(hits) /\ text = TextOf(c, hits, infos)
      BY <2>2, <2>3, HitsWritten
  <2>5. e = now
      BY <1>1, <1>9
  <2> HIDE DEF T, now, e, out, text
  <2>6. e[out].text = text
      BY <1>2, <1>3, <2>1, <2>5
  <2>7. HitsIn(c, rs, t, e)
      BY <2>4, <2>6, Zenon DEF HitsIn, out
  <2> QED
      BY <1>9, <2>7 DEF Accounted, Timelines, e, now, T
<1>10. CASE c.action = "extract-base64"
  <2>1. t.base64 = process_evtx_record_infos(rs)
      BY <1>10 DEF TimelineHolds
  <2> HIDE DEF e
  <2>2. Accounted(c, rs, t, e)
      BY <1>10, <2>1 DEF Accounted, Timelines
  <2> QED
      BY <2>2 DEF e, now, T
<1>11. CASE c.action \in Timelines
  <2>1. T = At(out, <<<<"timeline", t.detected>>>>)
      BY <1>11, TablesAre
  <2>2. t.detected = rs
      BY <1>11 DEF TimelineHolds
  <2>3. e = now
      BY <1>1, <1>11 DEF Timelines
  <2> HIDE DEF T, now, e, out
  <2>4. e[out].text = <<<<"timeline", rs>>>>
      BY <1>2, <1>3, <2>1, <2>2, <2>3
  <2>5. Accounted(c, rs, t, e)
      BY <1>11, <2>4 DEF Accounted, Timelines, out
  <2> QED
      BY <2>5 DEF e, now, T
<1>12. CASE c.action \notin Timelines \cup {"eid-metrics", "logon-summary", "log-metrics",
                "computer-metrics", "search", "extract-base64"}
  <2> HIDE DEF e
  <2>1. Accounted(c, rs, t, e)
      BY <1>12 DEF Accounted
  <2> QED
      BY <2>1 DEF e, now, T
<1> QED
    BY <1>5, <1>6, <1>7, <1>8, <1>9, <1>10, <1>11, <1>12

-----------------------------------------------------------------------------
(* EveryEventOnce.                                                           *)

(* EveryEventOnce is Accounted of the state.                                 *)
LEMMA AccountedIs ==
    ASSUME phase = "reported" => Accounted(cmd, InScope, tl, disk)
    PROVE  EveryEventOnce
<1> DEFINE out == Path(cmd.output)
           hits == Hits(InScope, cmd)
           infos == [i \in DOMAIN hits |-> extract_search_event_info(hits[i])]
           E1 == Total(RowsOf(out)) = Countable(WithId(InScope), cmd)
           E2 == Logons(InScope) # <<>> =>
                    Total(RowsOf(<<cmd.output, "-successful.csv">>))
                        + Total(RowsOf(<<cmd.output, "-failed.csv">>))
                    = Countable(Logons(InScope), cmd)
           E3 == \A f \in DOMAIN Logs :
                    Total({row \in RowsOf(out) : row.key[2] = f}) = Len(OfFile(InScope, f))
           E4 == \A name \in {r.computer : r \in ToSet(InScope)} \ {Absent} :
                    Total({row \in RowsOf(out) : row.key = name}) = Len(OfComputer(InScope, name))
           E5 == /\ tl.search.search_result_cnt = Len(hits)
                 /\ disk[out].text =
                        IF cmd.sort_events
                        THEN WithHeader(TRUE, IF hits = <<>> THEN <<>>
                                              ELSE <<<<"hits", ToSet(infos)>>>>)
                        ELSE WithHeader(TRUE, [i \in DOMAIN infos |-> <<"hit", infos[i]>>])
           E6 == tl.base64 = process_evtx_record_infos(InScope)
           E7 == disk[out].text = <<<<"timeline", InScope>>>>
<1> SUFFICES ASSUME phase = "reported"
             PROVE  CASE cmd.action = "eid-metrics" -> E1
                      [] cmd.action = "logon-summary" -> E2
                      [] cmd.action = "log-metrics" -> E3
                      [] cmd.action = "computer-metrics" -> E4
                      [] cmd.action = "search" -> E5
                      [] cmd.action = "extract-base64" -> E6
                      [] cmd.action \in Timelines -> E7
                      [] OTHER -> TRUE
    BY Zenon DEF EveryEventOnce
<1>1. /\ cmd.action = "eid-metrics" => E1
      /\ cmd.action = "logon-summary" => E2
      /\ cmd.action = "log-metrics" => E3
      /\ cmd.action = "computer-metrics" => E4
      /\ cmd.action = "search" => E5
      /\ cmd.action = "extract-base64" => E6
      /\ cmd.action \in Timelines => E7
    BY Zenon DEF Accounted, EidsIn, LogonsIn, LogsIn, ComputersIn, HitsIn, TextOf, RowsAt, RowsOf
<1> HIDE DEF E1, E2, E3, E4, E5, E6, E7
<1> QED
    BY <1>1 DEF Timelines

(* InScope, as a mapping over the files.                                     *)
LEMMA InScopeIs == InScope = AllScope(cmd)
<1> DEFINE fs == Scanned(cmd, FilesOf(cmd))
<1>1. \A f : Part("scope", cmd, f) = ScopeOf(cmd, f)
    BY DEF Part
<1>2. InScope = FlattenSeq([i \in DOMAIN fs |-> ScopeOf(cmd, fs[i])])
    BY Zenon DEF InScope, ScopeOf
<1>3. AllScope(cmd) = FlattenSeq(Parts("scope", cmd, fs))
    BY Zenon DEF AllScope, Mapped
<1> HIDE DEF fs
<1>4. Parts("scope", cmd, fs) = [i \in DOMAIN fs |-> ScopeOf(cmd, fs[i])]
    BY <1>1 DEF Parts
<1> QED
    BY <1>2, <1>3, <1>4

(* Of the files to be read, rest is left, and t is made of the others.       *)
Reading(c, rest, t) ==
    LET fs == Scanned(c, FilesOf(c))
    IN  \E n \in 0..Len(fs) :
            /\ rest \in Seq(DOMAIN Logs) /\ Len(rest) = Len(fs) - n
            /\ \A i \in 1..Len(rest) : rest[i] = fs[n + i]
            /\ TimelineHolds(c, t, Flat(Parts("scope", c, fs), n))

(* Before the first file.                                                    *)
LEMMA ReadNone ==
    ASSUME NEW c \in Cmds
    PROVE  Reading(c, Scanned(c, FilesOf(c)), EmptyTimeline)
<1> DEFINE fs == Scanned(c, FilesOf(c))
           P == Parts("scope", c, fs)
<1>1. fs \in Seq(DOMAIN Logs) /\ Len(fs) \in Nat
    BY ScopeParts
<1>2. TimelineHolds(c, EmptyTimeline, Flat(P, 0))
  <2>1. Flat(P, 0) = <<>>
      BY FlatEmpty
  <2> HIDE DEF P
  <2> QED
      BY <2>1, NothingYet
<1> HIDE DEF fs, P
<1>3. /\ 0 \in 0..Len(fs) /\ Len(fs) = Len(fs) - 0
      /\ \A i \in 1..Len(fs) : fs[i] = fs[0 + i]
    BY <1>1
<1>4. \E n \in 0..Len(fs) :
            /\ fs \in Seq(DOMAIN Logs) /\ Len(fs) = Len(fs) - n
            /\ \A i \in 1..Len(fs) : fs[i] = fs[n + i]
            /\ TimelineHolds(c, EmptyTimeline, Flat(P, n))
    BY <1>1, <1>2, <1>3
<1> QED
    BY <1>4, Zenon DEF Reading, fs, P

(* One file more.                                                            *)
LEMMA ReadOne ==
    ASSUME NEW c \in Cmds, NEW rest, rest # <<>>, NEW t, Reading(c, rest, t)
    PROVE  Reading(c, Tail(rest), analysis_file(c, t, Head(rest)))
<1> DEFINE fs == Scanned(c, FilesOf(c))
           P == Parts("scope", c, fs)
           L == DOMAIN Logs
           f == Head(rest)
           now == analysis_file(c, t, f)
<1>1. fs \in Seq(L) /\ Len(fs) \in Nat /\ AreParts(P, Len(fs), Scope(c))
    BY ScopeParts
<1>2. PICK n \in 0..Len(fs) :
            /\ rest \in Seq(L) /\ Len(rest) = Len(fs) - n
            /\ \A i \in 1..Len(rest) : rest[i] = fs[n + i]
            /\ TimelineHolds(c, t, Flat(P, n))
    BY Zenon DEF Reading
<1> HIDE DEF fs, P, L, now
<1>3. /\ n \in Nat /\ n + 1 \in 0..Len(fs) /\ Len(rest) # 0
      /\ f = rest[1] /\ 1 \in 1..Len(rest) /\ f \in L
    BY <1>1, <1>2
<1>4. /\ Tail(rest) \in Seq(L) /\ Len(Tail(rest)) = Len(fs) - (n + 1)
      /\ \A i \in 1..Len(Tail(rest)) : Tail(rest)[i] = fs[(n + 1) + i]
  <2>1. /\ Tail(rest) \in Seq(L) /\ Len(Tail(rest)) = Len(rest) - 1
        /\ \A i \in 1..Len(Tail(rest)) : Tail(rest)[i] = rest[i + 1] /\ i + 1 \in 1..Len(rest)
      BY <1>2, <1>3
  <2>2. Len(Tail(rest)) = Len(fs) - (n + 1)
      BY <1>1, <1>2, <2>1
  <2>3. ASSUME NEW i \in 1..Len(Tail(rest)) PROVE Tail(rest)[i] = fs[(n + 1) + i]
    <3>1. Tail(rest)[i] = rest[i + 1] /\ i + 1 \in 1..Len(rest) /\ i \in Nat
        BY <1>1, <1>3, <2>1, <2>2
    <3>2. rest[i + 1] = fs[n + (i + 1)] /\ n + (i + 1) = (n + 1) + i
        BY <1>2, <1>3, <3>1
    <3> QED
        BY <3>1, <3>2
  <2> QED
      BY <2>1, <2>2, <2>3
<1>5. TimelineHolds(c, now, Flat(P, n + 1))
  <2>1. AreParts(P, n + 1, Scope(c))
      BY <1>1, <1>3 DEF AreParts
  <2>2. Flat(P, n) \in Seq(Scope(c)) /\ Flat(P, n + 1) = Flat(P, n) \o P[n + 1]
      BY <1>3, <2>1, FlatStep
  <2>3. f \in DOMAIN Logs
      BY <1>3 DEF L
  <2> DEFINE rs == Flat(P, n)
  <2>4. rs \in Seq(Scope(c)) /\ TimelineHolds(c, t, rs)
      BY <1>2, <2>2
  <2> HIDE DEF rs, f
  <2>5. TimelineHolds(c, analysis_file(c, t, f), rs \o ScopeOf(c, f))
      BY <2>3, <2>4, FileStep
  <2>6. P[n + 1] = ScopeOf(c, f)
    <3>1. n + 1 \in DOMAIN fs
        BY <1>1, <1>3
    <3>2. f = fs[n + 1]
        BY <1>2, <1>3 DEF f
    <3>3. P[n + 1] = Part("scope", c, fs[n + 1])
        BY <3>1 DEF P, Parts
    <3> QED
        BY <3>2, <3>3 DEF Part
  <2> QED
      BY <2>2, <2>5, <2>6, Zenon DEF now, rs
<1> DEFINE m == n + 1
<1> HIDE DEF m
<1>6. /\ m \in 0..Len(fs)
      /\ Tail(rest) \in Seq(L) /\ Len(Tail(rest)) = Len(fs) - m
      /\ \A i \in 1..Len(Tail(rest)) : Tail(rest)[i] = fs[m + i]
      /\ TimelineHolds(c, now, Flat(P, m))
    BY <1>3, <1>4, <1>5, Zenon DEF m
<1> QED
    BY <1>6, Zenon DEF Reading, fs, P, L, now

(* After the last file, the timeline accounts for all records in scope.      *)
LEMMA ReadAll ==
    ASSUME NEW c \in Cmds, NEW t, Reading(c, <<>>, t)
    PROVE  AllScope(c) \in Seq(Scope(c)) /\ TimelineHolds(c, t, AllScope(c))
<1> DEFINE fs == Scanned(c, FilesOf(c))
           P == Parts("scope", c, fs)
<1>1. /\ Len(fs) \in Nat /\ AllScope(c) = Flat(P, Len(fs))
      /\ AllScope(c) \in Seq(Scope(c))
    BY ScopeParts
<1>2. PICK n \in 0..Len(fs) : Len(<<>>) = Len(fs) - n /\ TimelineHolds(c, t, Flat(P, n))
    BY Zenon DEF Reading
<1> HIDE DEF fs, P
<1>3. n = Len(fs)
    BY <1>1, <1>2
<1> QED
    BY <1>1, <1>2, <1>3

(* What a command has read so far and what it has written: the files left    *)
(* and the timeline agree while it reads, the timeline accounts for all once *)
(* it has read, and the tables on the disk once they are written.            *)
CmdInv ==
    /\ phase # "over" => cmd \in Cmds
    /\ phase \in {"exec", "collect", "filter"} => tl = EmptyTimeline
    /\ phase = "filter" => files = FilesOf(cmd)
    /\ phase = "read" => Reading(cmd, files, tl)
    /\ phase = "reported" => Accounted(cmd, AllScope(cmd), tl, disk)

(* CmdInv holds at the start, every step of a command keeps it, and it says  *)
(* what EveryEventOnce does.                                                 *)
LEMMA CmdInvInductive ==
    /\ CommandInit => CmdInv
    /\ CmdInv /\ [CommandNext]_commandVars => CmdInv'
    /\ CmdInv => EveryEventOnce
<1>1. CommandInit => CmdInv
    BY DEF CommandInit, CmdInv
<1>2. CmdInv => EveryEventOnce
  <2> HAVE CmdInv
  <2>1. phase = "reported" => Accounted(cmd, InScope, tl, disk)
      BY InScopeIs DEF CmdInv
  <2> QED
      BY <2>1, AccountedIs
<1>3. ASSUME CmdInv, [CommandNext]_commandVars PROVE CmdInv'
  <2>1. CASE Issue
    <3>1. phase' = "exec" /\ tl' = EmptyTimeline
        BY <2>1 DEF Issue
    <3>2. cmd' \in Cmds
        BY <2>1 DEF Issue, Cmds
    <3> QED
        BY <3>1, <3>2 DEF CmdInv
  <2>2. CASE Refuse
      BY <2>2 DEF Refuse, CmdInv
  <2>3. CASE Begin
    <3>1. phase = "exec" /\ phase' = "collect" /\ UNCHANGED <<cmd, files, tl>>
        BY <2>3 DEF Begin
    <3> QED
        BY <1>3, <3>1 DEF CmdInv
  <2>4. CASE Collect
    <3>1. /\ phase = "collect" /\ phase' \in {"finish", "filter"} /\ files' = FilesOf(cmd)
          /\ UNCHANGED <<cmd, tl>>
        BY <2>4 DEF Collect
    <3> QED
        BY <1>3, <3>1 DEF CmdInv
  <2>5. CASE InitWriter
    <3>1. /\ phase = "filter" /\ phase' = "read" /\ files' = Scanned(cmd, files)
          /\ UNCHANGED <<cmd, tl>>
        BY <2>5 DEF InitWriter
    <3>2. cmd \in Cmds /\ tl = EmptyTimeline /\ files = FilesOf(cmd)
        BY <1>3, <3>1 DEF CmdInv
    <3>3. Reading(cmd, Scanned(cmd, FilesOf(cmd)), EmptyTimeline)
        BY <3>2, ReadNone
    <3> QED
        BY <3>1, <3>2, <3>3 DEF CmdInv
  <2>6. CASE AnalyseFile
    <3>1. /\ phase = "read" /\ files # <<>> /\ files' = Tail(files)
          /\ tl' = analysis_file(cmd, tl, Head(files)) /\ UNCHANGED <<phase, cmd>>
        BY <2>6 DEF AnalyseFile
    <3>2. cmd \in Cmds /\ Reading(cmd, files, tl)
        BY <1>3, <3>1 DEF CmdInv
    <3>3. Reading(cmd, Tail(files), analysis_file(cmd, tl, Head(files)))
        BY <3>1, <3>2, ReadOne
    <3> QED
        BY <3>1, <3>2, <3>3 DEF CmdInv
  <2>7. CASE WriteTables
    <3>1. phase = "read" /\ files = <<>> /\ phase' = "reported" /\ UNCHANGED <<cmd, files, tl>>
        BY <2>7 DEF WriteTables
    <3>2. PICK yes \in SUBSET {"dc", "fs"} :
            disk' = WithLines(Over(Tables(cmd, tl), disk), UNION {tl.critical[k] : k \in yes})
        BY <2>7 DEF WriteTables
    <3>3. cmd \in Cmds /\ Reading(cmd, <<>>, tl)
        BY <1>3, <3>1 DEF CmdInv
    <3>4. AllScope(cmd) \in Seq(Scope(cmd)) /\ TimelineHolds(cmd, tl, AllScope(cmd))
        BY <3>3, ReadAll
    <3>5. Accounted(cmd, AllScope(cmd), tl,
                    WithLines(Over(Tables(cmd, tl), disk), UNION {tl.critical[k] : k \in yes}))
        BY <3>3, <3>4, TablesAccount
    <3>6. Accounted(cmd, AllScope(cmd), tl, disk')
        BY <3>2, <3>5, Zenon
    <3> QED
        BY <3>1, <3>3, <3>6 DEF CmdInv
  <2>8. CASE Finish
      BY <2>8 DEF Finish, CmdInv
  <2>9. CASE UNCHANGED commandVars
      BY <1>3, <2>9 DEF commandVars, CmdInv
  <2> QED
      BY <1>3, <2>1, <2>2, <2>3, <2>4, <2>5, <2>6, <2>7, <2>8, <2>9 DEF CommandNext
<1> QED
    BY <1>1, <1>2, <1>3

(* However the records are cut into files and batches, the tables a command  *)
(* writes account for each record in its scope exactly once, for any logs    *)
(* and any command lines (main.rs 2262-2352 and 2560-2736, timelines.rs      *)
(* 65-96).                                                                   *)
THEOREM EventsThm == CommandSpec => []EveryEventOnce
BY CmdInvInductive, PTL DEF CommandSpec
=============================================================================
