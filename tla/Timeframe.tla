----------------------------- MODULE Timeframe -----------------------------
(***************************************************************************)
(* The aggregation condition of a rule, "count(field) by group >= n" within *)
(* a timeframe (src/engine/src/detections/rule/count.rs).  While records    *)
(* are read, each match is filed under the value of its group (countup).    *)
(* When all have been read, the matches of every group are sorted by time,  *)
(* and a window [left, right) slides over them (judge_timeframe).           *)
(*                                                                          *)
(* Times count ticks, TicksPerSecond to the second: whole seconds and what  *)
(* is left of one are what the code compares.  Indices start at 0 as in the *)
(* code; datas[i + 1] is its datas[i].                                      *)
(***************************************************************************)
EXTENDS Integers, Sequences, FiniteSets

CONSTANTS
    Groups,         \* values of the group-by field
    Values,         \* values of the counted field
    Times,          \* times of events, in ticks
    Rules,          \* aggregation conditions to try
    TicksPerSecond,
    MaxRecords,     \* bound on the matches of a rule
    Missing         \* a field that an event does not have

Ops == {"EQ", "GE", "GT", "LE", "LT"}
BadNumber == -1                 \* what does not parse as an i64
NoTimeframe == [type |-> "none", num |-> 0]
DefaultTime == 0                \* 1977-01-01 for an event without a time
AllGroups == "_"                \* the key of events that have no group
NoValue == "empty"              \* the value of events without the field

TimeFrameInfo == [type : {"none", "s", "m", "h", "d", ""}, num : Nat \cup {BadNumber}]
AggregationParseInfo ==
    [field : BOOLEAN, by : BOOLEAN, op : Ops, num : Nat, timeframe : TimeFrameInfo]
Event == [group : Groups \cup {Missing}, value : Values \cup {Missing},
          time : Times \cup {Missing}]

ASSUME TimeframeAssumption ==
    /\ TicksPerSecond \in Nat \ {0}
    /\ MaxRecords \in Nat
    /\ Times \subseteq Nat
    /\ Rules \subseteq AggregationParseInfo
    /\ Missing \notin Groups \cup Values \cup Times
    /\ AllGroups \notin Groups
    /\ NoValue \notin Values
    /\ IsFiniteSet(Values)

Keys == Groups \cup {AllGroups}
FieldValues == Values \cup {NoValue}
AggRecordTimeInfo == [field_value : FieldValues, time : Nat]

VARIABLES
    rule,       \* the aggregation condition
    countdata,  \* group -> the matches filed under it, as they came
    todo,       \* groups still to be judged
    key,        \* the group being judged
    pc,         \* "scan", "pick", "slide", "done"
    datas,      \* its matches in order of time
    left, right,
    cnt,        \* NoFieldStrategy.cnt
    value_2_cnt,\* FieldStrategy.value_2_cnt, 0 where there is no entry
    ret         \* the results so far

vars == <<rule, countdata, todo, key, pc, datas, left, right, cnt, value_2_cnt, ret>>
window == <<left, right, cnt, value_2_cnt>>

-----------------------------------------------------------------------------
(* The timeframe in seconds, or the span of the data when there is none that *)
(* can be read.  parse_tframe accepts a number without a unit.               *)

Seconds(t) == t \div TicksPerSecond
Nanos(t) == t % TicksPerSecond

UnitSeconds(type) ==
    CASE type = "d" -> 86400 [] type = "h" -> 3600 [] type = "m" -> 60 [] OTHER -> 1

HasTimeframe == rule.timeframe.type # "none" /\ rule.timeframe.num # BadNumber

get_sec_timeframe(default) ==
    IF HasTimeframe THEN rule.timeframe.num * UnitSeconds(rule.timeframe.type)
                    ELSE default

DefFrame(d) == Seconds(d[Len(d)].time) - Seconds(d[1].time)

Frame == get_sec_timeframe(DefFrame(datas))

\* Mutant: fractions of a second are dropped.
InFrameDown(l, r) == Seconds(datas[r + 1].time) - Seconds(datas[l + 1].time) <= Frame

(* The time between two matches, rounded up to seconds, is at most the frame. *)
InFrame(l, r) ==
    LET lt == datas[l + 1].time
        rt == datas[r + 1].time
    IN  Seconds(rt) + (IF Nanos(rt) > Nanos(lt) THEN 1 ELSE 0) - Seconds(lt) <= Frame

select_aggcon(n) ==
    CASE rule.op = "EQ" -> n = rule.num
      [] rule.op = "GE" -> n >= rule.num
      [] rule.op = "GT" -> n > rule.num
      [] rule.op = "LE" -> n <= rule.num
      [] rule.op = "LT" -> n < rule.num

-----------------------------------------------------------------------------
(* The two ways of counting.  Indices outside of the data change nothing.    *)

Outside(i) == i < 0 \/ i >= Len(datas)

Count ==
    IF rule.field THEN Cardinality({v \in FieldValues : value_2_cnt[v] > 0}) ELSE cnt

Added(i) ==
    IF Outside(i) THEN [cnt |-> cnt, vals |-> value_2_cnt]
    ELSE IF rule.field
         THEN [cnt |-> cnt, vals |-> [value_2_cnt EXCEPT ![datas[i + 1].field_value] = @ + 1]]
         ELSE [cnt |-> cnt + 1, vals |-> value_2_cnt]

\* Mutant: the last entry of a value stays.
RemovedButOne(c, i) ==
    IF Outside(i) THEN c
    ELSE IF rule.field
         THEN [c EXCEPT !.vals[datas[i + 1].field_value] = IF @ <= 1 THEN @ ELSE @ - 1]
         ELSE [c EXCEPT !.cnt = @ - 1]

(* remove_data of datas[i] from the counter c. *)
Removed(c, i) ==
    IF Outside(i) THEN c
    ELSE IF rule.field
         THEN [c EXCEPT !.vals[datas[i + 1].field_value] = IF @ <= 1 THEN 0 ELSE @ - 1]
         ELSE [c EXCEPT !.cnt = @ - 1]

Empty == [v \in FieldValues |-> 0]

-----------------------------------------------------------------------------
Init ==
    /\ rule \in Rules
    /\ countdata = [k \in Keys |-> <<>>]
    /\ todo = {} /\ key = AllGroups /\ pc = "scan"
    /\ datas = <<>> /\ left = 0 /\ right = 0 /\ cnt = 0 /\ value_2_cnt = Empty
    /\ ret = <<>>

CountKey(e) == IF ~rule.by \/ e.group = Missing THEN AllGroups ELSE e.group

FieldValue(e) == IF ~rule.field \/ e.value = Missing THEN NoValue ELSE e.value

Matched == {m \in Keys \X (1..MaxRecords) : m[2] <= Len(countdata[m[1]])}

(* A record matches the rule while events are read. *)
Countup(e) ==
    /\ pc = "scan"
    /\ Cardinality(Matched) < MaxRecords
    /\ countdata' = [countdata EXCEPT ![CountKey(e)] =
            Append(@, [field_value |-> FieldValue(e),
                       time |-> IF e.time = Missing THEN DefaultTime ELSE e.time])]
    /\ UNCHANGED <<rule, todo, key, pc, datas, window, ret>>

(* All records have been read; groups without a match have no entry. *)
EndOfRecords ==
    /\ pc = "scan"
    /\ pc' = "pick"
    /\ todo' = {k \in Keys : countdata[k] # <<>>}
    /\ UNCHANGED <<rule, countdata, key, datas, window, ret>>

(* The orders that sort d by time, equal times as they came: a stable sort *)
(* has one.                                                                *)
SortOrders(d) ==
    {p \in [DOMAIN d -> DOMAIN d] :
        \A i, j \in DOMAIN d : i < j =>
            \/ d[p[i]].time < d[p[j]].time
            \/ d[p[i]].time = d[p[j]].time /\ p[i] < p[j]}

(* Groups come in the order of a hash map, that is in any. *)
JudgeKey(k) ==
    /\ pc = "pick"
    /\ k \in todo
    /\ todo' = todo \ {k}
    /\ key' = k
    /\ \E p \in SortOrders(countdata[k]) :
           datas' = [i \in DOMAIN countdata[k] |-> countdata[k][p[i]]]
    /\ left' = 0 /\ right' = 0 /\ cnt' = 0 /\ value_2_cnt' = Empty
    /\ pc' = "slide"
    /\ UNCHANGED <<rule, countdata, ret>>

Looping == pc = "slide" /\ left < Len(datas) /\ right < Len(datas) + 1

\* Mutant: the last match is never reached.
NotTheLast == right + 1 < Len(datas) /\ InFrame(left, right)

CanExtend == right < Len(datas) /\ InFrame(left, right)

(* One turn of the inner loop: the next match is within the timeframe. *)
Extend ==
    /\ Looping /\ CanExtend
    /\ cnt' = Added(right).cnt /\ value_2_cnt' = Added(right).vals
    /\ right' = right + 1
    /\ UNCHANGED <<rule, countdata, todo, key, pc, datas, left, ret>>

\* Mutant: the last match of a result is counted again.
SharedEnd == right - 1

(* Where the window starts after a result. *)
AfterResult == right

(* The count of the window fits: it is a result, and the next window starts *)
(* behind it with an empty counter.                                         *)
Report ==
    /\ Looping /\ ~CanExtend /\ select_aggcon(Count)
    /\ ret' = Append(ret, [data |-> Count, key |-> key, from |-> left, to |-> right,
                           start |-> datas[left + 1].time,
                           records |-> SubSeq(datas, left + 1, right)])
    /\ IF rule.field THEN value_2_cnt' = Empty /\ UNCHANGED cnt
                     ELSE cnt' = 0 /\ UNCHANGED value_2_cnt
    /\ left' = AfterResult
    /\ UNCHANGED <<rule, countdata, todo, key, pc, datas, right>>

(* It does not: both ends move by one, whatever the time of the next match. *)
Slide ==
    /\ Looping /\ ~CanExtend /\ ~select_aggcon(Count)
    /\ LET c == Removed(Added(right), left)
       IN  cnt' = c.cnt /\ value_2_cnt' = c.vals
    /\ right' = right + 1
    /\ left' = left + 1
    /\ UNCHANGED <<rule, countdata, todo, key, pc, datas, ret>>

\* Mutant: waits for the right end only.
EndOfKeyAtRight ==
    /\ pc = "slide" /\ right > Len(datas)
    /\ pc' = "pick"
    /\ UNCHANGED <<rule, countdata, todo, key, datas, window, ret>>

EndOfKey ==
    /\ pc = "slide" /\ ~Looping
    /\ pc' = "pick"
    /\ UNCHANGED <<rule, countdata, todo, key, datas, window, ret>>

Judged ==
    /\ pc = "pick" /\ todo = {}
    /\ pc' = "done"
    /\ UNCHANGED <<rule, countdata, todo, key, datas, window, ret>>

Judge == (\E k \in Keys : JudgeKey(k)) \/ Extend \/ Report \/ Slide \/ EndOfKey \/ Judged

Next == (\E e \in Event : Countup(e)) \/ EndOfRecords \/ Judge

(* The judging loop runs without waiting for anybody. *)
Spec == Init /\ [][Next]_vars /\ WF_vars(Judge)

-----------------------------------------------------------------------------
AggResult == [data : Int, key : Keys, from : Nat, to : Nat, start : Nat,
              records : Seq(AggRecordTimeInfo)]

TypeOK ==
    /\ rule \in Rules
    /\ countdata \in [Keys -> Seq(AggRecordTimeInfo)]
    /\ todo \subseteq Keys /\ key \in Keys
    /\ pc \in {"scan", "pick", "slide", "done"}
    /\ datas \in Seq(AggRecordTimeInfo)
    /\ left \in Nat /\ right \in Nat
    /\ cnt \in Int
    /\ value_2_cnt \in [FieldValues -> Nat]
    /\ ret \in Seq(AggResult)

Low == IF right <= Len(datas) THEN right ELSE Len(datas)

(* The counters are those of the records in the window, although they are   *)
(* only ever updated at its ends, and across its end at the end of the data *)
(* (count.rs 358-457, 522-537).                                             *)
CounterIsWindow ==
    pc = "slide" =>
        /\ ~rule.field => cnt = Low - left
        /\ rule.field => \A v \in FieldValues :
              value_2_cnt[v] = Cardinality({i \in left + 1 .. Low : datas[i].field_value = v})

GrowsWithWindow == rule.op \in {"GE", "GT"}

(* A result is of at least one record (create_agg_result unwraps the first), *)
(* and no record is in two results of a group (count.rs 527-529).            *)
ResultsDisjoint ==
    \A i \in DOMAIN ret :
        /\ ret[i].from < ret[i].to
        /\ \A j \in DOMAIN ret :
               i < j /\ ret[i].key = ret[j].key => ret[i].to <= ret[j].from

(* Distance of two times in seconds, rounded up. *)
Apart(s, t) == Seconds(t) + (IF Nanos(t) > Nanos(s) THEN 1 ELSE 0) - Seconds(s)

Fits(r) == HasTimeframe /\ GrowsWithWindow /\ ~rule.field =>
    \A i, j \in DOMAIN r.records :
        i < j => Apart(r.records[i].time, r.records[j].time) <= get_sec_timeframe(0)

(* A count of records "at least n" never reports records further apart than *)
(* the timeframe, although the window slides over gaps longer than that     *)
(* (count.rs 530-536): it can only fit when the last turn extended it.      *)
CountWithinTimeframe == \A i \in DOMAIN ret : Fits(ret[i])

(* The number of values among matches number i to j - 1. *)
CountOf(i, j) == IF rule.field
                 THEN Cardinality({v \in FieldValues : \E m \in i + 1 .. j : datas[m].field_value = v})
                 ELSE j - i

Covered(i, j) ==
    \E m \in DOMAIN ret : ret[m].key = key /\ ret[m].from < j /\ i < ret[m].to

(* No burst is missed: when a group is done, every stretch of its records   *)
(* that lies within the timeframe and fits overlaps a result, although the  *)
(* window never shrinks (count.rs 519-537).                                 *)
NothingMissed ==
    pc = "slide" /\ ~Looping /\ GrowsWithWindow =>
        \A i, j \in 0..Len(datas) :
            i < j /\ InFrame(i, j - 1) /\ select_aggcon(CountOf(i, j)) => Covered(i, j)

(* Judging ends for every group (count.rs 212, 518). *)
JudgingEnds == pc = "pick" ~> pc = "done"

=============================================================================
