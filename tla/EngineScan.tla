----------------------------- MODULE EngineScan -----------------------------
(***************************************************************************)
(* One scan (src/engine/src/main.rs, filter.rs, detections/detection.rs):   *)
(* the channel filter, then file by file batches of records that every rule *)
(* searches in a task of its own, the aggregated results at the end, and    *)
(* the report.  Without sorting, rows are written batch by batch.           *)
(*                                                                          *)
(* A rule selects by channel and one word (RuleText has the conditions) and *)
(* may count (Timeframe has the windows).  rule.named are the channels that *)
(* the filter finds in it: those given plainly, without a modifier and in   *)
(* the case of the log.                                                     *)
(***************************************************************************)
EXTENDS Afterfact

CONSTANTS
    Options,            \* the options, rules and files of the scans checked
    MAX_DETECT_RECORDS,
    CountDefaultTime,   \* 1977-01-01
    ReleaseDate         \* 2007-01-30

Ats(list) == {r.at : r \in UNION {ToSet(list[i].records) : i \in DOMAIN list}}

(* What the files and the rules of a scan are.  at is the place of a record, *)
(* the log and the number in it: no two records share one.  The ids of rules *)
(* are unique, times and event ids numbers.                                  *)
ASSUME OptionsAssumption ==
    /\ MAX_DETECT_RECORDS \in Nat \ {0} /\ CountDefaultTime \in Int
    /\ \A o \in Options :
        /\ o.rules \in Seq(ToSet(o.rules)) /\ o.files \in Seq(ToSet(o.files))
        /\ \A i, j \in DOMAIN o.rules : o.rules[i].id = o.rules[j].id => i = j
        /\ \A rule \in ToSet(o.rules) : rule.level \in Levels /\ rule.agg.num \in Nat
        /\ \A f \in ToSet(o.files) :
            /\ f.items \in Seq(ToSet(f.items))
            /\ \A i \in DOMAIN f.items :
                /\ f.items[i].records \in Seq(ToSet(f.items[i].records))
                /\ \A r \in ToSet(f.items[i].records) : r.time \in Int /\ r.eid \in Int
            /\ \A i, j \in DOMAIN f.items :
                \A k \in DOMAIN f.items[i].records, l \in DOMAIN f.items[j].records :
                    f.items[i].records[k].at = f.items[j].records[l].at => i = j /\ k = l
        /\ \A i, j \in DOMAIN o.files : i # j => Ats(o.files[i].items) \cap Ats(o.files[j].items) = {}

VARIABLES
    phase,
    rules,          \* rule_files, after the filter
    evtx_files,     \* those not yet read
    items,          \* what is left of the file being read
    from_evtx,
    counts,         \* its [record_cnt, recovered] so far
    records_per_detect,
    position,       \* [ids of rules -> the record its task takes next]
    found,          \* [ids of rules -> the detections of its task]
    countdata,      \* [ids of rules -> the records counted]
    all_detect_infos,
    af,             \* afterfact_info and the rows
    tl,             \* the first and last time of the log
    mitre,          \* COMPUTER_MITRE_ATTCK_MAP and _UNIQUE_KEYS
    pivot,          \* PIVOT_KEYWORD
    left_out,       \* the detections removed as duplicates
    summary,
    promise         \* what the report owes; not in the code

reading == <<evtx_files, items, from_evtx, counts>>
tasks == <<records_per_detect, position, found, countdata, mitre, pivot>>
report == <<all_detect_infos, af, left_out, summary>>
scanVars == <<opt, phase, rules, reading, tasks, report, tl, promise>>

-----------------------------------------------------------------------------
(* Which records are looked at.                                              *)

IsFilteredOut(v, include, exclude) ==
    (include # {} /\ v \notin include) \/ v \in exclude

is_filtered_by_eid(r) ==
    \/ IsFilteredOut(r.eid, opt.include_eid, opt.exclude_eid)
    \/ opt.eid_filter /\ r.eid # NoEventId /\ r.eid \notin opt.target_eids

is_target(t) ==
    t = NoTime \/ (opt.start_time <= t /\ t <= opt.end_time)

Kept(r) ==
    /\ ~IsFilteredOut(r.computer, opt.include_computer, opt.exclude_computer)
    /\ ~is_filtered_by_eid(r)
    /\ r.channel # Absent
    /\ is_target(r.time)

selects(rule, r) ==
    /\ rule.channels = {} \/ r.channel \in rule.channels
    /\ rule.word = Absent \/ \E f \in DOMAIN r.data : r.data[f] = rule.word

HasAgg(rule) == rule.agg.num > 0

(* countup: what is kept of a record; the defaults are not those of a log    *)
(* record.                                                                   *)
AggRecordTimeInfo(r) ==
    [time |-> IF r.time = NoTime THEN CountDefaultTime ELSE r.time,
     eid |-> IF r.eid = NoEventId THEN DashEventId ELSE r.eid,
     computer |-> r.computer, channel |-> r.channel, file |-> r.file, at |-> r.at]

(* One window over the whole scan. *)
judged(rule, seq) ==
    IF ~HasAgg(rule) \/ Len(seq) < rule.agg.num THEN <<>>
    ELSE <<create_agg_log_record(rule,
            [data |-> Len(seq), key |-> "_", field_values |-> <<>>, infos |-> seq,
             start |-> Min({seq[i].time : i \in DOMAIN seq})])>>

-----------------------------------------------------------------------------
(* What is owed, said without batches, tasks or buffers: a detection for     *)
(* every rule and record it selects.  The filter takes a file for what its   *)
(* first record is, and a rule that names no channel for none.               *)

Filtering == opt.channel_filter /\ \A f \in ToSet(opt.files) : f.evtx

Readable(f) == f.opens /\ (Filtering => f.items # <<>> /\ f.items[1].ok)
RecordsOf(list) == UNION {ToSet(list[i].records) : i \in {j \in DOMAIN list : list[j].ok}}
Analysed == {r \in UNION {RecordsOf(f.items) : f \in {g \in ToSet(opt.files) : Readable(g)}} : Kept(r)}
InForce == {rule \in ToSet(opt.rules) : Filtering => rule.named # {}}

Detections(rs, records) ==
    {create_log_record(x[1], x[2]) :
        x \in {y \in rs \X records : ~HasAgg(y[1]) /\ selects(y[1], y[2])}}
Hits(rule, records) == {AggRecordTimeInfo(r) : r \in {s \in records : selects(rule, s)}}

Due ==
    IF opt.action = "pivot" THEN {}
    ELSE Detections(InForce, Analysed)
         \cup UNION {ToSet(judged(rule, SetToSeq(Hits(rule, Analysed)))) : rule \in InForce}

(* The filter guesses well: the records of a log are of the channel of its   *)
(* first one, and a rule names the channels it selects.                      *)
Foreseen ==
    Filtering =>
        /\ \A f \in ToSet(opt.files) : Readable(f) =>
            \A r \in RecordsOf(f.items) : Kept(r) => r.channel = f.items[1].records[1].channel
        /\ \A rule \in InForce : rule.channels # {} /\ rule.channels \subseteq rule.named
        /\ \A rule \in ToSet(opt.rules) : rule.correlation => rule \in InForce

Look(d) == [c \in Columns \ {"EvtxFile"} |-> d.cells[c]]

Owed ==
    [k \in {Id(d) : d \in Due} |->
        LET d == CHOOSE e \in Due : Id(e) = k IN [time |-> d.time, look |-> Look(d)]]

-----------------------------------------------------------------------------
Ids == {opt.rules[i].id : i \in DOMAIN opt.rules}

ScanInit ==
    /\ opt \in Options
    /\ phase = "filter"
    /\ rules = opt.rules /\ evtx_files = opt.files
    /\ items = <<>> /\ from_evtx = TRUE /\ counts = [record_cnt |-> 0, recovered |-> 0]
    /\ records_per_detect = <<>>
    /\ position = [id \in Ids |-> 1]
    /\ found = [id \in Ids |-> <<>>] /\ countdata = [id \in Ids |-> <<>>]
    /\ mitre = [total |-> NoCounts, keys |-> {}]
    /\ pivot = [k \in DOMAIN opt.pivot_fields |-> <<>>]
    /\ all_detect_infos = <<>> /\ af = AfterfactInfo /\ left_out = {} /\ summary = <<>>
    /\ tl = <<>>
    /\ promise = Owed

(* create_channel_filter: the channel of a file is that of its first record. *)
Peeked == {f \in ToSet(evtx_files) : f.opens /\ f.items # <<>> /\ f.items[1].ok}
PeekedChannel(f) == f.items[1].records[1].channel
PeekedChannels == {PeekedChannel(f) : f \in Peeked}
NamedBy(rs) == UNION {rs[i].named : i \in DOMAIN rs}

ApplyChannelFilter ==
    /\ phase = "filter"
    /\ phase' = "file"
    /\ LET intersec == NamedBy(rules) \cap PeekedChannels
           scanable(f) == f \in Peeked /\ PeekedChannel(f) \in intersec
           useful(rule) == rule.named \cap PeekedChannels # {} \/ rule.correlation
       IN  IF Filtering
           THEN /\ evtx_files' = Without(evtx_files, {i \in DOMAIN evtx_files : ~scanable(evtx_files[i])})
                /\ rules' = Without(rules, {i \in DOMAIN rules : ~useful(rules[i])})
           ELSE UNCHANGED <<evtx_files, rules>>
    /\ UNCHANGED <<opt, items, from_evtx, counts, tasks, report, tl, promise>>

OpenFile ==
    /\ phase = "file" /\ evtx_files # <<>>
    /\ evtx_files' = Tail(evtx_files)
    /\ LET f == Head(evtx_files)
       IN  /\ phase' = IF f.opens THEN "read" ELSE "file"
           /\ items' = IF f.opens THEN f.items ELSE <<>>
           /\ from_evtx' = f.evtx
    /\ counts' = [record_cnt |-> 0, recovered |-> 0]
    /\ UNCHANGED <<opt, rules, tasks, report, tl, promise>>

(* One record of an evtx file, or one value of a JSON file, which may hold   *)
(* several rows.  What does not parse is counted all the same.               *)
ReadRecord ==
    /\ phase = "read" /\ items # <<>> /\ Len(records_per_detect) < MAX_DETECT_RECORDS
    /\ items' = Tail(items)
    /\ LET item == Head(items)
       IN  /\ counts' = [record_cnt |-> counts.record_cnt
                            + (IF item.ok THEN Len(item.records) ELSE 1),
                         recovered |-> counts.recovered
                            + (IF item.ok /\ \E i \in DOMAIN item.records : item.records[i].recovered
                               THEN 1 ELSE 0)]
           /\ records_per_detect' = IF item.ok
                THEN records_per_detect
                        \o Without(item.records, {i \in DOMAIN item.records : ~Kept(item.records[i])})
                ELSE records_per_detect
    /\ UNCHANGED <<opt, phase, rules, evtx_files, from_evtx, position, found, countdata, mitre,
                   pivot, report, tl, promise>>

BatchIsFull == Len(records_per_detect) >= MAX_DETECT_RECORDS \/ items = <<>>

(* stats_time_cnt: of the first and of the last record of a batch. *)
CheckStartEnd(stats, t) ==
    CASE t = NoTime -> stats
      [] t # NoTime /\ stats = <<>> ->
           [start |-> IF t >= ReleaseDate THEN t ELSE NoTime, end |-> t]
      [] OTHER -> [start |-> IF t >= ReleaseDate /\ (stats.start = NoTime \/ t < stats.start)
                             THEN t ELSE stats.start,
                   end |-> Max({stats.end, t})]

StartTasks ==
    /\ phase = "read" /\ BatchIsFull /\ records_per_detect # <<>>
    /\ phase' = "tasks"
    /\ tl' = IF opt.action = "pivot" THEN tl
             ELSE CheckStartEnd(CheckStartEnd(tl, Head(records_per_detect).time),
                                Last(records_per_detect).time)
    /\ position' = [id \in Ids |-> 1] /\ found' = [id \in Ids |-> <<>>]
    /\ UNCHANGED <<opt, rules, reading, records_per_detect, countdata, mitre, pivot, report,
                   promise>>

EndFile ==
    /\ phase = "read" /\ BatchIsFull /\ records_per_detect = <<>>
    /\ phase' = "file"
    /\ af' = [af EXCEPT !.record_cnt = @ + counts.record_cnt,
                        !.recover_record_cnt = @ + counts.recovered]
    /\ UNCHANGED <<opt, rules, reading, tasks, all_detect_infos, left_out, summary, tl, promise>>

-----------------------------------------------------------------------------
(* The tasks: execute_rule, record by record, all rules at once.             *)

(* insert_pivot_keyword: the values of the fields of each category, in the   *)
(* order in which they come.                                                 *)
NoKeyword == {Dash, "127.0.0.1", "::1", Absent}
PivotValues(fields, r) ==
    LET new(v) == v \notin NoKeyword
    IN  SelectSeq([i \in DOMAIN fields |-> ValueOf(r, fields[i])], new)
Inserted(seq, vs) == FoldLeft(LAMBDA s, v : IF v \in ToSet(s) THEN s ELSE Append(s, v), seq, vs)
insert_pivot_keyword(r) ==
    IF ~r.has_level THEN pivot
    ELSE [k \in DOMAIN pivot |-> Inserted(pivot[k], PivotValues(opt.pivot_fields[k], r))]

(* The tactics by computer, for the HTML report.  The computer is known when *)
(* its column comes first.                                                   *)
WithTactics(rule, r) ==
    LET computer == IF IsBefore("Computer", "MitreTactics") THEN r.computer ELSE ""
        names == {<<computer, t.name>> : t \in ToSet(Tagged(rule, "tactic"))}
    IN  IF ~opt.html \/ "MitreTactics" \notin Columns THEN mitre
        ELSE [total |-> Added(mitre.total, names),
              keys |-> mitre.keys \cup {<<n, rule.path>> : n \in names}]

TaskStep(rule) ==
    LET r == records_per_detect[position[rule.id]]
    IN  /\ phase = "tasks" /\ position[rule.id] <= Len(records_per_detect)
        /\ position' = [position EXCEPT ![rule.id] = @ + 1]
        /\ countdata' = [countdata EXCEPT ![rule.id] =
                IF selects(rule, r) /\ HasAgg(rule) THEN Append(@, AggRecordTimeInfo(r)) ELSE @]
        /\ IF selects(rule, r) /\ opt.action = "pivot"
           THEN pivot' = insert_pivot_keyword(r) /\ UNCHANGED <<found, mitre>>
           ELSE IF selects(rule, r) /\ ~HasAgg(rule)
           THEN /\ found' = [found EXCEPT ![rule.id] = Append(@, create_log_record(rule, r))]
                /\ mitre' = WithTactics(rule, r)
                /\ UNCHANGED pivot
           ELSE UNCHANGED <<found, mitre, pivot>>
        /\ UNCHANGED <<opt, phase, rules, reading, records_per_detect, report, tl, promise>>

(* The first and last detection: only of batches with at least two, and of   *)
(* evtx files.                                                               *)
DetectTime(log) ==
    LET times == {log[i].time : i \in DOMAIN log} \cup ToSet(af.detect_time)
    IN  IF ~from_evtx \/ Len(log) < 2 THEN af.detect_time ELSE <<Min(times), Max(times)>>

JoinTasks ==
    /\ phase = "tasks"
    /\ \A i \in DOMAIN rules : position[rules[i].id] > Len(records_per_detect)
    /\ phase' = "read"
    /\ LET log == FlattenSeq([i \in DOMAIN rules |-> found[rules[i].id]])
           seen == [af EXCEPT !.detect_time = DetectTime(log)]
       IN  IF opt.is_low_memory
           THEN af' = emit_csv(seen, log, {}) /\ UNCHANGED all_detect_infos
           ELSE af' = seen /\ all_detect_infos' = all_detect_infos \o log
    /\ records_per_detect' = <<>>
    /\ UNCHANGED <<opt, rules, reading, position, found, countdata, mitre, pivot, left_out,
                   summary, tl, promise>>

-----------------------------------------------------------------------------
(* add_aggcondition_msges, for rules that only count. *)
Aggregate ==
    /\ phase = "file" /\ evtx_files = <<>>
    /\ LET log == FlattenSeq([i \in DOMAIN rules |-> judged(rules[i], countdata[rules[i].id])])
       IN  CASE opt.action = "pivot" -> UNCHANGED <<af, all_detect_infos>>
             [] opt.action # "pivot" /\ opt.is_low_memory ->
                  af' = emit_csv(af, log, {}) /\ UNCHANGED all_detect_infos
             [] OTHER -> all_detect_infos' = all_detect_infos \o log /\ UNCHANGED af
    /\ phase' = IF opt.action = "pivot" THEN "done" ELSE "output"
    /\ UNCHANGED <<opt, rules, reading, tasks, left_out, summary, tl, promise>>

(* output_afterfact *)
Output ==
    /\ phase = "output"
    /\ phase' = "done"
    /\ IF opt.is_low_memory THEN UNCHANGED <<af, left_out>>
       ELSE \E s \in sort_detect_info(all_detect_infos) : \E duplicates \in {Duplicates(s)} :
                /\ af' = emit_csv(af, s, duplicates)
                /\ left_out' = {Id(s[i]) : i \in duplicates}
    /\ summary' = Summary(af', tl)
    /\ UNCHANGED <<opt, rules, reading, tasks, all_detect_infos, tl, promise>>

Task == \E i \in DOMAIN rules : TaskStep(rules[i])

ScanNext ==
    ApplyChannelFilter \/ OpenFile \/ ReadRecord \/ StartTasks \/ EndFile \/ Task \/ JoinTasks
    \/ Aggregate \/ Output

ScanSpec == ScanInit /\ [][ScanNext]_scanVars /\ WF_scanVars(ScanNext)

-----------------------------------------------------------------------------
ShownIds == [i \in DOMAIN af.rows |-> af.rows[i].id]

Owing == INSTANCE Report WITH due <- promise, ordered <- ~opt.is_low_memory,
                              shown <- ShownIds, left_out <- left_out, done <- phase = "done"

(* Every detection of every record that is looked at is a row of the report, *)
(* once, or reads like one; rows are never taken back, they are in the order *)
(* of time unless memory is spared, and every scan ends: the filter, the     *)
(* batches, the tasks of a batch in any order, the buffers and the removal   *)
(* of duplicates do not show (main.rs:1343, afterfact.rs:254).               *)
Reported == Owing!Spec

(* The cells of the rows, with DUP followed back. *)
Recovered(rows) ==
    LET upto[i \in 0..Len(rows)] ==
            IF i = 0 THEN [c \in DetailColumns |-> Plain(Dash)]
            ELSE [c \in DOMAIN rows[i].cells |->
                    IF c \in DetailColumns /\ rows[i].cells[c] = Dup THEN upto[i - 1][c]
                    ELSE rows[i].cells[c]]
    IN  upto

Undisguised(d) ==
    IF opt.json THEN [c \in JsonColumns(d) |-> JsonPlain(d, c)]
    ELSE IF opt.to_screen THEN ScreenRow(d) ELSE d.cells

(* A text of the log that reads like the mark. *)
SaysDup(d) == \E c \in DOMAIN Undisguised(d) \cap DetailColumns : Undisguised(d)[c] = Dup

(* What a CSV report writes as DUP can be read off the row before (-R,       *)
(* afterfact.rs:442): following them back gives the report without that      *)
(* option, unless a log says DUP of itself.  A JSON report compares the      *)
(* templates of two rows and not their values (afterfact.rs:1846), and what  *)
(* it writes as DUP is lost.                                                 *)
DupRecoverable ==
    /\ ~(opt.json /\ opt.remove_duplicate_data)
    /\ \A d \in ToSet(all_detect_infos) : ~SaysDup(d)
    => \A i \in DOMAIN af.rows : \A d \in ToSet(all_detect_infos) :
        Id(d) = af.rows[i].id => Recovered(af.rows)[i] = Undisguised(d)

(* Records without a time or an id. *)
Unstamped == {r \in Analysed : r.time = NoTime \/ r.eid = NoEventId}

(* Events with hits are never more than the events that were read, except    *)
(* for records without a time or an id, which a rule that counts and one     *)
(* that does not know by different names: what is subtracted in              *)
(* afterfact.rs:753 is an unsigned number.                                   *)
HitsWithinRecords ==
    phase = "done" /\ opt.action # "pivot" =>
        summary.hits <= summary.total + Cardinality(Unstamped)

(* The numbers of the summary are those of the report: every row is counted  *)
(* once, and as unique the first row of every rule (afterfact.rs:491).       *)
SummaryAgrees ==
    phase = "done" /\ opt.action # "pivot" /\ ~opt.no_summary =>
        /\ summary.count.total = Len(af.rows)
        /\ summary.count.unique = Cardinality({af.rows[i].id[1] : i \in DOMAIN af.rows})
=============================================================================
