------------------------------ MODULE Commands ------------------------------
(***************************************************************************)
(* Hayabusa run from the command line, time and again in one directory      *)
(* (src/engine/src/main.rs: App.exec, analysis_start, analysis_files).  A   *)
(* command looks at what is on the disk, reads the logs batch by batch and  *)
(* writes its tables.  What csv-timeline, json-timeline and                 *)
(* pivot-keywords-list make of the records is in EngineScan: here stand the *)
(* records they are given.                                                  *)
(***************************************************************************)
EXTENDS Search

CONSTANTS
    CommandLines,           \* those tried
    Disks,                  \* [paths -> contents], before the first command
    Logs,                   \* [paths of logs -> what they hold]
    Directories,            \* [directories -> the paths under them, in their order]
    TargetEventIds,         \* target_event_IDs.txt
    PivotKeys,              \* the categories of pivot_keywords.txt
    MAX_DETECT_RECORDS,
    MaxCommands             \* a bound

(* A log is a sequence of items, an item a sequence of records, each of that *)
(* log.  The parser of the command line takes keywords or a regex, not both. *)
IsList(s) == s \in Seq(ToSet(s))
ASSUME CommandAssumption ==
    /\ MAX_DETECT_RECORDS \in Nat \ {0}
    /\ NoEventId \notin {21, 302, 4624, 4625}
    /\ \A f \in DOMAIN Logs :
        /\ IsList(Logs[f].items)
        /\ \A item \in ToSet(Logs[f].items) :
            /\ IsList(item.records)
            /\ \A r \in ToSet(item.records) :
                r.file = f /\ \A k \in DOMAIN r.payloads : IsList(r.payloads[k])
    /\ \A dir \in DOMAIN Directories :
        IsList(Directories[dir]) /\ ToSet(Directories[dir]) \subseteq DOMAIN Logs
    /\ \A c \in {create_static_data(line) : line \in CommandLines} :
        /\ c.input[1] \in {"live", "directories", "file"}
        /\ c.input[1] = "directories" =>
            IsList(c.input[2]) /\ ToSet(c.input[2]) \subseteq DOMAIN Directories
        /\ c.keywords = {} \/ c.regex = Absent
        /\ Absent \notin c.include_computer

VARIABLES disk, issued, phase, cmd, files, tl,
          before            \* the disk when the command began; not in the code

commandVars == <<disk, issued, phase, cmd, files, tl, before>>

File(text) == [text |-> text]

(* The disk d when the files new have been written. *)
Over(new, d) == [p \in DOMAIN new \cup DOMAIN d |-> IF p \in DOMAIN new THEN new[p] ELSE d[p]]
Written(d, path, text) == Over([p \in {path} |-> File(text)], d)

(* Paths: a name and what is added to it. *)
Path(name) == <<name, "">>
Outputs(c) ==
    IF c.output = Absent THEN {}
    ELSE CASE c.action = "logon-summary" ->
                {<<c.output, "-successful.csv">>, <<c.output, "-failed.csv">>}
           [] c.action = "pivot-keywords-list" -> {<<c.output, "-" \o k \o ".txt">> : k \in PivotKeys}
           [] OTHER -> {Path(c.output)}
HtmlReport(c) == IF c.html_report = Absent THEN {} ELSE {Path(c.html_report)}

EncodedRules == Path("encoded_rules.yml")
RulesDirectory == Path("rules")
RuleConfig == Path("rules/config")
CriticalSystems == Path("config/critical_systems.txt")

(* Mutant: of the two files of logon-summary, only the first is checked. *)
GuardedFirst(c) ==
    IF c.action = "logon-summary"
    THEN {p \in Outputs(c) : p[2] = "-successful.csv"} ELSE Outputs(c) \cup HtmlReport(c)

(* What a command is checked to leave alone. *)
Guarded(c) == Outputs(c) \cup HtmlReport(c)

EmptyTimeline ==
    [stats |-> EventMetrics, search |-> EventSearch, base64 |-> <<>>, critical |-> NoSystems,
     detected |-> <<>>, written |-> <<>>, total_record_cnt |-> 0]

-----------------------------------------------------------------------------
(* Which files.                                                              *)
IsLog(c, f) == Logs[f].extension \in get_target_extensions(c) /\ ~Logs[f].hidden

collect_evtxfiles(c, dir) == Chosen(Directories[dir], {f \in DOMAIN Logs : IsLog(c, f)})

(* Directories that overlap give their files twice.                          *)
FilesOf(c) ==
    CASE c.input[1] = "live" -> <<>>
      [] c.input[1] = "directories" ->
            FlattenSeq([i \in DOMAIN c.input[2] |-> collect_evtxfiles(c, c.input[2][i])])
      [] c.input[1] = "file" ->
            IF c.input[2] \in DOMAIN Logs /\ IsLog(c, c.input[2]) THEN <<c.input[2]>> ELSE <<>>

(* The channel of a log is that of its first record.                         *)
peek_channel(f) ==
    IF Logs[f].opens /\ Logs[f].items # <<>> /\ Logs[f].items[1].ok
    THEN Logs[f].items[1].records[1].channel ELSE Absent

scanable(f, channels) == peek_channel(f) # Absent /\ peek_channel(f) \in channels

apply_channel_filter(fs, channels, is_exclude) ==
    IF channels = {} THEN fs
    ELSE Chosen(fs, {f \in DOMAIN Logs : scanable(f, channels) # is_exclude})

apply_filename_filter(fs, names, is_exclude) ==
    IF names = {} THEN fs
    ELSE Chosen(fs, {f \in DOMAIN Logs : (\E n \in names : WildMatch(n, f)) # is_exclude})

filter_evtx_files(fs, c) ==
    apply_filename_filter(
        apply_filename_filter(
            apply_channel_filter(
                apply_channel_filter(fs, c.include_channel, FALSE), c.exclude_channel, TRUE),
            c.include_filename, FALSE),
        c.exclude_filename, TRUE)

LogonChannels == {"Security", Lsm, Gateway}

Scanned(c, fs) ==
    CASE c.action \in Detecting
            /\ ~c.json_input /\ ~c.scan_all_evtx_files /\ ~c.enable_all_rules ->
                Chosen(fs, {f \in DOMAIN Logs : scanable(f, c.rule_channels)})
      [] c.action = "logon-summary" /\ ~c.json_input ->
                Chosen(fs, {f \in DOMAIN Logs : scanable(f, LogonChannels)})
      [] c.action = "config-critical-systems" ->
                Chosen(fs, {f \in DOMAIN Logs : scanable(f, {"Security"})})
      [] c.action = "log-metrics" -> filter_evtx_files(fs, c)
      [] OTHER -> fs

-----------------------------------------------------------------------------
(* Which records.                                                            *)
is_filtered_by_eid(r, c) ==
    \/ IsFilteredOut(r.eid, c.include_eid, c.exclude_eid)
    \/ c.eid_filter /\ r.eid # NoEventId /\ r.eid \notin TargetEventIds

(* search does not look at these in a log of Windows; computer-metrics at    *)
(* nothing.                                                                  *)
is_filtered_record(r, c, in_json) ==
    \/ /\ in_json \/ c.action # "search"
       /\ \/ is_filtered_by_computer_name(r, c)
          \/ is_filtered_by_eid(r, c)
          \/ r.channel = Absent
    \/ ~is_target(c, r.time)

(* What the parser yields: of a page no longer in use only when asked.       *)
ItemsOf(f, c) ==
    IF ~Logs[f].opens THEN <<>>
    ELSE Chosen(Logs[f].items, {i \in ToSet(Logs[f].items) : i.recovered => c.recover_records})
RecordsIn(items) == FlattenSeq([i \in DOMAIN items |-> IF items[i].ok THEN items[i].records ELSE <<>>])

InJson(f) == Logs[f].extension \in {"json", "jsonl"}
Unfiltered(rs, f, c) == Chosen(rs, {r \in ToSet(rs) : ~is_filtered_record(r, c, InJson(f))})

(* An answer of Splunk holds many records, which stay together: a batch ends *)
(* with the item that fills it.                                              *)
Batches(f, c) ==
    LET add(acc, item) ==
            LET batch == acc.open \o Unfiltered(RecordsIn(<<item>>), f, c)
            IN  IF Len(batch) >= MAX_DETECT_RECORDS
                THEN [full |-> Append(acc.full, batch), open |-> <<>>]
                ELSE [full |-> acc.full, open |-> batch]
        all == Each(add, [full |-> <<>>, open |-> <<>>], ItemsOf(f, c))
    IN  IF all.open = <<>> THEN all.full ELSE Append(all.full, all.open)

(* Timeline.start, for one batch.                                            *)
start(c, t, batch) ==
    LET timed == [t EXCEPT !.stats = stats_time_cnt(@, batch)]
    IN  CASE c.action = "eid-metrics" ->
                [timed EXCEPT !.stats = Each(LAMBDA st, r : stats_eventid(st, r, c), @, batch)]
          [] c.action = "logon-summary" ->
                [timed EXCEPT !.stats = Each(LAMBDA st, r : stats_login_eventid(st, r, c), @, batch)]
          [] c.action = "log-metrics" -> [timed EXCEPT !.stats = logfile_stats_start(@, batch)]
          [] c.action = "search" ->
                [t EXCEPT !.search = search_start(@, batch, c),
                          !.written = @ \o written(t.search, batch, c)]
          [] c.action = "extract-base64" ->
                [t EXCEPT !.base64 = @ \o process_evtx_record_infos(batch)]
          [] c.action = "config-critical-systems" ->
                [t EXCEPT !.critical = Each(find_critical_computers, @, batch)]
          [] c.action \in Timelines -> [timed EXCEPT !.detected = @ \o batch]
          [] c.action = "pivot-keywords-list" -> [t EXCEPT !.detected = @ \o batch]
          [] OTHER -> t

(* Of a log of Windows, what does not parse is counted, too.                 *)
record_cnt(f, c) == Len(IF InJson(f) THEN RecordsIn(ItemsOf(f, c)) ELSE ItemsOf(f, c))

analysis_file(c, t, f) ==
    LET counted == IF c.action = "computer-metrics"
                   THEN Each(countup_event_by_computer, t.stats, RecordsIn(ItemsOf(f, c)))
                   ELSE t.stats
    IN  [Each(LAMBDA u, b : start(c, u, b), [t EXCEPT !.stats = counted], Batches(f, c))
            EXCEPT !.total_record_cnt = @ + record_cnt(f, c)]

-----------------------------------------------------------------------------
(* What is written, by path.                                                 *)
Rows(table) == <<<<"rows", table>>>>
Nothing == [p \in {} |-> File(<<>>)]
At(path, text) == [p \in {path} |-> File(text)]

tm_logon_stats(c, st) ==
    IF st.successful = EmptyBag /\ st.failed = EmptyBag THEN Nothing
    ELSE Over(At(<<c.output, "-successful.csv">>, Rows(tm_loginstats_tb(st.successful))),
              At(<<c.output, "-failed.csv">>, Rows(tm_loginstats_tb(st.failed))))

Tables(c, t) ==
    LET out == Path(c.output)
    IN  CASE c.action = "eid-metrics" -> At(out, Rows(tm_stats_set_msg(t.stats)))
          [] c.action = "logon-summary" -> tm_logon_stats(c, t.stats)
          [] c.action = "computer-metrics" ->
                IF t.stats.stats_computer = <<>> THEN Nothing ELSE At(out, Rows(computer_table(t.stats)))
          [] c.action = "log-metrics" -> At(out, Rows(log_metrics_table(t.stats, c)))
          [] c.action = "search" -> At(out, t.written \o search_result_dsp_msg(t.search, c))
          [] c.action = "extract-base64" ->
                IF t.base64 = <<>> THEN Nothing ELSE At(out, output_all(t.base64))
          [] c.action \in Timelines -> At(out, <<<<"timeline", t.detected>>>>)
          [] OTHER -> Nothing

(* Lines are added at the end of critical_systems.txt, which is then written *)
(* anew, sorted and without duplicates.                                      *)
Lines(d) == IF d[CriticalSystems].text = <<>> THEN {} ELSE d[CriticalSystems].text[1][2]
WithLines(d, names) ==
    IF names = {} THEN d ELSE Written(d, CriticalSystems, <<<<"names", Lines(d) \cup names>>>>)

-----------------------------------------------------------------------------
CommandInit ==
    /\ disk \in Disks /\ before = disk
    /\ issued = 0 /\ phase = "over"
    /\ cmd = create_static_data(CHOOSE c \in CommandLines : TRUE)
    /\ files = <<>> /\ tl = EmptyTimeline

(* The screen is the file whose name is Absent. *)
Cleared(d) == [p \in {q \in DOMAIN d : q[1] # Absent} |-> d[p]]

Issue ==
    /\ phase = "over" /\ issued < MaxCommands
    /\ issued' = issued + 1
    /\ \E c \in CommandLines : cmd' = create_static_data(c)
    /\ disk' = Cleared(disk) /\ before' = disk'
    /\ phase' = "exec" /\ files' = <<>> /\ tl' = EmptyTimeline

Exists(p) == p \in DOMAIN disk

Refused ==
    \/ ~IsValidLevel(cmd)
    \/ ~check_is_valid_args_num(cmd)
    \/ Exists(EncodedRules) /\ Exists(RulesDirectory)
    \/ ~is_parse_success(cmd)
    \/ cmd.action \in Timelines /\ ~Exists(RuleConfig)
    \/ ~cmd.clobber /\ \E p \in Guarded(cmd) : Exists(p)
    \/ cmd.action \in Timelines /\ cmd.json_input
            /\ (cmd.scan_all_evtx_files \/ cmd.enable_all_rules)

Refuse ==
    /\ phase = "exec" /\ Refused
    /\ phase' = "over"
    /\ UNCHANGED <<disk, issued, cmd, files, tl, before>>

(* config-critical-systems makes sure of its file, and offers to empty it.   *)
Begin ==
    /\ phase = "exec" /\ ~Refused
    /\ phase' = "collect"
    /\ \/ disk' = IF cmd.action = "config-critical-systems" /\ ~Exists(CriticalSystems)
                  THEN Written(disk, CriticalSystems, <<>>) ELSE disk
       \/ /\ cmd.action = "config-critical-systems"
          /\ Exists(CriticalSystems) /\ disk[CriticalSystems].text # <<>>
          /\ disk' = Written(disk, CriticalSystems, <<>>)
    /\ UNCHANGED <<issued, cmd, files, tl, before>>

Collect ==
    /\ phase = "collect"
    /\ files' = FilesOf(cmd)
    /\ phase' = IF files' = <<>> \/ (cmd.action \in Detecting /\ ~cmd.rules_loaded)
                THEN "finish" ELSE "filter"
    /\ UNCHANGED <<disk, issued, cmd, tl, before>>

(* init_writer makes the output anew, when it is one file.                   *)
InitWriter ==
    /\ phase = "filter"
    /\ phase' = "read"
    /\ files' = Scanned(cmd, files)
    /\ disk' = IF cmd.output = Absent \/ cmd.action \in {"pivot-keywords-list", "logon-summary"}
               THEN disk ELSE Written(disk, Path(cmd.output), <<>>)
    /\ UNCHANGED <<issued, cmd, tl, before>>

(* search without sorting adds to its output batch by batch. *)
AnalyseFile ==
    /\ phase = "read" /\ files # <<>>
    /\ files' = Tail(files)
    /\ tl' = analysis_file(cmd, tl, Head(files))
    /\ disk' = IF cmd.action = "search" THEN Written(disk, Path(cmd.output), tl'.written) ELSE disk
    /\ UNCHANGED <<issued, phase, cmd, before>>

WriteTables ==
    /\ phase = "read" /\ files = <<>>
    /\ phase' = "reported"
    /\ \E yes \in SUBSET {"dc", "fs"} :
            disk' = WithLines(Over(Tables(cmd, tl), disk), UNION {tl.critical[k] : k \in yes})
    /\ UNCHANGED <<issued, cmd, files, tl, before>>

(* The keywords and the HTML report are written even when nothing was read.  *)
Finish ==
    /\ phase \in {"reported", "finish"}
    /\ phase' = "over"
    /\ LET keywords == IF cmd.action = "pivot-keywords-list" THEN Outputs(cmd) ELSE {}
           html == [p \in HtmlReport(cmd) |-> File(<<<<"html", cmd.action>>>>)]
       IN  disk' = Over([p \in keywords |-> File(<<<<"keywords", tl.detected>>>>)], Over(html, disk))
    /\ UNCHANGED <<issued, cmd, files, tl, before>>

CommandNext ==
    \/ Issue \/ Refuse \/ Begin \/ Collect
    \/ InitWriter \/ AnalyseFile \/ WriteTables \/ Finish

CommandSpec == CommandInit /\ [][CommandNext]_commandVars

-----------------------------------------------------------------------------
(* Without --clobber a command leaves every file that was there as it was,   *)
(* whatever its kind and however many files it writes; the list of critical  *)
(* systems, which is configuration, is the exception.  The check is made at  *)
(* main.rs:449-485, 510-525, 543-554 and 586-613, long before the writing.   *)
NoClobber ==
    \A p \in DOMAIN before :
        p[1] # Absent /\ p # CriticalSystems /\ ~cmd.clobber
            => p \in DOMAIN disk /\ disk[p] = before[p]

(* What is in scope, said without files opened, batches or tables. *)
InScope ==
    LET fs == Scanned(cmd, FilesOf(cmd))
        of(f) == IF cmd.action = "computer-metrics" THEN RecordsIn(ItemsOf(f, cmd))
                 ELSE Unfiltered(RecordsIn(ItemsOf(f, cmd)), f, cmd)
    IN  FlattenSeq([i \in DOMAIN fs |-> of(fs[i])])

RowsOf(p) == IF p \in DOMAIN disk /\ disk[p].text # <<>> THEN disk[p].text[1][2] ELSE {}

(* What a table accounts for: each row as many times as it counts.           *)
Total(table) == Cardinality(UNION {{row} \X (1..row.count) : row \in table})

(* With -X, records alike in number and time are counted once. *)
Countable(rs, c) ==
    IF c.remove_duplicate_detections THEN Cardinality({Counted(r) : r \in ToSet(rs)}) ELSE Len(rs)

WithId(rs) == Chosen(rs, {r \in ToSet(rs) : r.eid # NoEventId})
Logons(rs) == Chosen(rs, {r \in ToSet(rs) : r.numeric /\ is_target_event(r) # "none"})
OfFile(rs, f) == Chosen(rs, {r \in ToSet(rs) : r.file = f})
OfComputer(rs, name) == Chosen(rs, {r \in ToSet(rs) : r.computer = name})

(* However the records are cut into files and batches, the tables of a       *)
(* command account for each record in its scope exactly once: none is lost   *)
(* at the edge of a batch or in a table, none is counted again (main.rs      *)
(* 2262-2352, 2560-2736, timelines.rs 65-96).  logon-summary writes nothing  *)
(* when it has found nothing, and with --clobber leaves what an earlier one  *)
(* wrote; log-metrics leaves out rows by computers, but none that counts a   *)
(* record in scope.                                                          *)
EveryEventOnce ==
    phase = "reported" =>
        LET out == Path(cmd.output)
        IN  CASE cmd.action = "eid-metrics" ->
                    Total(RowsOf(out)) = Countable(WithId(InScope), cmd)
              [] cmd.action = "logon-summary" ->
                    Logons(InScope) # <<>> =>
                        Total(RowsOf(<<cmd.output, "-successful.csv">>))
                            + Total(RowsOf(<<cmd.output, "-failed.csv">>))
                        = Countable(Logons(InScope), cmd)
              [] cmd.action = "log-metrics" ->
                    \A f \in DOMAIN Logs :
                        Total({row \in RowsOf(out) : row.key[2] = f}) = Len(OfFile(InScope, f))
              [] cmd.action = "computer-metrics" ->
                    \A name \in {r.computer : r \in ToSet(InScope)} \ {Absent} :
                        Total({row \in RowsOf(out) : row.key = name})
                            = Len(OfComputer(InScope, name))
              [] cmd.action = "search" ->
                    LET hits == Hits(InScope, cmd)
                        infos == [i \in DOMAIN hits |-> extract_search_event_info(hits[i])]
                    IN  /\ tl.search.search_result_cnt = Len(hits)
                        /\ disk[out].text =
                            IF cmd.sort_events
                            THEN WithHeader(TRUE, IF hits = <<>> THEN <<>>
                                                  ELSE <<<<"hits", ToSet(infos)>>>>)
                            ELSE WithHeader(TRUE, [i \in DOMAIN infos |-> <<"hit", infos[i]>>])
              [] cmd.action = "extract-base64" ->
                    tl.base64 = process_evtx_record_infos(InScope)
              [] cmd.action \in Timelines -> disk[out].text = <<<<"timeline", InScope>>>>
              [] OTHER -> TRUE
=============================================================================
