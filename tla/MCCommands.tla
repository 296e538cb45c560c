----------------------------- MODULE MCCommands -----------------------------
(***************************************************************************)
(* Instance of Commands: three logs of Windows, of which one mixes          *)
(* channels, and one in JSON, batches of two records, and commands of every *)
(* kind over disks on which their outputs are or are not.                   *)
(***************************************************************************)
EXTENDS Commands

CONSTANTS a, b, c, j, x, pc1, pc2

MCLowerCase(w) == IF w = "WHOAMI" THEN "whoami" ELSE w
MCAbbreviation(ch) == ch
MCWildMatch(pattern, v) == pattern = "*" \/ pattern = v
MCRegexMatch(pattern, words) == \E w \in words : w = pattern
MCShortened(event, w) == w
MCUnitLength(u) == IF u = "s" THEN 1 ELSE 10
MCEventTitles == {<<"Security", 4624>>}
MCTargetEventIds == {4624, 4625, 21}
MCPivotKeys == {"Users", "Ips"}
MCLevels == {"informational", "low", "medium", "high", "critical", "emergency"}

-----------------------------------------------------------------------------
Text(t) ==
    [text |-> t, base64 |-> TRUE, length |-> 12, alphabetic |-> FALSE, reads |-> {"UTF-8"},
     magic |-> Absent, size |-> 9, hyphen |-> FALSE, inner |-> <<>>]
Executable == [Text("TVqQ") EXCEPT !.reads = {}, !.magic = "exe", !.hyphen = FALSE]
Wide == [Text("dwBo") EXCEPT !.reads = {"UTF-16 LE"}, !.inner = <<Text("d2hv")>>]

Event(at, f, computer, channel, eid, rec_id, time) ==
    [at |-> at, file |-> f, computer |-> computer, channel |-> channel, eid |-> eid,
     numeric |-> TRUE, provider |-> channel, rec_id |-> rec_id, time |-> time,
     data |-> <<>>, words |-> {channel}, aliases |-> [k \in {"Computer"} |-> computer],
     payloads |-> <<>>]
User(r, user) == [r EXCEPT !.data = [k \in {"TargetUserName"} |-> user], !.words = @ \cup {user}]

(* In a: two logons that are one record twice over, a failure, a command     *)
(* line.  In b: the same number and time in other logs.  Records of both     *)
(* computers stand in b, one record of j has neither a computer nor an id,   *)
(* another no computer.                                                      *)
A1 == User(Event(1, a, pc1, "Security", 4624, 1, 3), "whoami")
A2 == User(Event(2, a, pc1, "Security", 4624, 1, 3), "whoami")
A3 == User(Event(3, a, pc1, "Security", 4625, 2, 4), "root")
A4 == [Event(4, a, pc1, "Security", 4688, 3, 5)
        EXCEPT !.payloads = [f \in {"CommandLine"} |-> <<Text("d2hv"), Executable, Wide>>],
               !.words = {"WHOAMI"}]
A5 == Event(5, a, pc1, "Security", 4768, 4, 6)
B1 == [Event(6, b, pc2, Lsm, 21, 1, 3) EXCEPT !.data = [f \in {"UserDataUser"} |-> <<"D", "U">>]]
B2 == [Event(7, b, pc2, "System", 6013, 5, 9) EXCEPT !.data = [f \in {"TimeZone"} |-> "UTC"]]
B3 == [Event(8, b, pc1, "System", 6005, 6, 2) EXCEPT !.words = {"System", "whoami"}]
J1 == Event(9, j, pc2, "Security", 5145, 1, 3)
J2 == [Event(10, j, Absent, "Security", NoEventId, 2, NoTime) EXCEPT !.numeric = FALSE]
J3 == Event(11, j, pc2, "Security", 4624, 3, 7)
J5 == Event(13, j, Absent, "Security", 4624, 5, 8)
J4 == User(Event(12, j, pc1, "Security", 4624, 4, 8), "whoami")

Item(r) == [ok |-> TRUE, recovered |-> FALSE, records |-> <<r>>]
Broken == [ok |-> FALSE, recovered |-> FALSE, records |-> <<>>]

MCLogs ==
    LET log(extension, items) ==
            [extension |-> extension, hidden |-> FALSE, opens |-> TRUE, items |-> items]
    IN  (a :> log("evtx", <<Item(A1), Item(A2), Item(A3), Broken, Item(A4),
                            [Item(A5) EXCEPT !.recovered = TRUE]>>))
        @@ (b :> log("evtx", <<Item(B1), Item(B2), Item(B3)>>))
        @@ (c :> [log("evtx", <<>>) EXCEPT !.opens = FALSE])
        @@ (j :> log("json", <<[ok |-> TRUE, recovered |-> FALSE, records |-> <<J1, J2, J3>>],
                               Item(J4), Item(J5)>>))
        @@ (x :> [log("evtx", <<Item([A1 EXCEPT !.file = x])>>) EXCEPT !.hidden = TRUE])

MCDirectories == [d \in {"logs", "logs/b"} |-> IF d = "logs" THEN <<a, b, c, j, x>> ELSE <<b>>]

-----------------------------------------------------------------------------
Plain(action) ==
    [action |-> action, no_arguments |-> FALSE, input |-> <<"directories", <<"logs">>>>,
     output |-> "out", html_report |-> Absent, clobber |-> FALSE, json_input |-> FALSE,
     evtx_file_ext |-> {}, include_computer |-> {}, exclude_computer |-> {},
     include_eid |-> {}, exclude_eid |-> {}, eid_filter |-> FALSE, recover_records |-> FALSE,
     time_offset |-> <<>>, start_timeline |-> NoTime, end_timeline |-> NoTime,
     enable_all_rules |-> FALSE, scan_all_evtx_files |-> FALSE,
     remove_duplicate_detections |-> FALSE, min_level |-> "informational", exact_level |-> Absent,
     include_channel |-> {}, exclude_channel |-> {}, include_filename |-> {},
     exclude_filename |-> {}, keywords |-> {}, regex |-> Absent, filter |-> {},
     ignore_case |-> FALSE, and_logic |-> FALSE, sort_events |-> FALSE,
     rules_loaded |-> TRUE, rule_channels |-> {"Security"}]

Eid == Plain("eid-metrics")
Logon == Plain("logon-summary")
LogMetrics_ == Plain("log-metrics")
Computer == Plain("computer-metrics")
Find == [Plain("search") EXCEPT !.keywords = {"whoami"}]
Base64 == Plain("extract-base64")
Csv == Plain("csv-timeline")
Json == [Plain("json-timeline") EXCEPT !.json_input = TRUE]
Pivot == Plain("pivot-keywords-list")
Critical == Plain("config-critical-systems")

Offset(n, u) == <<[num |-> n, unit |-> u]>>

MCCommandLines ==
    {Eid,
     [Eid EXCEPT !.remove_duplicate_detections = TRUE, !.clobber = TRUE],
     [Eid EXCEPT !.include_computer = {pc1}, !.output = Absent, !.recover_records = TRUE],
     [Eid EXCEPT !.input = <<"directories", <<"logs", "logs/b">>>>, !.output = "twice"],
     [Eid EXCEPT !.json_input = TRUE, !.include_computer = {pc1, pc2}, !.output = "named"],
     [Eid EXCEPT !.no_arguments = TRUE],
     Logon,
     [Logon EXCEPT !.remove_duplicate_detections = TRUE, !.end_timeline = 3, !.clobber = TRUE],
     [Logon EXCEPT !.json_input = TRUE, !.output = Absent, !.start_timeline = 4],
     [Logon EXCEPT !.time_offset = Offset(1, "s")],
     [Logon EXCEPT !.start_timeline = 20, !.clobber = TRUE],
     LogMetrics_,
     [LogMetrics_ EXCEPT !.json_input = TRUE, !.output = Absent],
     [LogMetrics_ EXCEPT !.json_input = TRUE, !.include_computer = {pc2}, !.output = "log"],
     [LogMetrics_ EXCEPT !.exclude_channel = {"Security"}, !.include_filename = {"*"}, !.clobber = TRUE],
     Computer,
     [Computer EXCEPT !.json_input = TRUE, !.output = Absent, !.time_offset = Offset(9, "s")],
     Find,
     [Find EXCEPT !.ignore_case = TRUE, !.sort_events = TRUE, !.clobber = TRUE],
     [Find EXCEPT !.keywords = {"whoami", "System"}, !.and_logic = TRUE, !.output = "found"],
     [Find EXCEPT !.keywords = {}, !.regex = "Security", !.output = Absent,
                  !.filter = {<<"Computer", pc1>>, <<"no condition">>}],
     Base64,
     [Base64 EXCEPT !.time_offset = Offset(30, ""), !.clobber = TRUE],
     [Base64 EXCEPT !.time_offset = Offset(BadTime, "d")],
     Csv,
     [Csv EXCEPT !.html_report = "report", !.eid_filter = TRUE, !.scan_all_evtx_files = TRUE],
     [Csv EXCEPT !.min_level = "hi"],
     Json,
     [Json EXCEPT !.enable_all_rules = TRUE, !.output = "all"],
     Pivot,
     [Pivot EXCEPT !.rules_loaded = FALSE, !.clobber = TRUE],
     [Pivot EXCEPT !.input = <<"file", x>>, !.output = "hidden"],
     Critical,
     [Csv EXCEPT !.input = <<"live", Absent>>, !.html_report = "live", !.output = "live"]}

Old == [text |-> <<<<"old", Absent>>>>]
Installed == [p \in {RuleConfig, RulesDirectory} |-> [text |-> <<>>]]
MCDisks ==
    {Installed,
     [p \in {<<"out", "-failed.csv">>, <<"out", "-Ips.txt">>, Path("report")} |-> Old] @@ Installed,
     [p \in {Path("out"), EncodedRules, RuleConfig} |-> Old],
     (CriticalSystems :> [text |-> <<<<"names", {pc2}>>>>]) @@ Installed}
=============================================================================
