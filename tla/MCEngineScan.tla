---------------------------- MODULE MCEngineScan ----------------------------
(* An instance of EngineScan: two copies of a log with events of one moment, *)
(* a broken file, a JSON file with rows, rules that select all of it, parts  *)
(* of it or count, and the options that make a scan different.               *)
EXTENDS EngineScan

Rec(at, eid, time, field) ==
    [at |-> at, computer |-> "PC", channel |-> "Security", provider |-> "P", eid |-> eid,
     rec_id |-> "7", time |-> time, recovered |-> FALSE, has_level |-> TRUE, message |-> Absent,
     file |-> "log", data |-> [User |-> field, IP |-> "8.8.8.8"]]

Item(rs) == [ok |-> TRUE, records |-> rs]
Broken == [ok |-> FALSE, records |-> <<>>]
File(evtx, is) == [opens |-> TRUE, evtx |-> evtx, items |-> is]

In(f, r) == [r EXCEPT !.file = f, !.at = <<f, r.at>>]
recA == Rec("a", 4, 3, "x")
recB == Rec("b", 5, 3, "y")
recC == Rec("c", 4, 2, "x")
recD == [Rec("d", 4, 9, "x") EXCEPT !.computer = "DC"]
blank == [Rec("blank", NoEventId, NoTime, "x") EXCEPT !.rec_id = ""]
nochannel == [Rec("n", 4, 3, "x") EXCEPT !.channel = Absent]
sysmon == [Rec("s", 3, 3, "x") EXCEPT !.channel = "Sysmon", !.recovered = TRUE, !.message = "m"]

log == File(TRUE, <<Item(<<In("log", recA)>>), Broken, Item(<<In("log", recB)>>)>>)
copy == File(TRUE, <<Item(<<In("copy", recA)>>), Item(<<In("copy", recB)>>)>>)
early == File(TRUE, <<Item(<<In("early", recC)>>), Item(<<In("early", recD)>>), Item(<<In("early", nochannel)>>)>>)
other == File(TRUE, <<Item(<<In("other", sysmon)>>)>>)
headless == File(TRUE, <<Broken, Item(<<In("headless", recA)>>)>>)
shut == [File(TRUE, <<>>) EXCEPT !.opens = FALSE]
odd == File(TRUE, <<Item(<<In("odd", recA)>>), Item(<<In("odd", blank)>>)>>)
json == File(FALSE, <<Item(<<In("json", recA), In("json", recC), In("json", recB)>>), Item(<<In("json", recD)>>)>>)

Rule(id, word, level, num) ==
    [id |-> id, path |-> id, title |-> id, meta |-> [RuleTitle |-> id], level |-> level,
     details |-> <<>>, tags |-> <<[kind |-> "tactic", name |-> "Exec"], [kind |-> "technique", name |-> "T1"]>>,
     author |-> <<<<<<"Ann">>, <<"Bob">>>>, <<<<"Cid">>>>>>, channels |-> {"Security"}, named |-> {"Security"},
     correlation |-> FALSE, word |-> word, agg |-> [num |-> num, field |-> "", by |-> ""]]

Template == <<Chunk("User", <<Alias("User")>>), Chunk("Src", <<Alias("IP"), Alias("Nil")>>)>>
every == [Rule("every", Absent, 2, 0) EXCEPT !.details = Template]
some == Rule("some", "x", 4, 0)
many == Rule("many", Absent, 3, 2)
unnamed == [Rule("unnamed", Absent, 3, 0) EXCEPT !.named = {}, !.title = "every"]
wide == [Rule("wide", "x", 3, 0) EXCEPT !.channels = {"Security", "Sysmon"}, !.named = {"Security", "Sysmon"}]

Base == [action |-> "csv", json |-> FALSE, to_screen |-> FALSE, html |-> FALSE, no_summary |-> FALSE,
    is_low_memory |-> FALSE, remove_duplicate_data |-> FALSE, remove_duplicate_detections |-> FALSE,
    channel_filter |-> TRUE, visualize_timeline |-> FALSE, width |-> 100,
    include_computer |-> {}, exclude_computer |-> {}, include_eid |-> {}, exclude_eid |-> {},
    eid_filter |-> FALSE, target_eids |-> {4}, start_time |-> 0, end_time |-> 9,
    profile |-> <<"Timestamp", "RuleTitle", "Level", "Computer", "EventID", "EvtxFile", "MitreTactics", "Details">>,
    field_data_map |-> <<>>, default_details |-> <<>>, ch_config |-> <<>>, provider_abbr_config |-> <<>>,
    geoip_fields |-> <<>>, geoip_filter |-> {}, pivot_fields |-> [Users |-> <<"User">>],
    rules |-> <<every, some, many>>, files |-> <<log, shut, copy>>]

Full == <<"Timestamp", "MitreTactics", "Computer", "Channel", "Provider", "EventID", "RecordID",
          "MitreTags", "OtherTags", "RecoveredRecord", "RenderedMessage", "EvtxFile", "AllFieldInfo",
          "Details", "ExtraFieldInfo", "SrcASN", "TgtCity", "Literal">>

Sorted == [Base EXCEPT !.remove_duplicate_data = TRUE, !.remove_duplicate_detections = TRUE,
                       !.files = <<log, copy, headless>>, !.html = TRUE]
Sparing == [Base EXCEPT !.is_low_memory = TRUE, !.to_screen = TRUE, !.profile = Full,
                        !.rules = <<every, unnamed, many>>, !.files = <<early, log, other>>]
Whole == [Base EXCEPT !.channel_filter = FALSE, !.rules = <<every, unnamed, wide>>, !.profile = Full,
    !.files = <<early, other>>, !.exclude_computer = {"DC"}, !.eid_filter = TRUE, !.target_eids = {3, 4},
    !.field_data_map = <<[channel |-> "Security", eid |-> 4, providers |-> {"P"},
                          rewrite |-> [User |-> [x |-> "ex"]], hex |-> {"IP"}]>>,
    !.default_details = (<<"P", 3>> :> <<Chunk("", <<Text("seen")>>)>>),
    !.geoip_fields = [SrcIP |-> <<"IP">>], !.geoip_filter = {<<"Security", 4>>}]
Unstamped1 == [Base EXCEPT !.files = <<odd>>, !.rules = <<every, [many EXCEPT !.agg.num = 1]>>]
Narrow == [Base EXCEPT !.files = <<early, copy>>, !.include_eid = {4}, !.end_time = 8, !.no_summary = TRUE]
Pivot == [Base EXCEPT !.action = "pivot", !.files = <<log>>]
JsonIn == [Base EXCEPT !.action = "json", !.json = TRUE, !.files = <<json>>, !.profile = Full,
                       !.rules = <<every, some>>]
JsonAgg == [Base EXCEPT !.action = "json", !.json = TRUE, !.files = <<log>>, !.rules = <<many, some>>]

(* Every way to write the same events: sorted or as they come, without       *)
(* duplicates, with and without the filter, as CSV or JSON.                  *)
Varied == {o \in {[Base EXCEPT !.is_low_memory = m, !.remove_duplicate_detections = x,
                       !.remove_duplicate_data = x /\ ~j, !.channel_filter = c, !.json = j,
                       !.files = fs] :
                    m, x, c, j \in BOOLEAN,
                    fs \in {<<log, early>>, <<headless, copy, log>>, <<log, shut, copy>>}} :
            ~(o.is_low_memory /\ o.remove_duplicate_detections)}

(* JSON with -R: the second row of a rule has the template of the first.     *)
Disguised == [Base EXCEPT !.action = "json", !.json = TRUE, !.remove_duplicate_data = TRUE,
                          !.files = <<log>>, !.rules = <<every>>]

MCOptions == Varied \cup {Sorted, Sparing, Whole, Unstamped1, Narrow, Pivot, JsonIn, JsonAgg, Disguised}

MCDecimal == [x |-> "x"]
MCGeoDb == ("8.8.8.8" :> [asn |-> "A", country |-> "US", city |-> "C"])
MCTextOrder == <<"-", "", "7", "DC", "PC", "every", "many", "some", "unnamed", "wide">>
=============================================================================
