----------------------------- MODULE CommandLine ----------------------------
(***************************************************************************)
(* What of a command line takes effect (src/engine/src/detections/          *)
(* configs.rs: create_static_data, extract_output_options, TargetEventTime).*)
(* A command line is a record of every option; one that its command does    *)
(* not take, or takes and does not look at, has its default value.          *)
(***************************************************************************)
EXTENDS Integers, Sequences, SequencesExt

CONSTANTS
    Absent, NoTime,
    BadTime,            \* text that is no time
    Now,
    UnitLength(_),      \* of y, M, d, h, m and s
    Levels

Timelines == {"csv-timeline", "json-timeline"}
Detecting == Timelines \cup {"pivot-keywords-list"}
Counting == {"logon-summary", "eid-metrics", "computer-metrics", "log-metrics", "extract-base64"}
Analyses == Detecting \cup Counting \cup {"search"}

(* For each option, the commands it has an effect on. *)
WithJsonInput == Analyses \ {"search"}
WithComputers == Analyses \ {"computer-metrics", "search"}
WithEventIds == Detecting
WithRecovery == Analyses \ {"computer-metrics"}
WithOffset == Analyses
WithOutput == Analyses
WithAllRules == Timelines
WithDeduplication == {"eid-metrics", "logon-summary"}
WithWindow == Detecting \cup {"logon-summary", "search"}
WithHtml == Timelines
WithLevel == Detecting
WithEventIdFilter == Detecting

Effective ==
    [json_input |-> WithJsonInput,
     include_computer |-> WithComputers, exclude_computer |-> WithComputers,
     include_eid |-> WithEventIds, exclude_eid |-> WithEventIds,
     eid_filter |-> WithEventIdFilter,
     recover_records |-> WithRecovery,
     time_offset |-> WithOffset,
     output |-> WithOutput,
     enable_all_rules |-> WithAllRules, scan_all_evtx_files |-> WithAllRules,
     remove_duplicate_detections |-> WithDeduplication,
     start_timeline |-> WithWindow, end_timeline |-> WithWindow,
     html_report |-> WithHtml,
     min_level |-> WithLevel, exact_level |-> WithLevel]

Default ==
    [json_input |-> FALSE,
     include_computer |-> {}, exclude_computer |-> {}, include_eid |-> {}, exclude_eid |-> {},
     eid_filter |-> FALSE, recover_records |-> FALSE, time_offset |-> <<>>, output |-> Absent,
     enable_all_rules |-> FALSE, scan_all_evtx_files |-> FALSE,
     remove_duplicate_detections |-> FALSE, start_timeline |-> NoTime, end_timeline |-> NoTime,
     html_report |-> Absent, min_level |-> "informational", exact_level |-> Absent]

create_static_data(c) ==
    [f \in DOMAIN c |->
        IF f \in DOMAIN Effective /\ c.action \notin Effective[f] THEN Default[f] ELSE c[f]]

IsValidLevel(c) ==
    c.min_level \in Levels /\ (c.exact_level = Absent \/ c.exact_level \in Levels)

(* A command without a single argument shows its help. *)
check_is_valid_args_num(c) ==
    c.action \in Detecting \cup {"logon-summary", "eid-metrics", "search", "computer-metrics"}
        => ~c.no_arguments

get_target_extensions(c) ==
    c.evtx_file_ext \cup (IF c.json_input THEN {"json", "jsonl"} ELSE {"evtx"})

(* The members of sequence s that are in S, in their order.                  *)
Chosen(s, S) == FlattenSeq([i \in DOMAIN s |-> IF s[i] \in S THEN <<s[i]>> ELSE <<>>])

(* One after the other; TLC evaluates what is bound by a set only once.      *)
Each(Step(_, _), start, s) ==
    LET upto[n \in 0..Len(s)] ==
            IF n = 0 THEN start ELSE CHOOSE y \in {Step(x, s[n]) : x \in {upto[n - 1]}} : TRUE
    IN  upto[Len(s)]

-----------------------------------------------------------------------------
(* The window of time.  An offset is the sequence of its numbers, each with  *)
(* the unit after it; the last may have none.                                *)

Units == {"y", "M", "d", "h", "m", "s"}
NoUnit == ""

(* What is read for a unit: the first number before it.  When the unit does  *)
(* not occur, the number that ends the offset, whatever it counts.           *)
TimeNum(offset, unit) ==
    LET with == SelectSeq(offset, LAMBDA p : p.unit = unit)
        last == Last(offset)
    IN  CASE with # <<>> -> with[1].num
          [] with = <<>> /\ last.unit = NoUnit -> last.num
          [] OTHER -> 0

IsOffset(offset) ==
    /\ \A u \in Units : TimeNum(offset, u) # BadTime
    /\ \E u \in Units : TimeNum(offset, u) # 0

Back(offset) ==
    LET of(u) == TimeNum(offset, u) * UnitLength(u)
    IN  of("y") + of("M") + of("d") + of("h") + of("m") + of("s")

is_parse_success(c) ==
    /\ c.time_offset # <<>> => IsOffset(c.time_offset)
    /\ c.time_offset = <<>> => c.start_timeline # BadTime
    /\ c.end_timeline # BadTime

(* An offset takes the place of the start. *)
start_time(c) == IF c.time_offset = <<>> THEN c.start_timeline ELSE Now - Back(c.time_offset)

(* A record without a time is in every window. *)
is_target(c, t) ==
    t # NoTime => /\ start_time(c) # NoTime => t >= start_time(c)
                  /\ c.end_timeline # NoTime => t <= c.end_timeline
=============================================================================
