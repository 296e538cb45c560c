------------------------------ MODULE Metrics ------------------------------
(***************************************************************************)
(* What the commands that count keep and print (src/engine/src/timeline:    *)
(* metrics.rs, log_metrics.rs, computer_metrics.rs, timelines.rs and        *)
(* config_critical_systems.rs).  An operator takes the EventMetrics st and  *)
(* one record, or the records of one batch, to the EventMetrics after them. *)
(*                                                                          *)
(* A record has the fields at, file, computer, channel, eid, numeric,       *)
(* provider, rec_id, time and data; NoTime is a time that does not parse.   *)
(* Tables are sets of rows: the order of equal counts is that of a hash     *)
(* map.                                                                     *)
(***************************************************************************)
EXTENDS CommandLine

Bag == INSTANCE BagsExt

CONSTANTS
    NoEventId, Dash,
    ReleaseDate,            \* 2007-01-30
    LowerCase(_),
    Abbreviation(_),        \* ch_config and generic_abbreviations.txt
    EventTitles             \* channel_eid_info.txt: the <<channel, id>> it knows

EventMetrics ==
    [total |-> 0, filepath |-> Absent, start_time |-> NoTime, end_time |-> NoTime,
     stats_list |-> EmptyBag, successful |-> EmptyBag, failed |-> EmptyBag,
     stats_computer |-> <<>>, stats_logfile |-> <<>>, counted_rec |-> {}]

Earlier(t, u) == t # NoTime /\ (u = NoTime \/ t < u)
Later(t, u) == t # NoTime /\ (u = NoTime \/ t > u)

check_start_end_time(st, t) ==
    [st EXCEPT !.start_time = IF Earlier(t, @) /\ t >= ReleaseDate THEN t ELSE @,
               !.end_time = IF Later(t, @) THEN t ELSE @]

(* Of a batch, the first and the last record only.                           *)
stats_time_cnt(st, batch) ==
    [check_start_end_time(check_start_end_time(st, Head(batch).time), Last(batch).time)
        EXCEPT !.filepath = Head(batch).file, !.total = @ + Len(batch)]

-----------------------------------------------------------------------------
(* Duplicates: -X takes records with the same record id and time for one,    *)
(* whatever their log.                                                       *)
Counted(r) == <<r.rec_id, r.time>>
IsDuplicate(st, r, o) == o.remove_duplicate_detections /\ Counted(r) \in st.counted_rec

(* Mutant: the set of counted records is made anew for every record. *)
Forgotten(st, r, o) == IF o.remove_duplicate_detections THEN {Counted(r)} ELSE {}

Remembered(st, r, o) ==
    IF o.remove_duplicate_detections THEN st.counted_rec \cup {Counted(r)} ELSE st.counted_rec

IsFilteredOut(v, include, exclude) ==
    (include # {} /\ v \notin include) \/ v \in exclude

(* No list has the name of a record without a computer.                      *)
is_filtered_by_computer_name(r, o) ==
    IsFilteredOut(r.computer, o.include_computer, o.exclude_computer)

stats_eventid(st, r, o) ==
    IF \/ is_filtered_by_computer_name(r, o)
       \/ r.eid = NoEventId
       \/ IsDuplicate(st, r, o)
    THEN st
    ELSE [st EXCEPT !.stats_list = Bag!BagAdd(@, <<r.eid, LowerCase(r.channel)>>),
                    !.counted_rec = Remembered(st, r, o)]

-----------------------------------------------------------------------------
(* Logons.  A user with a domain is the sequence of its parts.               *)
Value(r, k) == IF k \in DOMAIN r.data THEN r.data[k] ELSE Dash

Lsm == "Microsoft-Windows-TerminalServices-LocalSessionManager/Operational"
Gateway == "Microsoft-Windows-TerminalServices-Gateway/Operational"

is_target_event(r) ==
    CASE r.eid \in {4624, 4625} /\ r.channel = "Security" -> "Sec"
      [] r.eid = 21 /\ r.channel = Lsm -> "RdsLsm"
      [] r.eid = 302 /\ r.channel = Gateway -> "RdsGtw"
      [] OTHER -> "none"

UserOf(v) == IF v = Dash THEN Dash ELSE Last(v)
DomainOf(v) == IF v = Dash \/ Len(v) = 1 THEN Dash ELSE Front(v)

(* The domain of a gateway logon is looked up as RdsGtwUserName, a name that *)
(* eventkey_alias.txt spells RdsGtwUsername.                                 *)
LoginEvent(r) ==
    LET by(sec, lsm, gtw) ==
            CASE is_target_event(r) = "Sec" -> sec
              [] is_target_event(r) = "RdsLsm" -> lsm
              [] is_target_event(r) = "RdsGtw" -> gtw
    IN  [channel |-> <<is_target_event(r), r.eid>>,
         dst_user |-> by(Value(r, "TargetUserName"), UserOf(Value(r, "UserDataUser")),
                         UserOf(Value(r, "RdsGtwUsername"))),
         dst_domain |-> by(Value(r, "TargetDomainName"), DomainOf(Value(r, "UserDataUser")),
                           DomainOf(Value(r, "RdsGtwUserName"))),
         hostname |-> r.computer,
         logontype |-> Value(r, "LogonType"),
         src_user |-> Value(r, "SubjectUserName"),
         src_domain |-> Value(r, "SubjectDomainName"),
         source_computer |-> Value(r, "WorkstationName"),
         source_ip |-> by(Value(r, "IpAddress"), Value(r, "UserDataAddress"),
                          Value(r, "RdsGtwIpAddress"))]

stats_login_eventid(st, r, o) ==
    IF r.eid = NoEventId \/ ~r.numeric \/ is_target_event(r) = "none" \/ IsDuplicate(st, r, o)
    THEN st
    ELSE [st EXCEPT
            !.successful = IF r.eid # 4625 THEN Bag!BagAdd(@, LoginEvent(r)) ELSE @,
            !.failed = IF r.eid = 4625 THEN Bag!BagAdd(@, LoginEvent(r)) ELSE @,
            !.counted_rec = Remembered(st, r, o)]

-----------------------------------------------------------------------------
(* log-metrics: a row for a file.                                            *)
LogMetrics(file) ==
    [filepath |-> file, computers |-> {}, event_count |-> 0, first_timestamp |-> NoTime,
     last_timestamp |-> NoTime, channels |-> {}, providers |-> {}]

Named(v) == {v} \ {Absent}

update(lm, r) ==
    [lm EXCEPT
        !.first_timestamp = IF Earlier(r.time, @) THEN r.time ELSE @,
        !.last_timestamp = IF Later(r.time, @) THEN r.time ELSE @,
        !.computers = @ \cup Named(r.computer),
        !.channels = @ \cup Named(r.channel),
        !.providers = @ \cup Named(r.provider),
        !.event_count = @ + 1]

(* The row is the first of this file that has met the computer of the first  *)
(* record of the batch; otherwise a new one.                                 *)
logfile_stats_start(st, batch) ==
    LET rows == st.stats_logfile
        file == Head(batch).file
        fits == {i \in DOMAIN rows : rows[i].filepath = file
                                        /\ Head(batch).computer \in rows[i].computers}
        i == CHOOSE j \in fits : \A k \in fits : j <= k
    IN  [st EXCEPT !.stats_logfile =
            IF fits = {} THEN Append(rows, Each(update, LogMetrics(file), batch))
            ELSE [rows EXCEPT ![i] = Each(update, rows[i], batch)]]

-----------------------------------------------------------------------------
(* computer-metrics.  System events tell of the system; times are compared   *)
(* as text.                                                                  *)
NewComputer == [os |-> Absent, uptime |-> NoTime, timezone |-> Absent,
                last_timestamp |-> NoTime, count |-> 0]

SystemEvent(c, r) ==
    [c EXCEPT
        !.os = IF r.eid = 6009 /\ @ = Absent /\ "Version" \in DOMAIN r.data
               THEN r.data["Version"] ELSE @,
        !.timezone = IF r.eid = 6013 /\ "TimeZone" \in DOMAIN r.data
                     THEN r.data["TimeZone"] ELSE @,
        !.uptime = IF r.eid \in {12, 6005, 6009} /\ Later(r.time, @) THEN r.time ELSE @,
        !.last_timestamp = IF Later(r.time, @) THEN r.time ELSE @]

countup_event_by_computer(st, r) ==
    LET met == st.stats_computer
        was == IF r.computer \in DOMAIN met THEN met[r.computer] ELSE NewComputer
        seen == IF r.channel = "System" /\ r.eid # NoEventId /\ r.numeric
                THEN SystemEvent(was, r) ELSE was
    IN  IF r.computer = Absent THEN st
        ELSE [st EXCEPT !.stats_computer =
                [name \in DOMAIN met \cup {r.computer} |->
                    IF name = r.computer THEN [seen EXCEPT !.count = @ + 1] ELSE met[name]]]

calc_elapsed_seconds(c) ==
    IF c.uptime = NoTime \/ c.last_timestamp = NoTime \/ c.last_timestamp <= c.uptime
    THEN Absent ELSE c.last_timestamp - c.uptime

-----------------------------------------------------------------------------
(* The tables.                                                               *)
tm_stats_set_msg(st) ==
    {[count |-> st.stats_list[k], rate |-> <<st.stats_list[k], st.total>>,
      channel |-> Abbreviation(k[2]), key |-> k, known |-> <<k[2], k[1]>> \in EventTitles] :
     k \in DOMAIN st.stats_list}

tm_loginstats_tb(bag) == {[count |-> bag[e], key |-> e] : e \in DOMAIN bag}

computer_table(st) ==
    {[count |-> st.stats_computer[c].count, key |-> c, os |-> st.stats_computer[c].os,
      uptime |-> calc_elapsed_seconds(st.stats_computer[c]),
      timezone |-> st.stats_computer[c].timezone] : c \in DOMAIN st.stats_computer}

(* A row is left out when none of its computers is asked for, or one of them *)
(* is not wanted.                                                            *)
IsHidden(lm, o) ==
    \/ o.include_computer # {} /\ lm.computers \cap o.include_computer = {}
    \/ lm.computers \cap o.exclude_computer # {}

log_metrics_table(st, o) ==
    {[count |-> st.stats_logfile[i].event_count, key |-> <<i, st.stats_logfile[i].filepath>>,
      row |-> st.stats_logfile[i]] :
     i \in {j \in DOMAIN st.stats_logfile : ~IsHidden(st.stats_logfile[j], o)}}

(* config-critical-systems: [domain controllers, file servers].              *)
NoSystems == [dc |-> {}, fs |-> {}]
find_critical_computers(found, r) ==
    LET name == IF r.computer = Absent THEN "" ELSE r.computer
    IN  IF r.channel # "Security" \/ ~r.numeric THEN found
        ELSE CASE r.eid = 4768 -> [found EXCEPT !.dc = @ \cup {name}]
               [] r.eid = 5145 /\ Value(r, "ShareName") # "IPC" -> [found EXCEPT !.fs = @ \cup {name}]
               [] OTHER -> found
=============================================================================
