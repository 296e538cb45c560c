----------------------------- MODULE Afterfact -----------------------------
(***************************************************************************)
(* What becomes of the detections of a scan (src/engine/src/afterfact.rs):  *)
(* they are sorted, duplicates are left out, rows are written to the screen, *)
(* a CSV file or JSON, and the summary is counted from the same detections. *)
(* Colours, widths of cells and the drawing of tables are left out.         *)
(***************************************************************************)
EXTENDS Rendering, TLC

CONSTANTS
    TextOrder,      \* the texts that are sorted by, in their order
    DayLength       \* how many units of time make a day

-----------------------------------------------------------------------------
(* AfterfactInfo, and what has been written.                                 *)

(* How often each was counted; what has no entry has not been.               *)
NoCounts == [e \in {} |-> 0]
CopiesOf(e, counts) == IF e \in DOMAIN counts THEN counts[e] ELSE 0
Added(counts, s) ==
    [e \in DOMAIN counts \cup s |-> CopiesOf(e, counts) + (IF e \in s THEN 1 ELSE 0)]
Counted(counts, seq) == FoldLeft(LAMBDA b, x : Added(b, {x}), counts, seq)

Incremented(counts, level) == [counts EXCEPT ![level] = @ + 1]

(* The entries of f replace those of g. *)
Replacing(f, g) == [x \in DOMAIN f \cup DOMAIN g |-> IF x \in DOMAIN f THEN f[x] ELSE g[x]]

AfterfactInfo ==
    [rows |-> <<>>, header |-> <<>>, has_displayed_header |-> FALSE,
     detect_time |-> <<>>,                  \* detect_starttime, detect_endtime
     record_cnt |-> 0, recover_record_cnt |-> 0, detected_record_idset |-> {},
     total_by_level |-> [l \in Levels |-> 0], unique_by_level |-> [l \in Levels |-> 0],
     by_date |-> NoCounts, by_computer |-> NoCounts, by_rule |-> NoCounts,
     authors_of |-> <<>>, path_of |-> <<>>, rule_author_counter |-> NoCounts,
     timestamps |-> <<>>, rule_files |-> {}, rule_ids |-> {}, computer_rules |-> {},
     prev_message |-> <<>>, prev_lists |-> NoLists]

Id(d) == <<d.rule.id, d.of>>

-----------------------------------------------------------------------------
(* sort_detect_info.  The sort is not stable: any of the sorted sequences    *)
(* may come out.                                                             *)

Rank(w) == IF w \in ToSet(TextOrder) THEN CHOOSE i \in DOMAIN TextOrder : TextOrder[i] = w ELSE 0

SortKey(d) == <<d.time, d.level, d.eid, Rank(d.rule.path), Rank(d.computer), Rank(d.rec_id)>>

NotAfter(a, b) ==
    \/ SortKey(a) = SortKey(b)
    \/ \E i \in 1..6 : /\ SortKey(a)[i] < SortKey(b)[i]
                       /\ \A j \in 1..(i - 1) : SortKey(a)[j] = SortKey(b)[j]

(* The places of the first n, in each of the orders they may come in.        *)
sort_detect_info(infos) ==
    LET least(S) == {i \in S : \A j \in S : NotAfter(infos[i], infos[j])}
        sorted[n \in 0..Len(infos)] ==
            IF n = 0 THEN {<<>>}
            ELSE UNION {{Append(p, i) : i \in least(DOMAIN infos \ ToSet(p))} : p \in sorted[n - 1]}
    IN  {[i \in DOMAIN p |-> infos[p[i]]] : p \in sorted[Len(infos)]}

(* Mutant: only the columns of the rule are compared. *)
duplicates_by_rule(infos) ==
    {i \in DOMAIN infos : \E j \in 1..(i - 1) : infos[j].rule = infos[i].rule}

(* get_duplicate_idxes: a detection that reads, but for the file, like an    *)
(* earlier one of the same time.  The first of each time is never looked at  *)
(* nor remembered.                                                           *)
get_duplicate_idxes(infos) ==
    LET follows(i) == i > 1 /\ infos[i].time = infos[i - 1].time
        fields(i) == [c \in Columns \ {"EvtxFile"} |-> infos[i].cells[c]]
    IN  {i \in DOMAIN infos : /\ follows(i)
                              /\ \E j \in 1..(i - 1) : /\ follows(j)
                                                       /\ infos[j].time = infos[i].time
                                                       /\ fields(j) = fields(i)}

-----------------------------------------------------------------------------
(* Rows.                                                                     *)

Dup == Plain("DUP")

(* On the screen texts without a key are lost among those that have one. *)
ScreenCell(c, cell) ==
    LET keyed(chunk) == chunk.key # ""
    IN  IF c \in DetailColumns /\ SelectSeq(cell, keyed) # <<>> THEN SelectSeq(cell, keyed)
        ELSE cell

ScreenRow(d) == [c \in Columns |-> ScreenCell(c, d.cells[c])]

Previous(af, c, none) == IF c \in DOMAIN af.prev_message THEN af.prev_message[c] ELSE none

CsvRow(af, d) ==
    [c \in Columns |->
        IF /\ c \in DetailColumns
           /\ opt.remove_duplicate_data
           /\ d.cells[c] = Previous(af, c, Plain(Dash))
        THEN Dup ELSE d.cells[c]]

Details(d) == [c \in Columns \cap DetailColumns |-> d.cells[c]]

(* JSON: as the previous text, or as the previous list of details. *)
IsDup(af, d, c) ==
    LET now == IF c \in DOMAIN d.lists THEN d.lists[c] ELSE <<>>
        prev == IF c \in DOMAIN af.prev_lists THEN af.prev_lists[c] ELSE <<>>
    IN  /\ opt.remove_duplicate_data
        /\ c \in DetailColumns
        /\ \/ d.cells[c] # <<>> /\ d.cells[c] = Previous(af, c, <<>>)
           \/ now # <<>> /\ prev # <<>> /\ now = prev

(* process_target_stock: an object with the values of each key, in the order *)
(* in which the keys come.                                                   *)
process_target_stock(chunks) ==
    LET keys == FoldLeft(LAMBDA ks, ch : IF ch.key \in ToSet(ks) THEN ks ELSE Append(ks, ch.key),
                         <<>>, chunks)
        bodies(k) == LET has(ch) == ch.key = k
                         mine == SelectSeq(chunks, has)
                     IN  [i \in DOMAIN mine |-> mine[i].body]
    IN  [i \in DOMAIN keys |-> [name |-> keys[i], values |-> bodies(keys[i])]]

(* The places that are shown among the details. *)
GeoOrder == <<"SrcASN", "SrcCountry", "SrcCity", "TgtASN", "TgtCountry", "TgtCity">>
PlacesOf(d, c) ==
    LET known(g) == c # "ExtraFieldInfo" /\ g \in Columns /\ d.cells[g] # Dash
        named == Without(GeoOrder, {i \in DOMAIN GeoOrder : ~known(GeoOrder[i])})
    IN  [i \in DOMAIN named |-> [name |-> named[i], values |-> <<d.cells[named[i]]>>]]

(* A single text is an object when it has a key with a space after it, which *)
(* a count has not.                                                          *)
HasObject(d, c) ==
    \/ Len(d.cells[c]) > 1
    \/ ~d.is_agg /\ \E i \in DOMAIN d.cells[c] : d.cells[c][i].key # ""

JsonObject(d, c) ==
    IF d.lists[c] \in {<<>>, Plain(Dash)} THEN <<>>
    ELSE process_target_stock(d.lists[c]) \o PlacesOf(d, c)

JsonPlain(d, c) ==
    CASE c \notin DetailColumns -> d.cells[c]
      [] c = "Details" /\ ~HasObject(d, c) ->
           IF d.cells[c] = Plain(Dash) THEN <<>> ELSE d.cells[c]
      [] OTHER -> JsonObject(d, c)

(* Empty columns are left out, and places have no column of their own. *)
IsEmpty(d, c) ==
    CASE c \in TagColumns \cup {"Details"} -> d.cells[c] = <<>>
      [] c = "EventID" -> d.cells[c] = {NoEventId}
      [] c \in {"RecordID", "RecoveredRecord", "Provider"} -> d.cells[c] = ""
      [] OTHER -> FALSE
JsonColumns(d) == {c \in Columns \ GeoColumns : ~IsEmpty(d, c)}

JsonRow(af, d) ==
    [c \in JsonColumns(d) |-> IF IsDup(af, d, c) THEN Dup ELSE JsonPlain(d, c)]

(* Mutant: what was once put in is not replaced. *)
FirstMessage(af, d) ==
    IF opt.json THEN af.prev_message ELSE Replacing(af.prev_message, Details(d))

NextPrevMessage(af, d) ==
    IF ~opt.json THEN Replacing(Details(d), af.prev_message)
    ELSE IF ~opt.remove_duplicate_data THEN af.prev_message
    ELSE Replacing([c \in {e \in DOMAIN Details(d) : ~IsDup(af, d, e)} |-> d.cells[c]], af.prev_message)

(* emit_csv_inner, for one detection. *)
Written(af, d) ==
    LET row == IF opt.json THEN JsonRow(af, d)
               ELSE IF opt.to_screen THEN ScreenRow(d) ELSE CsvRow(af, d)
        to_file == ~opt.json /\ ~opt.to_screen
    IN  [af EXCEPT
            !.rows = Append(@, [id |-> Id(d), cells |-> row]),
            !.header = IF opt.json \/ af.has_displayed_header THEN @ ELSE opt.profile,
            !.has_displayed_header = @ \/ ~opt.json,
            !.prev_message = IF opt.json \/ to_file THEN NextPrevMessage(af, d) ELSE @,
            !.prev_lists = IF opt.json THEN d.lists ELSE @]

-----------------------------------------------------------------------------
(* calc_statistic_info                                                       *)

(* Mutant: an aggregated result counts as a record of its own. *)
OneRecordId(d) == {<<Id(d), d.time, d.eid>>}

(* The records behind a detection, by their time and event id. *)
RecordIds(d) ==
    IF d.is_agg THEN {<<d.agg[i].time, d.agg[i].eid>> : i \in DOMAIN d.agg}
    ELSE {<<d.time, d.eid>>}

ComputersOf(d) == IF d.is_agg THEN Joined(d.agg, "computer") ELSE {d.computer}

(* extract_author_name: names are separated by commas or semicolons, what    *)
(* follows a parenthesis is no name, and slashes vanish.  rule.author holds  *)
(* for each comma the names before the parenthesis, each by its parts.       *)
extract_author_name(author) == FlattenSeq(author)

(* Who wrote a rule is counted once per file, its level once per id, and a   *)
(* computer once per file.                                                   *)
Summed(af, d) ==
    LET authors == extract_author_name(d.rule.author)
        newfile == authors # <<<<Dash>>>> /\ d.rule.path \notin af.rule_files
        newid == d.rule.id \notin af.rule_ids
        pairs == {<<c, d.rule.path>> : c \in ComputersOf(d)} \ af.computer_rules
    IN  [af EXCEPT
            !.authors_of = Replacing([p \in {d.rule.path} |-> authors], @),
            !.rule_files = IF newfile THEN @ \cup {d.rule.path} ELSE @,
            !.rule_author_counter = IF newfile THEN Counted(@, authors) ELSE @,
            !.rule_ids = @ \cup {d.rule.id},
            !.unique_by_level = IF newid THEN Incremented(@, d.level) ELSE @,
            !.computer_rules = @ \cup pairs,
            !.by_computer = Added(@, {<<d.level, p[1]>> : p \in pairs}),
            !.path_of = Replacing([w \in {d.rule.title} |-> d.rule.path], @),
            !.by_date = Added(@, {<<d.level, d.time \div DayLength>>}),
            !.by_rule = Added(@, {<<d.level, d.rule.title>>}),
            !.total_by_level = Incremented(@, d.level)]

CountedIn(af, d) ==
    LET seen == [af EXCEPT !.timestamps = Append(@, d.time),
                           !.detected_record_idset = @ \cup RecordIds(d)]
    IN  IF opt.no_summary THEN seen ELSE Summed(seen, d)

(* One after the other; TLC evaluates what is bound by a set only once. *)
Each(Step(_, _), af, infos) ==
    LET upto[n \in 0..Len(infos)] ==
            IF n = 0 THEN af ELSE CHOOSE b \in {Step(x, infos[n]) : x \in {upto[n - 1]}} : TRUE
    IN  upto[Len(infos)]

(* Mutant: what is not shown is counted. *)
emit_counting_all(af, infos, duplicates) ==
    Each(CountedIn, Each(Written, af, Without(infos, duplicates)), infos)

(* emit_csv: rows first, then the counts, without the duplicates. *)
emit_csv(af, infos, duplicates) ==
    LET shown == Without(infos, duplicates)
    IN  Each(CountedIn, Each(Written, af, shown), shown)

Duplicates(infos) ==
    IF opt.remove_duplicate_detections THEN get_duplicate_idxes(infos) ELSE {}

-----------------------------------------------------------------------------
(* output_additional_afterfact: the summary.                                 *)

ByCount(counts, names) ==
    SetToSortSeq(names, LAMBDA x, y : CopiesOf(x, counts) > CopiesOf(y, counts))
Named(counts, level) == {p[2] : p \in {q \in DOMAIN counts : q[1] = level}}
OfLevel(counts, level) == [n \in Named(counts, level) |-> counts[<<level, n>>]]

(* output_detected_rule_authors: by columns and rows.  When the number of    *)
(* authors is a multiple of four but not of the columns the last of them     *)
(* find no place.                                                            *)
AuthorColumns == CASE opt.width <= 105 -> 2
                   [] opt.width > 105 /\ opt.width < 140 -> 3
                   [] opt.width >= 140 /\ opt.width < 175 -> 4
                   [] opt.width >= 175 /\ opt.width <= 210 -> 5
                   [] OTHER -> 6
AuthorTable(counter) ==
    LET sorted == ByCount(counter, DOMAIN counter)
        n == Len(sorted)
        rows == CASE n <= AuthorColumns -> 1
                  [] n > AuthorColumns /\ n % 4 # 0 -> n \div AuthorColumns + 1
                  [] OTHER -> n \div AuthorColumns
    IN  SubSeq(sorted, 1, Min({n, rows * AuthorColumns}))

(* Numbers are not negative; where the code would go below zero it wraps.    *)
Reduction(af) == af.record_cnt - Cardinality(af.detected_record_idset)

(* _print_unique_results: the share of the unique detections of a level is   *)
(* that of the level as far from the other end.                              *)
UniqueShareOf(level) == 6 - level

SumOf(counts) ==
    counts[0] + counts[1] + counts[2] + counts[3] + counts[4] + counts[5] + counts[6]

(* The date with the most detections, and the five first computers and       *)
(* titles; all of them in the HTML report.                                   *)
BestDates(af, level) ==
    LET days == OfLevel(af.by_date, level)
    IN  {t \in DOMAIN days : \A u \in DOMAIN days : days[u] <= days[t]}

Top(names, n) == SubSeq(names, 1, Min({n, Len(names)}))
ComputersBy(af, level) ==
    ByCount(OfLevel(af.by_computer, level), DOMAIN OfLevel(af.by_computer, level) \ {Dash})
TitlesBy(af, level) ==
    ByCount(OfLevel(af.by_rule, level), DOMAIN OfLevel(af.by_rule, level))

(* The histogram needs five detections. *)
HasTimeline(af) == opt.visualize_timeline /\ Len(af.timestamps) >= 5

Summary(af, first_last) ==
    [authors |-> AuthorTable(af.rule_author_counter),
     timeline |-> HasTimeline(af), first_last |-> first_last, detections |-> af.detect_time,
     hits |-> Cardinality(af.detected_record_idset), total |-> af.record_cnt,
     reduction |-> Reduction(af), recovered |-> af.recover_record_cnt,
     count |-> [total |-> SumOf(af.total_by_level), unique |-> SumOf(af.unique_by_level)],
     levels |-> [l \in 1..6 |-> [total |-> af.total_by_level[l],
                                 unique |-> af.unique_by_level[l],
                                 share |-> af.unique_by_level[UniqueShareOf(l)]]],
     dates |-> [l \in 1..6 |-> BestDates(af, l)],
     computers |-> [l \in 1..6 |-> Top(ComputersBy(af, l), 5)],
     titles |-> [l \in 1..6 |-> Top(TitlesBy(af, l), 5)]]

(* What goes into the HTML report besides: every computer and title, with    *)
(* the file and the authors of the rule; one title has one file.             *)
HtmlReport(af) ==
    [computers |-> [l \in 1..6 |-> ComputersBy(af, l)],
     titles |-> [l \in 1..6 |-> [t \in ToSet(TitlesBy(af, l)) |->
                    [path |-> af.path_of[t], authors |-> af.authors_of[af.path_of[t]]]]]]
=============================================================================
