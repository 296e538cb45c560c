------------------------------- MODULE Search -------------------------------
(***************************************************************************)
(* What search and extract-base64 find (src/engine/src/timeline: search.rs  *)
(* and extract_base64.rs).                                                  *)
(*                                                                          *)
(* The text of a record is the set of the words in it; text inside which a  *)
(* pattern, a key or a token is sought is a set or a sequence of such       *)
(* pieces.  To Metrics' record it adds words, aliases (what the alias table *)
(* finds) and payloads.                                                     *)
(***************************************************************************)
EXTENDS Metrics

CONSTANTS
    WildMatch(_, _),        \* a pattern and a value
    RegexMatch(_, _),       \* a pattern and the words of a record
    Shortened(_, _)         \* the abbreviations of default_details.txt, by event

EventSearch == [search_result |-> {}, search_result_cnt |-> 0]

(* A condition is the sequence of what stands between its colons.            *)
create_filter_rule(filters) ==
    LET conditions == {f \in filters : Len(f) > 1}
    IN  [k \in {f[1] : f \in conditions} |->
            UNION {ToSet(Tail(f)) : f \in {g \in conditions : g[1] = k}}]

filter_record(r, rule) ==
    \A k \in DOMAIN rule :
        \E v \in {IF k \in DOMAIN r.aliases THEN r.aliases[k] ELSE "n/a", Value(r, k)} :
            \A pattern \in rule[k] : WildMatch(pattern, v)

contain_keywords(r, o) ==
    LET Cased(w) == IF o.ignore_case THEN LowerCase(w) ELSE w
        has(w) == Cased(w) \in {Cased(x) : x \in r.words}
    IN  IF o.and_logic THEN \A w \in o.keywords : has(w) ELSE \E w \in o.keywords : has(w)

extract_search_event_info(r) ==
    [timestamp |-> r.time,
     hostname |-> IF r.computer = Absent THEN "n/a" ELSE r.computer,
     channel |-> r.channel,
     eventid |-> IF r.numeric THEN r.eid ELSE NoEventId,
     recordid |-> r.rec_id,
     allfieldinfo |-> {Shortened(<<r.provider, r.eid>>, w) : w \in r.words},
     file |-> r.file]

search_keyword(batch, o) ==
    Chosen(batch, {r \in ToSet(batch) : filter_record(r, create_filter_rule(o.filter))
                                            /\ contain_keywords(r, o)})

search_regex(batch, o) ==
    Chosen(batch, {r \in ToSet(batch) : filter_record(r, create_filter_rule(o.filter))
                                            /\ RegexMatch(o.regex, r.words)})

(* The keywords and the regex are each looked for; the parser of the command *)
(* line takes only one of them.                                              *)
Hits(batch, o) ==
    (IF o.keywords # {} THEN search_keyword(batch, o) ELSE <<>>)
        \o (IF o.regex # Absent THEN search_regex(batch, o) ELSE <<>>)

search_start(es, batch, o) ==
    LET hits == Hits(batch, o)
        rows == {extract_search_event_info(hits[i]) : i \in DOMAIN hits}
    IN  [search_result |-> IF o.sort_events THEN es.search_result \cup rows ELSE es.search_result,
         search_result_cnt |-> es.search_result_cnt + Len(hits)]

(* The header stands before the first hit of all, not of each batch.         *)
Header == <<"header", "Timestamp">>
WithHeader(first, rows) == IF first /\ rows # <<>> THEN <<Header>> \o rows ELSE rows

(* What this batch adds to the output at once.                               *)
written(es, batch, o) ==
    LET hits == Hits(batch, o)
    IN  IF o.sort_events THEN <<>>
        ELSE WithHeader(es.search_result_cnt = 0,
                        [i \in DOMAIN hits |-> <<"hit", extract_search_event_info(hits[i])>>])

(* What is added at the end: sorted by time, record id and file, as text.    *)
search_result_dsp_msg(es, o) ==
    IF o.sort_events
    THEN WithHeader(TRUE, IF es.search_result = {} THEN <<>> ELSE <<<<"hits", es.search_result>>>>)
    ELSE <<>>

-----------------------------------------------------------------------------
(* extract-base64.  A payload is the sequence of its tokens.  Of a token:    *)
(* base64, length, alphabetic, reads (the encodings its bytes are ASCII in), *)
(* magic (the type of file its bytes begin like), size (of the bytes),       *)
(* hyphen (it stands after a hyphen somewhere) and inner, the tokens of the  *)
(* decoded text.                                                             *)

PowerShell == {"Microsoft-Windows-PowerShell/Operational", "PowerShellCore/Operational"}

extract_payload(r) ==
    LET is(channels, id) == r.channel \in channels /\ r.eid = id
        wanted ==
            CASE is({"Security"}, 4688) -> <<"CommandLine">>
              [] is({"Microsoft-Windows-Sysmon/Operational"}, 1) -> <<"CommandLine", "ParentCommandLine">>
              [] is(PowerShell, 4104) -> <<"ScriptBlockText">>
              [] is(PowerShell, 4103) -> <<"Payload">>
              [] is({"Windows PowerShell"}, 400) -> <<"Data[2]">>
              [] is({"System"}, 7045) -> <<"ImagePath">>
              [] OTHER -> <<>>
    IN  Chosen(wanted, {f \in DOMAIN r.payloads : r.numeric})

Base64Data(t) ==
    CASE t.size >= 5 /\ "UTF-16 LE" \in t.reads -> "UTF-16 LE"
      [] t.size >= 5 /\ "UTF-16 LE" \notin t.reads /\ "UTF-16 BE" \in t.reads -> "UTF-16 BE"
      [] t.size >= 5 /\ t.reads = {"UTF-8"} -> "UTF-8"
      [] (t.size < 5 \/ t.reads = {}) /\ t.magic # Absent -> "Binary"
      [] OTHER -> "Unknown"

IsWorthDecoding(t) ==
    t.base64 /\ t.length >= 10 /\ ~t.alphabetic /\ Base64Data(t) # "Unknown"

is_double_encoding(t) ==
    Base64Data(t) # "Binary" /\ \E i \in DOMAIN t.inner : IsWorthDecoding(t.inner[i])

create_base64_extracted_record(r, payload) ==
    LET found == Chosen(payload, {t \in ToSet(payload) : IsWorthDecoding(t) /\ ~t.hyphen})
        row(t) == [time |-> r.time, computer |-> r.computer, token |-> t.text,
                   binary |-> Base64Data(t) = "Binary", double |-> is_double_encoding(t),
                   encoding |-> Base64Data(t),
                   file_type |-> IF Base64Data(t) = "Binary" THEN t.magic ELSE "text",
                   rec_id |-> r.rec_id, file |-> r.file, at |-> r.at]
    IN  [i \in DOMAIN found |-> row(found[i])]

process_record(r) ==
    LET fields == extract_payload(r)
    IN  FlattenSeq([i \in DOMAIN fields |->
            create_base64_extracted_record(r, r.payloads[fields[i]])])

process_evtx_record_infos(batch) ==
    FlattenSeq([i \in DOMAIN batch |-> process_record(batch[i])])

(* Nothing is written when nothing was found: the file that init_writer made *)
(* stays empty.                                                              *)
output_all(rows) ==
    IF rows = <<>> THEN <<>>
    ELSE <<Header>> \o [i \in DOMAIN rows |-> <<"base64", rows[i]>>]
=============================================================================
