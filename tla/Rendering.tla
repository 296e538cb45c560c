----------------------------- MODULE Rendering -----------------------------
(***************************************************************************)
(* What a detection looks like (src/engine/src/detections/detection.rs,    *)
(* message.rs, field_data_map.rs, utils.rs, level.rs, geoip_search.rs): the *)
(* columns of the profile filled from a record and a rule, or from the      *)
(* records that an aggregation condition counted.                           *)
(*                                                                          *)
(* A template is a sequence of chunks, those that the text separates by the *)
(* broken bar; a chunk has a key, "" when it has no colon, and a body of    *)
(* texts and aliases.  Colours, widths, white space and control characters  *)
(* are left out.  Columns that join several values are sets of them.        *)
(***************************************************************************)
EXTENDS Integers, Sequences, SequencesExt, FiniteSets, FiniteSetsExt

CONSTANTS
    Decimal,        \* [hexadecimal texts -> their decimal texts]
    CriticalSystem, \* rules/config/critical_systems.txt
    GeoDb,          \* [public addresses -> [asn, country, city]]
    LocalAddress,   \* loopback and what counts as local
    PrivateAddress

VARIABLE opt        \* the options and configuration, fixed for a run

Absent == "<absent>"
NotAvailable == "n/a"
Dash == "-"

-----------------------------------------------------------------------------
Text(w) == [alias |-> FALSE, w |-> w]
Alias(f) == [alias |-> TRUE, w |-> f]
Chunk(k, body) == [key |-> k, body |-> body]
Plain(w) == <<Chunk("", <<Text(w)>>)>>
NoText == <<>>

(* The members of s but for those at the places D, in their order. *)
Without(s, D) ==
    LET upto[n \in 0..Len(s)] ==
            IF n = 0 THEN <<>>
            ELSE IF n \in D THEN upto[n - 1] ELSE Append(upto[n - 1], s[n])
    IN  upto[Len(s)]

(* LEVEL: 0 undefined, 1 informational, ... 5 critical, 6 emergency. *)
Levels == 0..6

(* LEVEL.convert: any of the computers is a critical system. *)
Converted(level, computers) ==
    IF computers \cap CriticalSystem # {} /\ level \in 2..5 THEN level + 1 ELSE level

(* The value of an alias: parts of the System section go by their own names. *)
ValueOf(r, f) ==
    CASE f = "Computer" -> r.computer
      [] f = "Channel" -> r.channel
      [] f \in DOMAIN r.data -> r.data[f]
      [] OTHER -> Absent

-----------------------------------------------------------------------------
(* Rewriting of values, by channel and event id.                             *)

(* build_field_data_map: a value to replace, or a number to turn around; the *)
(* latter wins.  A document with neither is filed under the empty key.       *)
FieldDataMapKey(doc) ==
    IF DOMAIN doc.rewrite = {} /\ doc.hex = {} THEN <<"", 0>> ELSE <<doc.channel, doc.eid>>

FieldDataMapEntry(doc) ==
    [f \in DOMAIN doc.rewrite \cup doc.hex |->
        IF f \in doc.hex THEN [hex |-> TRUE]
        ELSE [hex |-> FALSE, to |-> doc.rewrite[f], providers |-> doc.providers]]

(* create_field_data_map: of two documents with one key the later one stays. *)
FieldDataMap ==
    LET docs == opt.field_data_map
        key(i) == FieldDataMapKey(docs[i])
    IN  [k \in {key(i) : i \in DOMAIN docs} |->
            FieldDataMapEntry(docs[Max({i \in DOMAIN docs : key(i) = k})])]

convert_field_data(r, f, v) ==
    LET key == <<r.channel, r.eid>>
        entry == IF key \in DOMAIN FieldDataMap THEN FieldDataMap[key] ELSE <<>>
        to == entry[f]
    IN  IF f \notin DOMAIN entry THEN v
        ELSE IF to.hex THEN (IF v \in DOMAIN Decimal THEN Decimal[v] ELSE v)
        ELSE IF to.providers # {} /\ r.provider \notin to.providers THEN v
        ELSE IF v \in DOMAIN to.to THEN to.to[v] ELSE v

(* create_recordinfos: every field of the event but those under System, in   *)
(* an order that depends on nothing else.                                    *)
create_recordinfos(r) ==
    SetToSeq({Chunk(f, <<Text(convert_field_data(r, f, r.data[f]))>>) : f \in DOMAIN r.data})

-----------------------------------------------------------------------------
(* parse_message *)

AliasValue(r, f) ==
    IF ValueOf(r, f) = Absent THEN NotAvailable ELSE convert_field_data(r, f, ValueOf(r, f))

IsAlias(item) == item.alias
AliasesOf(body) == SelectSeq(body, IsAlias)
Aliases(template) == FlattenSeq([i \in DOMAIN template |-> AliasesOf(template[i].body)])

(* The text with its aliases replaced; for JSON they stay, and the list      *)
(* below is used.                                                            *)
Message(r, template) ==
    IF opt.json THEN template
    ELSE [i \in DOMAIN template |->
            [template[i] EXCEPT !.body = [j \in DOMAIN @ |->
                IF @[j].alias THEN Text(AliasValue(r, @[j].w)) ELSE @[j]]]]

(* details_key_and_value: for each alias the key of the first chunk that has *)
(* it.  A template without aliases is its own list.                          *)
FirstWith(template, a) ==
    CHOOSE c \in ToSet(template) :
        \E i \in DOMAIN template : /\ template[i] = c /\ a \in ToSet(c.body)
                                   /\ \A j \in 1..(i - 1) : a \notin ToSet(template[j].body)

DetailsList(r, template) ==
    LET as == Aliases(template)
    IN  IF as = <<>>
        THEN [i \in DOMAIN template |->
                IF template[i].key = "" THEN Chunk("", <<>>) ELSE template[i]]
        ELSE [i \in DOMAIN as |-> Chunk(FirstWith(template, as[i]).key, <<Text(AliasValue(r, as[i].w))>>)]

(* The fields whose value is not among those of the details. *)
ExtraFields(r, details) ==
    LET fields == create_recordinfos(r)
        shown == {details[i].body : i \in DOMAIN details}
    IN  Without(fields, {i \in DOMAIN fields : fields[i].body \in shown})

OrDash(cell) == IF cell = <<>> THEN Plain(Dash) ELSE cell

-----------------------------------------------------------------------------
(* Places of addresses.                                                      *)

GeoColumns == {"SrcASN", "SrcCountry", "SrcCity", "TgtASN", "TgtCountry", "TgtCity"}
GeoSide(c) == IF c \in {"SrcASN", "SrcCountry", "SrcCity"} THEN "SrcIP" ELSE "TgtIP"
GeoPart(c) == CASE c \in {"SrcASN", "TgtASN"} -> "asn"
                [] c \in {"SrcCountry", "TgtCountry"} -> "country"
                [] OTHER -> "city"
NoPlace == [asn |-> "", country |-> "", city |-> ""]

(* get_alias_data: the first alias the record has a value for. *)
get_alias_data(r, aliases) ==
    LET has(f) == ValueOf(r, f) \notin {Absent, NotAvailable}
        found == SelectSeq(aliases, has)
    IN  IF found = <<>> THEN Dash ELSE ValueOf(r, found[1])

convert_ip_to_geo(ip) ==
    CASE ip \in LocalAddress -> [asn |-> "Local", country |-> Dash, city |-> Dash]
      [] ip \in PrivateAddress -> [asn |-> "Private", country |-> Dash, city |-> Dash]
      [] ip \in DOMAIN GeoDb -> GeoDb[ip]
      [] OTHER -> NoPlace                   \* not an address

Geo(r, c) ==
    LET side == GeoSide(c)
        asked == /\ side \in DOMAIN opt.geoip_fields
                 /\ <<r.channel, r.eid>> \in opt.geoip_filter
    IN  (IF asked THEN convert_ip_to_geo(get_alias_data(r, opt.geoip_fields[side]))
         ELSE NoPlace)[GeoPart(c)]

-----------------------------------------------------------------------------
(* The columns of a detection.                                               *)

NoTime == -1
DefaultTime == 0            \* 1970-01-01
NoEventId == 0              \* the empty text, which is sorted first
DashEventId == 1
Time(r) == IF r.time = NoTime THEN DefaultTime ELSE r.time

Abbreviated(map, w) == IF w \in DOMAIN map THEN map[w] ELSE w

(* get_tag_info, sorted into those of tactics, of techniques, groups and     *)
(* software, and others.                                                     *)
Tagged(rule, kind) ==
    LET is(t) == t.kind = kind IN SelectSeq(rule.tags, is)

TagKind(c) == CASE c = "MitreTactics" -> "tactic" [] c = "MitreTags" -> "technique"
                [] OTHER -> "other"
TagColumns == {"MitreTactics", "MitreTags", "OtherTags"}
DetailColumns == {"Details", "AllFieldInfo", "ExtraFieldInfo"}

Columns == {opt.profile[i] : i \in DOMAIN opt.profile}
IsBefore(c, d) == \E i, j \in DOMAIN opt.profile :
                      i < j /\ opt.profile[i] = c /\ opt.profile[j] = d

(* The level of a detection is raised when the column is filled. *)
LevelOf(rule, computers) ==
    IF "Level" \in Columns THEN Converted(rule.level, computers) ELSE rule.level

(* create_log_record, but for the details; rule.meta are the columns copied  *)
(* from the rule.                                                            *)
LogColumn(rule, r, c) ==
    CASE c \in DOMAIN rule.meta -> rule.meta[c]
      [] c = "Timestamp" -> Time(r)
      [] c = "Computer" -> {r.computer}
      [] c = "Channel" -> {Abbreviated(opt.ch_config, r.channel)}
      [] c = "Level" -> LevelOf(rule, {r.computer})
      [] c = "EventID" -> {r.eid}
      [] c = "RecordID" -> r.rec_id
      [] c = "EvtxFile" -> {r.file}
      [] c \in TagColumns -> Tagged(rule, TagKind(c))
      [] c = "Provider" -> Abbreviated(opt.provider_abbr_config, r.provider)
      [] c = "RecoveredRecord" -> IF r.recovered THEN "Y" ELSE ""
      [] c = "RenderedMessage" -> IF r.message = Absent THEN NotAvailable ELSE r.message
      [] c \in GeoColumns -> Geo(r, c)
      [] OTHER -> c                         \* a literal

(* The details of the rule, or those configured for the provider and event   *)
(* id, or all fields.                                                        *)
DetailsTemplate(rule, r) ==
    CASE rule.details # NoText -> rule.details
      [] rule.details = NoText /\ <<r.provider, r.eid>> \in DOMAIN opt.default_details ->
           opt.default_details[<<r.provider, r.eid>>]
      [] OTHER -> create_recordinfos(r)

(* create_message for a record. *)
DetailCell(rule, r, c) ==
    LET template == DetailsTemplate(rule, r)
    IN  CASE c = "Details" -> OrDash(Message(r, template))
          [] c = "AllFieldInfo" -> IF opt.json THEN <<>> ELSE OrDash(create_recordinfos(r))
          [] OTHER -> IF opt.json THEN Plain(Dash)
                      ELSE OrDash(ExtraFields(r, DetailsList(r, template)))

(* details_convert_map, what JSON shows in the place of those cells. *)
DetailLists(rule, r) ==
    LET details == DetailsList(r, DetailsTemplate(rule, r))
    IN  [c \in (DetailColumns \cap Columns) \cup {"Details"} |->
            CASE c = "Details" -> details
              [] c = "AllFieldInfo" -> create_recordinfos(r)
              [] OTHER -> ExtraFields(r, details)]

NoLists == [c \in {} |-> <<>>]

create_log_record(rule, r) ==
    [time |-> Time(r), rule |-> rule, level |-> LevelOf(rule, {r.computer}),
     computer |-> r.computer, eid |-> r.eid,
     rec_id |-> IF "RecordID" \in Columns THEN r.rec_id ELSE "",
     is_agg |-> FALSE, agg |-> <<>>, of |-> {r.at},
     cells |-> [c \in Columns |-> IF c \in DetailColumns THEN DetailCell(rule, r, c)
                                  ELSE LogColumn(rule, r, c)],
     lists |-> IF opt.json THEN DetailLists(rule, r) ELSE NoLists]

-----------------------------------------------------------------------------
(* The columns of an aggregated result.                                      *)

(* join_agg_values: every value once. *)
Joined(infos, field) == {infos[i][field] : i \in DOMAIN infos}

(* create_count_output *)
create_count_output(rule, result) ==
    <<Chunk("Count", <<Text(ToString(result.data))>>)>>
    \o (IF rule.agg.field = "" THEN <<>>
        ELSE <<Chunk(rule.agg.field, [i \in DOMAIN result.field_values |->
                                        Text(result.field_values[i])])>>)
    \o (IF rule.agg.by = "" THEN <<>> ELSE <<Chunk(rule.agg.by, <<Text(result.key)>>)>>)

AggColumn(rule, result, c) ==
    CASE c \in DOMAIN rule.meta -> rule.meta[c]
      [] c = "Timestamp" -> result.start
      [] c = "Computer" -> Joined(result.infos, "computer")
      [] c = "Channel" -> {Abbreviated(opt.ch_config, ch) : ch \in Joined(result.infos, "channel")}
      [] c = "Level" -> LevelOf(rule, Joined(result.infos, "computer"))
      [] c = "EventID" -> Joined(result.infos, "eid")
      [] c = "EvtxFile" -> Joined(result.infos, "file")
      [] c \in TagColumns -> Tagged(rule, TagKind(c))
      [] c \in {"RecordID", "RecoveredRecord"} -> ""
      [] c \in {"Provider", "RenderedMessage"} \cup GeoColumns -> Dash
      [] OTHER -> c

(* create_message for a result: the text is handed out once, to the details  *)
(* or to all fields, whichever comes first.                                  *)
AggDetailCell(rule, result, c) ==
    LET output == create_count_output(rule, result)
    IN  CASE c = "Details" -> output
          [] c = "AllFieldInfo" -> IF IsBefore("Details", c) THEN <<>> ELSE output
          [] OTHER -> Plain(Dash)

AggDetailLists(rule, result) ==
    LET output == create_count_output(rule, result)
    IN  [c \in (DetailColumns \cap Columns) \cup {"Details"} |->
            CASE c = "Details" -> output
              [] c = "AllFieldInfo" -> IF IsBefore("Details", c) THEN <<Chunk("", <<>>)>> ELSE output
              [] OTHER -> Plain(Dash)]

create_agg_log_record(rule, result) ==
    [time |-> result.start, rule |-> rule,
     level |-> LevelOf(rule, Joined(result.infos, "computer")),
     computer |-> Dash, eid |-> DashEventId, rec_id |-> Dash,
     is_agg |-> TRUE, agg |-> result.infos, of |-> Joined(result.infos, "at"),
     cells |-> [c \in Columns |-> IF c \in DetailColumns THEN AggDetailCell(rule, result, c)
                                  ELSE AggColumn(rule, result, c)],
     lists |-> AggDetailLists(rule, result)]
=============================================================================
