------------------------------ MODULE RuleSet ------------------------------
(***************************************************************************)
(* From rule files to alerts.  RuleLoader reads the rules; then rule nodes  *)
(* are created, correlation rules are merged with the rules they refer to   *)
(* (src/engine/src/detections/rule/correlation_parser.rs), records are      *)
(* matched, and at the end the counting and temporal rules are judged       *)
(* (src/engine/src/detections/detection.rs).                                *)
(*                                                                          *)
(* A record is known by the rules whose conditions it meets.  Timespans and *)
(* times are whole seconds; what a window does with fractions is the        *)
(* business of Timeframe.                                                   *)
(***************************************************************************)
EXTENDS RuleLoader, SequencesExt

CONSTANTS
    Records,        \* [hits : SUBSET ids, group, time]
    MaxRecords

NoCorrelation == [type |-> "none"]
Bad == -1           \* a number or timespan that does not parse
Absent == -2        \* a timespan that is missing

VARIABLES
    rules,          \* the rule nodes that are no correlation rules; later all
    merging,        \* correlation rules waiting for merge_referenced_rule
    merged,         \* parsed_rules
    temporals,      \* temporal rules waiting for parse_temporal_rules
    ref_rules,      \* temporal_ref_rules: clones of the rules they refer to
    del_ids,        \* referenced_del_ids
    temporal_nodes, \* parsed_temporal_rules
    parseerror_count,
    reported,       \* correlation rules for which error_log was called
    log,            \* the records so far
    alerts

correlating == <<rules, merging, merged, temporals, ref_rules, del_ids, temporal_nodes,
                 parseerror_count, reported>>
vars == <<loaderVars, correlating, log, alerts>>

-----------------------------------------------------------------------------
(* The members of sequence s that are in S, in their order.                  *)
Chosen(s, S) == FlattenSeq([i \in DOMAIN s |-> IF s[i] \in S THEN <<s[i]>> ELSE <<>>])

NoAgg == [num |-> Bad, span |-> 0]

IsCorrelation(d) == d.correlation.type # "none"
IsTemporal(d) == d.correlation.type \in {"temporal", "temporal_ordered"}

CorrelationType(d) ==
    IF d.correlation.type \in {"event_count", "value_count", "temporal", "temporal_ordered"}
    THEN d.correlation.type ELSE "none"

(* sel: the rules whose conditions are joined by OR; none for a correlation  *)
(* rule, which has no detection of its own.                                  *)
RuleNode(d) ==
    [doc |-> d, names |-> {d.id, d.title, d.name}, sel |-> IF IsCorrelation(d) THEN {} ELSE {d.id},
     agg |-> NoAgg, type |-> CorrelationType(d), generate |-> FALSE, ref |-> <<>>, refs |-> <<>>]

RuleInitOk(d) == IsCorrelation(d) \/ d.compiles

(* A negative timespan, which the parser would accept, is left out.          *)
ASSUME RuleAssumption ==
    /\ \A d \in Documents : IsCorrelation(d) =>
         /\ d.correlation.refs \in Seq(STRING)
         /\ d.correlation.num \in Int /\ d.correlation.span \in Nat \cup {Bad, Absent}
    /\ \A e \in Records : e.time \in Int

is_referenced_rule(r, name) == name \in r.names

-----------------------------------------------------------------------------
Init ==
    /\ LoaderInit
    /\ rules = <<>> /\ merging = <<>> /\ merged = <<>> /\ temporals = <<>>
    /\ ref_rules = <<>> /\ del_ids = {} /\ temporal_nodes = <<>>
    /\ parseerror_count = 0 /\ reported = {}
    /\ log = <<>> /\ alerts = {}

Load == LoaderNext /\ UNCHANGED <<correlating, log, alerts>>

loading == <<tree, options, pending, files, reading, counters>>

Nodes(docs) == [i \in DOMAIN docs |-> RuleNode(docs[i])]

(* Rules whose detection does not compile are dropped, each with an error.   *)
CreateRules ==
    /\ phase = "create"
    /\ rules' = Nodes(Chosen(files, {d \in Documents : ~IsCorrelation(d) /\ RuleInitOk(d)}))
    /\ merging' = Nodes(Chosen(files, {d \in Documents : IsCorrelation(d) /\ ~IsTemporal(d)}))
    /\ temporals' = Nodes(Chosen(files, {d \in Documents : IsTemporal(d)}))
    /\ parseerror_count' = errorrule_count
            + Cardinality({i \in DOMAIN files : ~RuleInitOk(files[i])})
    /\ phase' = "merge"
    /\ UNCHANGED <<loading, merged, ref_rules, del_ids, temporal_nodes, reported, log, alerts>>

Found(c) == \A i \in DOMAIN c.refs : \E j \in DOMAIN rules : is_referenced_rule(rules[j], c.refs[i])

(* What merge_referenced_rule and create_related_rule_nodes ask for.         *)
Mergeable(c) ==
    /\ c.type \in {"event_count", "value_count"}
    /\ c.refs # <<>>
    /\ c.span # Absent
    /\ c.group_by
    /\ Found(c)

(* What create_detection asks for, when the rules referred to are gone.      *)
Detectable(c) == c.num # Bad /\ c.span # Bad

(* Mutant: only the rules of the first reference are joined. *)
FirstRelated(c) == {j \in DOMAIN rules : is_referenced_rule(rules[j], c.refs[1])}

Related(c) == {j \in DOMAIN rules : rules[j].names \cap Range(c.refs) # {}}

(* Mutant: rules are taken out also with "generate". *)
TakeAlways(c, names) == names

(* The names whose rules are taken out of the list.                          *)
TakenOut(c, names) == IF c.generate THEN {} ELSE names

Merge ==
    /\ phase = "merge" /\ merging # <<>>
    /\ LET rule == Head(merging)
           c == rule.doc.correlation
           kept == {r \in Range(rules) : r.names \cap TakenOut(c, Range(c.refs)) = {}}
       IN  /\ rules' = IF Mergeable(c) THEN Chosen(rules, kept) ELSE rules
           /\ IF Mergeable(c) /\ Detectable(c)
              THEN /\ merged' = Append(merged,
                        [rule EXCEPT !.sel = UNION {rules[j].sel : j \in Related(c)},
                                     !.agg = [num |-> c.num, span |-> c.span]])
                   /\ UNCHANGED <<reported, parseerror_count>>
              ELSE /\ merged' = Append(merged, rule)
                   /\ reported' = reported \cup {rule.doc.id}
                   /\ parseerror_count' = parseerror_count + 1
    /\ merging' = Tail(merging)
    /\ UNCHANGED <<loading, phase, temporals, ref_rules, del_ids, temporal_nodes, log, alerts>>

Merged ==
    /\ phase = "merge" /\ merging = <<>>
    /\ phase' = "temporal"
    /\ rules' = merged \o rules
    /\ merged' = <<>>
    /\ UNCHANGED <<loading, merging, temporals, ref_rules, del_ids, temporal_nodes,
                   parseerror_count, reported, log, alerts>>

-----------------------------------------------------------------------------
(* The pairs of a reference and a rule it refers to, reference by reference. *)
References(c) ==
    LET of(k) == [i \in DOMAIN rules |-> <<k, i>>]
        hits == {p \in (DOMAIN c.refs) \X (DOMAIN rules) : is_referenced_rule(rules[p[2]], c.refs[p[1]])}
    IN  Chosen(FlattenSeq([k \in DOMAIN c.refs |-> of(k)]), hits)

(* A fresh id for the clone that rule t makes of rules[p[2]]; other rules go *)
(* by the name in the reference.                                             *)
NewId(t, p) == <<t.doc.id, p[1], p[2]>>
ByName(name) == <<name>>

Clone(t, p) ==
    LET r == rules[p[2]]
    IN  [r EXCEPT !.names = @ \ {r.doc.id},
                  !.agg = [num |-> 1, span |-> t.doc.correlation.span],
                  !.type = "ref", !.generate = t.doc.correlation.generate, !.ref = NewId(t, p)]

ParseTemporal ==
    /\ phase = "temporal" /\ temporals # <<>>
    /\ Head(temporals).doc.correlation.span \notin {Absent, Bad}
    /\ LET t == Head(temporals)
           c == t.doc.correlation
           refs == References(c)
           counted(p) == rules[p[2]].type # "none"
           clones == Chosen(refs, {p \in Range(refs) : ~counted(p)})
           last(i) == {n \in DOMAIN refs : refs[n][2] = i /\ \A m \in DOMAIN refs :
                            refs[m][2] = i => m <= n}
       IN  /\ rules' = [i \in DOMAIN rules |->
                IF rules[i].type # "none" /\ last(i) # {}
                THEN [rules[i] EXCEPT !.type = "ref", !.generate = c.generate,
                                      !.ref = ByName(c.refs[refs[CHOOSE n \in last(i) : TRUE][1]])]
                ELSE rules[i]]
           /\ ref_rules' = ref_rules \o [n \in DOMAIN clones |-> Clone(t, clones[n])]
           /\ del_ids' = del_ids \cup TakenOut(c, {c.refs[clones[n][1]] : n \in DOMAIN clones})
           /\ temporal_nodes' = Append(temporal_nodes,
                [t EXCEPT !.agg = [num |-> 1, span |-> c.span],
                          !.refs = [n \in DOMAIN refs |->
                             IF counted(refs[n]) THEN ByName(c.refs[refs[n][1]])
                                                   ELSE NewId(t, refs[n])]])
    /\ temporals' = Tail(temporals)
    /\ UNCHANGED <<loading, phase, merging, merged, parseerror_count, reported, log, alerts>>

(* A temporal rule without a timespan, or with one that does not parse.      *)
Panic ==
    /\ phase = "temporal" /\ temporals # <<>>
    /\ Head(temporals).doc.correlation.span \in {Absent, Bad}
    /\ phase' = "panic"
    /\ UNCHANGED <<loading, correlating, log, alerts>>

Assembled ==
    /\ phase = "temporal" /\ temporals = <<>>
    /\ LET kept == {r \in Range(rules) : r.names \cap del_ids = {}}
       IN  rules' = Chosen(rules, kept) \o ref_rules \o temporal_nodes
    /\ phase' = "scan"
    /\ UNCHANGED <<loading, merging, merged, temporals, ref_rules, del_ids, temporal_nodes,
                   parseerror_count, reported, log, alerts>>

-----------------------------------------------------------------------------
HasAgg(r) == r.agg # NoAgg

Alert(r, group, time) == [rule |-> r.doc.id, group |-> group, time |-> time]

(* A record goes through all rules; those that count keep it for later.      *)
Scan(e) ==
    /\ phase = "scan" /\ Len(log) < MaxRecords
    /\ log' = Append(log, e)
    /\ alerts' = alerts \cup
            {Alert(r, e.group, e.time) : r \in {q \in Range(rules) : ~HasAgg(q) /\ e.hits \cap q.sel # {}}}
    /\ UNCHANGED <<loading, phase, correlating>>

(* The records of a group that rule r matches.                               *)
Matches(r, group) == {i \in DOMAIN log : log[i].group = group /\ log[i].hits \cap r.sel # {}}

(* Their times, in order.                                                    *)
CountData(r, group) ==
    LET I == Matches(r, group)
        order == CHOOSE q \in [1..Cardinality(I) -> I] : IsInjective(q) /\
                    \A j, k \in DOMAIN q : j < k => log[q[j]].time <= log[q[k]].time
    IN  [k \in 1..Cardinality(I) |-> log[order[k]].time]

(* How far the right end goes: as long as the next one is in the timeframe.  *)
Reach(d, span, left, right) ==
    CHOOSE r \in right..Len(d) :
        /\ \A m \in right..(r - 1) : d[m + 1] - d[left + 1] <= span
        /\ r = Len(d) \/ d[r + 1] - d[left + 1] > span

(* One turn of the loop in judge_timeframe, over d[left + 1] .. d[right].    *)
Turn(d, agg, w) ==
    IF w.left >= Len(d) \/ w.right > Len(d) THEN w
    ELSE LET right == Reach(d, agg.span, w.left, w.right)
         IN  IF right - w.left >= agg.num
             THEN [left |-> right, right |-> right, starts |-> w.starts \cup {d[w.left + 1]}]
             ELSE [left |-> w.left + 1, right |-> right + 1, starts |-> w.starts]

(* Where judge_timeframe finds a window of at least num records. Every turn  *)
(* moves the left end on.                                                    *)
WindowStarts(d, agg) ==
    LET window[n \in 0..Len(d)] ==
          IF n = 0 THEN [left |-> 0, right |-> 0, starts |-> {}] ELSE Turn(d, agg, window[n - 1])
    IN  window[Len(d)].starts

Results(r) ==
    UNION {{[group |-> g, time |-> s] : s \in WindowStarts(CountData(r, g), r.agg)}
            : g \in {log[i].group : i \in DOMAIN log}}

(* detected_temporal_refs: the results of the rules that go by this id.      *)
RefResults(id) ==
    UNION {Results(r) : r \in {q \in Range(rules) : q.type = "ref" /\ q.ref = id}}

(* Mutant: the order does not matter. *)
NearEither(t, base, other) ==
    /\ other.time <= base.time + t.agg.span
    /\ other.time >= base.time - t.agg.span

Near(t, base, other) ==
    /\ other.time <= base.time + t.agg.span
    /\ IF t.type = "temporal_ordered" THEN other.time >= base.time
                                      ELSE other.time >= base.time - t.agg.span

(* Every later rule is compared with the first; with one rule, none is found. *)
detect_within_timeframe(t) ==
    {base \in RefResults(t.refs[1]) :
        /\ Len(t.refs) > 1
        /\ \A k \in 2..Len(t.refs) : \E other \in RefResults(t.refs[k]) : Near(t, base, other)}

TemporalResults(t) ==
    IF t.refs = <<>> \/ \E k \in DOMAIN t.refs : RefResults(t.refs[k]) = {} THEN {}
    ELSE detect_within_timeframe(t)

(* add_aggcondition_msg, when all records have been read.                    *)
Judge ==
    /\ phase = "scan"
    /\ phase' = "done"
    /\ LET counting == {r \in Range(rules) : HasAgg(r) /\ (r.type = "ref" => r.generate)}
           temporal == {r \in Range(rules) : r.type \in {"temporal", "temporal_ordered"}}
       IN  alerts' = alerts
             \cup (UNION {{Alert(r, x.group, x.time) : x \in Results(r)} : r \in counting})
             \cup (UNION {{Alert(r, x.group, x.time) : x \in TemporalResults(r)} : r \in temporal})
    /\ UNCHANGED <<loading, correlating, log>>

Next ==
    \/ Load \/ CreateRules \/ Merge \/ Merged \/ ParseTemporal \/ Panic \/ Assembled
    \/ (\E e \in Records : Scan(e)) \/ Judge

Spec == Init /\ [][Next]_vars

-----------------------------------------------------------------------------
TypeOK ==
    /\ LoaderTypeOK
    /\ phase \in {"read", "failed", "create", "merge", "temporal", "panic", "scan", "done"}
    /\ reported \subseteq {d.id : d \in Documents}
    /\ \A i \in DOMAIN rules : rules[i].doc \in Documents
    /\ log \in Seq(Records)

PlainRules == {d \in Range(files) : ~IsCorrelation(d) /\ d.compiles}
Names(d) == {d.id, d.title, d.name}
NamedBy(d) == {c \in Range(files) : IsCorrelation(c) /\ Names(d) \cap Range(c.correlation.refs) # {}}

AlertsOf(d) == {a \in alerts : a.rule = d.id}

(* A correlation rule that was refused before it took its rules out.         *)
Refused(c) == c.id \in reported /\ (Detectable(c.correlation) \/ ~c.correlation.group_by)

(* No rule of D is loaded twice, under two paths of the rule directory. A    *)
(* second copy of a correlation rule no longer finds what the first took.    *)
LoadedOnce(D) ==
    \A i, j \in DOMAIN files :
        files[i] \in D /\ files[j] \in D /\ files[i].id = files[j].id => i = j

Correlations == {d \in Documents : IsCorrelation(d)}

(* No rule goes missing on the way: a loaded rule that matched a record has  *)
(* an alert, unless a correlation rule without "generate" took it, even when *)
(* several correlation rules name it (correlation_parser.rs 299-304,         *)
(* 385-418).                                                                 *)
BaseStillHeard ==
    phase = "done" /\ LoadedOnce(Correlations) =>
        \A d \in PlainRules :
            /\ \E i \in DOMAIN log : d.id \in log[i].hits
            /\ \A c \in NamedBy(d) : c.correlation.generate \/ Refused(c)
            => AlertsOf(d) # {}

(* n records of a group within the timespan that rules named by c match.     *)
Burst(c, group) ==
    \E I \in SUBSET {i \in DOMAIN log : log[i].group = group /\
                        \E d \in PlainRules : c \in NamedBy(d) /\ d.id \in log[i].hits} :
        /\ Cardinality(I) >= c.correlation.num /\ I # {}
        /\ \A i, j \in I : log[i].time - log[j].time <= c.correlation.span

OnlyOne(c) ==
    /\ NamedBy(c) = {}
    /\ \A d \in PlainRules : c \in NamedBy(d) => NamedBy(d) = {c}

(* An event count rule that was merged alerts exactly for the groups in      *)
(* which that many records, matched by any of its rules, lie within the      *)
(* timespan (correlation_parser.rs 166-222, 302-337).                        *)
CountMeansBurst ==
    phase = "done" /\ LoadedOnce(Documents) =>
        \A c \in Range(files) : c.correlation.type = "event_count" /\ c.id \notin reported =>
            \A e \in Records :
                /\ (\E a \in AlertsOf(c) : a.group = e.group) => Burst(c, e.group)
                /\ OnlyOne(c) /\ Burst(c, e.group) => \E a \in AlertsOf(c) : a.group = e.group

(* An alert of a temporal rule whose rules were all loaded, and are not also *)
(* another's, is backed by a record of every rule it names within the        *)
(* timespan, and not before it if they are ordered (detection.rs 201-240).   *)
TemporalIsBacked ==
    phase = "done" /\ LoadedOnce(Documents) =>
        \A t \in Range(files) : IsTemporal(t) /\ OnlyOne(t) =>
            \A a \in AlertsOf(t) : \A n \in Range(t.correlation.refs) :
                (\E d \in PlainRules : n \in Names(d)) =>
                \E d \in PlainRules, i \in DOMAIN log :
                    /\ n \in Names(d) /\ d.id \in log[i].hits
                    /\ log[i].time <= a.time + t.correlation.span
                    /\ log[i].time >= a.time - (IF t.correlation.type = "temporal" THEN t.correlation.span ELSE 0)
=============================================================================
