----------------------------- MODULE MCRuleSet -----------------------------
(* An instance of RuleSet: plain rules a and b, of which b goes by its name, *)
(* correlation rules over them, and rules that one filter or another stops.  *)
EXTENDS RuleSet, Wizard

Plain(id, level, status) ==
    [id |-> id, title |-> id, name |-> id, level |-> level, status |-> status,
     format |-> TRUE, expand |-> "no", category |-> "process", tags |-> {"t1"},
     lookup |-> [name |-> "none", file |-> "none"], compiles |-> TRUE,
     correlation |-> NoCorrelation]

Correlation(id, type, refs, generate, num, span) ==
    [Plain(id, 3, "stable") EXCEPT !.correlation =
        [type |-> type, refs |-> refs, generate |-> generate, num |-> num,
         span |-> span, group_by |-> TRUE]]

a == [Plain("a", 2, "stable") EXCEPT !.lookup = [name |-> "T", file |-> "x"], !.tags = {"t1", "t2"}]
b == [Plain("b", 3, "test") EXCEPT !.name = "bee", !.category = "network"]
old == Plain("old", 3, "deprecated")
hole == [Plain("hole", 3, "stable") EXCEPT !.expand = "kept",
                                           !.lookup = [name |-> "T", file |-> "y"]]
filled == [hole EXCEPT !.id = "filled", !.expand = "replaced"]
odd == [Plain("odd", 3, "stable") EXCEPT !.format = FALSE]
bad == [Plain("bad", 3, "stable") EXCEPT !.compiles = FALSE]

count == Correlation("count", "event_count", <<"a", "bee">>, FALSE, 2, 2)
loud == Correlation("loud", "event_count", <<"a">>, TRUE, 2, 2)
near == Correlation("near", "temporal", <<"a", "bee">>, FALSE, 0, 2)
order == Correlation("order", "temporal_ordered", <<"bee", "a">>, TRUE, 0, 2)
chain == Correlation("chain", "temporal", <<"loud", "b">>, FALSE, 0, 2)
broke == Correlation("broke", "event_count", <<"a">>, FALSE, Bad, 2)
loose == [Correlation("loose", "event_count", <<"b">>, FALSE, 1, 2) EXCEPT !.correlation.group_by = FALSE]
panic == Correlation("panic", "temporal", <<"a", "b">>, FALSE, 0, Absent)

(* For the wizard: rules of every kind it asks about, some of two kinds.     *)
Tag(d, id, tags) == [d EXCEPT !.id = id, !.tags = tags]
sys == Tag(a, "sys", {"t1", "sysmon"})
hunt == Tag(b, "hunt", {"sysmon", "detection.threat_hunting"})
threat == [Tag(Plain("threat", 4, "experimental"), "threat", {"detection.emerging_threats"})
            EXCEPT !.lookup = a.lookup]
none == Plain("none", 4, "unsupported")
info == Plain("info", 1, "stable")

MCDocuments == {a, b, old, hole, filled, odd, bad, count, loud, near, order, chain,
                broke, loose, panic, sys, hunt, threat, none, info}

MCPaths == {"root", "f1", "f2", "sub", "f3"}

Tree(d1, d2, d3) ==
    LET yml(docs) == [kind |-> "yml", entries |-> {}, docs |-> docs]
        dir(es) == [kind |-> "dir", entries |-> es, docs |-> <<>>]
    IN  [root |-> dir({"f1", "f2", "sub"}), f1 |-> yml(d1), f2 |-> yml(d2),
         sub |-> dir({"f3"}), f3 |-> yml(d3)]

Kind(t, p, k) == [t EXCEPT ![p] = [kind |-> k, entries |-> {}, docs |-> <<>>]]

mixed == Tree(<<a, hole>>, <<b, old, odd>>, <<bad, filled>>)

Mixed == {mixed}
    \cup {Kind(mixed, "f2", k) : k \in {"unreadable", "unparsable", "other", "broken"}}
    \cup {Kind(mixed, "sub", k) : k \in {"gone", "unlisted"}}

Correlated ==
    {Tree(<<a>>, <<b>>, <<c>>) : c \in {count, near, order, broke, loose, panic}}
    \cup {Tree(<<a, loud>>, <<b>>, <<c>>) : c \in {chain, near}}
    \cup {Tree(<<a>>, <<b>>, <<near, order>>), Tree(<<a, b>>, <<count>>, <<loud>>)}

Plainly == [output |-> TRUE, min_level |-> 1, target_level |-> 0, exclude_rules |-> {},
            noisy_rules |-> {}, enable_noisy |-> FALSE, target_ruleids |-> {},
            include_status |-> {"*"}, exclude_status |-> {}, enable_deprecated |-> FALSE,
            enable_unsupported |-> FALSE, include_category |-> {}, exclude_category |-> {},
            has_include_tag |-> FALSE, include_tag |-> {}, exclude_tag |-> {}]

MCOptions ==
    {Plainly,
     [Plainly EXCEPT !.noisy_rules = {"a", "b", "hole"}, !.exclude_rules = {"b"}],
     [Plainly EXCEPT !.noisy_rules = {"a", "b", "hole"}, !.exclude_rules = {"b"}, !.enable_noisy = TRUE],
     [Plainly EXCEPT !.min_level = 3, !.enable_deprecated = TRUE],
     [Plainly EXCEPT !.target_level = 2],
     [Plainly EXCEPT !.target_ruleids = {"a", "old"}, !.exclude_status = {"test"}],
     [Plainly EXCEPT !.include_status = {"stable", "deprecated"}, !.exclude_category = {"network"}],
     [Plainly EXCEPT !.include_category = {"network"}, !.exclude_tag = {"t2"}],
     [Plainly EXCEPT !.has_include_tag = TRUE, !.include_tag = {"t2"}],
     [Plainly EXCEPT !.output = FALSE, !.noisy_rules = {"a"}, !.enable_noisy = TRUE]}

asked == Tree(<<sys, a, old>>, <<hunt, b, info>>, <<threat, none>>)
Wizards ==
    UNION {WizardScenarios([tree |-> t, options |-> [Plainly EXCEPT !.include_status = {},
                !.exclude_rules = {"info"}, !.noisy_rules = {"a", "info"}]]) :
           t \in {asked, Kind(asked, "f1", "unparsable"), Kind(asked, "sub", "gone")}}

MCScenarios ==
    Wizards \cup
    {[tree |-> t, options |-> Plainly] : t \in Mixed \cup Correlated}
    \cup {[tree |-> mixed, options |-> o] : o \in MCOptions}
    \cup {[tree |-> Tree(<<a>>, <<b>>, <<near, order>>), options |-> [Plainly EXCEPT !.min_level = 3]]}

MCRecords == [hits : {{"a"}, {"b"}}, group : {"g1", "g2"}, time : {0, 2, 5}]
=============================================================================
