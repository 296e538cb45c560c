------------------------------- MODULE Wizard -------------------------------
(***************************************************************************)
(* The scan wizard (src/engine/src/main.rs 1405-1790): it counts the rules  *)
(* once (count_rules, src/engine/src/yaml.rs 624), shows the numbers, and   *)
(* turns the answers into options of the loader, which reads the rules      *)
(* again.  s is a rule directory with the options of the command line.      *)
(***************************************************************************)
EXTENDS RuleLoader, Functions

(* A rule directory is a finite tree: a path is an entry of one directory.   *)
ASSUME WizardAssumption ==
    /\ IsFiniteSet(Paths)
    /\ \A s \in Scenarios : \A p, q \in Paths :
        /\ Root \notin s.tree[p].entries
        /\ p # q => s.tree[p].entries \cap s.tree[q].entries = {}
    /\ \A d \in Documents : d.level \in Int

WizardTags == {"detection.emerging_threats", "detection.threat_hunting", "sysmon"}

(* What lies below: the least set with all the entries of its directories.   *)
Closed(t, S) == \A p \in S : t[p].kind = "dir" => t[p].entries \subseteq S
Within(t, W) == {p \in Paths : \A S \in SUBSET Paths : W \subseteq S /\ Closed(t, S) => p \in S}
Files(t) == {p \in Within(t, {Root}) : t[p].kind = "yml"}

(* Where a document is: what is not read or not parsed is passed over.       *)
Places(s) == UNION {{p} \X DOMAIN s.tree[p].docs : p \in Files(s.tree)}
At(s, x) == s.tree[x[1]].docs[x[2]]

Listing == {"excluded", "noisy"}
Key(s, d) == IF d.id \in s.options.exclude_rules THEN "excluded"
             ELSE IF d.id \in s.options.noisy_rules THEN "noisy" ELSE d.status

(* Mutant: a rule with two of the tags is counted for each. *)
AddsForEach(s, d) ==
    LET tags == d.tags \cap WizardTags
    IN  IF Key(s, d) \in Listing THEN [x \in {d.status} |-> 1]
        ELSE [x \in IF tags = {} THEN {"other"} ELSE tags |-> 1]

(* What a document adds to the counters of its key and level: one to that of *)
(* each of its tags, and to "duplicated" what makes them one in the sum.     *)
Adds(s, d) ==
    LET tags == d.tags \cap WizardTags
        n == Cardinality(tags)
    IN  IF Key(s, d) \in Listing THEN [x \in {d.status} |-> 1]
        ELSE IF n = 0 THEN [x \in {"other"} |-> 1]
        ELSE [x \in tags \cup (IF n > 1 THEN {"duplicated"} ELSE {}) |->
                IF x = "duplicated" THEN 1 - n ELSE 1]

(* Documents of these keys and at least this level.                          *)
Meant(s, keys, min) ==
    {x \in Places(s) : Key(s, At(s, x)) \in keys /\ At(s, x).level >= min}

Sum(s, places) == SumFunction([x \in places |-> SumFunction(Adds(s, At(s, x)))])

-----------------------------------------------------------------------------
(* selections_status: 1. Core, 2. Core+, 3. Core++, 4. all alert rules and   *)
(* 5. all rules.                                                             *)
Sets == 1..5
target_status(set) ==
    CASE set \in {1, 2} -> {"test", "stable"}
      [] set = 3 -> {"experimental", "test", "stable"}
      [] set \in {4, 5} -> {"*"}
min_level(set) == CASE set = 1 -> 4 [] set \in {2, 3} -> 3 [] set = 4 -> 2 [] set = 5 -> 1

Keys(set) == IF set \in {4, 5} THEN Statuses \cup Listing ELSE target_status(set)

(* The number of rules in the menu.                                          *)
sections_rule_cnt(s, set) == Sum(s, Meant(s, Keys(set) \ {"excluded"}, min_level(set)))

exclude_noisy_cnt(s, set, key) == Sum(s, Meant(s, {key}, min_level(set)))

tags_cnt(s, set, tag) ==
    Cardinality({x \in Meant(s, Keys(set), min_level(set)) : tag \in DOMAIN Adds(s, At(s, x))})

Count(s, set, q) ==
    IF q \in WizardTags THEN tags_cnt(s, set, q) ELSE exclude_noisy_cnt(s, set, q)

(* A question is asked when there are rules to ask about.                    *)
Questions(s, set) ==
    {q \in {"noisy", "sysmon"} \cup
            (IF set <= 3 THEN {"detection.emerging_threats", "detection.threat_hunting"}
             ELSE {"deprecated", "unsupported"}) : Count(s, set, q) > 0}

(* The answers as options; refused are the questions answered with no.       *)
Answered(s, set, refused) ==
    LET yes == Questions(s, set) \ refused
        given == [s.options EXCEPT
                    !.min_level = min_level(set),
                    !.include_status = @ \cup target_status(set),
                    !.exclude_tag = @ \cup (refused \cap WizardTags),
                    !.enable_deprecated = @ \/ "deprecated" \in yes,
                    !.enable_unsupported = @ \/ "unsupported" \in yes,
                    !.enable_noisy = @ \/ "noisy" \in yes]
        answers == [set |-> set, refused |-> refused]
    IN  [name \in DOMAIN given \cup DOMAIN answers |->
            IF name \in DOMAIN given THEN given[name] ELSE answers[name]]

WizardScenarios(s) ==
    {[tree |-> s.tree, options |-> Answered(s, x[1], x[2])] : x \in
        UNION {{set} \X SUBSET Questions(s, set) : set \in Sets}}

-----------------------------------------------------------------------------
(* Every document has the keys of a rule, and no placeholder is unset.       *)
WellFormed == \A p \in Paths, d \in Documents :
    d \in {tree[p].docs[i] : i \in DOMAIN tree[p].docs} => d.format /\ ~ExpandUnset(d)

(* The command line gave no filter that the wizard knows nothing of, and the *)
(* rest is what the answers made of it.                                      *)
ByAnswers ==
    LET unasked == [options EXCEPT !.include_status = {}, !.exclude_tag = {},
                        !.enable_deprecated = FALSE, !.enable_unsupported = FALSE,
                        !.enable_noisy = FALSE]
    IN  /\ options.output /\ options.target_level = 0 /\ options.target_ruleids = {}
        /\ options.exclude_status = {} /\ ~options.has_include_tag
        /\ options.include_category = {} /\ options.exclude_category = {}
        /\ options.set \in Sets
        /\ options.refused \subseteq Questions([tree |-> tree, options |-> unasked], options.set)
        /\ options = Answered([tree |-> tree, options |-> unasked], options.set, options.refused)

PlainFiles == {i \in DOMAIN files : files[i].id \notin options.noisy_rules}

(* The numbers the user chose by are those of the rules then loaded: the     *)
(* number in the menu less those of the question that was answered with no   *)
(* is the number of rules loaded.  Only noisy rules, which the menu leaves   *)
(* out of the first three sets, are apart; of rules that a placeholder, a    *)
(* missing key or another filter keeps out the wizard knows nothing (main.rs *)
(* 1509-1570, yaml.rs 624-860).                                              *)
WizardPromise ==
    phase = "create" /\ "set" \in DOMAIN options /\ ByAnswers /\ WellFormed =>
        LET s == [tree |-> tree, options |-> options]
            refused == options.refused \ {"noisy"}
            noisy == IF options.set <= 3 THEN 0 ELSE exclude_noisy_cnt(s, options.set, "noisy")
        IN  Cardinality(refused) <= 1 =>
                Cardinality(PlainFiles) =
                    sections_rule_cnt(s, options.set) - noisy
                        - (IF refused = {} THEN 0
                           ELSE Count(s, options.set, CHOOSE q \in refused : TRUE))
=============================================================================
