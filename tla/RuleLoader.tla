----------------------------- MODULE RuleLoader -----------------------------
(***************************************************************************)
(* Reading the rules (src/engine/src/yaml.rs, yaml_expand.rs, filter.rs).   *)
(* read_dir walks the rule directory; the documents of a directory are      *)
(* filtered when its last entry has been read, those of its subdirectories  *)
(* before.  Every document ends up loaded or in one of the counters that    *)
(* print_rule_load_info shows.                                              *)
(*                                                                          *)
(* A document stands for one YAML rule; of it is kept what a filter or a    *)
(* correlation looks at.  Levels are the numbers of LEVEL::index.           *)
(***************************************************************************)
EXTENDS Integers, Sequences, FiniteSets

CONSTANTS
    Documents,      \* the documents that files may hold
    Paths, Root,    \* the rule path and what is below it
    Scenarios,      \* contents of the rule directory and command lines to try
    Tables          \* names of lookup tables

Statuses == {"stable", "test", "experimental", "deprecated", "unsupported"}

(* gone: a root or subdirectory without metadata; unlisted: one that cannot  *)
(* be listed; broken: an entry without a type; other: what read_dir skips.   *)
Kinds == {"dir", "gone", "unlisted", "yml", "unreadable", "unparsable", "other", "broken"}
Node == [kind : Kinds, entries : SUBSET Paths, docs : Seq(Documents)]

ASSUME LoaderAssumption ==
    /\ Root \in Paths
    /\ \A s \in Scenarios :
        /\ s.tree \in [Paths -> Node]
        /\ {"output", "min_level", "target_level", "exclude_rules", "noisy_rules",
            "enable_noisy", "target_ruleids", "include_status", "exclude_status",
            "enable_deprecated", "enable_unsupported", "include_category",
            "exclude_category", "has_include_tag", "include_tag", "exclude_tag"}
           \subseteq DOMAIN s.options
    /\ \A d \in Documents :
        /\ d.status \in Statuses
        /\ d.expand \in {"no", "replaced", "kept"}

VARIABLES
    tree, options,
    phase,          \* "read", then "create" or "failed"; RuleSet goes on
    stack,          \* the directories being read: entries left, documents found
    pending,        \* documents waiting for the filter
    files,          \* ParseYaml.files: what was loaded
    rule_load_cnt, rule_status_cnt, rule_expand_cnt, rule_expand_enabled_cnt,
    rulecounter,    \* the sum of ParseYaml.rulecounter
    errorrule_count,
    tables,         \* the registry of lookup tables
    parsed, broken  \* documents handed to the filters, files without documents

counters == <<rule_load_cnt, rule_status_cnt, rule_expand_cnt,
              rule_expand_enabled_cnt, rulecounter, errorrule_count>>
reading == <<stack, tables, parsed, broken>>
loaderVars == <<tree, options, phase, pending, files, counters, reading>>

-----------------------------------------------------------------------------
(* The filters, in the order in which they are asked.                        *)

NoId == ""

(* exclude_rules.txt is read after noisy_rules.txt and overwrites it.        *)
Listed(id) == IF id \in options.exclude_rules THEN "excluded"
              ELSE IF id \in options.noisy_rules THEN "noisy" ELSE "no"

ExpandUnset(d) == d.expand = "kept"

ListedOut(d) ==
    \/ Listed(d.id) = "excluded"
    \/ Listed(d.id) = "noisy" /\ ~(options.output /\ options.enable_noisy)

is_target(id) == options.target_ruleids = {} \/ id \in options.target_ruleids

OutOfLevel(d) ==
    \/ d.level < options.min_level
    \/ options.target_level # 0 /\ d.level # options.target_level

OutOfStatus(d) ==
    \/ d.status \in options.exclude_status
    \/ "*" \notin options.include_status /\ d.status \notin options.include_status

Disabled(status) ==
    \/ status = "deprecated" /\ ~options.enable_deprecated
    \/ status = "unsupported" /\ ~options.enable_unsupported

OutOfCategory(d) == options.output /\
    \/ options.include_category # {} /\ d.category \notin options.include_category
    \/ d.category \in options.exclude_category

OutOfTag(d) == options.output /\
    \/ options.has_include_tag /\ d.tags \cap options.include_tag = {}
    \/ d.tags \cap options.exclude_tag # {}

(* Mutant: disabled statuses are counted but not dropped. *)
DisabledLoaded(d) ==
    IF ExpandUnset(d) THEN "expand"
    ELSE IF ListedOut(d) THEN Listed(d.id)
    ELSE IF d.id # NoId /\ ~is_target(d.id) THEN "excluded"
    ELSE IF ~d.format THEN "error"
    ELSE IF OutOfLevel(d) \/ OutOfStatus(d) \/ OutOfCategory(d) \/ OutOfTag(d) THEN "excluded"
    ELSE "loaded"

Verdict(d) ==
    IF ExpandUnset(d) THEN "expand"
    ELSE IF ListedOut(d) THEN Listed(d.id)
    ELSE IF d.id # NoId /\ ~is_target(d.id) THEN "excluded"
    ELSE IF ~d.format THEN "error"
    ELSE IF OutOfLevel(d) \/ OutOfStatus(d) THEN "excluded"
    ELSE IF options.output /\ Disabled(d.status) THEN "disabled"
    ELSE IF OutOfCategory(d) \/ OutOfTag(d) THEN "excluded"
    ELSE "loaded"

(* Mutant: the list is asked before the placeholders are looked at. *)
NoisyCounted(d) == Listed(d.id) = "noisy" /\ (ExpandUnset(d) \/ ~ListedOut(d))

(* An enabled noisy rule is counted as noisy, and again by what it comes to. *)
NoisyButEnabled(d) == ~ExpandUnset(d) /\ Listed(d.id) = "noisy" /\ ~ListedOut(d)

-----------------------------------------------------------------------------
Frame == [entries : SUBSET Paths, docs : Seq(Documents)]

(* read_dir of the rule path itself goes the way of an entry.                *)
LoaderInit ==
    /\ \E s \in Scenarios : tree = s.tree /\ options = s.options
    /\ phase = "read" /\ pending = <<>> /\ files = <<>>
    /\ stack = <<[entries |-> {Root}, docs |-> <<>>]>>
    /\ rule_load_cnt = [excluded |-> 0, noisy |-> 0]
    /\ rule_status_cnt = [s \in Statuses |-> 0]
    /\ rule_expand_cnt = 0 /\ rule_expand_enabled_cnt = 0
    /\ rulecounter = 0 /\ errorrule_count = 0
    /\ tables = [t \in Tables |-> "none"]
    /\ parsed = 0 /\ broken = 0

Top == stack[Len(stack)]
Below == SubSeq(stack, 1, Len(stack) - 1)

Reading == phase = "read" /\ pending = <<>> /\ stack # <<>>

(* Taken: p is no longer among the entries of the directory being read.      *)
Taken(p, docs) == [entries |-> Top.entries \ {p}, docs |-> Top.docs \o docs]

(* A table of the same name is replaced, by the last document that has it.   *)
Registered(docs) ==
    [t \in Tables |->
        LET naming == {i \in DOMAIN docs : docs[i].lookup.name = t /\ docs[i].lookup.file # "none"}
        IN  IF naming = {} THEN tables[t]
            ELSE docs[CHOOSE i \in naming : \A j \in naming : j <= i].lookup.file]

(* Its tables are registered before its rules are filtered.                  *)
ReadFile(p) ==
    /\ Reading /\ p \in Top.entries /\ tree[p].kind = "yml"
    /\ stack' = Append(Below, Taken(p, tree[p].docs))
    /\ tables' = Registered(tree[p].docs)
    /\ UNCHANGED <<tree, options, phase, pending, files, counters, parsed, broken>>

(* One file that cannot be read or parsed costs one error.                   *)
FailToRead(p) ==
    /\ Reading /\ p \in Top.entries /\ tree[p].kind \in {"unreadable", "unparsable"}
    /\ stack' = Append(Below, Taken(p, <<>>))
    /\ errorrule_count' = errorrule_count + 1
    /\ broken' = broken + 1
    /\ UNCHANGED <<tree, options, phase, pending, files, tables, parsed, rule_load_cnt,
                   rule_status_cnt, rule_expand_cnt, rule_expand_enabled_cnt, rulecounter>>

Skip(p) ==
    /\ Reading /\ p \in Top.entries /\ tree[p].kind \in {"other", "gone"}
    /\ stack' = Append(Below, Taken(p, <<>>))
    /\ UNCHANGED <<tree, options, phase, pending, files, counters, tables, parsed, broken>>

Recurse(p) ==
    /\ Reading /\ p \in Top.entries /\ tree[p].kind = "dir"
    /\ stack' = Append(Append(Below, Taken(p, <<>>)),
                       [entries |-> tree[p].entries, docs |-> <<>>])
    /\ UNCHANGED <<tree, options, phase, pending, files, counters, tables, parsed, broken>>

(* Any other error ends read_dir, and with it the loading of all rules.      *)
Abort(p) ==
    /\ Reading /\ p \in Top.entries /\ tree[p].kind \in {"unlisted", "broken"}
    /\ phase' = "failed"
    /\ UNCHANGED <<tree, options, pending, files, counters, reading>>

EndOfDirectory ==
    /\ Reading /\ Top.entries = {}
    /\ stack' = Below
    /\ pending' = Top.docs
    /\ parsed' = parsed + Len(Top.docs)
    /\ UNCHANGED <<tree, options, phase, files, counters, tables, broken>>

Bump(b) == IF b THEN 1 ELSE 0

(* One document of the directory goes through the filters.                   *)
Filter ==
    /\ phase = "read" /\ pending # <<>>
    /\ LET d == Head(pending)
           v == Verdict(d)
       IN  /\ files' = IF v = "loaded" THEN Append(files, d) ELSE files
           /\ rulecounter' = rulecounter + Bump(v = "loaded")
           /\ rule_load_cnt' =
                [excluded |-> rule_load_cnt.excluded + Bump(v = "excluded"),
                 noisy |-> rule_load_cnt.noisy + Bump(v = "noisy" \/ NoisyButEnabled(d))]
           /\ rule_status_cnt' =
                [rule_status_cnt EXCEPT ![d.status] = @ + Bump(v \in {"loaded", "disabled"})]
           /\ rule_expand_cnt' = rule_expand_cnt + Bump(d.expand # "no")
           /\ rule_expand_enabled_cnt' = rule_expand_enabled_cnt + Bump(d.expand = "replaced")
           /\ errorrule_count' = errorrule_count + Bump(v = "error")
    /\ pending' = Tail(pending)
    /\ UNCHANGED <<tree, options, phase, reading>>

EndOfRead ==
    /\ phase = "read" /\ pending = <<>> /\ stack = <<>>
    /\ phase' = "create"
    /\ UNCHANGED <<tree, options, pending, files, counters, reading>>

LoaderNext ==
    \/ \E p \in Paths : ReadFile(p) \/ FailToRead(p) \/ Skip(p) \/ Recurse(p) \/ Abort(p)
    \/ EndOfDirectory \/ Filter \/ EndOfRead

LoaderSpec == LoaderInit /\ [][LoaderNext]_loaderVars

-----------------------------------------------------------------------------
LoaderTypeOK ==
    /\ tree \in [Paths -> Node]
    /\ stack \in Seq(Frame)
    /\ pending \in Seq(Documents) /\ files \in Seq(Documents)
    /\ rule_load_cnt \in [excluded : Nat, noisy : Nat]
    /\ rule_status_cnt \in [Statuses -> Nat]
    /\ rule_expand_cnt \in Nat /\ rule_expand_enabled_cnt \in Nat
    /\ rulecounter \in Nat /\ errorrule_count \in Nat
    /\ parsed \in Nat /\ broken \in Nat

(* print_rule_load_info: the statuses that are not disabled, summed up.      *)
Enabled(s) == IF Disabled(s) THEN 0 ELSE rule_status_cnt[s]

total_loaded_rule_cnt ==
    rule_status_cnt["stable"] + rule_status_cnt["test"] + rule_status_cnt["experimental"]
        + Enabled("deprecated") + Enabled("unsupported")

(* "Total detection rules" is the number of rules that were loaded, although *)
(* it is summed up from counters that also count disabled rules              *)
(* (detection.rs 1277, yaml.rs 479).                                         *)
TotalIsLoaded ==
    /\ rulecounter = Len(files)
    /\ options.output => total_loaded_rule_cnt = Len(files)

NotUsed(s) == IF Disabled(s) THEN rule_status_cnt[s] ELSE 0

(* The documents that a counter tells of as not used.                        *)
Dropped ==
    (rule_expand_cnt - rule_expand_enabled_cnt)
    + rule_load_cnt.excluded
    + (IF options.output /\ options.enable_noisy THEN 0 ELSE rule_load_cnt.noisy)
    + (errorrule_count - broken)
    + (IF options.output THEN NotUsed("deprecated") + NotUsed("unsupported") ELSE 0)

(* Every document is loaded, or stands in exactly one of the counters that   *)
(* tell why it was not; a noisy rule that is enabled is in two (yaml.rs      *)
(* 383-590).                                                                 *)
EveryDocumentAccounted == parsed = Len(files) + Len(pending) + Dropped
=============================================================================
