------------------------------ MODULE RuleText ------------------------------
(***************************************************************************)
(* An author writes one piece of a rule, a word or a character at a time:   *)
(* the condition over given selections, the value of a field with given     *)
(* modifiers, or a text to be found in Base64.  What the engine makes of it *)
(* (Conditions, Matchers) is compared with what the rule language says.     *)
(***************************************************************************)
EXTENDS Conditions, Matchers

CONSTANTS
    Selections,   \* name -> selection, as written
    Leaves,       \* the leaves of the selections
    Modifiers,    \* lists of modifiers to try
    Characters, MaxPattern,   \* what values are written in, and their length
    Values,       \* values of events
    Bytes, MaxBytes,          \* texts to encode
    MaxTokens

VARIABLES
    writing,    \* "condition", "value" or "base64"
    mods,       \* the modifiers of the field
    text        \* what has been written so far

vars == <<writing, mods, text>>

Init == /\ writing \in {"condition", "value", "base64"}
        /\ mods \in (IF writing = "value" THEN Modifiers ELSE {<<>>})
        /\ text = <<>>

(* Names are written in turn: which of them a condition names first makes no *)
(* difference to the compiler.                                              *)
NextName ==
    LET order == OrderOf(DOMAIN Selections)
        used == Cardinality({i \in DOMAIN text : text[i] \in Names})
    IN  order[(used % Len(order)) + 1]

WriteToken ==
    /\ writing = "condition" /\ Len(text) < MaxTokens
    /\ \E t \in Keywords \cup {NextName, "all of *", "1 of *"} : text' = Append(text, t)
    /\ UNCHANGED <<writing, mods>>

WriteCharacter ==
    /\ writing = "value" /\ Len(text) < MaxPattern
    /\ \E c \in Characters : text' = Append(text, c)
    /\ UNCHANGED <<writing, mods>>

WriteByte ==
    /\ writing = "base64" /\ Len(text) < MaxBytes
    /\ \E b \in Bytes : text' = Append(text, b)
    /\ UNCHANGED <<writing, mods>>

Next == WriteToken \/ WriteCharacter \/ WriteByte

Spec == Init /\ [][Next]_vars

-----------------------------------------------------------------------------
(* What a selection says of an event: all keys of a hash, any element of an *)
(* array, all of them below a key with |all.                                *)
RECURSIVE Says(_, _, _)
Says(yaml, all, event) ==
    CASE yaml.kind = "hash" ->
           \A i \in DOMAIN yaml.subs :
               Says(yaml.subs[i], all \/ yaml.keys[i] \in {"all", "|all"}, event)
      [] yaml.kind = "array" ->
           IF all THEN \A i \in DOMAIN yaml.subs : Says(yaml.subs[i], all, event)
           ELSE \E i \in DOMAIN yaml.subs : Says(yaml.subs[i], all, event)
      [] OTHER -> yaml.id \in event

(* What a condition says, the empty set if it is none: "or" of "and" of     *)
(* operands, each a name or a condition in parentheses, with "not" or not.  *)
Splits(s, word) == {i \in DOMAIN s : s[i] = word}
Before(s, i) == SubSeq(s, 1, i - 1)
After(s, i) == SubSeq(s, i + 1, Len(s))

RECURSIVE Disjunction(_, _), Conjunction(_, _), Operand(_, _)
Operand(s, event) ==
    CASE Len(s) = 1 /\ s[1] \in Names -> {Says(Selections[s[1]], FALSE, event)}
      [] s = <<"all of *">> -> {\A n \in Names : Says(Selections[n], FALSE, event)}
      [] s = <<"1 of *">> -> {\E n \in Names : Says(Selections[n], FALSE, event)}
      [] Len(s) > 2 /\ s[1] = "(" /\ s[Len(s)] = ")" ->
           Disjunction(SubSeq(s, 2, Len(s) - 1), event)
      [] OTHER -> {}

Conjunction(s, event) ==
    Operand(s, event)
    \cup (IF s # <<>> /\ s[1] = "not" THEN {~b : b \in Operand(Tail(s), event)} ELSE {})
    \cup UNION {{a /\ b : a \in Conjunction(Before(s, i), event),
                          b \in Conjunction(After(s, i), event)} : i \in Splits(s, "and")}

Disjunction(s, event) ==
    Conjunction(s, event)
    \cup UNION {{a \/ b : a \in Disjunction(Before(s, i), event),
                          b \in Disjunction(After(s, i), event)} : i \in Splits(s, "or")}

Detection == [selections |-> Selections, condition |-> text, bad |-> {}, pipe |-> FALSE]

(* A condition is refused exactly if it is none, and selects the events it  *)
(* speaks of (condition_parser.rs 122-417, rule/mod.rs 363-409).             *)
ConditionMeans ==
    writing = "condition" =>
        LET detection == DetectionInit(Detection)
        IN  \A event \in SUBSET Leaves :
                Disjunction(text, event) =
                    IF IsError(detection) THEN {} ELSE {DetectionSelect(detection, event)}

-----------------------------------------------------------------------------
Field == <<"F">>
Leafs(m, value) == [keyed |-> TRUE, field |-> Field, mods |-> m, nest |-> <<>>,
                    value |-> value, int |-> FALSE]
EventWith(v) == [fields |-> [f \in {Field} |-> v], text |-> v, data |-> [kind |-> "none"]]

Matches(m, value, v) ==
    LET matcher == LeafInit(Leafs(m, value))
    IN  matcher # Refused /\ LeafSelect(matcher, Leafs(m, value), EventWith(v))

(* What a pattern says: "*" and "?" are wildcards, a backslash in front of   *)
(* one takes that away, and two backslashes are one.                         *)
RECURSIVE Meaning(_)
Meaning(p) ==
    IF p = <<>> THEN <<>>
    ELSE IF Len(p) >= 2 /\ p[1] = "\\" /\ p[2] \in Wildcards \cup {"\\"}
    THEN <<Lit(p[2])>> \o Meaning(Drop(p, 2))
    ELSE <<IF p[1] \in Wildcards THEN Wild(p[1]) ELSE Lit(p[1])>> \o Meaning(Tail(p))

Any == <<Wild("*")>>
MeaningOf(p) ==
    CASE mods = <<"startswith">> -> Meaning(p) \o Any
      [] mods = <<"endswith">> -> Any \o Meaning(p)
      [] mods = <<"contains">> -> Any \o Meaning(p) \o Any
      [] OTHER -> Meaning(p)

(* "Since regex matching is slow", a value is matched by length, prefix,     *)
(* suffix or substring where it can (fast_match.rs 5, 49-97): what is decided *)
(* that way is what the whole value against the pattern says.                *)
FastMatchIsWildcard ==
    writing = "value" /\ mods \in {<<>>, <<"startswith">>, <<"endswith">>, <<"contains">>} =>
        LET fast == FastOf(mods, text)
            glob == MeaningOf(text)
        IN  fast # <<>> => \A v \in Values :
                check_fast_match(mods, v, fast) \in
                    {"undecided", IF Glob(glob, v) THEN "yes" ELSE "no"}

(* The leaves below a key; one without is a keyword. *)
RECURSIVE Keyed(_, _)
Keyed(yaml, below) ==
    IF yaml.kind = "leaf" THEN IF below THEN {yaml.id} ELSE {}
    ELSE UNION {Keyed(yaml.subs[i], below \/ yaml.kind = "hash") : i \in DOMAIN yaml.subs}

Cached(event, keys) ==
    [event EXCEPT !.fields = [f \in DOMAIN event.fields \cap keys |-> event.fields[f]]]

(* A leaf reads an event through a cache of the fields its rules name        *)
(* (utils.rs 319-374): it never needs one that get_detection_keys left out,  *)
(* of any leaf below a key and of the field that a modifier refers to        *)
(* (rule/mod.rs 175-200, selectionnodes.rs 313-329).                         *)
FieldsCached ==
    /\ writing = "condition" =>
         LET detection == DetectionInit(Detection)
         IN  IsError(detection) \/
             UNION {Keyed(Selections[n], FALSE) : n \in DOMAIN Selections}
                 \subseteq {node.id : node \in DetectionLeaves(detection.nodes)}
    /\ writing = "value" =>
         LET leaf == Leafs(mods, text)
             matcher == LeafInit(leaf)
         IN  matcher = Refused \/
             \A v, w \in {<<"a">>, <<"a", "A">>} :
                 LET event == [EventWith(v) EXCEPT !.fields =
                                  [f \in {Field, text} |-> IF f = Field THEN v ELSE w]]
                 IN  LeafSelect(matcher, leaf, event)
                     = LeafSelect(matcher, leaf, Cached(event, LeafKeys(matcher, leaf)))

(* A text is found in the Base64 of whatever contains it, at whichever of    *)
(* the three offsets it lies (base64_match.rs 66-94).                        *)
Base64FindsText ==
    writing = "base64" /\ text # <<>> =>
        \A before, after \in UNION {[1..n -> Bytes] : n \in 0..2} :
            ContainsStr(Base64NoPad(before \o text \o after),
                        Base64Variants(text)[Len(before) + 1])

=============================================================================
