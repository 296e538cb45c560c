----------------------------- MODULE Conditions -----------------------------
(***************************************************************************)
(* The detection part of a rule: selections, the condition that combines    *)
(* them, and the aggregation condition behind its pipe.  Models             *)
(* detections/rule/mod.rs, condition_parser.rs, selectionnodes.rs and       *)
(* aggregation_parser.rs under src/engine/src.                              *)
(*                                                                          *)
(* A condition is a sequence of tokens.  A selection is a tree of hashes,   *)
(* arrays and leaves, as YAML has it; whether the value of a leaf matches   *)
(* an event is left to Matchers: an event is the set of the leaves it       *)
(* matches.                                                                 *)
(***************************************************************************)
EXTENDS Naturals, Sequences, FiniteSets

CONSTANTS
    Names,       \* names of selections
    NoCondition  \* a detection without a condition

Error == [kind |-> "error"]
IsError(x) == x.kind = "error"

Keywords == {"(", ")", "not", "and", "or"}

-----------------------------------------------------------------------------
(* Selections: rule/mod.rs, parse_selection_recursively.                    *)

Leaf(id) == [kind |-> "leaf", id |-> id]
Hash(keys, subs) == [kind |-> "hash", keys |-> keys, subs |-> subs]
Array(subs) == [kind |-> "array", subs |-> subs]

Node(kind, subs) == [kind |-> kind, subs |-> subs]

(* "all" marks a key that ends in |all, "|all" the key that is nothing else. *)
RECURSIVE ParseSelection(_, _)
ParseSelection(keys, yaml) ==
    CASE yaml.kind = "hash" ->
           Node("And", [i \in DOMAIN yaml.subs |->
                           ParseSelection(Append(keys, yaml.keys[i]), yaml.subs[i])])
      [] yaml.kind = "array" ->
           LET subs == [i \in DOMAIN yaml.subs |-> ParseSelection(keys, yaml.subs[i])]
           IN  IF \E i \in DOMAIN keys : keys[i] \in {"all", "|all"} THEN Node("And", subs)
               ELSE Node("Or", subs)
      [] OTHER -> [kind |-> "leaf", keys |-> keys, id |-> yaml.id]

(* init of a node: the errors of all leaves below; bad is the set of leaves *)
(* whose key or value their matcher refuses.                                *)
RECURSIVE InitErrors(_, _)
InitErrors(node, bad) ==
    CASE node.kind = "leaf" -> {node.id} \cap bad
      [] node.kind \in {"And", "Or"} ->
           UNION {InitErrors(node.subs[i], bad) : i \in DOMAIN node.subs}
      [] OTHER -> {}

(* get_descendants: the nodes below a node; a leaf has none. *)
RECURSIVE Descendants(_)
Descendants(node) ==
    IF node.kind \in {"And", "Or"}
    THEN UNION {{node.subs[i]} \cup Descendants(node.subs[i]) : i \in DOMAIN node.subs}
    ELSE {}

(* get_detection_keys, as the leaves whose keys are taken. *)
DetectionLeaves(nodes) ==
    {node \in UNION {Descendants(nodes[n]) : n \in DOMAIN nodes} : node.kind = "leaf"}

-----------------------------------------------------------------------------
(* The condition: condition_parser.rs.                                      *)

Name(n) == [kind |-> "name", name |-> n]
Tok(t) == IF t \in Keywords THEN [kind |-> t] ELSE Name(t)

(* The parts of s between the elements of kind k. *)
RECURSIVE SplitAt(_, _)
SplitAt(s, k) ==
    IF \E i \in DOMAIN s : s[i].kind = k
    THEN LET i == CHOOSE i \in DOMAIN s :
                      s[i].kind = k /\ \A j \in 1..(i - 1) : s[j].kind # k
         IN  <<SubSeq(s, 1, i - 1)>> \o SplitAt(SubSeq(s, i + 1, Len(s)), k)
    ELSE <<s>>

(* An operand is one element, or "not" and one element other than "not". *)
ParseOperand(s) ==
    CASE Len(s) = 1 /\ s[1].kind # "not" -> s[1]
      [] Len(s) = 2 /\ s[1].kind = "not" /\ s[2].kind # "not" -> Node("Not", <<s[2]>>)
      [] OTHER -> Error

Group(kind, subs) ==
    IF \E i \in DOMAIN subs : IsError(subs[i]) THEN Error
    ELSE IF Len(subs) = 1 THEN subs[1] ELSE Node(kind, subs)

\* Mutant: "or" binds stronger than "and".
OrFirst(s) ==
    LET ands == SplitAt(s, "and")
        Either(part) ==
            LET ors == SplitAt(part, "or")
            IN  Group("Or", [i \in DOMAIN ors |-> ParseOperand(ors[i])])
    IN  Group("And", [i \in DOMAIN ands |-> Either(ands[i])])

(* What is connected by "and" is grouped first, then the groups by "or"; an *)
(* operator at an end or next to another leaves an empty operand.           *)
ParseAndOr(s) ==
    LET ors == SplitAt(s, "or")
        Both(part) ==
            LET ands == SplitAt(part, "and")
            IN  Group("And", [i \in DOMAIN ands |-> ParseOperand(ands[i])])
    IN  Group("Or", [i \in DOMAIN ors |-> Both(ors[i])])

Depth(s, i) == Cardinality({j \in 1..i : s[j].kind = "("})
               - Cardinality({j \in 1..i : s[j].kind = ")"})

(* The parenthesis that closes the one at the head of s, 0 if there is none. *)
Closing(s) ==
    LET closed == {i \in DOMAIN s : Depth(s, i) = 0}
    IN  IF closed = {} THEN 0 ELSE CHOOSE i \in closed : \A j \in closed : i <= j

(* parse_parenthesis, with the recursive parse of what is in between. *)
RECURSIVE ParseParentheses(_), Parse(_)
ParseParentheses(s) ==
    IF s = <<>> THEN <<>>
    ELSE IF s[1].kind # "("
    THEN <<IF s[1].kind = ")" THEN Error ELSE s[1]>> \o ParseParentheses(Tail(s))
    ELSE IF Closing(s) = 0 THEN <<Error>>
    ELSE <<Parse(SubSeq(s, 2, Closing(s) - 1))>>
         \o ParseParentheses(SubSeq(s, Closing(s) + 1, Len(s)))

Parse(s) ==
    LET flat == ParseParentheses(s)
    IN  IF \E i \in DOMAIN flat : IsError(flat[i]) THEN Error ELSE ParseAndOr(flat)

(* into_selection_node: names are looked up among the selections. *)
RECURSIVE Undefined(_, _)
Undefined(node, defined) ==
    CASE node.kind = "name" -> node.name \notin defined
      [] node.kind \in {"And", "Or", "Not"} ->
           \E i \in DOMAIN node.subs : Undefined(node.subs[i], defined)
      [] OTHER -> TRUE

(* convert_condition: "all of p*" and "1 of p*" are replaced by the names    *)
(* that start with p, in any order (here all names do), in parentheses.      *)
OrderOf(S) == CHOOSE s \in [1..Cardinality(S) -> S] : \A x \in S : \E i \in DOMAIN s : s[i] = x

Joined(S, op) ==
    IF S = {} THEN <<>>
    ELSE [i \in 1..(2 * Cardinality(S) - 1) |->
             IF i % 2 = 0 THEN op ELSE OrderOf(S)[(i + 1) \div 2]]

RECURSIVE ConvertCondition(_, _)
ConvertCondition(s, defined) ==
    IF s = <<>> THEN <<>>
    ELSE (CASE s[1] = "all of *" -> <<"(">> \o Joined(defined, "and") \o <<")">>
            [] s[1] = "1 of *" -> <<"(">> \o Joined(defined, "or") \o <<")">>
            [] OTHER -> <<s[1]>>)
         \o ConvertCondition(Tail(s), defined)

(* compile_condition of the tokens before the pipe. *)
CompileCondition(tokens, defined) ==
    LET s == ConvertCondition(tokens, defined)
        node == Parse([i \in DOMAIN s |-> Tok(s[i])])
    IN  IF IsError(node) \/ Undefined(node, defined) THEN Error ELSE node

-----------------------------------------------------------------------------
(* The aggregation condition: aggregation_parser.rs.  tokenize takes the     *)
(* words; "by" at the head of a word is the keyword.                         *)

NoAggregation == [kind |-> "none"]

ParseAggregation(s) ==
    LET by == Len(s) >= 2 /\ s[2] = "by"
        rest == SubSeq(s, IF by THEN 4 ELSE 2, Len(s))
    IN  IF /\ s # <<>> /\ s[1] \in {"count()", "count(f)"}
           /\ by => Len(s) >= 3 /\ s[3] \in {"field", "number"}
           /\ rest = <<"cmp", "number">>
        THEN [kind |-> "count", field |-> s[1] = "count(f)", by |-> by]
        ELSE Error

-----------------------------------------------------------------------------
(* DetectionNode.init: selections first, then the condition; without one a   *)
(* single selection is the condition.  d.bad are the leaves that cannot be   *)
(* initialised, d.pipe tells whether there is a pipe, d.agg what follows.    *)

ConditionOf(d) ==
    IF d.condition # NoCondition THEN d.condition
    ELSE IF Cardinality(DOMAIN d.selections) >= 2 THEN <<>>
    ELSE <<CHOOSE n \in DOMAIN d.selections : TRUE>>

DetectionInit(d) ==
    LET nodes == [n \in DOMAIN d.selections |-> ParseSelection(<<>>, d.selections[n])]
        condition == CompileCondition(ConditionOf(d), DOMAIN nodes)
        agg == IF d.condition # NoCondition /\ d.pipe THEN ParseAggregation(d.agg)
               ELSE NoAggregation
    IN  IF \/ DOMAIN nodes = {}
           \/ \E n \in DOMAIN nodes : InitErrors(nodes[n], d.bad) # {}
           \/ IsError(condition) \/ IsError(agg)
        THEN Error
        ELSE [kind |-> "detection", nodes |-> nodes, condition |-> condition, agg |-> agg]

(* select of every kind of node; event is the set of leaves it matches. *)
RECURSIVE NodeSelect(_, _, _)
NodeSelect(node, nodes, event) ==
    CASE node.kind = "leaf" -> node.id \in event
      [] node.kind = "name" -> NodeSelect(nodes[node.name], nodes, event)
      [] node.kind = "Not" -> ~NodeSelect(node.subs[1], nodes, event)
      [] node.kind = "Or" -> \E i \in DOMAIN node.subs : NodeSelect(node.subs[i], nodes, event)
      [] OTHER -> \A i \in DOMAIN node.subs : NodeSelect(node.subs[i], nodes, event)

DetectionSelect(detection, event) ==
    NodeSelect(detection.condition, detection.nodes, event)
=============================================================================
