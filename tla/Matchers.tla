------------------------------ MODULE Matchers ------------------------------
(***************************************************************************)
(* The leaves of a selection: a field with its modifiers ("Field|contains"), *)
(* the value the rule gives, and whether the value of an event matches.     *)
(* Models detections/rule/matchers.rs, fast_match.rs, base64_match.rs,      *)
(* lookup.rs and the leaf of selectionnodes.rs, under src/engine/src.       *)
(*                                                                          *)
(* A string is a sequence of characters.  What a regular expression or an   *)
(* address range means is left to the libraries.                            *)
(***************************************************************************)
EXTENDS Integers, Sequences, FiniteSets

CONSTANTS
    RegexMatch(_, _, _),   \* flags, expression, string: the regex crate
    RegexOk(_),            \* whether an expression compiles
    InNetwork(_, _),       \* network, address: the cidr-utils crate
    IsNetwork(_), IsAddress(_),
    Encoded(_, _, _),      \* encoding, offset, text: its Base64 as a string
    Tables,                \* lookup tables: a function from names to sets of strings
    TextFiles              \* the files of regexes: a function from names to sets

None == <<"None">>         \* no value, in the place of a string
Refused == [pipes |-> <<"unknown">>]   \* the leaf cannot be initialised

Digits == {"1", "2"}
Dash == {"-"}              \* rules/config/windash_characters.txt
NonAscii == {"U"}

-----------------------------------------------------------------------------
(* Strings.                                                                 *)

LowerOf(c) == CASE c = "A" -> "a" [] c = "B" -> "b" [] OTHER -> c
Lower(s) == [i \in DOMAIN s |-> LowerOf(s[i])]
Has(s, c) == \E i \in DOMAIN s : s[i] = c
CountOf(s, c) == Cardinality({i \in DOMAIN s : s[i] = c})
IsAscii(s) == \A i \in DOMAIN s : s[i] \notin NonAscii

StartsWith(s, p) == Len(p) <= Len(s) /\ SubSeq(s, 1, Len(p)) = p
EndsWith(s, p) == Len(p) <= Len(s) /\ SubSeq(s, Len(s) - Len(p) + 1, Len(s)) = p
ContainsStr(s, p) == \E i \in 0..(Len(s) - Len(p)) : SubSeq(s, i + 1, i + Len(p)) = p
Drop(s, n) == SubSeq(s, n + 1, Len(s))
Chop(s, n) == SubSeq(s, 1, Len(s) - n)

(* Pairs of backslashes become one. *)
RECURSIVE Unescape(_)
Unescape(s) ==
    IF s = <<>> THEN <<>>
    ELSE IF StartsWith(s, <<"\\", "\\">>) THEN <<"\\">> \o Unescape(Drop(s, 2))
    ELSE <<s[1]>> \o Unescape(Tail(s))

(* The first dash becomes a slash. *)
ReplaceDash(s) ==
    IF \E i \in DOMAIN s : s[i] \in Dash
    THEN LET i == CHOOSE i \in DOMAIN s : s[i] \in Dash /\ \A j \in 1..(i - 1) : s[j] \notin Dash
         IN  [s EXCEPT ![i] = "/"]
    ELSE s

RECURSIVE NumberOf(_)
NumberOf(s) == IF s = <<>> THEN 0
               ELSE 10 * NumberOf(Chop(s, 1)) + (IF s[Len(s)] = "1" THEN 1 ELSE 2)
IsNumber(s) == s # <<>> /\ \A i \in DOMAIN s : s[i] \in Digits

-----------------------------------------------------------------------------
(* Wildcards.  A pattern is split into characters and wildcards; an escaped *)
(* wildcard is a character, two backslashes before one are a backslash.      *)

Wildcards == {"*", "?"}
Lit(c) == [wild |-> FALSE, c |-> c]
Wild(c) == [wild |-> TRUE, c |-> c]

RECURSIVE pipe_pattern_wildcard(_)
pipe_pattern_wildcard(p) ==
    IF p = <<>> THEN <<>>
    ELSE IF Len(p) >= 3 /\ p[1] = "\\" /\ p[2] = "\\" /\ p[3] \in Wildcards
    THEN <<Lit("\\"), Wild(p[3])>> \o pipe_pattern_wildcard(Drop(p, 3))
    ELSE IF Len(p) >= 2 /\ p[1] = "\\" /\ p[2] \in Wildcards
    THEN <<Lit(p[2])>> \o pipe_pattern_wildcard(Drop(p, 2))
    ELSE <<IF p[1] \in Wildcards THEN Wild(p[1]) ELSE Lit(p[1])>>
         \o pipe_pattern_wildcard(Tail(p))

(* The whole of s matches the glob g, without regard to case. *)
RECURSIVE Glob(_, _)
Glob(g, s) ==
    IF g = <<>> THEN s = <<>>
    ELSE IF g[1] = Wild("*") THEN \E n \in 0..Len(s) : Glob(Tail(g), Drop(s, n))
    ELSE /\ s # <<>>
         /\ g[1].wild \/ LowerOf(g[1].c) = LowerOf(s[1])
         /\ Glob(Tail(g), Tail(s))

(* The expression made of a glob has no anchors: any part of s may match. *)
GlobSearch(g, s) == \E i \in 1..(Len(s) + 1), j \in 0..Len(s) : Glob(g, SubSeq(s, i, j))

(* pipe_pattern: the asterisks that a modifier stands for. *)
AsteriskEnd(p) ==
    IF EndsWith(p, <<"/", "/", "*">>) THEN p
    ELSE IF EndsWith(p, <<"/", "*">>) THEN p \o <<"*">>
    ELSE IF EndsWith(p, <<"*">>) THEN p
    ELSE IF EndsWith(p, <<"\\">>) THEN p \o <<"\\", "*">>
    ELSE p \o <<"*">>

AsteriskBegin(p) ==
    IF StartsWith(p, <<"*">>) \/ StartsWith(p, <<"/", "/", "*">>) THEN p ELSE <<"*">> \o p

pipe_pattern(pipe, p) ==
    CASE pipe = "startswith" -> AsteriskEnd(p)
      [] pipe = "endswith" -> AsteriskBegin(p)
      [] pipe = "contains" -> AsteriskEnd(AsteriskBegin(p))
      [] OTHER -> p

RECURSIVE PatternOf(_, _)
PatternOf(pipes, p) ==
    IF pipes = <<>> THEN p ELSE PatternOf(Tail(pipes), pipe_pattern(pipes[1], p))

-----------------------------------------------------------------------------
(* Fast matching: fast_match.rs.  What can be done without a regular         *)
(* expression is; an empty sequence is "use the regular expression".         *)

Fast(kind, s) == <<[kind |-> kind, s |-> s]>>

\* Mutant: an escaped asterisk at the end is a wildcard.
NoLiteral(p) == FALSE

LiteralAsterisk(p) == EndsWith(p, <<"\\", "*">>) /\ ~EndsWith(p, <<"\\", "\\", "*">>)

Regexish(p) ==
    \/ Has(p, "?")
    \/ EndsWith(p, <<"\\", "\\", "\\", "*">>)
    \/ ~IsAscii(p) /\ Has(p, "*")

convert_to_fast_match(p, ignoreCase) ==
    LET Cased(s) == IF ignoreCase THEN Lower(s) ELSE s
        begins == StartsWith(p, <<"*">>)
        ends == EndsWith(p, <<"*">>) /\ ~LiteralAsterisk(p)
    IN  CASE Regexish(p) -> <<>>
          [] begins /\ ends /\ CountOf(p, "*") = 2 ->
               Fast("Contains", Cased(Unescape(Chop(Tail(p), 1))))
          [] begins /\ ~LiteralAsterisk(p) /\ CountOf(p, "*") = 1 ->
               Fast("EndsWith", Unescape(Tail(p)))
          [] ends /\ CountOf(p, "*") = 1 -> Fast("StartsWith", Unescape(Chop(p, 1)))
          [] ~Has(p, "*") -> Fast("Exact", Unescape(p))
          [] OTHER -> <<>>

(* "allOnly" in front of the first asterisk. *)
AllOnlyMatch(p) ==
    IF Regexish(p \o <<"*">>) \/ Has(p, "*") THEN <<>> ELSE Fast("AllOnly", Lower(Unescape(p)))

create_fast_match(pipe, p) ==
    CASE pipe = "startswith" -> convert_to_fast_match(p \o <<"*">>, TRUE)
      [] pipe = "endswith" -> convert_to_fast_match(<<"*">> \o p, TRUE)
      [] pipe = "contains" -> convert_to_fast_match(<<"*">> \o p \o <<"*">>, TRUE)
      [] pipe = "allOnly" -> AllOnlyMatch(p)
      [] OTHER -> <<>>

(* What "contains" looks in. *)
FoldedValue(pipes, v) ==
    IF Has(pipes, "windash") THEN Lower(ReplaceDash(v)) ELSE IF Has(pipes, "cased") THEN v ELSE Lower(v)

(* Whether v matches one of the fast matches fm, "undecided" for a value     *)
(* that is not ASCII.  Several of them are only made for "contains".         *)
check_fast_match(pipes, v, fm) ==
    LET cased == Has(pipes, "cased")
        windash == Has(pipes, "windash")
        Decide(b) == IF b THEN "yes" ELSE "no"
        Ends(Op(_, _), s) ==
            CASE cased -> Decide(Op(v, s))
              [] ~cased /\ Len(s) > Len(v) -> "no"
              [] ~cased /\ Len(s) <= Len(v) /\ ~IsAscii(v) -> "undecided"
              [] OTHER -> Decide(Op(Lower(v), Lower(s)))
    IN  IF Len(fm) = 1
        THEN CASE fm[1].kind = "Exact" -> Decide(Lower(v) = Lower(fm[1].s))
               [] fm[1].kind = "StartsWith" -> Ends(StartsWith, fm[1].s)
               [] fm[1].kind = "EndsWith" -> Ends(EndsWith, fm[1].s)
               [] OTHER -> Decide(ContainsStr(FoldedValue(pipes, v), fm[1].s))
        ELSE Decide(\E i \in DOMAIN fm :
                       /\ fm[i].kind = "Contains"
                       /\ ContainsStr(IF windash THEN Lower(ReplaceDash(v)) ELSE v, fm[i].s))

-----------------------------------------------------------------------------
(* Base64: base64_match.rs.  A byte is four digits of two bits; Base64       *)
(* regroups them by three, fills the last group with zeros, and pads with    *)
(* "=" to a multiple of four groups.                                         *)

Pad == <<"=">>
Min2(a, b) == IF a <= b THEN a ELSE b

RECURSIVE Regroup(_)
Regroup(d) ==
    IF d = <<>> THEN <<>>
    ELSE LET n == Min2(3, Len(d))
         IN  <<SubSeq(d, 1, n) \o [i \in 1..(3 - n) |-> 0]>> \o Regroup(Drop(d, n))

RECURSIVE Flatten(_)
Flatten(bytes) == IF bytes = <<>> THEN <<>> ELSE bytes[1] \o Flatten(Tail(bytes))

Base64NoPad(bytes) == Regroup(Flatten(bytes))

Base64(bytes) ==
    LET b == Base64NoPad(bytes)
    IN  b \o [i \in 1..((4 - (Len(b) % 4)) % 4) |-> Pad]

ZeroByte == <<0, 0, 0, 0>>

(* make_base64_str: offset many zero bytes are put in front of the text. *)
make_base64_str(bytes, offset) == Base64([i \in 1..offset |-> ZeroByte] \o bytes)

(* Where the padding begins, counted from 0 and modulo 4; 0 without one. *)
FindPad(b) ==
    IF Has(b, Pad) THEN ((CHOOSE i \in DOMAIN b : b[i] = Pad /\ \A j \in 1..(i - 1) : b[j] # Pad) - 1) % 4
    ELSE 0

\* Mutant: one group is cut off for each byte in front.
OffsetByOne(offset, b) ==
    LET cut == CASE FindPad(b) = 2 -> 3 [] FindPad(b) = 3 -> 2 [] OTHER -> 0
    IN  Drop(Chop(b, cut), offset)

(* base64_offset: what the bytes next to the text have a part in is cut off. *)
base64_offset(offset, b) ==
    LET cut == CASE FindPad(b) = 2 -> 3 [] FindPad(b) = 3 -> 2 [] OTHER -> 0
        from == IF offset = 0 THEN 0 ELSE offset + 1
    IN  Drop(Chop(b, cut), from)

(* convert_to_base64_str: one pattern for each offset of the text. *)
Base64Variants(bytes) == [i \in 1..3 |-> base64_offset(i - 1, make_base64_str(bytes, i - 1))]

-----------------------------------------------------------------------------
(* Lookup tables: lookup.rs.  Entries were folded when the table was loaded. *)

LookupContains(name, v) ==
    IF name \notin DOMAIN Tables THEN "unknown"
    ELSE IF \E e \in Tables[name] : ContainsStr(Lower(v), e) THEN "yes" ELSE "no"

-----------------------------------------------------------------------------
(* DefaultMatcher.  A key is its field and the modifiers behind it.          *)

Numeric == {"gt", "lt", "gte", "lte"}
FieldRefs == {"equalsfield", "endswithfield", "fieldref", "fieldrefstartswith",
              "fieldrefendswith", "fieldrefcontains"}
Regexes == {"re", "reignorecase", "remultiline", "resingleline"}
Encodings == {"utf16", "utf16le", "utf16be", "wide"}
PipeElements ==
    {"startswith", "endswith", "contains", "exists", "expand", "base64", "base64offset",
     "windash", "cidr", "all", "allOnly", "cased", "lookup", "not_lookup"}
    \cup Numeric \cup FieldRefs \cup Regexes \cup Encodings

(* The words of a key that are rewritten before they become elements. *)
RewriteKeys(field, mods) ==
    LET re == [i |-> "reignorecase", m |-> "remultiline", s |-> "resingleline"]
        rest == Drop(mods, 2)
    IN  CASE field = <<>> /\ mods = <<"all">> -> <<"allOnly">>
          [] Len(mods) >= 2 /\ mods[1] = "re" ->
               <<IF mods[2] \in DOMAIN re THEN re[mods[2]] ELSE mods[2]>> \o rest
          [] Len(mods) >= 2 /\ mods[1] = "fieldref" /\ mods[2] \in {"startswith", "endswith", "contains"} ->
               <<(CASE mods[2] = "startswith" -> "fieldrefstartswith"
                    [] mods[2] = "endswith" -> "fieldrefendswith"
                    [] OTHER -> "fieldrefcontains")>> \o rest
          [] OTHER -> mods

(* PipeElement::new *)
ElementOk(mod, pattern) ==
    /\ mod \in PipeElements \cup {"notlookup"}
    /\ mod \in Numeric => IsNumber(pattern)

Contains(p) == convert_to_fast_match(<<"*">> \o p \o <<"*">>, TRUE)
ContainsDash(p) == Contains(p) \o Contains(ReplaceDash(p))

(* convert_to_base64_str of a text: the Base64 of each offset, cases kept. *)
Offsets(encoding, p) ==
    convert_to_fast_match(<<"*">> \o Encoded(encoding, 0, p) \o <<"*">>, FALSE)
    \o convert_to_fast_match(<<"*">> \o Encoded(encoding, 1, p) \o <<"*">>, FALSE)
    \o convert_to_fast_match(<<"*">> \o Encoded(encoding, 2, p) \o <<"*">>, FALSE)

(* The fast matches for a list of elements; none for the other combinations. *)
FastOf(pipes, p) ==
    LET n == Len(pipes)
        Cased(pipe) ==
            CASE pipe = "startswith" -> convert_to_fast_match(p \o <<"*">>, FALSE)
              [] pipe = "endswith" -> convert_to_fast_match(<<"*">> \o p, FALSE)
              [] pipe = "contains" -> convert_to_fast_match(<<"*">> \o p \o <<"*">>, FALSE)
              [] OTHER -> <<>>
    IN  CASE n = 0 -> convert_to_fast_match(p, TRUE)
          [] n = 1 -> create_fast_match(pipes[1], p)
          [] pipes = <<"base64", "contains">> -> Contains(Encoded("utf8", 0, p))
          [] pipes = <<"base64offset", "contains">> -> Offsets("utf8", p)
          [] pipes = <<"contains", "all">> -> Contains(p)
          [] pipes = <<"contains", "windash">> -> ContainsDash(p)
          [] n = 2 /\ pipes[2] = "cased" -> Cased(pipes[1])
          [] n = 3 /\ {pipes[i] : i \in 1..3} = {"contains", "all", "windash"} -> ContainsDash(p)
          [] n = 3 /\ pipes[1] \in Encodings /\ pipes[3] = "contains" ->
               (CASE pipes[2] = "base64offset" ->
                       IF pipes[1] = "utf16" THEN Offsets("utf16le", p) \o Offsets("utf16be", p)
                       ELSE Offsets(pipes[1], p)
                  [] pipes[2] = "base64" -> Contains(Encoded(pipes[1], 0, p))
                  [] OTHER -> <<>>)
          [] OTHER -> <<>>

(* What is matched when fast matching does not apply: an expression, or a    *)
(* pattern with wildcards.                                                   *)
RegexOf(pipes, p) ==
    LET flags == {pipes[i] : i \in DOMAIN pipes} \cap Regexes
    IN  IF flags # {} THEN [glob |-> FALSE, flags |-> flags, re |-> PatternOf(pipes, p)]
        ELSE [glob |-> TRUE, re |-> pipe_pattern_wildcard(PatternOf(pipes, p))]

Search(re, v) == IF re.glob THEN GlobSearch(re.re, v) ELSE RegexMatch(re.flags, re.re, v)

NoPatterns == <<>>

(* DefaultMatcher.init.  A leaf has a field and modifiers, the keys nested    *)
(* below it, and a value; a text without a key is looked for in the record.  *)
DefaultInit(leaf) ==
    LET pipes == RewriteKeys(leaf.field, leaf.mods)
        p == leaf.value
        fast == FastOf(pipes, p)
        decided == leaf.keyed /\ fast # <<>> /\ fast[1].kind \in {"Exact", "Contains"}
        refers == \E i \in DOMAIN pipes : pipes[i] \in FieldRefs
        both == Len(pipes) = 3 /\ {pipes[i] : i \in DOMAIN pipes} = {"contains", "all", "windash"}
        res == IF both THEN <<RegexOf(pipes, p), RegexOf(pipes, ReplaceDash(p))>>
               ELSE <<RegexOf(pipes, p)>>
    IN  IF p = None THEN [pipes |-> <<>>, fast |-> <<>>, re |-> NoPatterns]
        ELSE IF (\E i \in DOMAIN pipes : ~ElementOk(pipes[i], p)) \/ Len(pipes) > 3 THEN Refused
        ELSE IF decided \/ refers THEN [pipes |-> pipes, fast |-> fast, re |-> NoPatterns]
        ELSE IF \E i \in DOMAIN res : ~res[i].glob /\ ~RegexOk(res[i].re) THEN Refused
        ELSE [pipes |-> pipes, fast |-> fast, re |-> res]

(* An event has fields, its text, and what is in EventData.Data. *)
GetValue(event, field) == IF field \in DOMAIN event.fields THEN event.fields[field] ELSE None

Or(v, default) == IF v = None THEN default ELSE v

(* is_eqfield_match; the value of the rule names the other field. *)
IsEqfieldMatch(element, p, v, leaf, event) ==
    LET other == GetValue(event, p)
    IN  CASE element = "exists" ->
               Lower(p) = (IF GetValue(event, leaf.field) # None THEN <<"true">> ELSE <<"false">>)
          [] v = None \/ other = None -> FALSE
          [] element \in {"equalsfield", "fieldref"} -> other = v
          [] element = "fieldrefstartswith" -> StartsWith(Lower(v), Lower(other))
          [] element = "fieldrefcontains" -> ContainsStr(Lower(v), Lower(other))
          [] OTHER -> EndsWith(Lower(v), Lower(other))

Compare(element, n, m) ==
    CASE element = "gt" -> n > m [] element = "lt" -> n < m
      [] element = "gte" -> n >= m [] OTHER -> n <= m

(* The rest of is_match: a null value, then fast matches, then expressions.  *)
PatternMatch(matcher, leaf, v, event) ==
    IF matcher.re = NoPatterns /\ matcher.fast = <<>>
    THEN /\ leaf.keyed
         /\ leaf.mods # <<>> \/ leaf.nest # <<>> \/ GetValue(event, leaf.field) = None
    ELSE /\ v # None
         /\ LET fast == IF leaf.keyed /\ matcher.fast # <<>>
                        THEN check_fast_match(matcher.pipes, v, matcher.fast) ELSE "undecided"
            IN  IF fast = "undecided" THEN \E i \in DOMAIN matcher.re : Search(matcher.re[i], v)
                ELSE fast = "yes"

(* DefaultMatcher.is_match: only the first element is looked at. *)
DefaultMatch(matcher, leaf, v, event) ==
    LET p == leaf.value
        element == IF matcher.pipes = <<>> THEN "wildcard" ELSE matcher.pipes[1]
        text == Or(v, <<>>)
    IN  CASE element = "cidr" -> IsNetwork(p) /\ IsAddress(text) /\ InNetwork(p, text)
          [] element \in FieldRefs \cup {"exists"} -> IsEqfieldMatch(element, p, v, leaf, event)
          [] element = "lookup" -> LookupContains(p, text) = "yes"
          [] element \in {"not_lookup", "notlookup"} -> LookupContains(p, text) = "no"
          [] element \in Numeric -> IsNumber(text) /\ Compare(element, NumberOf(text), NumberOf(p))
          [] OTHER -> PatternMatch(matcher, leaf, v, event)

-----------------------------------------------------------------------------
(* The other matchers are chosen by the key below the field.                 *)

(* MinlengthMatcher *)
IsMinLength(leaf) == leaf.keyed /\ leaf.nest = <<"min_length">>
MinLengthMatch(leaf, v) == v # None /\ Len(v) >= NumberOf(leaf.value)

(* RegexesFileMatcher and AllowlistFileMatcher; each line is an expression. *)
IsRegexes(leaf) == leaf.keyed /\ leaf.nest = <<"regexes">>
RegexesMatch(leaf, v) == v # None /\ \E re \in TextFiles[leaf.value] : RegexMatch({}, re, v)

IsAllowlist(leaf) == leaf.keyed /\ leaf.nest = <<"allowlist">>
AllowlistMatch(leaf, v) == v = None \/ ~\E re \in TextFiles[leaf.value] : RegexMatch({}, re, v)

IsDefault(leaf) == leaf.nest = <<>> \/ leaf.nest[1] = "value"

(* LeafSelectionNode.init *)
LeafInit(leaf) ==
    CASE IsMinLength(leaf) -> IF leaf.int THEN [pipes |-> <<>>] ELSE Refused
      [] IsRegexes(leaf) \/ IsAllowlist(leaf) ->
           IF leaf.value \in DOMAIN TextFiles /\ ~(leaf.int /\ IsRegexes(leaf))
           THEN [pipes |-> <<>>] ELSE Refused
      [] IsDefault(leaf) -> DefaultInit(leaf)
      [] OTHER -> Refused

IsMatch(matcher, leaf, v, event) ==
    CASE IsMinLength(leaf) -> MinLengthMatch(leaf, v)
      [] IsRegexes(leaf) -> RegexesMatch(leaf, v)
      [] IsAllowlist(leaf) -> AllowlistMatch(leaf, v)
      [] OTHER -> DefaultMatch(matcher, leaf, v, event)

(* LeafSelectionNode.select: EventData may hold an array of texts without    *)
(* names, any of which may match.                                            *)
LeafSelect(matcher, leaf, event) ==
    LET v == IF ~leaf.keyed \/ (leaf.field = <<>> /\ leaf.mods = <<"all">>) THEN event.text
             ELSE GetValue(event, leaf.field)
    IN  IF leaf.keyed /\ leaf.field \in {<<"EventData">>, <<"Data">>} /\ event.data.kind # "scalar"
        THEN IF event.data.kind = "array"
             THEN \E i \in DOMAIN event.data.items :
                      IsMatch(matcher, leaf, event.data.items[i], event)
             ELSE IsMatch(matcher, leaf, None, event)
        ELSE IF leaf.keyed /\ leaf.field = <<"EventID">> /\ leaf.int /\ leaf.mods = <<>>
        THEN Or(v, <<>>) = leaf.value
        ELSE IsMatch(matcher, leaf, v, event)

\* Mutant: only the field of the leaf itself.
OwnKey(matcher, leaf) == {leaf.field} \ {<<>>}

(* get_keys: what of an event the leaf reads, for the cache of its fields. *)
LeafKeys(matcher, leaf) ==
    ({leaf.field} \ {<<>>})
    \cup (IF matcher.pipes # <<>> /\ matcher.pipes[1] \in FieldRefs THEN {leaf.value} ELSE {})
=============================================================================
