---------------------------- MODULE MCRuleText ----------------------------
(* Two selections that between them have a hash, an array and an array below *)
(* |all; short values over letters of both cases, wildcards, an escape and a *)
(* dash.                                                                     *)
EXTENDS RuleText

MCSelections ==
    [s1 |-> Leaf("l1"),
     s2 |-> Hash(<<"f", "all">>, <<Array(<<Leaf("l1"), Leaf("l2")>>),
                                   Array(<<Leaf("l3"), Leaf("l2")>>)>>)]

MCModifiers ==
    {<<>>, <<"startswith">>, <<"endswith">>, <<"contains">>, <<"contains", "windash">>,
     <<"exists">>, <<"fieldref">>, <<"fieldref", "endswith">>, <<"re", "i">>,
     <<"startswith", "cased">>}

Strings(chars, n) == UNION {[1..k -> chars] : k \in 0..n}
MCValues == Strings({"a", "A", "\\", "-", "U"}, 3)

MCCharacters == {"a", "A", "*", "?", "\\", "-"}

MCBytes == {<<0, 0, 0, 0>>, <<1, 2, 3, 0>>, <<3, 3, 1, 2>>}

MCTables == [t \in {<<"t">>} |-> {<<"a">>}]
MCTextFiles == [t \in {<<"t">>} |-> {<<"a">>}]
MCRegexMatch(flags, re, s) == ContainsStr(s, re)
MCRegexOk(re) == TRUE
MCInNetwork(n, a) == n = a
MCIsNetwork(n) == TRUE
MCEncoded(encoding, offset, p) == p
=============================================================================
