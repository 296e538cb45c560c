---------------------------- MODULE MCTimeframe ----------------------------
(* An instance of Timeframe: a second of ten ticks; times within a second of *)
(* each other on both sides of a full second, and one more than a second     *)
(* later.                                                                    *)
EXTENDS Timeframe

MCTimes == {1, 9, 12, 25}

MCRules ==
    LET tf(t, n) == [type |-> t, num |-> n]
        c(f, b, o, n, t) == [field |-> f, by |-> b, op |-> o, num |-> n, timeframe |-> t]
    IN  {c(f, FALSE, "GE", 2, t) : f \in BOOLEAN, t \in {NoTimeframe, tf("s", 1)}}
        \cup {c(FALSE, FALSE, "GT", 2, tf("", 2)), c(FALSE, TRUE, "GE", 2, tf("m", 1)),
              c(TRUE, FALSE, "LE", 1, tf("h", BadNumber))}
=============================================================================
