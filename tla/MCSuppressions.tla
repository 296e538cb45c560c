--------------------------- MODULE MCSuppressions ---------------------------
(* Globs with both wildcards, with a character that LIKE would take for one, *)
(* and with a backslash, so that there are two entries in one snapshot, one  *)
(* in another, and names of snapshots that a boot makes up.                  *)
EXTENDS Suppressions

MCChar == {"h", "x", Star, Mark, Percent, Underscore, Escape}

MCAsked ==
    {[rule |-> "r1", glob |-> Absent], [rule |-> Absent, glob |-> <<"h", Underscore, Star>>],
     [rule |-> "r1", glob |-> <<Mark, "h">>], [rule |-> Absent, glob |-> <<"h", Escape>>]}

MCDetections ==
    [rule : {"r1", "r2"},
     computer : {<<"h">>, <<"h", Underscore>>, <<"h", "x">>, <<"x", "h">>, <<"h", Underscore, "x">>}]

AnalystSymmetry == Permutations(Analysts)

=============================================================================
