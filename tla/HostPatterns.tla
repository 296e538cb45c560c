---------------------------- MODULE HostPatterns ----------------------------
(***************************************************************************)
(* The patterns of suppressions (src/gui/store.py): an analyst writes a     *)
(* glob, the table holds a pattern for LIKE, and a boot makes a glob of it  *)
(* again.  A pattern is a sequence of characters; letters stand for both    *)
(* cases, which LIKE does not tell apart.                                   *)
(***************************************************************************)
EXTENDS Naturals, Sequences
Seqs == INSTANCE SequencesExt

CONSTANTS
    Char,       \* the characters there are
    Absent      \* None: any rule, any computer

Star       == "*"     \* of a glob
Mark       == "?"
Percent    == "%"     \* of LIKE
Underscore == "_"
Escape     == "\\"

Pattern == Seq(Char) \ {<<>>}

ASSUME PatternsAssumption ==
    /\ {Star, Mark, Percent, Underscore, Escape} \subseteq Char
    /\ Absent \notin Seq(Char)

Text(p) == IF p = Absent THEN <<>> ELSE p
OrAbsent(p) == IF p = <<>> THEN Absent ELSE p

LikeOf(c) ==
    CASE c \in {Escape, Percent, Underscore} -> <<Escape, c>>
      [] c = Star                              -> <<Percent>>
      [] c = Mark                              -> <<Underscore>>
      [] OTHER                                 -> <<c>>

(* Mutant: what is no wildcard in a glob is not escaped.                     *)
GlobToLikeRaw(p) ==
    OrAbsent([i \in DOMAIN Text(p) |->
                 IF p[i] = Star THEN Percent ELSE IF p[i] = Mark THEN Underscore ELSE p[i]])

(* _glob_to_like *)
GlobToLike(p) ==
    OrAbsent(Seqs!FlattenSeq([i \in DOMAIN Text(p) |-> LikeOf(p[i])]))

(* Mutant: the wildcards are put back, whatever stands before them.          *)
LikeToGlobBlind(p) ==
    OrAbsent([i \in DOMAIN Text(p) |->
                 IF p[i] = Percent THEN Star ELSE IF p[i] = Underscore THEN Mark ELSE p[i]])

(* _like_to_glob: a wildcard behind a backslash is the character itself.  A  *)
(* doubled backslash stays doubled.                                          *)
IsEscape(p, i) == p[i] = Escape /\ i < Len(p) /\ p[i + 1] \in {Percent, Underscore}
IsEscaped(p, i) == i > 1 /\ IsEscape(p, i - 1)

GlobOf(p, i) ==
    CASE IsEscape(p, i)                          -> <<>>
      [] p[i] = Percent /\ ~IsEscaped(p, i)      -> <<Star>>
      [] p[i] = Underscore /\ ~IsEscaped(p, i)   -> <<Mark>>
      [] OTHER                                   -> <<p[i]>>

LikeToGlob(p) ==
    OrAbsent(Seqs!FlattenSeq([i \in DOMAIN Text(p) |-> GlobOf(p, i)]))

(* Characters that LIKE would take for something else, and a backslash that   *)
(* was escaped.                                                              *)
Special(p) == \E i \in DOMAIN Text(p) : p[i] \in {Escape, Percent, Underscore}
Doubled(p) == \E i \in DOMAIN Text(p) : i > 1 /\ p[i] = Escape /\ p[i - 1] = Escape

HasEscape(p) == \E i \in DOMAIN Text(p) : p[i] = Escape

(* A pattern in which any is any text and one any character, against a text: *)
(* how much of the text the first n characters of the pattern may take.      *)
Matches(p, text, any, one) ==
    LET reach[n \in 0..Len(p)] ==
            IF n = 0 THEN {0}
            ELSE IF p[n] = any
                 THEN {j \in 0..Len(text) : \E k \in reach[n - 1] : k <= j}
            ELSE {j \in 1..Len(text) : j - 1 \in reach[n - 1] /\ p[n] \in {one, text[j]}}
    IN  Len(text) \in reach[Len(p)]

(* LIKE as the join has it: without ESCAPE, a backslash is a character.      *)
Like(p, computer) == p = Absent \/ Matches(p, computer, Percent, Underscore)

(* What the analyst means.                                                   *)
Means(p, computer) == p = Absent \/ Matches(p, computer, Star, Mark)
=============================================================================
