------------------------ MODULE Suppressions_proofs ------------------------
(***************************************************************************)
(* Proofs about Suppressions, for any suppressions, computers and threads:  *)
(* what patterns become when they are written to the table and read back,   *)
(* what the snapshots say, and what a boot and a row do.                     *)
(***************************************************************************)
EXTENDS Suppressions, SequenceTheorems, WellFoundedInduction, TLAPS

-----------------------------------------------------------------------------
(* Sequences of sequences.                                                    *)

\* What holds of 0 and of the successor holds of every number.
LEMMA Induction ==
    ASSUME NEW G, 0 \in G, \A n \in Nat : n \in G => n + 1 \in G
    PROVE  Nat \subseteq G
<1> DEFINE R == {ss \in Nat \X Nat : ss[1] < ss[2]}
           T == Nat \ G
<1> SUFFICES ASSUME T # {} PROVE FALSE
    OBVIOUS
<1>1. IsWellFoundedOn(R, Nat)
    BY NatLessThanWellFounded DEF OpToRel
<1>2. \A x, y \in Nat : <<y, x>> \in R <=> y < x
    OBVIOUS
<1>3. \E x \in T : \A y \in T : ~ (<<y, x>> \in R)
  <2> HIDE DEF R
  <2> QED
      BY <1>1, WFMin
<1>4. PICK x \in T : \A y \in T : ~ (y < x)
    BY <1>2, <1>3
<1>5. x # 0 /\ x - 1 \in Nat /\ x - 1 < x /\ (x - 1) + 1 = x
    BY <1>4
<1> QED
    BY <1>4, <1>5

\* The function inside FlattenSeq, for the first n members of s.
IsFlat(f, s, n) ==
    f = [i \in 1..n |-> IF i = 1 THEN s[i] ELSE f[i - 1] \o s[i]]

LEMMA FlatExists ==
    ASSUME NEW s
    PROVE  \A n \in Nat : \E f : IsFlat(f, s, n)
<1> DEFINE G == {n \in Nat : \E f : IsFlat(f, s, n)}
<1>1. 0 \in G
  <2>1. IsFlat([i \in 1..0 |-> 0], s, 0)
      BY DEF IsFlat
  <2> QED
      BY <2>1
<1>2. ASSUME NEW n \in Nat, n \in G PROVE n + 1 \in G
  <2>1. PICK f : IsFlat(f, s, n)
      BY <1>2
  <2> DEFINE g == [i \in 1..(n + 1) |->
                      IF i = n + 1 THEN IF i = 1 THEN s[i] ELSE f[i - 1] \o s[i]
                      ELSE f[i]]
             h == [i \in 1..(n + 1) |-> IF i = 1 THEN s[i] ELSE g[i - 1] \o s[i]]
  <2>2. ASSUME NEW i \in 1..(n + 1) PROVE g[i] = h[i]
    <3>1. CASE i = n + 1
      <4>1. i # 1 => i - 1 \in 1..(n + 1) /\ i - 1 # n + 1
          BY <3>1
      <4> QED
          BY <3>1, <4>1
    <3>2. CASE i # n + 1
      <4>1. i \in 1..n /\ (i # 1 => i - 1 \in 1..(n + 1) /\ i - 1 # n + 1)
          BY <3>2
      <4>2. f[i] = IF i = 1 THEN s[i] ELSE f[i - 1] \o s[i]
          BY <2>1, <4>1 DEF IsFlat
      <4> QED
          BY <3>2, <4>1, <4>2
    <3> QED
        BY <3>1, <3>2
  <2>3. g = h
      BY <2>2
  <2>4. IsFlat(g, s, n + 1)
      BY <2>3 DEF IsFlat
  <2> HIDE DEF g
  <2> QED
      BY <2>4
<1> HIDE DEF G
<1>3. Nat \subseteq G
    BY <1>1, <1>2, Induction
<1> QED
    BY <1>3 DEF G

LEMMA FlatValue ==
    ASSUME NEW s, Len(s) \in Nat \ {0}
    PROVE  \E f : IsFlat(f, s, Len(s)) /\ Seqs!FlattenSeq(s) = f[Len(s)]
<1> DEFINE F == CHOOSE f : f = [i \in 1..Len(s) |->
                                   IF i = 1 THEN s[i] ELSE f[i - 1] \o s[i]]
<1>1. \E f : f = [i \in 1..Len(s) |-> IF i = 1 THEN s[i] ELSE f[i - 1] \o s[i]]
    BY FlatExists DEF IsFlat
<1>2. IsFlat(F, s, Len(s))
    BY <1>1, Zenon DEF IsFlat
<1>3. Seqs!FlattenSeq(s) = F[Len(s)]
    BY Zenon DEF Seqs!FlattenSeq
<1> QED
    BY <1>2, <1>3

\* The first members decide what comes of them.
LEMMA FlatUnique ==
    ASSUME NEW s, NEW t, NEW m \in Nat, NEW n \in Nat, n <= m,
           \A i \in 1..n : s[i] = t[i],
           NEW f, IsFlat(f, s, m), NEW g, IsFlat(g, t, n)
    PROVE  \A i \in 1..n : f[i] = g[i]
<1> DEFINE G == {k \in Nat : k \in 1..n => f[k] = g[k]}
<1>1. 0 \in G
    OBVIOUS
<1>2. ASSUME NEW k \in Nat, k \in G, k + 1 \in 1..n PROVE f[k + 1] = g[k + 1]
  <2>0. k + 1 \in 1..m
      BY <1>2
  <2>1. /\ f[k + 1] = IF k + 1 = 1 THEN s[k + 1] ELSE f[(k + 1) - 1] \o s[k + 1]
        /\ g[k + 1] = IF k + 1 = 1 THEN t[k + 1] ELSE g[(k + 1) - 1] \o t[k + 1]
      BY <1>2, <2>0, Zenon DEF IsFlat
  <2>2. k + 1 # 1 => k \in 1..n /\ (k + 1) - 1 = k
      BY <1>2
  <2> QED
      BY <1>2, <2>1, <2>2
<1>3. \A k \in Nat : k \in G => k + 1 \in G
    BY <1>2
<1>4. Nat \subseteq G
  <2> HIDE DEF G
  <2> QED
      BY <1>1, <1>3, Induction
<1> QED
    BY <1>4

\* The first n parts, one behind the other.
Flat(P, n) == Seqs!FlattenSeq([i \in 1..n |-> P[i]])

AreParts(P, n) == \A i \in 1..n : P[i] \in Seq(Char)

LEMMA FlatEmpty == ASSUME NEW P PROVE Flat(P, 0) = <<>>
<1>1. [i \in 1..0 |-> P[i]] = <<>>
    OBVIOUS
<1> QED
    BY <1>1, EmptySeq DEF Flat, Seqs!FlattenSeq

LEMMA FlatFunction ==
    ASSUME NEW P, NEW n \in Nat \ {0}
    PROVE  \E f : IsFlat(f, P, n) /\ Flat(P, n) = f[n]
<1> DEFINE s == [i \in 1..n |-> P[i]]
<1>1. Len(s) = n
    OBVIOUS
<1>2. Flat(P, n) = Seqs!FlattenSeq(s)
    BY DEF Flat
<1>3. \A i \in 1..n : s[i] = P[i]
    OBVIOUS
<1> HIDE DEF s
<1>4. PICK f : IsFlat(f, s, n) /\ Seqs!FlattenSeq(s) = f[n]
    BY <1>1, FlatValue
<1>5. IsFlat(f, P, n)
    BY <1>3, <1>4 DEF IsFlat
<1> QED
    BY <1>2, <1>4, <1>5

LEMMA FlatGrows ==
    ASSUME NEW P, NEW n \in Nat, P[n + 1] \in Seq(Char)
    PROVE  Flat(P, n + 1) = IF n = 0 THEN P[1] ELSE Flat(P, n) \o P[n + 1]
<1>1. n + 1 \in Nat \ {0} /\ n <= n + 1 /\ (n + 1) - 1 = n /\ n + 1 \in 1..(n + 1)
    OBVIOUS
<1>2. PICK f : IsFlat(f, P, n + 1) /\ Flat(P, n + 1) = f[n + 1]
    BY <1>1, FlatFunction
<1>3. f[n + 1] = IF n + 1 = 1 THEN P[n + 1] ELSE f[(n + 1) - 1] \o P[n + 1]
    BY <1>1, <1>2, Zenon DEF IsFlat
<1>4. ASSUME n # 0 PROVE f[n] = Flat(P, n)
  <2>1. PICK g : IsFlat(g, P, n) /\ Flat(P, n) = g[n]
      BY <1>4, FlatFunction
  <2>2. \A i \in 1..n : f[i] = g[i]
      BY <1>1, <1>2, <2>1, FlatUnique
  <2> QED
      BY <1>4, <2>1, <2>2
<1> QED
    BY <1>1, <1>2, <1>3, <1>4

LEMMA FlatType ==
    ASSUME NEW P, NEW n \in Nat, AreParts(P, n)
    PROVE  Flat(P, n) \in Seq(Char)
<1> DEFINE G == {k \in Nat : k <= n => Flat(P, k) \in Seq(Char)}
<1>1. 0 \in G
    BY FlatEmpty, EmptySeq
<1>2. ASSUME NEW k \in Nat, k \in G, k + 1 <= n PROVE Flat(P, k + 1) \in Seq(Char)
  <2>1. P[k + 1] \in Seq(Char) /\ Flat(P, k) \in Seq(Char)
      BY <1>2 DEF AreParts
  <2>2. Flat(P, k) \o P[k + 1] \in Seq(Char)
      BY <2>1, ConcatProperties
  <2>3. Flat(P, k + 1) = IF k = 0 THEN P[1] ELSE Flat(P, k) \o P[k + 1]
      BY <2>1, FlatGrows
  <2>4. k = 0 => P[1] = P[k + 1]
      OBVIOUS
  <2> QED
      BY <2>1, <2>2, <2>3, <2>4, Zenon
<1>3. \A k \in Nat : k \in G => k + 1 \in G
    BY <1>2
<1>4. Nat \subseteq G
  <2> HIDE DEF G
  <2> QED
      BY <1>1, <1>3, Induction
<1> QED
    BY <1>4

\* One more part.
LEMMA FlatStep ==
    ASSUME NEW P, NEW n \in Nat, AreParts(P, n + 1)
    PROVE  /\ Flat(P, n) \in Seq(Char) /\ P[n + 1] \in Seq(Char)
           /\ Flat(P, n + 1) \in Seq(Char)
           /\ Flat(P, n + 1) = Flat(P, n) \o P[n + 1]
<1>1. AreParts(P, n) /\ P[n + 1] \in Seq(Char)
    BY DEF AreParts
<1>2. Flat(P, n) \in Seq(Char) /\ Flat(P, n + 1) \in Seq(Char)
    BY <1>1, FlatType
<1>3. n = 0 => Flat(P, n) \o P[n + 1] = P[1]
    BY <1>1, FlatEmpty, ConcatEmptySeq
<1> QED
    BY <1>1, <1>2, <1>3, FlatGrows

\* Every part is in the whole, in one piece.
LEMMA FlatHas ==
    ASSUME NEW P, NEW n \in Nat, AreParts(P, n), NEW i \in 1..n
    PROVE  \E o \in Nat : /\ o + Len(P[i]) <= Len(Flat(P, n))
                          /\ \A j \in 1..Len(P[i]) : Flat(P, n)[o + j] = P[i][j]
<1> DEFINE Has(k) == \E o \in Nat : /\ o + Len(P[i]) <= Len(Flat(P, k))
                                    /\ \A j \in 1..Len(P[i]) : Flat(P, k)[o + j] = P[i][j]
           G == {k \in Nat : k \in i..n => Has(k)}
<1>0. P[i] \in Seq(Char) /\ Len(P[i]) \in Nat
    BY LenProperties DEF AreParts
<1>1. 0 \in G
    OBVIOUS
<1>2. ASSUME NEW k \in Nat, k \in G, k + 1 \in i..n PROVE Has(k + 1)
  <2> DEFINE s == Flat(P, k)
             u == P[k + 1]
             t == Flat(P, k + 1)
  <2>1. AreParts(P, k + 1)
      BY <1>2 DEF AreParts
  <2>2. s \in Seq(Char) /\ u \in Seq(Char) /\ t = s \o u
      BY <2>1, FlatStep
  <2> HIDE DEF s, u, t
  <2>3. /\ Len(s) \in Nat /\ Len(u) \in Nat /\ Len(t) = Len(s) + Len(u)
        /\ \A j \in 1..Len(s) : t[j] = s[j]
        /\ \A j \in 1..Len(u) : t[Len(s) + j] = u[j]
      BY <2>2, ConcatProperties
  <2>4. CASE k + 1 = i
    <3>1. Len(s) + Len(P[i]) <= Len(t) /\ \A j \in 1..Len(P[i]) : t[Len(s) + j] = P[i][j]
        BY <1>0, <2>3, <2>4 DEF u
    <3> QED
        BY <2>3, <3>1 DEF t
  <2>5. CASE k + 1 # i
    <3>1. PICK o \in Nat : /\ o + Len(P[i]) <= Len(s)
                           /\ \A j \in 1..Len(P[i]) : s[o + j] = P[i][j]
        BY <1>2, <2>5 DEF s
    <3>2. o + Len(P[i]) <= Len(t)
        BY <1>0, <2>3, <3>1
    <3>3. \A j \in 1..Len(P[i]) : o + j \in 1..Len(s) /\ t[o + j] = P[i][j]
        BY <1>0, <2>3, <3>1
    <3> QED
        BY <3>2, <3>3 DEF t
  <2> QED
      BY <2>4, <2>5
<1>3. \A k \in Nat : k \in G => k + 1 \in G
  <2> HIDE DEF Has
  <2> QED
      BY <1>2
<1>4. Nat \subseteq G
  <2> HIDE DEF G
  <2> QED
      BY <1>1, <1>3, Induction
<1>5. n \in i..n
    OBVIOUS
<1> QED
    BY <1>4, <1>5

\* Parts of one member each.
LEMMA FlatOnes ==
    ASSUME NEW P, NEW c, NEW n \in Nat,
           \A i \in 1..n : c[i] \in Char /\ P[i] = <<c[i]>>
    PROVE  Flat(P, n) = [i \in 1..n |-> c[i]]
<1> DEFINE s(k) == [i \in 1..k |-> c[i]]
           G == {k \in Nat : k <= n => Flat(P, k) = s(k)}
<1>0. AreParts(P, n)
  <2>1. \A x \in Char : <<x>> \in Seq(Char)
      OBVIOUS
  <2> QED
      BY <2>1, Zenon DEF AreParts
<1>1. 0 \in G
  <2>1. s(0) = <<>>
      OBVIOUS
  <2> QED
      BY <2>1, FlatEmpty
<1>2. ASSUME NEW k \in Nat, k \in G, k + 1 <= n PROVE Flat(P, k + 1) = s(k + 1)
  <2>1. AreParts(P, k + 1) /\ k + 1 \in 1..n
      BY <1>0, <1>2 DEF AreParts
  <2>2. Flat(P, k + 1) = s(k) \o <<c[k + 1]>>
    <3>1. Flat(P, k + 1) = Flat(P, k) \o P[k + 1]
        BY <2>1, FlatStep
    <3>2. Flat(P, k) = s(k) /\ P[k + 1] = <<c[k + 1]>>
        BY <1>2, <2>1
    <3> QED
        BY <3>1, <3>2, Zenon
  <2>3. s(k) \in Seq(Char) /\ Len(s(k)) = k
      BY <1>2
  <2>4. s(k + 1) = s(k) \o <<c[k + 1]>>
      BY <1>2, <2>1, <2>3
  <2> QED
      BY <2>2, <2>4
<1>3. \A k \in Nat : k \in G => k + 1 \in G
  <2> HIDE DEF s
  <2> QED
      BY <1>2
<1>4. Nat \subseteq G
  <2> HIDE DEF G
  <2> QED
      BY <1>1, <1>3, Induction
<1> QED
    BY <1>4

-----------------------------------------------------------------------------
(* Patterns.                                                                  *)

LEMMA Characters ==
    /\ Star # Mark /\ Star # Percent /\ Star # Underscore /\ Star # Escape
    /\ Mark # Percent /\ Mark # Underscore /\ Mark # Escape
    /\ Percent # Underscore /\ Percent # Escape /\ Underscore # Escape
    BY DEF Star, Mark, Percent, Underscore, Escape

LikeParts(p) == [i \in 1..Len(p) |-> LikeOf(p[i])]
GlobParts(p) == [i \in 1..Len(p) |-> GlobOf(p, i)]

LEMMA LikeOfType ==
    ASSUME NEW c \in Char
    PROVE  LikeOf(c) \in Seq(Char) /\ Len(LikeOf(c)) # 0
<1>1. \A x, y \in Char : /\ <<x>> \in Seq(Char) /\ Len(<<x>>) = 1
                           /\ <<x, y>> \in Seq(Char) /\ Len(<<x, y>>) = 2
    OBVIOUS
<1>2. Escape \in Char /\ Percent \in Char /\ Underscore \in Char
    BY PatternsAssumption
<1>3. \/ LikeOf(c) = <<Escape, c>> \/ LikeOf(c) = <<Percent>>
      \/ LikeOf(c) = <<Underscore>> \/ LikeOf(c) = <<c>>
    BY DEF LikeOf
<1>4. PICK x \in Char, y \in Char : LikeOf(c) = <<x>> \/ LikeOf(c) = <<x, y>>
    BY <1>2, <1>3
<1>5. CASE LikeOf(c) = <<x>>
    BY <1>1, <1>5
<1>6. CASE LikeOf(c) = <<x, y>>
    BY <1>1, <1>6
<1> QED
    BY <1>4, <1>5, <1>6

LEMMA GlobOfType ==
    ASSUME NEW p \in Seq(Char), NEW i \in 1..Len(p)
    PROVE  GlobOf(p, i) \in Seq(Char)
<1>1. \A x \in Char : <<x>> \in Seq(Char)
    OBVIOUS
<1>2. {p[i], Star, Mark} \subseteq Char
    BY ElementOfSeq, PatternsAssumption
<1>3. GlobOf(p, i) \in {<<>>, <<Star>>, <<Mark>>, <<p[i]>>}
    BY DEF GlobOf
<1> QED
    BY <1>1, <1>2, <1>3, EmptySeq

LEMMA PatternIsText ==
    ASSUME NEW p \in Pattern
    PROVE  /\ p # Absent /\ Text(p) = p /\ OrAbsent(p) = p
           /\ p \in Seq(Char) /\ Len(p) \in Nat \ {0} /\ DOMAIN p = 1..Len(p)
           /\ \A i \in 1..Len(p) : p[i] \in Char
    BY PatternsAssumption, EmptySeq, LenProperties, ElementOfSeq DEF Pattern, Text, OrAbsent

\* What the two conversions are, for a pattern and for none.
LEMMA Conversions ==
    /\ GlobToLike(Absent) = Absent /\ LikeToGlob(Absent) = Absent
    /\ \A p \in Pattern : /\ AreParts(LikeParts(p), Len(p))
                          /\ AreParts(GlobParts(p), Len(p))
                          /\ GlobToLike(p) = OrAbsent(Flat(LikeParts(p), Len(p)))
                          /\ LikeToGlob(p) = OrAbsent(Flat(GlobParts(p), Len(p)))
<1>1. GlobToLike(Absent) = Absent /\ LikeToGlob(Absent) = Absent
  <2>1. /\ [i \in DOMAIN <<>> |-> LikeOf(Absent[i])] = <<>>
        /\ [i \in DOMAIN <<>> |-> GlobOf(Absent, i)] = <<>>
    <3>1. DOMAIN <<>> = {}
        OBVIOUS
    <3>2. \A x : \A f : f = [i \in {} |-> x[i]] => f = <<>>
        OBVIOUS
    <3> QED
        OBVIOUS
  <2>2. Seqs!FlattenSeq(<<>>) = <<>>
      BY EmptySeq DEF Seqs!FlattenSeq
  <2> QED
      BY <2>1, <2>2, Zenon DEF GlobToLike, LikeToGlob, Text, OrAbsent
<1>2. ASSUME NEW p \in Pattern
      PROVE  /\ AreParts(LikeParts(p), Len(p))
             /\ AreParts(GlobParts(p), Len(p))
             /\ GlobToLike(p) = OrAbsent(Flat(LikeParts(p), Len(p)))
             /\ LikeToGlob(p) = OrAbsent(Flat(GlobParts(p), Len(p)))
  <2>1. AreParts(LikeParts(p), Len(p)) /\ AreParts(GlobParts(p), Len(p))
      BY PatternIsText, LikeOfType, GlobOfType DEF AreParts, LikeParts, GlobParts
  <2>2. /\ [i \in 1..Len(p) |-> LikeParts(p)[i]] = [i \in 1..Len(p) |-> LikeOf(p[i])]
        /\ [i \in 1..Len(p) |-> GlobParts(p)[i]] = [i \in 1..Len(p) |-> GlobOf(p, i)]
      BY DEF LikeParts, GlobParts
  <2>3. Text(p) = p /\ DOMAIN p = 1..Len(p)
      BY PatternIsText
  <2> QED
      BY <2>1, <2>2, <2>3, Zenon DEF GlobToLike, LikeToGlob, Flat
<1> QED
    BY <1>1, <1>2

\* No part that has something in it is lost, so that neither conversion makes
\* nothing of a pattern.
LEMMA FlatPattern ==
    ASSUME NEW P, NEW n \in Nat, AreParts(P, n), NEW i \in 1..n, Len(P[i]) # 0
    PROVE  Flat(P, n) \in Pattern
<1>1. Flat(P, n) \in Seq(Char) /\ Len(P[i]) \in Nat
    BY FlatType, LenProperties DEF AreParts
<1>2. PICK o \in Nat : o + Len(P[i]) <= Len(Flat(P, n))
    BY FlatHas
<1>3. Len(Flat(P, n)) \in Nat /\ Len(Flat(P, n)) # 0
    BY <1>1, <1>2, LenProperties
<1> QED
    BY <1>1, <1>3, EmptySeq DEF Pattern

LEMMA GlobToLikeType ==
    ASSUME NEW p \in Pattern
    PROVE  /\ GlobToLike(p) \in Pattern
           /\ GlobToLike(p) = Flat(LikeParts(p), Len(p))
<1> DEFINE P == LikeParts(p)
<1>1. AreParts(P, Len(p)) /\ GlobToLike(p) = OrAbsent(Flat(P, Len(p)))
    BY Conversions
<1>2. Len(p) \in Nat /\ 1 \in 1..Len(p) /\ p[1] \in Char /\ P[1] = LikeOf(p[1])
    BY PatternIsText DEF LikeParts
<1>3. Flat(P, Len(p)) \in Pattern
  <2>1. Len(P[1]) # 0
      BY <1>2, LikeOfType
  <2> HIDE DEF P
  <2> QED
      BY <1>1, <1>2, <2>1, FlatPattern
<1> QED
    BY <1>1, <1>3, PatternIsText

\* The part of a backslash that is read back is the backslash, or it is dropped
\* and the next part is the wildcard behind it.
LEMMA EscapePart ==
    ASSUME NEW p \in Pattern, NEW i \in 1..Len(p), p[i] = Escape
    PROVE  \E k \in 1..Len(p) :
               GlobParts(p)[k] = <<p[k]>> /\ p[k] \in {Escape, Percent, Underscore}
<1>1. CASE IsEscape(p, i)
  <2>1. i + 1 \in 1..Len(p) /\ p[i + 1] \in {Percent, Underscore} /\ (i + 1) - 1 = i
      BY <1>1, PatternIsText DEF IsEscape
  <2>2. ~ IsEscape(p, i + 1) /\ IsEscaped(p, i + 1)
      BY <1>1, <2>1, Characters DEF IsEscape, IsEscaped
  <2>3. GlobOf(p, i + 1) = <<p[i + 1]>>
      BY <2>2 DEF GlobOf
  <2> QED
      BY <2>1, <2>3 DEF GlobParts
<1>2. CASE ~ IsEscape(p, i)
  <2>1. GlobOf(p, i) = <<p[i]>>
      BY <1>2, Characters DEF GlobOf
  <2> QED
      BY <2>1 DEF GlobParts
<1> QED
    BY <1>1, <1>2

LEMMA LikeToGlobType ==
    ASSUME NEW p \in Pattern
    PROVE  /\ LikeToGlob(p) \in Pattern
           /\ LikeToGlob(p) = Flat(GlobParts(p), Len(p))
<1> DEFINE P == GlobParts(p)
<1>1. AreParts(P, Len(p)) /\ LikeToGlob(p) = OrAbsent(Flat(P, Len(p)))
    BY Conversions
<1>2. Len(p) \in Nat /\ 1 \in 1..Len(p) /\ P[1] = GlobOf(p, 1)
    BY PatternIsText DEF GlobParts
<1>3. PICK k \in 1..Len(p) : Len(P[k]) # 0
  <2>0. \A x : Len(<<x>>) = 1
      OBVIOUS
  <2>1. CASE p[1] = Escape
    <3>1. PICK k \in 1..Len(p) : P[k] = <<p[k]>>
        BY <1>2, <2>1, EscapePart
    <3>2. Len(P[k]) = 1
        BY <2>0, <3>1
    <3> QED
        BY <3>2
  <2>2. CASE p[1] # Escape
    <3>1. GlobOf(p, 1) \in {<<Star>>, <<Mark>>, <<p[1]>>}
        BY <2>2 DEF GlobOf, IsEscape
    <3> QED
        BY <1>2, <2>0, <3>1
  <2> QED
      BY <2>1, <2>2
<1>4. Flat(P, Len(p)) \in Pattern
  <2> HIDE DEF P
  <2> QED
      BY <1>1, <1>2, <1>3, FlatPattern
<1> QED
    BY <1>1, <1>4, PatternIsText

\* What is in a part is in the whole.
LEMMA FlatMember ==
    ASSUME NEW P, NEW n \in Nat, AreParts(P, n), NEW i \in 1..n, NEW j \in 1..Len(P[i])
    PROVE  \E k \in 1..Len(Flat(P, n)) : Flat(P, n)[k] = P[i][j]
<1>1. Len(P[i]) \in Nat /\ Len(Flat(P, n)) \in Nat
    BY FlatType, LenProperties DEF AreParts
<1>2. PICK o \in Nat : /\ o + Len(P[i]) <= Len(Flat(P, n))
                       /\ \A m \in 1..Len(P[i]) : Flat(P, n)[o + m] = P[i][m]
    BY FlatHas
<1>3. o + j \in 1..Len(Flat(P, n)) /\ Flat(P, n)[o + j] = P[i][j]
    BY <1>1, <1>2
<1> QED
    BY <1>3

\* What LIKE would take for something else gets a backslash,
LEMMA SpecialIsEscaped ==
    ASSUME NEW p \in Pattern, Special(p)
    PROVE  HasEscape(GlobToLike(p))
<1>1. PICK i \in 1..Len(p) : p[i] \in {Escape, Percent, Underscore}
    BY PatternIsText DEF Special
<1>2. LikeParts(p)[i] = <<Escape, p[i]>> /\ Len(p) \in Nat
  <2>1. LikeOf(p[i]) = <<Escape, p[i]>>
      BY <1>1, Characters DEF LikeOf
  <2> QED
      BY <2>1, PatternIsText DEF LikeParts
<1>3. 1 \in 1..Len(LikeParts(p)[i]) /\ LikeParts(p)[i][1] = Escape
    BY <1>2
<1>4. \E k \in 1..Len(GlobToLike(p)) : GlobToLike(p)[k] = Escape
  <2> DEFINE P == LikeParts(p)
  <2>1. AreParts(P, Len(p)) /\ GlobToLike(p) = Flat(P, Len(p))
      BY Conversions, GlobToLikeType
  <2>2. Len(p) \in Nat /\ 1 \in 1..Len(P[i]) /\ P[i][1] = Escape
      BY <1>2, <1>3
  <2> HIDE DEF P
  <2> QED
      BY <2>1, <2>2, FlatMember
<1> QED
    BY <1>4, GlobToLikeType, PatternIsText DEF HasEscape

\* which is there, or what it stood before is, when it is read back;
LEMMA EscapeStays ==
    ASSUME NEW p \in Pattern, HasEscape(p)
    PROVE  Special(LikeToGlob(p))
<1>1. PICK i \in 1..Len(p) : p[i] = Escape
    BY PatternIsText DEF HasEscape
<1>2. PICK k \in 1..Len(p) :
          GlobParts(p)[k] = <<p[k]>> /\ p[k] \in {Escape, Percent, Underscore}
    BY <1>1, EscapePart
<1>3. 1 \in 1..Len(GlobParts(p)[k]) /\ GlobParts(p)[k][1] = p[k] /\ Len(p) \in Nat
    BY <1>2, PatternIsText
<1>4. \E m \in 1..Len(LikeToGlob(p)) : LikeToGlob(p)[m] = p[k]
    BY <1>3, Conversions, LikeToGlobType, FlatMember
<1> QED
    BY <1>2, <1>4, LikeToGlobType, PatternIsText DEF Special

\* and a backslash gets another one behind it.
LEMMA EscapeIsDoubled ==
    ASSUME NEW p \in Pattern, HasEscape(p)
    PROVE  Doubled(GlobToLike(p))
<1> DEFINE P == LikeParts(p)
           q == GlobToLike(p)
<1>1. PICK i \in 1..Len(p) : p[i] = Escape
    BY PatternIsText DEF HasEscape
<1>2. P[i] = <<Escape, Escape>> /\ Len(p) \in Nat
  <2>1. LikeOf(Escape) = <<Escape, Escape>>
      BY Characters DEF LikeOf
  <2> QED
      BY <1>1, <2>1, PatternIsText DEF LikeParts
<1>3. AreParts(P, Len(p)) /\ q = Flat(P, Len(p)) /\ q \in Pattern
    BY Conversions, GlobToLikeType
<1> HIDE DEF P, q
<1>4. PICK o \in Nat : /\ o + Len(P[i]) <= Len(q)
                       /\ \A m \in 1..Len(P[i]) : q[o + m] = P[i][m]
  <2>1. \E o \in Nat : /\ o + Len(P[i]) <= Len(Flat(P, Len(p)))
                       /\ \A m \in 1..Len(P[i]) : Flat(P, Len(p))[o + m] = P[i][m]
      BY <1>2, <1>3, FlatHas
  <2> QED
      BY <1>3, <2>1, Zenon
<1>5. Len(P[i]) = 2 /\ P[i][1] = Escape /\ P[i][2] = Escape
    BY <1>2
<1>6. q[o + 1] = Escape /\ q[o + 2] = Escape /\ o + 2 <= Len(q)
    BY <1>4, <1>5
<1>7. o + 2 \in DOMAIN Text(q) /\ (o + 2) - 1 = o + 1 /\ o + 2 > 1
    BY <1>3, <1>6, PatternIsText
<1>8. Doubled(q)
    BY <1>6, <1>7 DEF Doubled
<1> QED
    BY <1>8 DEF q

LEMMA FlatSame ==
    ASSUME NEW P, NEW Q, NEW n \in Nat, \A i \in 1..n : P[i] = Q[i]
    PROVE  Flat(P, n) = Flat(Q, n)
<1>1. [i \in 1..n |-> P[i]] = [i \in 1..n |-> Q[i]]
    OBVIOUS
<1> QED
    BY <1>1, Zenon DEF Flat

\* A pattern that does not end in a backslash is read back the same, whatever
\* comes behind it.
LEMMA ReadBackPrefix ==
    ASSUME NEW q \in Seq(Char), NEW u \in Seq(Char),
           q = <<>> \/ q[Len(q)] # Escape
    PROVE  Flat(GlobParts(q \o u), Len(q)) = Flat(GlobParts(q), Len(q))
<1> DEFINE r == q \o u
           m == Len(q)
<1>1. /\ m \in Nat /\ Len(u) \in Nat /\ Len(r) = m + Len(u)
      /\ \A i \in 1..m : r[i] = q[i]
    BY ConcatProperties, LenProperties
<1>2. m # 0 => q[m] # Escape
    BY EmptySeq
<1> HIDE DEF r, m
<1>3. ASSUME NEW i \in 1..m PROVE IsEscape(r, i) <=> IsEscape(q, i)
  <2>1. CASE i = m
      BY <1>1, <1>2, <2>1 DEF IsEscape
  <2>2. CASE i # m
    <3>1. i \in 1..Len(r) /\ i + 1 \in 1..m /\ i < Len(r) /\ i < m
        BY <1>1, <2>2
    <3>2. r[i] = q[i] /\ r[i + 1] = q[i + 1]
        BY <1>1, <3>1
    <3> QED
        BY <3>1, <3>2 DEF IsEscape, m
  <2> QED
      BY <2>1, <2>2
<1>4. ASSUME NEW i \in 1..m PROVE GlobOf(r, i) = GlobOf(q, i)
  <2>1. IsEscaped(r, i) <=> IsEscaped(q, i)
    <3>1. i > 1 => i - 1 \in 1..m
        BY <1>1
    <3> QED
        BY <1>3, <3>1 DEF IsEscaped
  <2>2. r[i] = q[i] /\ (IsEscape(r, i) <=> IsEscape(q, i))
      BY <1>1, <1>3
  <2> QED
      BY <2>1, <2>2 DEF GlobOf
<1>5. \A i \in 1..m : GlobParts(r)[i] = GlobParts(q)[i]
    BY <1>1, <1>4 DEF GlobParts, m
<1>6. Flat(GlobParts(r), m) = Flat(GlobParts(q), m)
    BY <1>1, <1>5, FlatSame
<1> QED
    BY <1>6 DEF r, m

LEMMA GlobPartsType ==
    ASSUME NEW p \in Seq(Char)
    PROVE  AreParts(GlobParts(p), Len(p))
    BY GlobOfType DEF AreParts, GlobParts

\* What stands for one character in the table is read back as that character.
LEMMA ReadBackStep ==
    ASSUME NEW q \in Seq(Char), q = <<>> \/ q[Len(q)] # Escape,
           NEW c \in Char, c # Escape
    PROVE  LET r == q \o LikeOf(c)
           IN  /\ r \in Seq(Char) /\ r[Len(r)] # Escape
               /\ Flat(GlobParts(r), Len(r)) = Flat(GlobParts(q), Len(q)) \o <<c>>
<1> DEFINE u == LikeOf(c)
           r == q \o u
           m == Len(q)
           P == GlobParts(r)
<1>1. /\ u \in Seq(Char) /\ r \in Seq(Char)
      /\ m \in Nat /\ Len(u) \in Nat /\ Len(r) = m + Len(u)
      /\ \A i \in 1..m : r[i] = q[i]
      /\ \A i \in 1..Len(u) : r[m + i] = u[i]
    BY LikeOfType, ConcatProperties, LenProperties
<1>2. AreParts(P, Len(r)) /\ Flat(P, m) = Flat(GlobParts(q), m)
    BY <1>1, GlobPartsType, ReadBackPrefix
<1>3. m # 0 => m \in 1..m /\ r[m] # Escape
    BY <1>1, EmptySeq
<1>4. \A i \in 1..Len(r) : P[i] = GlobOf(r, i)
    BY DEF GlobParts
<1>5. CASE c \in {Percent, Underscore}
  <2>1. u = <<Escape, c>>
      BY <1>5, Characters DEF LikeOf
  <2>2. Len(u) = 2 /\ u[1] = Escape /\ u[2] = c
      BY <2>1
  <2> HIDE DEF u, r, P, m
  <2>3. /\ Len(r) = m + 2 /\ r[m + 1] = Escape /\ r[m + 2] = c
        /\ m + 1 < Len(r) /\ (m + 1) + 1 = m + 2 /\ (m + 2) - 1 = m + 1 /\ m + 2 > 1
        /\ m + 1 \in 1..Len(r) /\ m + 2 \in 1..Len(r)
      BY <1>1, <2>2
  <2>4. IsEscape(r, m + 1)
      BY <1>5, <2>3 DEF IsEscape
  <2>5. ~ IsEscape(r, m + 2) /\ IsEscaped(r, m + 2)
      BY <2>3, <2>4, <1>5, Characters DEF IsEscape, IsEscaped
  <2>6. P[m + 1] = <<>> /\ P[m + 2] = <<c>>
    <3>1. GlobOf(r, m + 1) = <<>>
        BY <2>4, <2>3, Characters DEF GlobOf, IsEscape
    <3>2. GlobOf(r, m + 2) = <<c>>
        BY <2>3, <2>5 DEF GlobOf
    <3> QED
        BY <1>4, <2>3, <3>1, <3>2
  <2>7. AreParts(P, m + 1) /\ AreParts(P, (m + 1) + 1) /\ m + 1 \in Nat
      BY <1>1, <1>2, <2>3 DEF AreParts
  <2>8. /\ Flat(P, m) \in Seq(Char) /\ Flat(P, m + 1) = Flat(P, m) \o <<>>
        /\ Flat(P, (m + 1) + 1) = Flat(P, m + 1) \o P[(m + 1) + 1]
      BY <1>1, <2>6, <2>7, FlatStep
  <2>9. Flat(P, Len(r)) = Flat(P, m) \o <<c>>
      BY <2>3, <2>6, <2>8, ConcatEmptySeq
  <2>10. r[Len(r)] # Escape
      BY <2>3
  <2> QED
      BY <1>1, <1>2, <2>9, <2>10 DEF u, r, P, m
<1>6. CASE c \notin {Percent, Underscore}
  <2>1. u = IF c = Star THEN <<Percent>> ELSE IF c = Mark THEN <<Underscore>> ELSE <<c>>
      BY <1>6, Characters DEF LikeOf
  <2>2. /\ Len(u) = 1
        /\ u[1] = IF c = Star THEN Percent ELSE IF c = Mark THEN Underscore ELSE c
      BY <2>1
  <2> HIDE DEF u, r, P, m
  <2>3. Len(r) = m + 1 /\ r[m + 1] = u[1] /\ m + 1 \in 1..Len(r) /\ (m + 1) - 1 = m
      BY <1>1, <2>2
  <2>4. u[1] # Escape
      BY <2>2, Characters
  <2>5. ~ IsEscape(r, m + 1) /\ ~ IsEscaped(r, m + 1)
      BY <1>1, <1>3, <2>3, <2>4 DEF IsEscape, IsEscaped
  <2>6. GlobOf(r, m + 1) = <<c>>
      BY <1>6, <2>2, <2>3, <2>5, Characters DEF GlobOf
  <2>7. AreParts(P, m + 1) /\ P[m + 1] = <<c>>
      BY <1>2, <1>4, <2>3, <2>6
  <2>8. Flat(P, m + 1) = Flat(P, m) \o P[m + 1]
      BY <1>1, <2>7, FlatStep
  <2> QED
      BY <1>1, <1>2, <2>3, <2>4, <2>7, <2>8 DEF u, r, P, m
<1> QED
    BY <1>5, <1>6

\* A glob without a backslash is itself again after both conversions.
LEMMA RoundTrip ==
    ASSUME NEW p \in Pattern, ~ HasEscape(p)
    PROVE  LikeToGlob(GlobToLike(p)) = p
<1> DEFINE P == LikeParts(p)
           q(n) == Flat(P, n)
           Good(n) == /\ q(n) \in Seq(Char)
                      /\ q(n) = <<>> \/ q(n)[Len(q(n))] # Escape
                      /\ Flat(GlobParts(q(n)), Len(q(n))) = [i \in 1..n |-> p[i]]
           G == {n \in Nat : n <= Len(p) => Good(n)}
<1>0. /\ Len(p) \in Nat /\ AreParts(P, Len(p))
      /\ \A i \in 1..Len(p) : p[i] \in Char /\ p[i] # Escape /\ P[i] = LikeOf(p[i])
    BY PatternIsText, Conversions DEF HasEscape, LikeParts
<1>1. Good(0)
  <2>1. q(0) = <<>> /\ Len(<<>>) = 0 /\ [i \in 1..0 |-> p[i]] = <<>>
      BY FlatEmpty, EmptySeq
  <2> QED
      BY <2>1, FlatEmpty, EmptySeq
<1>2. ASSUME NEW n \in Nat, Good(n), n + 1 <= Len(p) PROVE Good(n + 1)
  <2>1. AreParts(P, n + 1) /\ n + 1 \in 1..Len(p)
      BY <1>0, <1>2 DEF AreParts
  <2>2. q(n + 1) = q(n) \o LikeOf(p[n + 1])
      BY <1>0, <2>1, FlatStep
  <2>3. /\ q(n + 1) \in Seq(Char) /\ q(n + 1)[Len(q(n + 1))] # Escape
        /\ Flat(GlobParts(q(n + 1)), Len(q(n + 1)))
             = Flat(GlobParts(q(n)), Len(q(n))) \o <<p[n + 1]>>
    <3> DEFINE c == p[n + 1]
               s == q(n)
    <3>1. c \in Char /\ c # Escape /\ s \in Seq(Char) /\ (s = <<>> \/ s[Len(s)] # Escape)
        BY <1>0, <1>2, <2>1
    <3>2. q(n + 1) = s \o LikeOf(c)
        BY <2>2
    <3> HIDE DEF c, s, q
    <3> QED
        BY <3>1, <3>2, ReadBackStep DEF c, s
  <2>4. [i \in 1..n |-> p[i]] \o <<p[n + 1]>> = [i \in 1..(n + 1) |-> p[i]]
    <3>1. \A i \in 1..(n + 1) : p[i] \in Char
        BY <1>0, <2>1
    <3> QED
        BY <3>1
  <2> QED
      BY <1>2, <2>3, <2>4
<1>3. Good(Len(p))
  <2> HIDE DEF Good
  <2>1. 0 \in G /\ \A n \in Nat : n \in G => n + 1 \in G
      BY <1>0, <1>1, <1>2
  <2>2. Nat \subseteq G
    <3> HIDE DEF G
    <3> QED
        BY <2>1, Induction
  <2> QED
      BY <1>0, <2>2
<1>4. GlobToLike(p) = q(Len(p)) /\ GlobToLike(p) \in Pattern
    BY GlobToLikeType
<1>5. LikeToGlob(GlobToLike(p)) = [i \in 1..Len(p) |-> p[i]]
    BY <1>3, <1>4, LikeToGlobType
<1>6. p = [i \in 1..Len(p) |-> p[i]]
    BY PatternIsText
<1> QED
    BY <1>5, <1>6

\* A glob in which nothing is escaped keeps its length, and changes its wildcards.
LEMMA PlainGlob ==
    ASSUME NEW p \in Pattern, ~ Special(p)
    PROVE  GlobToLike(p) = [i \in 1..Len(p) |->
               IF p[i] = Star THEN Percent ELSE IF p[i] = Mark THEN Underscore ELSE p[i]]
<1> DEFINE P == LikeParts(p)
           c == [i \in 1..Len(p) |-> IF p[i] = Star THEN Percent
                                     ELSE IF p[i] = Mark THEN Underscore ELSE p[i]]
<1>1. ASSUME NEW i \in 1..Len(p) PROVE c[i] \in Char /\ P[i] = <<c[i]>>
  <2>1. p[i] \in Char /\ p[i] \notin {Escape, Percent, Underscore}
      BY PatternIsText DEF Special
  <2>2. LikeOf(p[i]) = IF p[i] = Star THEN <<Percent>>
                       ELSE IF p[i] = Mark THEN <<Underscore>> ELSE <<p[i]>>
      BY <2>1, Characters DEF LikeOf
  <2> QED
      BY <2>1, <2>2, PatternsAssumption DEF LikeParts
<1>2. Len(p) \in Nat /\ GlobToLike(p) = Flat(P, Len(p))
    BY PatternIsText, GlobToLikeType
<1>3. c = [i \in 1..Len(p) |-> c[i]]
    OBVIOUS
<1> HIDE DEF P, c
<1>4. Flat(P, Len(p)) = [i \in 1..Len(p) |-> c[i]]
    BY <1>1, <1>2, FlatOnes
<1> QED
    BY <1>2, <1>3, <1>4 DEF c

-----------------------------------------------------------------------------
(* Matching.                                                                  *)

\* The function inside Matches, for the first n characters of p.
IsReach(f, p, text, any, one, n) ==
    f = [k \in 0..n |->
            IF k = 0 THEN {0}
            ELSE IF p[k] = any THEN {j \in 0..Len(text) : \E i \in f[k - 1] : i <= j}
            ELSE {j \in 1..Len(text) : j - 1 \in f[k - 1] /\ p[k] \in {one, text[j]}}]

LEMMA ReachExists ==
    ASSUME NEW p, NEW text, NEW any, NEW one
    PROVE  \A n \in Nat : \E f : IsReach(f, p, text, any, one, n)
<1> DEFINE Step(k, S) ==
               IF p[k] = any THEN {j \in 0..Len(text) : \E i \in S : i <= j}
               ELSE {j \in 1..Len(text) : j - 1 \in S /\ p[k] \in {one, text[j]}}
           Reach(f, n) == f = [k \in 0..n |-> IF k = 0 THEN {0} ELSE Step(k, f[k - 1])]
           G == {n \in Nat : \E f : Reach(f, n)}
<1>0. \A f : \A n : IsReach(f, p, text, any, one, n) <=> Reach(f, n)
    BY Zenon DEF IsReach
<1> HIDE DEF Step
<1>1. 0 \in G
  <2> DEFINE f == [k \in 0..0 |-> {0}]
  <2>1. f = [k \in 0..0 |-> IF k = 0 THEN {0} ELSE Step(k, f[k - 1])]
      OBVIOUS
  <2>2. Reach(f, 0)
      BY <2>1
  <2> HIDE DEF f
  <2> QED
      BY <2>2
<1>2. ASSUME NEW n \in Nat, n \in G PROVE n + 1 \in G
  <2>1. PICK f : Reach(f, n)
      BY <1>2
  <2> DEFINE g == [k \in 0..(n + 1) |-> IF k = n + 1 THEN Step(k, f[k - 1]) ELSE f[k]]
             h == [k \in 0..(n + 1) |-> IF k = 0 THEN {0} ELSE Step(k, g[k - 1])]
  <2>2. ASSUME NEW k \in 0..(n + 1) PROVE g[k] = h[k]
    <3>1. CASE k = n + 1
      <4>1. k - 1 \in 0..(n + 1) /\ k - 1 # n + 1 /\ k # 0
          BY <3>1
      <4> QED
          BY <3>1, <4>1
    <3>2. CASE k # n + 1
      <4>1. k \in 0..n /\ (k # 0 => k - 1 \in 0..(n + 1) /\ k - 1 # n + 1)
          BY <3>2
      <4>2. f[k] = IF k = 0 THEN {0} ELSE Step(k, f[k - 1])
          BY <2>1, <4>1
      <4> QED
          BY <3>2, <4>1, <4>2
    <3> QED
        BY <3>1, <3>2
  <2>3. g = h
      BY <2>2
  <2>4. Reach(g, n + 1)
      BY <2>3
  <2> HIDE DEF g
  <2> QED
      BY <2>4
<1>3. Nat \subseteq G
  <2> HIDE DEF G
  <2> QED
      BY <1>1, <1>2, Induction
<1> QED
    BY <1>0, <1>3

LEMMA MatchesValue ==
    ASSUME NEW p \in Seq(Char), NEW text, NEW any, NEW one
    PROVE  \E f : /\ IsReach(f, p, text, any, one, Len(p))
                  /\ Matches(p, text, any, one) <=> Len(text) \in f[Len(p)]
<1> DEFINE F == CHOOSE f : f = [k \in 0..Len(p) |->
            IF k = 0 THEN {0}
            ELSE IF p[k] = any THEN {j \in 0..Len(text) : \E i \in f[k - 1] : i <= j}
            ELSE {j \in 1..Len(text) : j - 1 \in f[k - 1] /\ p[k] \in {one, text[j]}}]
<1>1. \E f : IsReach(f, p, text, any, one, Len(p))
    BY ReachExists, LenProperties
<1>2. IsReach(F, p, text, any, one, Len(p))
    BY <1>1, Zenon DEF IsReach
<1>3. Matches(p, text, any, one) <=> Len(text) \in F[Len(p)]
    BY Zenon DEF Matches
<1> QED
    BY <1>2, <1>3

\* Patterns match the same texts if they have their wildcards at the same places
\* and, for this text, the same characters elsewhere.
LEMMA SameMatches ==
    ASSUME NEW p \in Seq(Char), NEW q \in Seq(Char), Len(p) = Len(q),
           NEW text \in Seq(Char),
           NEW any, NEW one, NEW every, NEW each,
           \A i \in 1..Len(p) :
               /\ p[i] = any <=> q[i] = every
               /\ p[i] # any => \A j \in 1..Len(text) :
                                    p[i] \in {one, text[j]} <=> q[i] \in {each, text[j]}
    PROVE  Matches(p, text, any, one) <=> Matches(q, text, every, each)
<1>0. Len(p) \in Nat /\ Len(text) \in Nat
    BY LenProperties
<1>1. PICK f : /\ IsReach(f, p, text, any, one, Len(p))
               /\ Matches(p, text, any, one) <=> Len(text) \in f[Len(p)]
    BY MatchesValue
<1>2. PICK g : /\ IsReach(g, q, text, every, each, Len(p))
               /\ Matches(q, text, every, each) <=> Len(text) \in g[Len(p)]
    BY MatchesValue
<1> DEFINE G == {n \in Nat : n <= Len(p) => f[n] = g[n]}
<1>3. 0 \in G
  <2>1. 0 \in 0..Len(p)
      BY <1>0
  <2>2. f[0] = {0} /\ g[0] = {0}
      BY <1>1, <1>2, <2>1 DEF IsReach
  <2> QED
      BY <2>2
<1>4. ASSUME NEW n \in Nat, n \in G, n + 1 <= Len(p) PROVE f[n + 1] = g[n + 1]
  <2> DEFINE k == n + 1
  <2>1. k \in 0..Len(p) /\ k # 0 /\ k - 1 = n /\ k \in 1..Len(p)
      BY <1>0, <1>4
  <2>2. f[n] = g[n]
      BY <1>0, <1>4
  <2> HIDE DEF k
  <2>3. f[k] = IF p[k] = any THEN {j \in 0..Len(text) : \E i \in f[n] : i <= j}
               ELSE {j \in 1..Len(text) : j - 1 \in f[n] /\ p[k] \in {one, text[j]}}
    <3>1. f[k] = IF k = 0 THEN {0}
                 ELSE IF p[k] = any
                      THEN {j \in 0..Len(text) : \E i \in f[k - 1] : i <= j}
                 ELSE {j \in 1..Len(text) : j - 1 \in f[k - 1] /\ p[k] \in {one, text[j]}}
        BY <1>1, <2>1, Zenon DEF IsReach
    <3> QED
        BY <2>1, <3>1
  <2>4. g[k] = IF q[k] = every THEN {j \in 0..Len(text) : \E i \in g[n] : i <= j}
               ELSE {j \in 1..Len(text) : j - 1 \in g[n] /\ q[k] \in {each, text[j]}}
    <3>1. g[k] = IF k = 0 THEN {0}
                 ELSE IF q[k] = every
                      THEN {j \in 0..Len(text) : \E i \in g[k - 1] : i <= j}
                 ELSE {j \in 1..Len(text) : j - 1 \in g[k - 1] /\ q[k] \in {each, text[j]}}
        BY <1>2, <2>1, Zenon DEF IsReach
    <3> QED
        BY <2>1, <3>1
  <2>5. f[k] = g[k]
    <3>1. CASE p[k] = any
      <4>1. q[k] = every
          BY <2>1, <3>1
      <4> QED
          BY <2>2, <2>3, <2>4, <3>1, <4>1, Zenon
    <3>2. CASE p[k] # any
      <4>1. q[k] # every
          BY <2>1, <3>2
      <4>2. \A j \in 1..Len(text) : p[k] \in {one, text[j]} <=> q[k] \in {each, text[j]}
          BY <2>1, <3>2
      <4>3. /\ f[k] = {j \in 1..Len(text) : j - 1 \in f[n] /\ p[k] \in {one, text[j]}}
            /\ g[k] = {j \in 1..Len(text) : j - 1 \in f[n] /\ q[k] \in {each, text[j]}}
          BY <2>2, <2>3, <2>4, <3>2, <4>1, Zenon
      <4> QED
          BY <4>2, <4>3, Zenon
    <3> QED
        BY <3>1, <3>2
  <2> QED
      BY <2>5 DEF k
<1>5. \A n \in Nat : n \in G => n + 1 \in G
    BY <1>4
<1>6. Nat \subseteq G
  <2> HIDE DEF G
  <2> QED
      BY <1>3, <1>5, Induction
<1>7. f[Len(p)] = g[Len(p)]
    BY <1>0, <1>6
<1> QED
    BY <1>1, <1>2, <1>7

\* A pattern with a character that is no wildcard and not in the text matches no
\* part of it.
LEMMA NoMatch ==
    ASSUME NEW p \in Seq(Char), NEW text \in Seq(Char), NEW any, NEW one,
           NEW i \in 1..Len(p), p[i] \notin {any, one},
           \A j \in 1..Len(text) : text[j] # p[i]
    PROVE  ~ Matches(p, text, any, one)
<1>0. Len(p) \in Nat /\ Len(text) \in Nat
    BY LenProperties
<1>1. PICK f : /\ IsReach(f, p, text, any, one, Len(p))
               /\ Matches(p, text, any, one) <=> Len(text) \in f[Len(p)]
    BY MatchesValue
<1>2. ASSUME NEW k \in 1..Len(p)
      PROVE  f[k] = IF p[k] = any THEN {j \in 0..Len(text) : \E m \in f[k - 1] : m <= j}
                    ELSE {j \in 1..Len(text) : j - 1 \in f[k - 1] /\ p[k] \in {one, text[j]}}
  <2>1. k \in 0..Len(p) /\ k # 0
      BY <1>0
  <2>2. f[k] = IF k = 0 THEN {0}
               ELSE IF p[k] = any
                    THEN {j \in 0..Len(text) : \E m \in f[k - 1] : m <= j}
               ELSE {j \in 1..Len(text) : j - 1 \in f[k - 1] /\ p[k] \in {one, text[j]}}
      BY <1>1, <2>1, Zenon DEF IsReach
  <2> QED
      BY <2>1, <2>2
<1> DEFINE Dead(n) == n \in i..Len(p) => f[n] = {}
           G == {n \in Nat : Dead(n)}
<1>3. Dead(0)
    BY <1>0
<1>4. ASSUME NEW n \in Nat, Dead(n), n + 1 \in i..Len(p) PROVE f[n + 1] = {}
  <2>1. n + 1 \in 1..Len(p) /\ (n + 1) - 1 = n
      BY <1>0, <1>4
  <2>2. CASE n + 1 = i
    <3>1. f[i] = {j \in 1..Len(text) : j - 1 \in f[i - 1] /\ p[i] \in {one, text[j]}}
        BY <1>2
    <3>2. \A j \in 1..Len(text) : p[i] \notin {one, text[j]}
        OBVIOUS
    <3> QED
        BY <2>2, <3>1, <3>2
  <2>3. CASE n + 1 # i
    <3>1. f[n] = {}
        BY <1>0, <1>4, <2>3
    <3>2. f[n + 1] = IF p[n + 1] = any
                     THEN {j \in 0..Len(text) : \E m \in f[n] : m <= j}
                     ELSE {j \in 1..Len(text) : j - 1 \in f[n] /\ p[n + 1] \in {one, text[j]}}
        BY <1>2, <2>1
    <3> QED
        BY <3>1, <3>2
  <2> QED
      BY <2>2, <2>3
<1>5. ASSUME NEW n \in Nat, Dead(n) PROVE Dead(n + 1)
    BY <1>4, <1>5
<1>6. Dead(Len(p))
  <2> HIDE DEF Dead
  <2>1. 0 \in G /\ \A n \in Nat : n \in G => n + 1 \in G
      BY <1>3, <1>5
  <2>2. Nat \subseteq G
    <3> HIDE DEF G
    <3> QED
        BY <2>1, Induction
  <2> QED
      BY <1>0, <2>2
<1>7. f[Len(p)] = {}
    BY <1>0, <1>6
<1> QED
    BY <1>1, <1>7

-----------------------------------------------------------------------------
(* Keys.                                                                      *)

LEMMA AbsentIsPlain == ~ HasEscape(Absent) /\ ~ Special(Absent)
<1>1. DOMAIN Text(Absent) = {}
    BY DEF Text
<1> QED
    BY <1>1 DEF HasEscape, Special

\* A row made from any glob is the same row after a boot, unless there is a
\* doubled backslash in it.
LEMMA NewKey ==
    ASSUME NEW rule, NEW g \in Pattern \cup {Absent}
    PROVE  LET k == [rule |-> rule, like |-> GlobToLike(g)]
           IN  /\ k = [rule |-> k.rule, like |-> k.like]
               /\ k.like \in Pattern \cup {Absent}
               /\ ~ Doubled(k.like) => Imported(k) = k
<1> DEFINE k == [rule |-> rule, like |-> GlobToLike(g)]
<1>1. k.rule = rule /\ k.like = GlobToLike(g)
    OBVIOUS
<1>2. GlobToLike(g) \in Pattern \cup {Absent}
    BY GlobToLikeType, Conversions
<1>3. ASSUME ~ Doubled(GlobToLike(g)) PROVE LikeToGlob(GlobToLike(g)) = g
  <2>1. CASE g = Absent
      BY <2>1, Conversions
  <2>2. CASE g \in Pattern
      BY <1>3, <2>2, EscapeIsDoubled, RoundTrip
  <2> QED
      BY <2>1, <2>2
<1>4. ~ Doubled(k.like) => Imported(k) = k
    BY <1>1, <1>3 DEF Imported, Key
<1> QED
    BY <1>1, <1>2, <1>4

LEMMA AskedKey ==
    ASSUME NEW a \in Asked
    PROVE  IsKey(Key(a))
<1>1. a.glob \in Pattern \cup {Absent}
    BY SuppressionsAssumption
<1> QED
    BY <1>1, NewKey DEF IsKey, Key

LEMMA ImportedKey ==
    ASSUME NEW k, IsKey(k)
    PROVE  IsKey(Imported(k))
<1> DEFINE g == LikeToGlob(k.like)
<1>1. k.like \in Pattern \cup {Absent}
    BY DEF IsKey
<1>2. g \in Pattern \cup {Absent}
    BY <1>1, LikeToGlobType, Conversions
<1>3. Imported(k) = [rule |-> k.rule, like |-> GlobToLike(g)]
    BY DEF Imported, Key
<1>4. PICK a \in Asked : Key(a) = k \/ HasEscape(k.like)
    BY DEF IsKey
<1>5. Key(a) = Imported(k) \/ HasEscape(Imported(k).like)
  <2>1. CASE HasEscape(k.like)
    <3>1. k.like \in Pattern
        BY <1>1, <2>1, AbsentIsPlain
    <3>2. Special(g) /\ g \in Pattern
        BY <2>1, <3>1, EscapeStays, LikeToGlobType
    <3>3. HasEscape(GlobToLike(g))
        BY <3>2, SpecialIsEscaped
    <3> QED
        BY <1>3, <3>3
  <2>2. CASE ~ HasEscape(k.like)
    <3>1. ~ Doubled(k.like)
        BY <2>2 DEF HasEscape, Doubled
    <3>2. Imported(k) = k
        BY <3>1 DEF IsKey
    <3> QED
        BY <1>4, <2>2, <3>2
  <2> QED
      BY <2>1, <2>2
<1> HIDE DEF g
<1> QED
    BY <1>2, <1>3, <1>5, NewKey DEF IsKey

\* What a row hides that comes from a glob in which nothing is escaped.
LEMMA PlainMeans ==
    ASSUME NEW a \in Asked, ~ Special(a.glob)
    PROVE  Hidden(Key(a)) = Meant(a)
<1> DEFINE g == a.glob
           l == GlobToLike(a.glob)
<1>1. g \in Pattern \cup {Absent}
    BY SuppressionsAssumption
<1>2. Key(a).rule = a.rule /\ Key(a).like = l
    BY DEF Key
<1>3. ASSUME NEW d \in Detections
      PROVE  Like(l, d.computer) <=> Means(g, d.computer)
  <2>1. CASE g = Absent
      BY <2>1, Conversions DEF Like, Means
  <2>2. CASE g \in Pattern
    <3>1. /\ l \in Pattern
          /\ l = [i \in 1..Len(g) |-> IF g[i] = Star THEN Percent
                                      ELSE IF g[i] = Mark THEN Underscore ELSE g[i]]
        BY <2>2, PlainGlob, GlobToLikeType
    <3>2. d.computer \in Seq(Char)
        BY SuppressionsAssumption
    <3>3. /\ g \in Seq(Char) /\ l \in Seq(Char) /\ Len(g) \in Nat
          /\ g # Absent /\ l # Absent
        BY <2>2, <3>1, PatternIsText
    <3>4. Len(l) = Len(g)
        BY <3>1, <3>3
    <3>5. ASSUME NEW i \in 1..Len(l)
          PROVE  /\ l[i] = Percent <=> g[i] = Star
                 /\ l[i] # Percent =>
                        \A j \in 1..Len(d.computer) :
                            l[i] \in {Underscore, d.computer[j]}
                                <=> g[i] \in {Mark, d.computer[j]}
      <4>1. i \in 1..Len(g) /\ g[i] \notin {Escape, Percent, Underscore}
          BY <2>2, <3>4, PatternIsText DEF Special
      <4>2. l[i] = IF g[i] = Star THEN Percent ELSE IF g[i] = Mark THEN Underscore ELSE g[i]
          BY <3>1, <4>1
      <4> HIDE DEF l, g
      <4>3. l[i] = Percent <=> g[i] = Star
          BY <4>1, <4>2, Characters
      <4>4. ASSUME l[i] # Percent, NEW c PROVE l[i] \in {Underscore, c} <=> g[i] \in {Mark, c}
          BY <4>1, <4>2, <4>4, Characters
      <4> QED
          BY <4>3, <4>4
    <3> HIDE DEF l, g
    <3>6. Matches(l, d.computer, Percent, Underscore) <=> Matches(g, d.computer, Star, Mark)
        BY <3>2, <3>3, <3>4, <3>5, SameMatches
    <3> QED
        BY <3>3, <3>6 DEF Like, Means
  <2> QED
      BY <1>1, <2>1, <2>2
<1> QED
    BY <1>2, <1>3 DEF Hidden, Meant

\* A row with a backslash hides nothing: no name has one.
LEMMA EscapeHidesNothing ==
    ASSUME NEW k, IsKey(k), HasEscape(k.like)
    PROVE  Hidden(k) = {}
<1>1. k.like \in Pattern
    BY AbsentIsPlain DEF IsKey
<1>2. PICK i \in 1..Len(k.like) : k.like[i] = Escape
    BY <1>1, PatternIsText DEF HasEscape
<1>3. ASSUME NEW d \in Detections PROVE ~ Like(k.like, d.computer)
  <2>1. d.computer \in Seq(Char) /\ \A j \in 1..Len(d.computer) : d.computer[j] # k.like[i]
      BY <1>2, SuppressionsAssumption, LenProperties
  <2>2. k.like \in Seq(Char) /\ k.like # Absent /\ k.like[i] \notin {Percent, Underscore}
      BY <1>1, <1>2, PatternIsText, Characters
  <2>3. ~ Matches(k.like, d.computer, Percent, Underscore)
      BY <2>1, <2>2, NoMatch
  <2> QED
      BY <2>2, <2>3 DEF Like
<1> QED
    BY <1>3 DEF Hidden

LEMMA KeyHides ==
    ASSUME NEW k, IsKey(k)
    PROVE  HidesAsAsked(k)
<1>1. PICK a \in Asked : Key(a) = k \/ HasEscape(k.like)
    BY DEF IsKey
<1>2. Hidden(k) \subseteq Meant(a)
  <2>1. CASE HasEscape(k.like)
      BY <2>1, EscapeHidesNothing
  <2>2. CASE ~ HasEscape(k.like)
    <3>1. Key(a) = k /\ k.like = GlobToLike(a.glob)
        BY <1>1, <2>2 DEF Key
    <3>2. ~ Special(a.glob)
        BY <2>2, <3>1, SuppressionsAssumption, SpecialIsEscaped, AbsentIsPlain
    <3> QED
        BY <3>1, <3>2, PlainMeans
  <2> QED
      BY <2>1, <2>2
<1>3. \A b \in Asked : Key(b) = k /\ ~ Special(b.glob) => Hidden(k) = Meant(b)
    BY PlainMeans
<1> QED
    BY <1>2, <1>3 DEF HidesAsAsked

-----------------------------------------------------------------------------
(* Tables.                                                                    *)

LEMMA WithTable ==
    ASSUME NEW table, IsTable(table), NEW k, IsKey(k), NEW v
    PROVE  IsTable(With(table, k, v))
    BY DEF IsTable, With

LEMMA WithFile ==
    ASSUME NEW fs, AreTables(fs), NEW f, NEW table, IsTable(table)
    PROVE  AreTables(With(fs, f, table))
    BY DEF AreTables, With

LEMMA NothingIsTable == IsTable(Nothing) /\ DOMAIN Nothing = {}
    BY DEF IsTable, Nothing

LEMMA WithoutTable ==
    ASSUME NEW table, IsTable(table), NEW k
    PROVE  IsTable(Without(table, k))
    BY DEF IsTable, Without, Restrict

LEMMA WithoutFile ==
    ASSUME NEW fs, AreTables(fs), NEW f
    PROVE  AreTables(Without(fs, f))
    BY DEF AreTables, Without, Restrict

LEMMA BucketTable ==
    ASSUME NEW table, IsTable(table), NEW f
    PROVE  /\ IsTable(Bucket(table, f))
           /\ DOMAIN Bucket(table, f) = {k \in DOMAIN table : FileOf(k) = f}
           /\ \A k \in DOMAIN Bucket(table, f) : Bucket(table, f)[k] = table[k]
    BY DEF IsTable, Bucket, RestrictDomain, Restrict

\* The part of a table in a file that none of its rows belongs in.
LEMMA BucketEmpty ==
    ASSUME NEW table, NEW f, f \notin FilesOf(table)
    PROVE  Bucket(table, f) = Nothing
<1>1. {k \in DOMAIN table : FileOf(k) = f} = {}
    BY DEF FilesOf
<1> QED
    BY <1>1 DEF Bucket, RestrictDomain, Restrict, Nothing

-----------------------------------------------------------------------------
(* The types.                                                                 *)

LEMMA TablesStep ==
    ASSUME TypeOK, Phases, [Next]_vars
    PROVE  /\ IsTable(db)' /\ AreTables(files)' /\ AreTables(tmp)' /\ IsTable(rest)'
           /\ DOMAIN rows' = Threads /\ AreTables(rows)'
<1>0. /\ IsTable(db) /\ AreTables(files) /\ AreTables(tmp) /\ IsTable(rest)
      /\ DOMAIN rows = Threads /\ AreTables(rows)
    BY DEF TypeOK
<1> USE DEF disk, import, bounds, history, exports
<1>r. ASSUME NEW t \in Threads, NEW table, IsTable(table),
             rows' = [rows EXCEPT ![t] = table]
      PROVE  DOMAIN rows' = Threads /\ AreTables(rows)'
    BY <1>0, <1>r DEF AreTables
<1>1. ASSUME NEW t \in Analysts, NEW a \in Asked, Add(t, a)
      PROVE  IsTable(db)' /\ UNCHANGED <<files, tmp, rest, rows>>
  <2>1. db' = With(db, Key(a), revs')
      BY <1>1 DEF Add
  <2> QED
      BY <1>0, <1>1, <2>1, AskedKey, WithTable DEF Add, Commit
<1>2. ASSUME NEW t \in Analysts, NEW k \in DOMAIN db, Remove(t, k)
      PROVE  IsTable(db)' /\ UNCHANGED <<files, tmp, rest, rows>>
    BY <1>0, <1>2, WithoutTable DEF Remove, Commit
<1>3. ASSUME NEW t \in Threads, List(t)
      PROVE  DOMAIN rows' = Threads /\ AreTables(rows)' /\ UNCHANGED <<db, files, tmp, rest>>
    BY <1>0, <1>3, <1>r DEF List
<1>4. ASSUME NEW t \in Threads, NEW f, WriteTmp(t, f)
      PROVE  AreTables(tmp)' /\ UNCHANGED <<db, files, rest, rows>>
  <2>1. IsTable(rows[t])
      BY <1>0 DEF AreTables
  <2>2. tmp' = With(tmp, f, Bucket(rows[t], f))
      BY <1>4 DEF WriteTmp
  <2> QED
      BY <1>0, <1>4, <2>1, <2>2, BucketTable, WithFile DEF WriteTmp
<1>5. ASSUME NEW t \in Threads, Swap(t)
      PROVE  AreTables(files)' /\ AreTables(tmp)' /\ UNCHANGED <<db, rest, rows>>
  <2>1. IsTable(tmp[current[t]])
      BY <1>0, <1>5 DEF AreTables, Swap
  <2>2. /\ files' = With(files, current[t], tmp[current[t]])
        /\ tmp' = Without(tmp, current[t])
      BY <1>5 DEF Swap
  <2> QED
      BY <1>0, <1>5, <2>1, <2>2, WithFile, WithoutFile DEF Swap
<1>6. ASSUME NEW t \in Threads, SwapFails(t)
      PROVE  DOMAIN rows' = Threads /\ AreTables(rows)' /\ UNCHANGED <<db, files, tmp, rest>>
    BY <1>0, <1>6, <1>r, NothingIsTable DEF SwapFails
<1>7. ASSUME NEW t \in Threads, ListDir(t)
      PROVE  UNCHANGED <<db, files, tmp, rest, rows>>
    BY <1>7 DEF ListDir
<1>8. ASSUME NEW t \in Threads, NEW f, Empty(t, f)
      PROVE  AreTables(files)' /\ UNCHANGED <<db, tmp, rest, rows>>
    BY <1>0, <1>8, NothingIsTable DEF Empty, AreTables
<1>9. ASSUME NEW t \in Threads, Done(t)
      PROVE  DOMAIN rows' = Threads /\ AreTables(rows)' /\ UNCHANGED <<db, files, tmp, rest>>
    BY <1>0, <1>9, <1>r, NothingIsTable DEF Done
<1>10. ASSUME Crash
       PROVE  /\ DOMAIN rows' = Threads /\ AreTables(rows)' /\ IsTable(rest)'
              /\ UNCHANGED <<db, files, tmp>>
    BY <1>10, NothingIsTable DEF Crash, AreTables
<1>11. ASSUME WipeDb PROVE IsTable(db)' /\ UNCHANGED <<files, tmp, rest, rows>>
    BY <1>11, NothingIsTable DEF WipeDb
<1>12. ASSUME Boot \/ BootDone PROVE UNCHANGED <<db, files, tmp, rest, rows>>
    BY <1>12 DEF Boot, BootDone
<1>13. ASSUME NEW f \in toRead, ReadFile(f)
       PROVE  IsTable(rest)' /\ UNCHANGED <<db, files, tmp, rows>>
    BY <1>0, <1>13 DEF ReadFile, AreTables, Phases
<1>14. ASSUME NEW k \in DOMAIN rest, ImportEntry(k)
       PROVE  IsTable(db)' /\ IsTable(rest)' /\ UNCHANGED <<files, tmp, rows>>
  <2>1. IsKey(Imported(k))
      BY <1>0, ImportedKey DEF IsTable
  <2>2. db' = With(db, Imported(k), rest[k]) /\ rest' = Without(rest, k)
      BY <1>14 DEF ImportEntry
  <2> QED
      BY <1>0, <1>14, <2>1, <2>2, WithTable, WithoutTable DEF ImportEntry
<1>15. CASE UNCHANGED vars
    BY <1>0, <1>15 DEF vars
<1> QED
    BY <1>0, <1>1, <1>2, <1>3, <1>4, <1>5, <1>6, <1>7, <1>8, <1>9, <1>10, <1>11, <1>12,
       <1>13, <1>14, <1>15, Zenon DEF Next, Export

LEMMA TypeStep == TypeOK /\ Phases /\ [Next]_vars => TypeOK'
<1> SUFFICES ASSUME TypeOK, Phases, [Next]_vars PROVE TypeOK'
    OBVIOUS
<1> DEFINE Places == {"idle", "import", "list", "write", "swap", "empty"}
           Control ==
               /\ server \in {"down", "booting", "up"}
               /\ pc \in [Threads -> Places]
               /\ todo = [t \in Threads |-> todo[t]]
               /\ current = [t \in Threads |-> current[t]]
               /\ revs \in 0..MaxRevs /\ crashes \in 0..MaxCrashes /\ wipes \in 0..MaxWipes
               /\ damaged \in BOOLEAN /\ clean \in BOOLEAN
               /\ solo \in Threads \cup {NoThread}
<1>0. Control
    BY DEF TypeOK
<1> USE SuppressionsAssumption DEF disk, import, bounds, history, exports
<1>1. ASSUME NEW t \in Analysts, Commit(t), revs' \in 0..MaxRevs PROVE Control'
  <2>1. t \in Threads
      BY DEF Threads
  <2> QED
      BY <1>0, <1>1, <2>1 DEF Commit
<1>2. ASSUME NEW t \in Analysts, NEW a \in Asked, Add(t, a) PROVE Control'
  <2>1. revs' \in 0..MaxRevs /\ Commit(t)
      BY <1>0, <1>2 DEF Add
  <2> QED
      BY <1>1, <2>1
<1>3. ASSUME NEW t \in Analysts, NEW k \in DOMAIN db, Remove(t, k) PROVE Control'
  <2>1. revs' \in 0..MaxRevs /\ Commit(t)
      BY <1>0, <1>3 DEF Remove
  <2> QED
      BY <1>1, <2>1
<1>4. ASSUME NEW t \in Threads, List(t) PROVE Control'
    BY <1>0, <1>4 DEF List
<1>5. ASSUME NEW t \in Threads, NEW f, WriteTmp(t, f) PROVE Control'
    BY <1>0, <1>5 DEF WriteTmp
<1>6. ASSUME NEW t \in Threads, Swap(t) PROVE Control'
    BY <1>0, <1>6 DEF Swap
<1>7. ASSUME NEW t \in Threads, SwapFails(t) PROVE Control'
    BY <1>0, <1>7 DEF SwapFails
<1>8. ASSUME NEW t \in Threads, ListDir(t) PROVE Control'
    BY <1>0, <1>8 DEF ListDir
<1>9. ASSUME NEW t \in Threads, NEW f, Empty(t, f) PROVE Control'
    BY <1>0, <1>9 DEF Empty
<1>10. ASSUME NEW t \in Threads, Done(t) PROVE Control'
    BY <1>0, <1>10 DEF Done
<1>11. ASSUME Crash PROVE Control'
    BY <1>0, <1>11 DEF Crash
<1>12. ASSUME WipeDb PROVE Control'
    BY <1>0, <1>12 DEF WipeDb
<1>13. ASSUME Boot \/ BootDone \/ \E k \in DOMAIN rest : ImportEntry(k) PROVE Control'
  <2>1. BootThread \in Threads
      BY DEF Threads
  <2> QED
      BY <1>0, <1>13, <2>1 DEF Boot, BootDone, ImportEntry
<1>14. ASSUME NEW f \in toRead, ReadFile(f) PROVE Control'
    BY <1>0, <1>14 DEF ReadFile
<1>15. ASSUME UNCHANGED vars PROVE Control'
    BY <1>0, <1>15 DEF vars
<1>16. Control'
  <2> HIDE DEF Control
  <2> QED
      BY <1>2, <1>3, <1>4, <1>5, <1>6, <1>7, <1>8, <1>9, <1>10, <1>11, <1>12, <1>13, <1>14,
         <1>15, Zenon DEF Next, Export
<1>17. /\ IsTable(db)' /\ AreTables(files)' /\ AreTables(tmp)' /\ IsTable(rest)'
       /\ DOMAIN rows' = Threads /\ AreTables(rows)'
    BY TablesStep
<1> QED
    BY <1>16, <1>17 DEF TypeOK

-----------------------------------------------------------------------------
(* Who is at work.                                                            *)

LEMMA PhasesStep == TypeOK /\ Phases /\ [Next]_vars => Phases'
<1> SUFFICES ASSUME TypeOK, Phases, [Next]_vars PROVE Phases'
    OBVIOUS
<1>0. /\ DOMAIN pc = Threads /\ BootThread \in Threads /\ BootThread \notin Analysts
      /\ Analysts \subseteq Threads /\ \A t \in Threads : t # BootThread => t \in Analysts
    BY SuppressionsAssumption DEF TypeOK, Threads
<1> USE DEF disk, import, bounds, history, exports
<1>1. ASSUME NEW t \in Analysts, Commit(t), server = "up" PROVE Phases'
  <2>1. /\ pc' = [pc EXCEPT ![t] = "list"]
        /\ UNCHANGED <<server, toRead, rest, files>>
      BY <1>1 DEF Commit
  <2> QED
      BY <1>0, <1>1, <2>1 DEF Phases
<1>2. ASSUME NEW t \in Analysts, \/ \E a \in Asked : Add(t, a)
                                 \/ \E k \in DOMAIN db : Remove(t, k)
      PROVE  Phases'
    BY <1>1, <1>2 DEF Add, Remove
<1>3. ASSUME NEW t \in Threads, List(t) PROVE Phases'
    BY <1>0, <1>3 DEF List, Phases
<1>4. ASSUME NEW t \in Threads, NEW f, WriteTmp(t, f) PROVE Phases'
  <2>1. tmp' = With(tmp, f, Bucket(rows[t], f)) /\ f \in DOMAIN tmp'
      BY <1>4 DEF WriteTmp, With
  <2>2. t = BootThread => current'[t] = f
      BY <1>0, <1>4 DEF WriteTmp, TypeOK
  <2>3. DOMAIN tmp \subseteq DOMAIN tmp'
      BY <2>1 DEF With
  <2> QED
      BY <1>0, <1>4, <2>1, <2>2, <2>3 DEF WriteTmp, Phases
<1>5. ASSUME NEW t \in Threads, Swap(t) PROVE Phases'
  <2>1. DOMAIN files \subseteq DOMAIN files'
      BY <1>5 DEF Swap, With
  <2>2. t = BootThread \/ pc[BootThread] = "idle"
      BY <1>0, <1>5 DEF Swap, Phases
  <2> QED
      BY <1>0, <1>5, <2>1, <2>2 DEF Swap, Phases
<1>7. ASSUME NEW t \in Threads, ListDir(t) PROVE Phases'
    BY <1>0, <1>7 DEF ListDir, Phases
<1>8. ASSUME NEW t \in Threads, NEW f, Empty(t, f) PROVE Phases'
    BY <1>8 DEF Empty, Phases
<1>9. ASSUME NEW t \in Threads, Done(t) PROVE Phases'
    BY <1>0, <1>9 DEF Done, Phases
<1>10. ASSUME Crash PROVE Phases'
    BY <1>0, <1>10 DEF Crash, Phases
<1>11. ASSUME WipeDb PROVE Phases'
    BY <1>11 DEF WipeDb, Phases
<1>12. ASSUME Boot PROVE Phases'
    BY <1>0, <1>12 DEF Boot, Phases
<1>13. ASSUME BootDone PROVE Phases'
    BY <1>0, <1>13 DEF BootDone, Phases
<1>14. ASSUME NEW f \in toRead, ReadFile(f) PROVE Phases'
    BY <1>0, <1>14 DEF ReadFile, Phases
<1>15. ASSUME NEW k \in DOMAIN rest, ImportEntry(k) PROVE Phases'
    BY <1>0, <1>15 DEF ImportEntry, Phases
<1>16. CASE UNCHANGED vars
    BY <1>16 DEF vars, Phases
<1>6. ASSUME NEW t \in Threads, SwapFails(t) PROVE Phases'
    BY <1>0, <1>6 DEF SwapFails, Phases
<1> QED
    BY <1>2, <1>3, <1>4, <1>5, <1>6, <1>7, <1>8, <1>9, <1>10, <1>11, <1>12, <1>13, <1>14,
       <1>15, <1>16, Zenon DEF Next, Export

-----------------------------------------------------------------------------
(* An export that runs alone.                                                 *)

\* The next thing an export does brings it on its way.
LEMMA OnItsWayStep ==
    ASSUME TypeOK, NEW t \in Threads, OnItsWay(t),
           \/ List(t) \/ Swap(t) \/ ListDir(t)
           \/ \E f \in todo[t] : WriteTmp(t, f) \/ Empty(t, f)
    PROVE  OnItsWay(t)'
<1>0. /\ DOMAIN pc = Threads /\ DOMAIN rows = Threads
      /\ DOMAIN todo = Threads /\ DOMAIN current = Threads
    BY DEF TypeOK
<1> USE DEF disk, import, bounds, history, Exporting
<1>1. CASE List(t)
  <2>1. /\ pc'[t] = "write" /\ rows'[t] = db' /\ todo'[t] = FilesOf(db)'
      BY <1>0, <1>1 DEF List, FilesOf
  <2> QED
      BY <2>1 DEF OnItsWay
<1>2. CASE Swap(t)
  <2> DEFINE c == current[t]
  <2>1. /\ pc[t] = "swap" /\ pc'[t] = "write" /\ rows' = rows /\ db' = db
        /\ todo'[t] = todo[t] \ {c}
        /\ files' = With(files, c, tmp[c])
      BY <1>0, <1>2 DEF Swap
  <2>2. /\ rows[t] = db /\ todo[t] \subseteq FilesOf(db) /\ tmp[c] = Bucket(db, c)
        /\ \A f \in FilesOf(db) \ todo[t] : Swapped(f)
      BY <2>1 DEF OnItsWay
  <2>3. FilesOf(db)' = FilesOf(db) /\ \A f : Bucket(db, f)' = Bucket(db, f)
      BY <2>1 DEF FilesOf, Bucket, RestrictDomain, Restrict
  <2> HIDE DEF c
  <2>4. ASSUME NEW f \in FilesOf(db) \ todo'[t] PROVE Swapped(f)'
    <3>1. CASE f = c
        BY <2>1, <2>2, <2>3, <3>1 DEF Swapped, With
    <3>2. CASE f # c
      <4>1. Swapped(f)
          BY <2>1, <2>2, <2>4, <3>2
      <4> QED
          BY <2>1, <2>3, <3>2, <4>1 DEF Swapped, With
    <3> QED
        BY <3>1, <3>2
  <2>5. todo'[t] \subseteq FilesOf(db)' /\ \A f \in FilesOf(db)' \ todo'[t] : Swapped(f)'
      BY <2>1, <2>2, <2>3, <2>4
  <2> QED
      BY <2>1, <2>2, <2>5 DEF OnItsWay
<1>3. CASE ListDir(t)
  <2>1. /\ pc[t] = "write" /\ todo[t] = {} /\ pc'[t] = "empty"
        /\ todo'[t] = DOMAIN files \ FilesOf(rows[t])
        /\ rows' = rows /\ db' = db /\ files' = files
      BY <1>0, <1>3 DEF ListDir
  <2>2. rows[t] = db /\ \A f \in FilesOf(db) : Swapped(f)
      BY <2>1 DEF OnItsWay
  <2>3. /\ FilesOf(db)' = FilesOf(db)
        /\ \A f : Swapped(f)' <=> Swapped(f)
      BY <2>1 DEF FilesOf, Swapped, Bucket, RestrictDomain, Restrict
  <2> QED
      BY <2>1, <2>2, <2>3 DEF OnItsWay
<1>4. ASSUME NEW f \in todo[t], WriteTmp(t, f) PROVE OnItsWay(t)'
  <2>1. /\ pc[t] = "write" /\ pc'[t] = "swap" /\ current'[t] = f
        /\ tmp' = With(tmp, f, Bucket(rows[t], f))
        /\ rows' = rows /\ db' = db /\ files' = files /\ todo' = todo
      BY <1>0, <1>4 DEF WriteTmp
  <2>2. /\ rows[t] = db /\ todo[t] \subseteq FilesOf(db)
        /\ \A g \in FilesOf(db) \ todo[t] : Swapped(g)
      BY <2>1 DEF OnItsWay
  <2>3. /\ FilesOf(db)' = FilesOf(db)
        /\ \A g : Swapped(g)' <=> Swapped(g)
        /\ Bucket(db, f)' = Bucket(db, f)
      BY <2>1 DEF FilesOf, Swapped, Bucket, RestrictDomain, Restrict
  <2>4. f \in DOMAIN tmp' /\ tmp'[f] = Bucket(db, f)
      BY <2>1, <2>2 DEF With
  <2>5. Bucket(db, current[t])' = Bucket(db, f)
      BY <2>1 DEF Bucket, RestrictDomain, Restrict
  <2> QED
      BY <2>1, <2>2, <2>3, <2>4, <2>5 DEF OnItsWay
<1>5. ASSUME NEW f \in todo[t], Empty(t, f) PROVE OnItsWay(t)'
  <2>1. /\ pc[t] = "empty" /\ pc' = pc /\ todo'[t] = todo[t] \ {f}
        /\ files' = [files EXCEPT ![f] = Nothing]
        /\ rows' = rows /\ db' = db
      BY <1>0, <1>5 DEF Empty
  <2>2. /\ rows[t] = db /\ todo[t] \subseteq DOMAIN files \ FilesOf(db)
        /\ \A g \in FilesOf(db) : Swapped(g)
        /\ \A g \in DOMAIN files \ (FilesOf(db) \cup todo[t]) : files[g] = Nothing
      BY <2>1 DEF OnItsWay
  <2>3. FilesOf(db)' = FilesOf(db) /\ \A g : Bucket(db, g)' = Bucket(db, g)
      BY <2>1 DEF FilesOf, Bucket, RestrictDomain, Restrict
  <2>4. \A g \in FilesOf(db) : Swapped(g)'
    <3>1. f \notin FilesOf(db)
        BY <2>2
    <3> QED
        BY <2>1, <2>2, <2>3, <3>1 DEF Swapped
  <2>5. \A g \in DOMAIN files' \ (FilesOf(db) \cup todo'[t]) : files'[g] = Nothing
      BY <2>1, <2>2 DEF Nothing
  <2>6. todo'[t] \subseteq DOMAIN files' \ FilesOf(db)
      BY <2>1, <2>2
  <2>7. Nothing' = Nothing
      BY DEF Nothing
  <2> QED
      BY <2>1, <2>2, <2>3, <2>4, <2>5, <2>6, <2>7 DEF OnItsWay
<1> QED
    BY <1>1, <1>2, <1>3, <1>4, <1>5

Exports(t) ==
    \/ List(t) \/ Swap(t) \/ ListDir(t)
    \/ \E f \in todo[t] : WriteTmp(t, f) \/ Empty(t, f)

\* A step of an export moves nobody else, and does not end it.
LEMMA ExportsFrame ==
    ASSUME TypeOK, NEW t \in Threads, Exports(t)
    PROVE  /\ UNCHANGED <<server, db, rest, toRead, damaged, solo, clean>>
           /\ Exporting(t) /\ Exporting(t)'
           /\ \A u \in Threads \ {t} : pc'[u] = pc[u]
<1>0. DOMAIN pc = Threads
    BY DEF TypeOK
<1> QED
    BY <1>0 DEF Exports, List, Swap, ListDir, WriteTmp, Empty, Exporting,
                disk, import, bounds, history, exports

LEMMA AloneStep ==
    ASSUME TypeOK, Phases, Alone, [Next]_vars
    PROVE  Alone'
<1>0. /\ DOMAIN pc = Threads /\ BootThread \in Threads /\ Analysts \subseteq Threads
      /\ solo \in Threads \cup {NoThread} /\ NoThread \notin Threads
      /\ \A t \in Threads : t # BootThread => t \in Analysts
    BY SuppressionsAssumption DEF TypeOK, Threads
<1> USE DEF disk, import, bounds, history, exports
\* An export begins.
<1>b. ASSUME NEW t \in Threads, \A u \in Threads : ~ Exporting(u),
             pc' = [pc EXCEPT ![t] = "list"], solo' = t
      PROVE  Alone'
  <2>1. pc'[t] = "list" /\ \A u \in Threads \ {t} : pc'[u] = pc[u]
      BY <1>0, <1>b
  <2>2. OnItsWay(t)'
      BY <2>1 DEF OnItsWay, Exporting
  <2>3. \A u \in Threads \ {t} : ~ Exporting(u)'
      BY <1>b, <2>1 DEF Exporting
  <2> QED
      BY <1>b, <2>2, <2>3 DEF Alone
\* Nobody's export goes on, and what it is about stays.
<1>u. ASSUME UNCHANGED <<db, files, tmp, rows, todo, current, solo>>,
             \A t \in Threads : Exporting(t)' <=> Exporting(t),
             \A t \in Threads : Exporting(t) => pc'[t] = pc[t]
      PROVE  Alone'
  <2> SUFFICES ASSUME solo # NoThread
               PROVE  OnItsWay(solo)' /\ \A t \in Threads \ {solo} : ~ Exporting(t)'
      BY <1>u DEF Alone
  <2>1. solo \in Threads /\ OnItsWay(solo) /\ \A t \in Threads \ {solo} : ~ Exporting(t)
      BY <1>0 DEF Alone
  <2>2. Exporting(solo) /\ pc'[solo] = pc[solo]
      BY <1>u, <2>1 DEF OnItsWay
  <2>3. OnItsWay(solo)'
    <3> DEFINE t == solo
    <3>1. /\ FilesOf(db)' = FilesOf(db) /\ Nothing' = Nothing
          /\ \A f : Bucket(db, f)' = Bucket(db, f)
          /\ \A f : Swapped(f)' <=> Swapped(f)
        BY <1>u DEF FilesOf, Nothing, Swapped, Bucket, RestrictDomain, Restrict
    <3>2. /\ t' = t /\ pc'[t] = pc[t] /\ OnItsWay(t) /\ Exporting(t)
          /\ rows'[t] = rows[t] /\ todo'[t] = todo[t] /\ current'[t] = current[t]
          /\ db' = db /\ files' = files /\ tmp' = tmp
        BY <1>u, <2>1, <2>2
    <3>3. Exporting(t)'
        BY <3>2 DEF Exporting
    <3>4. Bucket(db, current[t])' = Bucket(db, current[t])
        BY <3>2 DEF Bucket, RestrictDomain, Restrict
    <3> HIDE DEF t
    <3>5. OnItsWay(t)'
        BY <3>1, <3>2, <3>3, <3>4 DEF OnItsWay
    <3> QED
        BY <3>5 DEF t
  <2> QED
      BY <1>u, <2>1, <2>3
<1>1. ASSUME NEW t \in Analysts, Commit(t) PROVE Alone'
  <2>1. pc' = [pc EXCEPT ![t] = "list"] /\ solo' = IF Quiet THEN t ELSE NoThread
      BY <1>1 DEF Commit
  <2>2. CASE Quiet
    <3>1. \A u \in Threads : ~ Exporting(u)
        BY <2>2 DEF Quiet, Exporting
    <3> QED
        BY <1>0, <1>b, <2>1, <2>2, <3>1
  <2>3. CASE ~ Quiet
      BY <2>1, <2>3 DEF Alone
  <2> QED
      BY <2>2, <2>3
<1>2. ASSUME NEW t \in Analysts, \/ \E a \in Asked : Add(t, a)
                                 \/ \E k \in DOMAIN db : Remove(t, k)
      PROVE  Alone'
    BY <1>1, <1>2 DEF Add, Remove
<1>3. ASSUME NEW t \in Threads, Exports(t) PROVE Alone'
  <2>1. /\ solo' = solo /\ Exporting(t) /\ Exporting(t)'
        /\ \A u \in Threads \ {t} : pc'[u] = pc[u]
      BY <1>3, ExportsFrame
  <2>2. CASE solo = t
    <3>1. OnItsWay(t) /\ \A u \in Threads \ {t} : ~ Exporting(u)
        BY <1>0, <2>2 DEF Alone
    <3>2. OnItsWay(t)'
        BY <1>3, <3>1, OnItsWayStep DEF Exports
    <3>3. \A u \in Threads \ {t} : ~ Exporting(u)'
        BY <2>1, <3>1 DEF Exporting
    <3> QED
        BY <2>1, <2>2, <3>2, <3>3 DEF Alone
  <2>3. CASE solo # t
    <3>1. solo = NoThread
        BY <2>1, <2>3 DEF Alone
    <3> QED
        BY <2>1, <3>1 DEF Alone
  <2> QED
      BY <2>2, <2>3
<1>4. ASSUME NEW t \in Threads, SwapFails(t) PROVE Alone'
  <2>1. pc[t] = "swap" /\ current[t] \notin DOMAIN tmp /\ solo' = solo
      BY <1>4 DEF SwapFails
  <2>2. solo # t
      BY <1>0, <2>1 DEF Alone, OnItsWay
  <2>3. solo = NoThread
      BY <2>1, <2>2 DEF Alone, Exporting
  <2> QED
      BY <2>1, <2>3 DEF Alone
<1>5. ASSUME NEW t \in Threads, Done(t) PROVE Alone'
  <2>1. pc[t] = "empty" /\ solo' = IF solo = t THEN NoThread ELSE solo
      BY <1>5 DEF Done
  <2>2. solo # t => solo = NoThread
      BY <2>1 DEF Alone, Exporting
  <2> QED
      BY <2>1, <2>2 DEF Alone
<1>6. ASSUME Crash PROVE Alone'
    BY <1>6 DEF Crash, Alone
<1>7. ASSUME WipeDb PROVE Alone'
  <2>1. server = "down" /\ solo' = solo
      BY <1>7 DEF WipeDb
  <2>2. \A t \in Threads : ~ Exporting(t)
      BY <1>0, <2>1 DEF Phases, Exporting
  <2>3. solo = NoThread
      BY <1>0, <2>2 DEF Alone, OnItsWay
  <2> QED
      BY <2>1, <2>3 DEF Alone
<1>8. ASSUME Boot PROVE Alone'
  <2>1. /\ UNCHANGED <<db, files, tmp, rows, todo, current, solo>>
        /\ pc' = [pc EXCEPT ![BootThread] = "import"] /\ pc[BootThread] = "idle"
      BY <1>0, <1>8 DEF Boot, Phases
  <2> QED
      BY <1>0, <1>u, <2>1 DEF Exporting
<1>9. ASSUME BootDone PROVE Alone'
  <2>1. /\ UNCHANGED <<db, files, tmp, rows, todo, current, solo>>
        /\ pc' = [pc EXCEPT ![BootThread] = "idle"] /\ pc[BootThread] = "import"
      BY <1>9 DEF BootDone
  <2> QED
      BY <1>0, <1>u, <2>1 DEF Exporting
<1>10. ASSUME NEW f \in toRead, ReadFile(f) PROVE Alone'
  <2>1. UNCHANGED <<db, files, tmp, rows, todo, current, solo, pc>>
      BY <1>10 DEF ReadFile
  <2> QED
      BY <1>u, <2>1 DEF Exporting
<1>11. ASSUME NEW k \in DOMAIN rest, ImportEntry(k) PROVE Alone'
  <2>1. /\ pc' = [pc EXCEPT ![BootThread] = "list"] /\ solo' = BootThread
        /\ pc[BootThread] = "import"
      BY <1>11 DEF ImportEntry
  <2>2. \A u \in Threads : ~ Exporting(u)
      BY <1>0, <2>1 DEF Phases, Exporting
  <2> QED
      BY <1>0, <1>b, <2>1, <2>2
<1>12. CASE UNCHANGED vars
  <2>1. UNCHANGED <<db, files, tmp, rows, todo, current, solo, pc>>
      BY <1>12 DEF vars
  <2> QED
      BY <1>u, <2>1 DEF Exporting
<1> QED
    BY <1>2, <1>3, <1>4, <1>5, <1>6, <1>7, <1>8, <1>9, <1>10, <1>11, <1>12, Zenon
    DEF Next, Export, Exports

\* An export that has come to its end has brought the snapshots up to date.
LEMMA EndOfExport ==
    ASSUME NEW t \in Threads, OnItsWay(t), pc[t] = "empty", todo[t] = {}
    PROVE  SnapshotsAgree
<1>1. /\ \A f \in FilesOf(db) : Swapped(f)
      /\ \A f \in DOMAIN files \ FilesOf(db) : files[f] = Nothing
    BY DEF OnItsWay
<1> QED
    BY <1>1, BucketEmpty DEF SnapshotsAgree, Agrees, Says, Swapped

LEMMA SameSnapshots ==
    ASSUME SnapshotsAgree, UNCHANGED <<db, files>>
    PROVE  SnapshotsAgree'
    BY DEF SnapshotsAgree, Agrees, Says, FilesOf, Bucket, RestrictDomain, Restrict, Nothing

LEMMA UndamagedStep ==
    ASSUME TypeOK, Phases, Alone, Undamaged, [Next]_vars
    PROVE  Undamaged'
<1>0. /\ DOMAIN pc = Threads /\ BootThread \in Threads /\ Analysts \subseteq Threads
      /\ solo \in Threads \cup {NoThread} /\ NoThread \notin Threads
      /\ \A t \in Threads : t # BootThread => t \in Analysts
    BY SuppressionsAssumption DEF TypeOK, Threads
<1> USE DEF disk, import, bounds, history, exports
\* One thread is at work on an export, alone.
<1>b. ASSUME NEW t \in Threads, Exporting(t)', solo' = t,
             \A u \in Threads \ {t} : ~ Exporting(u)'
      PROVE  Undamaged'
    BY <1>b DEF Undamaged
\* Nobody is at work on an export.
<1>u. ASSUME \A t \in Threads : ~ Exporting(t)', ~ damaged' => SnapshotsAgree'
      PROVE  Undamaged'
    BY <1>u DEF Undamaged
<1>1. ASSUME NEW t \in Analysts, Commit(t) PROVE Undamaged'
  <2>1. /\ pc' = [pc EXCEPT ![t] = "list"] /\ solo' = IF Quiet THEN t ELSE NoThread
        /\ damaged' = (damaged \/ ~ Quiet)
      BY <1>1 DEF Commit
  <2>2. CASE Quiet
    <3>1. Exporting(t)' /\ solo' = t /\ \A u \in Threads \ {t} : ~ Exporting(u)'
        BY <1>0, <2>1, <2>2 DEF Quiet, Exporting
    <3> QED
        BY <1>0, <1>b, <3>1
  <2>3. CASE ~ Quiet
      BY <2>1, <2>3 DEF Undamaged
  <2> QED
      BY <2>2, <2>3
<1>2. ASSUME NEW t \in Analysts, \/ \E a \in Asked : Add(t, a)
                                 \/ \E k \in DOMAIN db : Remove(t, k)
      PROVE  Undamaged'
    BY <1>1, <1>2 DEF Add, Remove
<1>3. ASSUME NEW t \in Threads, Exports(t) PROVE Undamaged'
  <2>1. /\ solo' = solo /\ damaged' = damaged /\ Exporting(t) /\ Exporting(t)'
        /\ \A u \in Threads \ {t} : pc'[u] = pc[u]
      BY <1>3, ExportsFrame
  <2> QED
      BY <2>1 DEF Undamaged, Exporting
<1>4. ASSUME NEW t \in Threads, SwapFails(t) PROVE Undamaged'
    BY <1>4 DEF SwapFails, Undamaged
<1>5. ASSUME NEW t \in Threads, Done(t) PROVE Undamaged'
  <2>1. /\ pc[t] = "empty" /\ todo[t] = {} /\ UNCHANGED <<db, files>>
        /\ pc' = [pc EXCEPT ![t] = IF t = BootThread THEN "import" ELSE "idle"]
        /\ damaged' = (damaged /\ solo # t)
      BY <1>5 DEF Done
  <2>2. CASE solo = t
    <3>1. OnItsWay(t) /\ \A u \in Threads \ {t} : ~ Exporting(u)
        BY <1>0, <2>2 DEF Alone
    <3>2. SnapshotsAgree'
        BY <2>1, <3>1, EndOfExport, SameSnapshots
    <3>3. \A u \in Threads : ~ Exporting(u)'
        BY <1>0, <2>1, <3>1 DEF Exporting
    <3> QED
        BY <1>u, <3>2, <3>3
  <2>3. CASE solo # t
    <3>1. Exporting(t)
        BY <2>1 DEF Exporting
    <3>2. damaged
        BY <2>3, <3>1 DEF Undamaged
    <3> QED
        BY <2>1, <2>3, <3>2 DEF Undamaged
  <2> QED
      BY <2>2, <2>3
<1>6. ASSUME Crash PROVE Undamaged'
  <2>1. /\ UNCHANGED <<db, files>> /\ pc' = [t \in Threads |-> "idle"]
        /\ damaged' = (damaged \/ \E t \in Threads : pc[t] \notin {"idle", "import"})
      BY <1>6 DEF Crash
  <2>2. ~ damaged' => SnapshotsAgree'
      BY <2>1, SameSnapshots DEF Undamaged, Exporting
  <2>3. \A t \in Threads : ~ Exporting(t)'
      BY <2>1 DEF Exporting
  <2> QED
      BY <1>u, <2>2, <2>3
<1>7. ASSUME WipeDb PROVE Undamaged'
  <2>1. /\ server = "down" /\ UNCHANGED <<files, pc>>
        /\ db' = Nothing /\ damaged' = (damaged \/ db # Nothing)
      BY <1>7 DEF WipeDb
  <2>2. \A t \in Threads : ~ Exporting(t) /\ ~ Exporting(t)'
      BY <1>0, <2>1 DEF Phases, Exporting
  <2>3. ~ damaged' => SnapshotsAgree'
      BY <2>1, <2>2, SameSnapshots DEF Undamaged
  <2> QED
      BY <1>u, <2>2, <2>3
<1>8. ASSUME Boot \/ BootDone PROVE Undamaged'
  <2>1. /\ UNCHANGED <<db, files, damaged>>
        /\ pc[BootThread] \in {"idle", "import"}
        /\ \E place \in {"idle", "import"} : pc' = [pc EXCEPT ![BootThread] = place]
        /\ \A t \in Analysts : pc[t] = "idle"
      BY <1>0, <1>8 DEF Boot, BootDone, Phases
  <2>2. \A t \in Threads : ~ Exporting(t) /\ ~ Exporting(t)'
      BY <1>0, <2>1 DEF Exporting
  <2>3. ~ damaged' => SnapshotsAgree'
      BY <2>1, <2>2, SameSnapshots DEF Undamaged
  <2> QED
      BY <1>u, <2>2, <2>3
<1>10. ASSUME UNCHANGED <<db, files, damaged, solo, pc>> PROVE Undamaged'
    BY <1>10, SameSnapshots DEF Undamaged, Exporting
<1>11. ASSUME NEW k \in DOMAIN rest, ImportEntry(k) PROVE Undamaged'
  <2>1. /\ pc' = [pc EXCEPT ![BootThread] = "list"] /\ solo' = BootThread
        /\ pc[BootThread] = "import"
      BY <1>11 DEF ImportEntry
  <2>2. Exporting(BootThread)' /\ \A u \in Threads \ {BootThread} : ~ Exporting(u)'
      BY <1>0, <2>1 DEF Phases, Exporting
  <2> QED
      BY <1>0, <1>b, <2>1, <2>2
<1>12. ASSUME \/ UNCHANGED vars
              \/ \E f \in toRead : ReadFile(f)
       PROVE  UNCHANGED <<db, files, damaged, solo, pc>>
    BY <1>12 DEF vars, ReadFile
<1> QED
    BY <1>2, <1>3, <1>4, <1>5, <1>6, <1>7, <1>8, <1>10, <1>11, <1>12, Zenon
    DEF Next, Export, Exports

-----------------------------------------------------------------------------
(* A boot reads back what is there.                                           *)

Unescaped == \A k \in DOMAIN db : ~ Doubled(k.like)

LEMMA PartOfSame ==
    ASSUME NEW table, PartOfDb(table), db' = db
    PROVE  PartOfDb(table)'
    BY DEF PartOfDb

\* An entry that is in the table already is added as itself.
LEMMA ImportedSame ==
    ASSUME TypeOK, Unescaped, NEW k \in DOMAIN db
    PROVE  With(db, Imported(k), db[k]) = db
<1>1. IsTable(db) /\ IsKey(k) /\ ~ Doubled(k.like)
    BY DEF TypeOK, IsTable, Unescaped
<1>2. Imported(k) = k
    BY <1>1 DEF IsKey
<1>3. db = [j \in DOMAIN db |-> db[j]]
    BY <1>1 DEF IsTable
<1> QED
    BY <1>2, <1>3 DEF With

LEMMA BootStep ==
    ASSUME TypeOK, Phases, Undamaged, BootReads, [Next]_vars
    PROVE  BootReads'
<1>0. /\ DOMAIN pc = Threads /\ DOMAIN rows = Threads /\ DOMAIN current = Threads
      /\ BootThread \in Threads /\ Analysts \subseteq Threads
      /\ \A t \in Threads : t # BootThread => t \in Analysts
    BY SuppressionsAssumption DEF TypeOK, Threads
<1> USE DEF disk, import, bounds, history, exports
<1> DEFINE b == BootThread
           GoodFiles == \A f \in DOMAIN files : PartOfDb(files[f])
           GoodRows == pc[b] \in {"write", "swap"} => PartOfDb(rows[b])
           GoodTmp == pc[b] = "swap" => PartOfDb(tmp[current[b]])
\* What a step of a boot finds.
<1>g. ASSUME server = "booting", clean, Unescaped
      PROVE  /\ PartOfDb(rest) /\ GoodFiles /\ GoodRows /\ GoodTmp
             /\ \A t \in Threads : pc[t] # "idle" => t = b
    BY <1>0, <1>g DEF BootReads, Unescaped, Phases
\* The table, the files and the entries stay, and so does the boot's clean start.
<1>p. ASSUME UNCHANGED <<server, clean, db, files, rest>>,
             server = "booting" /\ clean /\ Unescaped => GoodRows' /\ GoodTmp'
      PROVE  BootReads'
  <2>1. SUFFICES ASSUME server = "booting", clean, Unescaped
                 PROVE  PartOfDb(rest)' /\ (\A f \in DOMAIN files' : PartOfDb(files[f])')
                        /\ GoodRows' /\ GoodTmp'
      BY <1>p DEF BootReads, Unescaped
  <2>2. PartOfDb(rest)' /\ \A f \in DOMAIN files' : PartOfDb(files[f])'
      BY <1>p, <1>g, <2>1 DEF PartOfDb
  <2> QED
      BY <1>p, <2>1, <2>2
<1>1. ASSUME NEW t \in Analysts, \/ \E a \in Asked : Add(t, a)
                                 \/ \E k \in DOMAIN db : Remove(t, k)
      PROVE  BootReads'
  <2>1. server' = "up"
      BY <1>1 DEF Add, Remove, Commit
  <2> QED
      BY <2>1 DEF BootReads
<1>2. ASSUME NEW t \in Threads, List(t) PROVE BootReads'
  <2>1. /\ pc[t] = "list" /\ UNCHANGED <<server, clean, db, files, rest>>
        /\ rows' = [rows EXCEPT ![t] = db] /\ pc' = [pc EXCEPT ![t] = "write"]
      BY <1>2 DEF List
  <2>2. ASSUME server = "booting", clean, Unescaped PROVE GoodRows' /\ GoodTmp'
    <3>1. t = b
        BY <1>g, <2>1, <2>2
    <3>2. rows'[b] = db /\ pc'[b] = "write"
        BY <1>0, <2>1, <3>1
    <3> QED
        BY <2>1, <3>2 DEF PartOfDb
  <2> QED
      BY <1>p, <2>1, <2>2
<1>3. ASSUME NEW t \in Threads, NEW f \in todo[t], WriteTmp(t, f) PROVE BootReads'
  <2>1. /\ pc[t] = "write" /\ UNCHANGED <<server, clean, db, files, rest, rows>>
        /\ tmp' = With(tmp, f, Bucket(rows[t], f))
        /\ current' = [current EXCEPT ![t] = f] /\ pc' = [pc EXCEPT ![t] = "swap"]
      BY <1>3 DEF WriteTmp
  <2>2. ASSUME server = "booting", clean, Unescaped PROVE GoodRows' /\ GoodTmp'
    <3>1. t = b /\ PartOfDb(rows[b])
        BY <1>g, <2>1, <2>2
    <3>2. tmp'[current'[b]] = Bucket(rows[b], f)
        BY <1>0, <2>1, <3>1 DEF With
    <3>3. IsTable(rows[b])
        BY <1>0 DEF TypeOK, AreTables
    <3>4. PartOfDb(Bucket(rows[b], f))
        BY <3>1, <3>3, BucketTable DEF PartOfDb
    <3> QED
        BY <2>1, <3>1, <3>2, <3>4 DEF PartOfDb
  <2> QED
      BY <1>p, <2>1, <2>2
<1>4. ASSUME NEW t \in Threads, Swap(t) PROVE BootReads'
  <2>1. /\ pc[t] = "swap" /\ UNCHANGED <<server, clean, db, rest, rows>>
        /\ files' = With(files, current[t], tmp[current[t]])
        /\ pc' = [pc EXCEPT ![t] = "write"]
      BY <1>4 DEF Swap
  <2>2. SUFFICES ASSUME server = "booting", clean, Unescaped
                 PROVE  PartOfDb(rest)' /\ GoodFiles' /\ GoodRows' /\ GoodTmp'
      BY <2>1 DEF BootReads, Unescaped
  <2>3. t = b /\ PartOfDb(rest) /\ PartOfDb(rows[b]) /\ PartOfDb(tmp[current[b]]) /\ GoodFiles
      BY <1>g, <2>1, <2>2
  <2>4. pc'[b] = "write" /\ rows'[b] = rows[b]
      BY <1>0, <2>1, <2>3
  <2>5. \A f \in DOMAIN files' : PartOfDb(files'[f])
      BY <2>1, <2>3 DEF With
  <2> QED
      BY <2>1, <2>3, <2>4, <2>5 DEF PartOfDb
<1>5. ASSUME NEW t \in Threads, NEW f \in todo[t], Empty(t, f) PROVE BootReads'
  <2>1. /\ pc[t] = "empty" /\ UNCHANGED <<server, clean, db, rest, rows, pc, tmp, current>>
        /\ files' = [files EXCEPT ![f] = Nothing]
      BY <1>5 DEF Empty
  <2>2. SUFFICES ASSUME server = "booting", clean, Unescaped
                 PROVE  PartOfDb(rest)' /\ GoodFiles' /\ GoodRows' /\ GoodTmp'
      BY <2>1 DEF BootReads, Unescaped
  <2>3. PartOfDb(rest) /\ pc[b] = "empty" /\ GoodFiles
      BY <1>g, <2>1, <2>2
  <2>4. PartOfDb(Nothing)
      BY NothingIsTable DEF PartOfDb
  <2>5. \A g \in DOMAIN files' : PartOfDb(files'[g])
      BY <2>1, <2>3, <2>4
  <2> QED
      BY <2>1, <2>3, <2>5 DEF PartOfDb
<1>6. ASSUME NEW t \in Threads, SwapFails(t) \/ ListDir(t) \/ Done(t) PROVE BootReads'
  <2>1. /\ pc[t] \notin {"idle"} /\ UNCHANGED <<server, clean, db, files, rest>>
        /\ \E place \in {"idle", "empty", "import"} : pc' = [pc EXCEPT ![t] = place]
      BY <1>6 DEF SwapFails, ListDir, Done
  <2>2. ASSUME server = "booting", clean, Unescaped PROVE GoodRows' /\ GoodTmp'
    <3>1. t = b
        BY <1>g, <2>1, <2>2
    <3> QED
        BY <1>0, <2>1, <3>1
  <2> QED
      BY <1>p, <2>1, <2>2
<1>7. ASSUME Crash \/ WipeDb \/ BootDone PROVE BootReads'
  <2>1. server' \in {"down", "up"}
      BY <1>7 DEF Crash, WipeDb, BootDone
  <2> QED
      BY <2>1 DEF BootReads
<1>8. ASSUME Boot PROVE BootReads'
  <2>1. /\ server = "down" /\ UNCHANGED <<db, files, rest>> /\ clean' = ~ damaged
        /\ pc' = [pc EXCEPT ![b] = "import"]
      BY <1>8 DEF Boot
  <2>2. SUFFICES ASSUME ~ damaged
                 PROVE  PartOfDb(rest)' /\ GoodFiles' /\ GoodRows' /\ GoodTmp'
      BY <2>1 DEF BootReads
  <2>3. \A t \in Threads : ~ Exporting(t)
      BY <1>0, <2>1 DEF Phases, Exporting
  <2>4. SnapshotsAgree
      BY <2>2, <2>3 DEF Undamaged
  <2>5. ASSUME NEW f \in DOMAIN files PROVE PartOfDb(files[f])
    <3>1. files[f] = Bucket(db, f)
        BY <2>4, <2>5 DEF SnapshotsAgree, Agrees, Says
    <3>2. IsTable(db)
        BY DEF TypeOK
    <3>3. PartOfDb(Bucket(db, f))
        BY <3>2, BucketTable DEF PartOfDb
    <3> QED
        BY <3>1, <3>3
  <2>6. PartOfDb(rest)
      BY <2>1, NothingIsTable DEF Phases, PartOfDb
  <2>7. pc'[b] = "import"
      BY <1>0, <2>1
  <2> QED
      BY <2>1, <2>5, <2>6, <2>7 DEF PartOfDb
<1>9. ASSUME NEW f \in toRead, ReadFile(f) PROVE BootReads'
  <2>1. /\ pc[b] = "import" /\ f \in DOMAIN files /\ rest' = files[f]
        /\ UNCHANGED <<server, clean, db, files, rows, tmp, pc, current>>
      BY <1>9 DEF ReadFile, Phases
  <2>2. SUFFICES ASSUME server = "booting", clean, Unescaped
                 PROVE  PartOfDb(rest)' /\ GoodFiles' /\ GoodRows' /\ GoodTmp'
      BY <2>1 DEF BootReads, Unescaped
  <2> QED
      BY <1>g, <2>1, <2>2 DEF PartOfDb
<1>10. ASSUME NEW k \in DOMAIN rest, ImportEntry(k) PROVE BootReads'
  <2>1. /\ db' = With(db, Imported(k), rest[k]) /\ rest' = Without(rest, k)
        /\ pc' = [pc EXCEPT ![b] = "list"]
        /\ UNCHANGED <<server, clean, files>>
      BY <1>10 DEF ImportEntry
  <2>2. SUFFICES ASSUME server = "booting", clean, Unescaped'
                 PROVE  PartOfDb(rest)' /\ GoodFiles' /\ GoodRows' /\ GoodTmp'
      BY <2>1 DEF BootReads, Unescaped
  <2>3. Unescaped
      BY <2>1, <2>2 DEF Unescaped, With
  <2>4. PartOfDb(rest) /\ GoodFiles
      BY <1>g, <2>2, <2>3
  <2>5. db' = db
      BY <2>1, <2>3, <2>4, ImportedSame DEF PartOfDb
  <2>6. pc'[b] = "list"
      BY <1>0, <2>1
  <2>7. \A j \in DOMAIN rest' : j \in DOMAIN rest /\ rest'[j] = rest[j]
      BY <2>1 DEF Without, Restrict
  <2> QED
      BY <2>1, <2>4, <2>5, <2>6, <2>7 DEF PartOfDb
<1>11. ASSUME UNCHANGED vars PROVE BootReads'
  <2>1. UNCHANGED <<server, clean, db, files, rest, rows, tmp, pc, current>>
      BY <1>11 DEF vars
  <2> QED
      BY <2>1 DEF BootReads, PartOfDb
<1> QED
    BY <1>1, <1>2, <1>3, <1>4, <1>5, <1>6, <1>7, <1>8, <1>9, <1>10, <1>11, Zenon
    DEF Next, Export

-----------------------------------------------------------------------------
(* The theorems.                                                              *)

LEMMA InitIndInv == Init => IndInv
<1> SUFFICES ASSUME Init PROVE IndInv
    OBVIOUS
<1> USE NothingIsTable
<1>1. TypeOK
  <2>1. DOMAIN Nothing = {} /\ Nothing = [f \in DOMAIN Nothing |-> Nothing[f]]
      BY DEF Nothing
  <2>2. AreTables(Nothing)
      BY <2>1 DEF AreTables
  <2>3. DOMAIN rows = Threads /\ AreTables(rows)
      BY DEF Init, AreTables
  <2>4. /\ pc \in [Threads -> {"idle", "import", "list", "write", "swap", "empty"}]
        /\ todo = [t \in Threads |-> todo[t]] /\ current = [t \in Threads |-> current[t]]
      BY DEF Init
  <2>5. /\ server \in {"down", "booting", "up"}
        /\ revs \in 0..MaxRevs /\ crashes \in 0..MaxCrashes /\ wipes \in 0..MaxWipes
        /\ damaged \in BOOLEAN /\ clean \in BOOLEAN
        /\ solo \in Threads \cup {NoThread}
    <3>1. MaxRevs \in Nat /\ MaxCrashes \in Nat /\ MaxWipes \in Nat
        BY SuppressionsAssumption
    <3>2. 0 \in 0..MaxRevs /\ 0 \in 0..MaxCrashes /\ 0 \in 0..MaxWipes
        BY <3>1
    <3> QED
        BY <3>2 DEF Init
  <2>6. IsTable(db) /\ AreTables(files) /\ AreTables(tmp) /\ IsTable(rest)
      BY <2>2 DEF Init
  <2> QED
      BY <2>3, <2>4, <2>5, <2>6 DEF TypeOK
<1>2. Phases
    BY DEF Init, Phases, Threads
<1>3. Alone
    BY DEF Init, Alone
<1>4. Undamaged
  <2>1. FilesOf(db) = {} /\ DOMAIN files = {}
      BY DEF Init, FilesOf
  <2> QED
      BY <2>1 DEF Init, Undamaged, Exporting, SnapshotsAgree
<1>5. BootReads
    BY DEF Init, BootReads
<1> QED
    BY <1>1, <1>2, <1>3, <1>4, <1>5 DEF IndInv

\* Every reachable state, of any number of threads, rows, crashes and losses of the
\* database, is one of the inductive invariant: who can be at work in which phase,
\* how far an export that runs alone has come, and that a boot with good snapshots
\* holds nothing but rows of the table.
THEOREM Inductive == Spec => []IndInv
<1>1. IndInv /\ [Next]_vars => IndInv'
    BY TypeStep, PhasesStep, AloneStep, UndamagedStep, BootStep DEF IndInv
<1> QED
    BY InitIndInv, <1>1, PTL DEF Spec

\* TypeOK always holds: every row in the table, in a snapshot, in a temporary file
\* or in the hands of a thread has a key that came from what somebody asked for, or
\* one with a backslash that a boot has doubled.
THEOREM TypeCorrect == Spec => []TypeOK
<1>1. IndInv => TypeOK
    BY DEF IndInv
<1> QED
    BY Inductive, <1>1, PTL

\* SnapshotCurrent always holds: between requests the snapshots say what the table
\* says, bucket by bucket, unless exports have overlapped, failed or been cut short
\* since the last one that ran alone (_export_suppression_snapshots).
THEOREM SnapshotThm == Spec => []SnapshotCurrent
<1>1. IndInv => SnapshotCurrent
  <2> SUFFICES ASSUME IndInv, Quiet, ~ damaged
               PROVE  \A f \in DOMAIN files \cup FilesOf(db) : Says(files, f) = Bucket(db, f)
      BY DEF SnapshotCurrent
  <2>1. \A t \in Threads : ~ Exporting(t)
      BY DEF Quiet, Exporting
  <2> QED
      BY <2>1 DEF IndInv, Undamaged, SnapshotsAgree, Agrees
<1> QED
    BY Inductive, <1>1, PTL

\* Every step satisfies BootIdempotent: a boot that finds good snapshots changes no
\* row of the table, however its exports and imports are interleaved, unless a glob
\* of the table has a backslash (boot_reindex).
THEOREM BootThm == Spec => BootIdempotent
<1>1. IndInv /\ [Next]_vars
        => [server = "booting" /\ clean /\ (\A k \in DOMAIN db : ~ Doubled(k.like))
              => db' = db]_vars
  <2> SUFFICES ASSUME IndInv, [Next]_vars, server = "booting", clean, Unescaped
               PROVE  db' = db
      BY DEF Unescaped
  <2>1. \A t \in Analysts : pc[t] = "idle"
      BY DEF IndInv, Phases
  <2>2. ASSUME NEW k \in DOMAIN rest, ImportEntry(k) PROVE db' = db
    <3>1. k \in DOMAIN db /\ rest[k] = db[k]
        BY DEF IndInv, BootReads, Unescaped, PartOfDb
    <3>2. db' = With(db, Imported(k), db[k])
        BY <2>2, <3>1 DEF ImportEntry
    <3> QED
        BY <3>1, <3>2, ImportedSame DEF IndInv
  <2>3. ASSUME NEW t \in Threads, Export(t) PROVE db' = db
      BY <2>3 DEF Export, List, Swap, SwapFails, ListDir, Done, WriteTmp, Empty, disk
  <2> QED
      BY <2>1, <2>2, <2>3 DEF Next, Add, Remove, Crash, WipeDb, Boot, BootDone, ReadFile,
                             disk, vars
<1> QED
    BY Inductive, <1>1, PTL DEF Spec, BootIdempotent, Unescaped

\* Every step satisfies HidesWhatWasAsked: a row that a request or a boot adds hides
\* detections that somebody has asked to hide and no others, and hides all of them
\* unless its glob has a character that is escaped for LIKE; for globs and names of
\* any length (_glob_to_like, _like_to_glob, _SUPP_JOIN).
THEOREM HidesThm == Spec => HidesWhatWasAsked
<1>1. TypeOK' => [\A k \in DOMAIN db' \ DOMAIN db : HidesAsAsked(k)]_vars
  <2> SUFFICES ASSUME TypeOK', NEW k \in DOMAIN db' PROVE HidesAsAsked(k)
      OBVIOUS
  <2>1. IsKey(k)
      BY DEF TypeOK, IsTable
  <2> QED
      BY <2>1, KeyHides
<1> QED
    BY TypeCorrect, <1>1, PTL DEF HidesWhatWasAsked

=============================================================================
