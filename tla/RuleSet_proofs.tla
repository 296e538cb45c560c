--------------------------- MODULE RuleSet_proofs ---------------------------
(***************************************************************************)
(* Proofs about RuleLoader, RuleSet and Wizard, for any rule directory, any *)
(* command line and any records: what print_rule_load_info adds up is what  *)
(* was loaded, no document is lost between the counters, no rule is lost    *)
(* among the correlation rules that take it over, an event count rule       *)
(* alerts for the groups with a burst and for no other, an alert of a       *)
(* temporal rule is backed by the records of every rule it names, and the   *)
(* numbers by which the user of the wizard chose are those of the rules     *)
(* that are loaded.                                                         *)
(***************************************************************************)
EXTENDS RuleSet, Wizard, SequenceTheorems, FiniteSetTheorems, WellFoundedInduction, TLAPS

-----------------------------------------------------------------------------
(* What the verdict on a document tells of the filters it passed.             *)
LEMMA VerdictMeans ==
    ASSUME NEW d \in Documents
    PROVE  /\ d.status \in Statuses
           /\ Verdict(d) \in {"expand", "excluded", "noisy", "error", "disabled", "loaded"}
           /\ Verdict(d) = "expand" <=> d.expand = "kept"
           /\ Verdict(d) = "disabled" => options.output /\ Disabled(d.status)
           /\ Verdict(d) = "loaded" => ~(options.output /\ Disabled(d.status))
           /\ Verdict(d) = "noisy" => ~(options.output /\ options.enable_noisy)
           /\ NoisyButEnabled(d) => options.output /\ options.enable_noisy
           /\ d.expand # "kept" => d.expand \in {"no", "replaced"}
<1>1. d.status \in Statuses /\ d.expand \in {"no", "replaced", "kept"}
    BY LoaderAssumption
<1> QED
    BY <1>1 DEF Verdict, NoisyButEnabled, ListedOut, Listed, ExpandUnset

LEMMA InitTypeOK == LoaderInit => LoaderTypeOK
<1> SUFFICES ASSUME LoaderInit PROVE LoaderTypeOK
    OBVIOUS
<1>1. tree \in [Paths -> Node]
    BY LoaderAssumption DEF LoaderInit
<1>2. [entries |-> {Root}, docs |-> <<>>] \in Frame
    BY LoaderAssumption DEF Frame
<1>3. stack \in Seq(Frame)
    BY <1>2 DEF LoaderInit
<1> QED
    BY <1>1, <1>3 DEF LoaderInit, LoaderTypeOK

(* Taking the top frame off, or replacing it, leaves frames.                  *)
LEMMA Frames ==
    ASSUME stack \in Seq(Frame), stack # <<>>
    PROVE  /\ Top \in Frame
           /\ Below \in Seq(Frame)
           /\ \A f \in Frame : Append(Below, f) \in Seq(Frame)
<1>1. Len(stack) \in Nat \ {0} /\ Top \in Frame
    BY DEF Top
<1>2. Below \in Seq(Frame)
    BY <1>1, SubSeqProperties DEF Below
<1> QED
    BY <1>1, <1>2, AppendProperties

LEMMA TakenType ==
    ASSUME stack \in Seq(Frame), stack # <<>>, NEW p, NEW docs \in Seq(Documents)
    PROVE  Taken(p, docs) \in Frame
<1>1. Top \in Frame
    BY Frames
<1>2. Top.docs \o docs \in Seq(Documents)
    BY <1>1, ConcatProperties DEF Frame
<1> QED
    BY <1>1, <1>2 DEF Taken, Frame

LEMMA StepTypeOK == LoaderTypeOK /\ [LoaderNext]_loaderVars => LoaderTypeOK'
<1> SUFFICES ASSUME LoaderTypeOK, [LoaderNext]_loaderVars PROVE LoaderTypeOK'
    OBVIOUS
<1> USE DEF LoaderTypeOK
<1>0. <<>> \in Seq(Documents)
    OBVIOUS
<1>1. ASSUME NEW p \in Paths, ReadFile(p) PROVE LoaderTypeOK'
  <2>1. tree[p].docs \in Seq(Documents) /\ stack # <<>>
      BY <1>1 DEF ReadFile, Reading, Node
  <2>2. stack' \in Seq(Frame)
      BY <1>1, <2>1, Frames, TakenType DEF ReadFile
  <2> QED
      BY <1>1, <2>2 DEF ReadFile, counters
<1>2. ASSUME NEW p \in Paths, FailToRead(p) PROVE LoaderTypeOK'
  <2>1. stack' \in Seq(Frame)
      BY <1>0, <1>2, Frames, TakenType DEF FailToRead, Reading
  <2> QED
      BY <1>2, <2>1 DEF FailToRead
<1>3. ASSUME NEW p \in Paths, Skip(p) PROVE LoaderTypeOK'
  <2>1. stack' \in Seq(Frame)
      BY <1>0, <1>3, Frames, TakenType DEF Skip, Reading
  <2> QED
      BY <1>3, <2>1 DEF Skip, counters
<1>4. ASSUME NEW p \in Paths, Recurse(p) PROVE LoaderTypeOK'
  <2>1. Append(Below, Taken(p, <<>>)) \in Seq(Frame)
      BY <1>0, <1>4, Frames, TakenType DEF Recurse, Reading
  <2>2. [entries |-> tree[p].entries, docs |-> <<>>] \in Frame
      BY <1>0 DEF Frame, Node
  <2>3. stack' \in Seq(Frame)
      BY <1>4, <2>1, <2>2, AppendProperties DEF Recurse
  <2> QED
      BY <1>4, <2>3 DEF Recurse, counters
<1>5. ASSUME NEW p \in Paths, Abort(p) PROVE LoaderTypeOK'
    BY <1>5 DEF Abort, counters, reading
<1>6. CASE EndOfDirectory
  <2>1. Top \in Frame /\ stack' \in Seq(Frame)
      BY <1>6, Frames DEF EndOfDirectory, Reading
  <2>2. Top.docs \in Seq(Documents) /\ Len(Top.docs) \in Nat
      BY <2>1, LenProperties DEF Frame
  <2> QED
      BY <1>6, <2>1, <2>2 DEF EndOfDirectory, counters
<1>7. CASE Filter
  <2>1. Head(pending) \in Documents /\ Tail(pending) \in Seq(Documents)
      BY <1>7, HeadTailProperties DEF Filter
  <2>2. files' \in Seq(Documents)
      BY <1>7, <2>1, AppendProperties DEF Filter
  <2>4. rule_load_cnt' \in [excluded : Nat, noisy : Nat]
      BY <1>7 DEF Filter, Bump
  <2>5. rule_status_cnt' \in [Statuses -> Nat]
    <3>1. PICK k \in {0, 1} : rule_status_cnt' =
                [rule_status_cnt EXCEPT ![Head(pending).status] = @ + k]
        BY <1>7 DEF Filter, Bump
    <3>2. rule_status_cnt' = [s \in Statuses |->
                IF s = Head(pending).status THEN rule_status_cnt[s] + k ELSE rule_status_cnt[s]]
        BY <3>1
    <3> QED
        BY <3>2
  <2>6. /\ rule_expand_cnt' \in Nat /\ rule_expand_enabled_cnt' \in Nat
        /\ rulecounter' \in Nat /\ errorrule_count' \in Nat
      BY <1>7 DEF Filter, Bump
  <2> QED
      BY <1>7, <2>1, <2>2, <2>4, <2>5, <2>6 DEF Filter, reading
<1>8. CASE EndOfRead
    BY <1>8 DEF EndOfRead, counters, reading
<1>9. CASE UNCHANGED loaderVars
    BY <1>9 DEF loaderVars, counters, reading
<1> QED
    BY <1>1, <1>2, <1>3, <1>4, <1>5, <1>6, <1>7, <1>8, <1>9 DEF LoaderNext

(* The counters and sequences have their types, whatever is read.             *)
THEOREM LoaderTypeCorrect == LoaderSpec => []LoaderTypeOK
<1> QED
    BY InitTypeOK, StepTypeOK, PTL DEF LoaderSpec

-----------------------------------------------------------------------------
(* What print_rule_load_info shows.                                           *)
LEMMA TotalStep ==
    LoaderTypeOK /\ TotalIsLoaded /\ [LoaderNext]_loaderVars => TotalIsLoaded'
<1> SUFFICES ASSUME LoaderTypeOK, TotalIsLoaded, [LoaderNext]_loaderVars PROVE TotalIsLoaded'
    OBVIOUS
<1>1. CASE Filter
  <2> DEFINE d == Head(pending)
             v == Verdict(d)
  <2>1. d \in Documents /\ files \in Seq(Documents)
      BY <1>1, HeadTailProperties DEF Filter, LoaderTypeOK
  <2>2. /\ d.status \in Statuses
        /\ v \in {"expand", "excluded", "noisy", "error", "disabled", "loaded"}
        /\ v = "disabled" => options.output /\ Disabled(d.status)
        /\ v = "loaded" => ~(options.output /\ Disabled(d.status))
      BY <2>1, VerdictMeans
  <2>3. /\ files' = IF v = "loaded" THEN Append(files, d) ELSE files
        /\ rulecounter' = rulecounter + (IF v = "loaded" THEN 1 ELSE 0)
        /\ rule_status_cnt' = [rule_status_cnt EXCEPT ![d.status] =
                @ + (IF v \in {"loaded", "disabled"} THEN 1 ELSE 0)]
        /\ options' = options
      BY <1>1 DEF Filter, Bump
  <2> HIDE DEF d, v
  <2>4. Len(files') = Len(files) + (IF v = "loaded" THEN 1 ELSE 0)
      BY <2>1, <2>3, AppendProperties
  <2>5. \A s : Disabled(s)' <=> Disabled(s)
      BY <2>3 DEF Disabled
  <2>6. rule_status_cnt \in [Statuses -> Nat] /\ rulecounter \in Nat /\ Len(files) \in Nat
      BY <2>1, LenProperties DEF LoaderTypeOK
  <2>7. CASE v \in {"loaded", "disabled"}
    <3> DEFINE add(s) == IF s = d.status THEN 1 ELSE 0
    <3>1. \A s \in Statuses : rule_status_cnt'[s] = rule_status_cnt[s] + add(s)
        BY <2>2, <2>3, <2>6, <2>7
    <3>2. \A s \in Statuses : rule_status_cnt[s] \in Nat
        BY <2>6
    <3>5. \A s \in Statuses : Enabled(s) \in Nat /\
              Enabled(s)' = Enabled(s) + (IF Disabled(s) THEN 0 ELSE add(s))
        BY <2>5, <3>1, <3>2 DEF Enabled
    <3>6. ~Disabled("stable") /\ ~Disabled("test") /\ ~Disabled("experimental")
        BY DEF Disabled
    <3>7. d.status \in {"stable", "test", "experimental", "deprecated", "unsupported"}
        BY <2>2 DEF Statuses
    <3>3. total_loaded_rule_cnt' =
              total_loaded_rule_cnt + (IF Disabled(d.status) THEN 0 ELSE 1)
        BY <3>1, <3>2, <3>5, <3>6, <3>7 DEF total_loaded_rule_cnt, Statuses
    <3>4. options.output => (Disabled(d.status) <=> v = "disabled")
        BY <2>2, <2>7
    <3> QED
        BY <2>3, <2>4, <2>6, <2>7, <3>3, <3>4 DEF TotalIsLoaded
  <2>9. CASE v \notin {"loaded", "disabled"}
    <3>1. rule_status_cnt' = rule_status_cnt
        BY <2>2, <2>3, <2>6, <2>9
    <3> QED
        BY <2>2, <2>3, <2>4, <2>5, <2>6, <2>9, <3>1
           DEF TotalIsLoaded, total_loaded_rule_cnt, Enabled
  <2> QED
      BY <2>7, <2>9
<1>2. CASE ~Filter
  <2>1. UNCHANGED <<files, rulecounter, rule_status_cnt, options>>
      BY <1>2 DEF LoaderNext, loaderVars, counters, reading, ReadFile, FailToRead, Skip,
         Recurse, Abort, EndOfDirectory, EndOfRead
  <2> QED
      BY <2>1 DEF TotalIsLoaded, total_loaded_rule_cnt, Enabled, Disabled
<1> QED
    BY <1>1, <1>2

(* "Total detection rules" is the number of rules loaded.                     *)
THEOREM TotalThm == LoaderSpec => []TotalIsLoaded
<1>1. LoaderInit => TotalIsLoaded
    BY DEF LoaderInit, TotalIsLoaded, total_loaded_rule_cnt, Enabled, Statuses
<1> QED
    BY <1>1, InitTypeOK, StepTypeOK, TotalStep, PTL DEF LoaderSpec

-----------------------------------------------------------------------------
(* Where a document goes.                                                     *)
LEMMA AccountedStep ==
    LoaderTypeOK /\ EveryDocumentAccounted /\ [LoaderNext]_loaderVars => EveryDocumentAccounted'
<1> SUFFICES ASSUME LoaderTypeOK, EveryDocumentAccounted, [LoaderNext]_loaderVars
             PROVE  EveryDocumentAccounted'
    OBVIOUS
<1>1. CASE Filter
  <2> DEFINE d == Head(pending)
             v == Verdict(d)
             one(b) == IF b THEN 1 ELSE 0
  <2>1. d \in Documents /\ files \in Seq(Documents)
        /\ Len(pending) \in Nat \ {0} /\ Len(pending') = Len(pending) - 1
      BY <1>1, HeadTailProperties DEF Filter, LoaderTypeOK
  <2>2. /\ d.status \in Statuses
        /\ v \in {"expand", "excluded", "noisy", "error", "disabled", "loaded"}
        /\ v = "expand" <=> d.expand = "kept"
        /\ v = "disabled" => options.output /\ Disabled(d.status)
        /\ v = "loaded" => ~(options.output /\ Disabled(d.status))
        /\ v = "noisy" => ~(options.output /\ options.enable_noisy)
        /\ NoisyButEnabled(d) => options.output /\ options.enable_noisy
        /\ d.expand # "kept" => d.expand \in {"no", "replaced"}
      BY <2>1, VerdictMeans
  <2>3. /\ files' = IF v = "loaded" THEN Append(files, d) ELSE files
        /\ rule_load_cnt'.excluded = rule_load_cnt.excluded + one(v = "excluded")
        /\ rule_load_cnt'.noisy = rule_load_cnt.noisy + one(v = "noisy" \/ NoisyButEnabled(d))
        /\ rule_status_cnt' = [rule_status_cnt EXCEPT ![d.status] =
                @ + one(v \in {"loaded", "disabled"})]
        /\ rule_expand_cnt' = rule_expand_cnt + one(d.expand # "no")
        /\ rule_expand_enabled_cnt' = rule_expand_enabled_cnt + one(d.expand = "replaced")
        /\ errorrule_count' = errorrule_count + one(v = "error")
        /\ options' = options /\ parsed' = parsed /\ broken' = broken
      BY <1>1 DEF Filter, Bump, reading
  <2> HIDE DEF d, v
  <2>4. Len(files') = Len(files) + one(v = "loaded") /\ Len(files) \in Nat
      BY <2>1, <2>3, AppendProperties, LenProperties
  <2>5. (rule_expand_cnt - rule_expand_enabled_cnt)' =
            rule_expand_cnt - rule_expand_enabled_cnt + one(v = "expand")
      BY <2>2, <2>3 DEF LoaderTypeOK
  <2>6. options.output => (NotUsed("deprecated") + NotUsed("unsupported"))' =
            NotUsed("deprecated") + NotUsed("unsupported") + one(v = "disabled")
    <3>1. rule_status_cnt \in [Statuses -> Nat]
        BY DEF LoaderTypeOK
    <3>2. \A s : Disabled(s)' <=> Disabled(s)
        BY <2>3 DEF Disabled
    <3>3. CASE v \in {"loaded", "disabled"}
        BY <2>2, <2>3, <3>1, <3>2, <3>3 DEF NotUsed, Statuses, Disabled
    <3>4. CASE v \notin {"loaded", "disabled"}
      <4>1. rule_status_cnt' = rule_status_cnt
          BY <2>2, <2>3, <3>1, <3>4
      <4> QED
          BY <3>1, <3>2, <3>4, <4>1 DEF NotUsed, Statuses
    <3> QED
        BY <3>3, <3>4
  <2>7. /\ rule_load_cnt.excluded \in Nat /\ rule_load_cnt.noisy \in Nat
        /\ rule_expand_cnt - rule_expand_enabled_cnt \in Int
        /\ errorrule_count - broken \in Int /\ parsed \in Nat
        /\ NotUsed("deprecated") + NotUsed("unsupported") \in Nat
      BY DEF LoaderTypeOK, NotUsed, Statuses
  <2>8. (errorrule_count - broken)' = errorrule_count - broken + one(v = "error")
      BY <2>3 DEF LoaderTypeOK
  <2>9. (IF options.output /\ options.enable_noisy THEN 0 ELSE rule_load_cnt.noisy)' =
            (IF options.output /\ options.enable_noisy THEN 0 ELSE rule_load_cnt.noisy)
                + one(v = "noisy")
      BY <2>2, <2>3, <2>7
  <2>10. one(v = "expand") + one(v = "excluded") + one(v = "noisy") + one(v = "error")
            + one(v = "disabled") = 1 - one(v = "loaded")
      BY <2>2
  <2> DEFINE e == rule_expand_cnt - rule_expand_enabled_cnt
             x == rule_load_cnt.excluded
             n == IF options.output /\ options.enable_noisy THEN 0 ELSE rule_load_cnt.noisy
             r == errorrule_count - broken
             u == IF options.output THEN NotUsed("deprecated") + NotUsed("unsupported") ELSE 0
  <2>11. Dropped = e + x + n + r + u /\ Dropped' = e' + x' + n' + r' + u'
      BY DEF Dropped
  <2>12. u' = u + one(v = "disabled")
      BY <2>2, <2>3, <2>6, <2>7
  <2>13. e \in Int /\ x \in Int /\ n \in Int /\ r \in Int /\ u \in Int
      BY <2>7
  <2>14. x' = x + one(v = "excluded")
      BY <2>3
  <2>15. Len(files') = Len(files) + one(v = "loaded") /\ parsed' = parsed
      BY <2>3, <2>4
  <2>16. one(v = "loaded") \in Int /\ one(v = "expand") \in Int /\ one(v = "excluded") \in Int
         /\ one(v = "noisy") \in Int /\ one(v = "error") \in Int /\ one(v = "disabled") \in Int
      OBVIOUS
  <2> HIDE DEF e, x, n, r, u, one
  <2>17. e' = e + one(v = "expand") /\ n' = n + one(v = "noisy") /\ r' = r + one(v = "error")
      BY <2>5, <2>8, <2>9 DEF e, n, r
  <2>18. Dropped' = Dropped + (1 - one(v = "loaded"))
      BY <2>10, <2>11, <2>12, <2>13, <2>14, <2>16, <2>17
  <2>19. Dropped \in Int
      BY <2>11, <2>13
  <2>20. parsed = Len(files) + Len(pending) + Dropped /\ parsed \in Nat
      BY <2>7 DEF EveryDocumentAccounted
  <2>21. Len(files) \in Nat /\ Len(pending) \in Nat /\ Len(pending') = Len(pending) - 1
      BY <2>1, <2>4
  <2>22. parsed' = Len(files') + Len(pending') + Dropped'
    <3>1. PICK k \in Int : k = one(v = "loaded")
        BY <2>16
    <3>2. Dropped' = Dropped + (1 - k) /\ Len(files') = Len(files) + k /\ parsed' = parsed
        BY <2>15, <2>18, <3>1
    <3> QED
        BY <2>19, <2>20, <2>21, <3>2
  <2> QED
      BY <2>22 DEF EveryDocumentAccounted
<1>2. CASE EndOfDirectory
  <2>1. Top \in Frame
      BY <1>2, Frames DEF EndOfDirectory, Reading, LoaderTypeOK
  <2>2. pending = <<>> /\ Len(pending) = 0 /\ Len(pending') \in Nat
        /\ parsed' = parsed + Len(pending')
      BY <1>2, <2>1, LenProperties DEF EndOfDirectory, Reading, Frame
  <2>3. Dropped' = Dropped /\ files' = files
      BY <1>2 DEF EndOfDirectory, counters, Dropped, NotUsed, Disabled
  <2>4. Dropped \in Int /\ parsed \in Nat /\ Len(files) \in Nat
      BY LenProperties DEF Dropped, LoaderTypeOK, NotUsed, Statuses
  <2> QED
      BY <2>2, <2>3, <2>4 DEF EveryDocumentAccounted
<1>3. ASSUME NEW p \in Paths, FailToRead(p) PROVE EveryDocumentAccounted'
  <2>1. errorrule_count' - broken' = errorrule_count - broken
      BY <1>3 DEF FailToRead, LoaderTypeOK
  <2>2. UNCHANGED <<options, pending, files, parsed, rule_load_cnt, rule_status_cnt,
                    rule_expand_cnt, rule_expand_enabled_cnt>>
      BY <1>3 DEF FailToRead
  <2> QED
      BY <2>1, <2>2 DEF EveryDocumentAccounted, Dropped, NotUsed, Disabled
<1>4. CASE ~Filter /\ ~EndOfDirectory /\ ~(\E p \in Paths : FailToRead(p))
  <2>1. UNCHANGED <<options, pending, files, counters, parsed, broken>>
      BY <1>4 DEF LoaderNext, loaderVars, counters, reading, ReadFile, Skip, Recurse, Abort,
         EndOfRead
  <2> QED
      BY <2>1 DEF EveryDocumentAccounted, Dropped, counters, NotUsed, Disabled
<1> QED
    BY <1>1, <1>2, <1>3, <1>4

(* Every document that was read is loaded or in one of the counters.          *)
THEOREM AccountedThm == LoaderSpec => []EveryDocumentAccounted
<1>1. LoaderInit => EveryDocumentAccounted
    BY DEF LoaderInit, EveryDocumentAccounted, Dropped, NotUsed, Statuses
<1> QED
    BY <1>1, InitTypeOK, StepTypeOK, AccountedStep, PTL DEF LoaderSpec
-----------------------------------------------------------------------------
(* Sequences of sequences.                                                    *)

\* What holds of 0 and of the successor holds of every number.
LEMMA Induction ==
    ASSUME NEW G, 0 \in G, \A n \in Nat : n \in G => n + 1 \in G
    PROVE  Nat \subseteq G
<1> DEFINE R == {ss \in Nat \X Nat : ss[1] < ss[2]}
           T == Nat \ G
<1> SUFFICES ASSUME T # {} PROVE FALSE
    OBVIOUS
<1>1. IsWellFoundedOn(R, Nat)
    BY NatLessThanWellFounded DEF OpToRel
<1>2. \A x, y \in Nat : <<y, x>> \in R <=> y < x
    OBVIOUS
<1>3. \E x \in T : \A y \in T : ~ (<<y, x>> \in R)
  <2> HIDE DEF R
  <2> QED
      BY <1>1, WFMin
<1>4. PICK x \in T : \A y \in T : ~ (y < x)
    BY <1>2, <1>3
<1>5. x # 0 /\ x - 1 \in Nat /\ x - 1 < x /\ (x - 1) + 1 = x
    BY <1>4
<1> QED
    BY <1>4, <1>5

\* The function inside FlattenSeq, for the first n members of s.
IsFlat(f, s, n) ==
    f = [i \in 1..n |-> IF i = 1 THEN s[i] ELSE f[i - 1] \o s[i]]

LEMMA FlatExists ==
    ASSUME NEW s
    PROVE  \A n \in Nat : \E f : IsFlat(f, s, n)
<1> DEFINE G == {n \in Nat : \E f : IsFlat(f, s, n)}
<1>1. 0 \in G
  <2>1. IsFlat([i \in 1..0 |-> 0], s, 0)
      BY DEF IsFlat
  <2> QED
      BY <2>1
<1>2. ASSUME NEW n \in Nat, n \in G PROVE n + 1 \in G
  <2>1. PICK f : IsFlat(f, s, n)
      BY <1>2
  <2> DEFINE g == [i \in 1..(n + 1) |->
                      IF i = n + 1 THEN IF i = 1 THEN s[i] ELSE f[i - 1] \o s[i]
                      ELSE f[i]]
             h == [i \in 1..(n + 1) |-> IF i = 1 THEN s[i] ELSE g[i - 1] \o s[i]]
  <2>2. ASSUME NEW i \in 1..(n + 1) PROVE g[i] = h[i]
    <3>1. CASE i = n + 1
      <4>1. i # 1 => i - 1 \in 1..(n + 1) /\ i - 1 # n + 1
          BY <3>1
      <4> QED
          BY <3>1, <4>1
    <3>2. CASE i # n + 1
      <4>1. i \in 1..n /\ (i # 1 => i - 1 \in 1..(n + 1) /\ i - 1 # n + 1)
          BY <3>2
      <4>2. f[i] = IF i = 1 THEN s[i] ELSE f[i - 1] \o s[i]
          BY <2>1, <4>1 DEF IsFlat
      <4> QED
          BY <3>2, <4>1, <4>2
    <3> QED
        BY <3>1, <3>2
  <2>3. g = h
      BY <2>2
  <2>4. IsFlat(g, s, n + 1)
      BY <2>3 DEF IsFlat
  <2> HIDE DEF g
  <2> QED
      BY <2>4
<1> HIDE DEF G
<1>3. Nat \subseteq G
    BY <1>1, <1>2, Induction
<1> QED
    BY <1>3 DEF G

LEMMA FlatValue ==
    ASSUME NEW s, Len(s) \in Nat \ {0}
    PROVE  \E f : IsFlat(f, s, Len(s)) /\ FlattenSeq(s) = f[Len(s)]
<1> DEFINE F == CHOOSE f : f = [i \in 1..Len(s) |->
                                   IF i = 1 THEN s[i] ELSE f[i - 1] \o s[i]]
<1>1. \E f : f = [i \in 1..Len(s) |-> IF i = 1 THEN s[i] ELSE f[i - 1] \o s[i]]
    BY FlatExists DEF IsFlat
<1>2. IsFlat(F, s, Len(s))
    BY <1>1, Zenon DEF IsFlat
<1>3. FlattenSeq(s) = F[Len(s)]
    BY Zenon DEF FlattenSeq
<1> QED
    BY <1>2, <1>3

\* The first members decide what comes of them.
LEMMA FlatUnique ==
    ASSUME NEW s, NEW t, NEW m \in Nat, NEW n \in Nat, n <= m,
           \A i \in 1..n : s[i] = t[i],
           NEW f, IsFlat(f, s, m), NEW g, IsFlat(g, t, n)
    PROVE  \A i \in 1..n : f[i] = g[i]
<1> DEFINE G == {k \in Nat : k \in 1..n => f[k] = g[k]}
<1>1. 0 \in G
    OBVIOUS
<1>2. ASSUME NEW k \in Nat, k \in G, k + 1 \in 1..n PROVE f[k + 1] = g[k + 1]
  <2>0. k + 1 \in 1..m
      BY <1>2
  <2>1. /\ f[k + 1] = IF k + 1 = 1 THEN s[k + 1] ELSE f[(k + 1) - 1] \o s[k + 1]
        /\ g[k + 1] = IF k + 1 = 1 THEN t[k + 1] ELSE g[(k + 1) - 1] \o t[k + 1]
      BY <1>2, <2>0, Zenon DEF IsFlat
  <2>2. k + 1 # 1 => k \in 1..n /\ (k + 1) - 1 = k
      BY <1>2
  <2> QED
      BY <1>2, <2>1, <2>2
<1>3. \A k \in Nat : k \in G => k + 1 \in G
    BY <1>2
<1>4. Nat \subseteq G
  <2> HIDE DEF G
  <2> QED
      BY <1>1, <1>3, Induction
<1> QED
    BY <1>4

\* The first n parts, one behind the other.
Flat(P, n) == FlattenSeq([i \in 1..n |-> P[i]])

AreParts(P, n, C) == \A i \in 1..n : P[i] \in Seq(C)

LEMMA FlatEmpty == ASSUME NEW P PROVE Flat(P, 0) = <<>>
<1>1. [i \in 1..0 |-> P[i]] = <<>>
    OBVIOUS
<1> QED
    BY <1>1, EmptySeq DEF Flat, FlattenSeq

LEMMA FlatFunction ==
    ASSUME NEW P, NEW n \in Nat \ {0}
    PROVE  \E f : IsFlat(f, P, n) /\ Flat(P, n) = f[n]
<1> DEFINE s == [i \in 1..n |-> P[i]]
<1>1. Len(s) = n
    OBVIOUS
<1>2. Flat(P, n) = FlattenSeq(s)
    BY DEF Flat
<1>3. \A i \in 1..n : s[i] = P[i]
    OBVIOUS
<1> HIDE DEF s
<1>4. PICK f : IsFlat(f, s, n) /\ FlattenSeq(s) = f[n]
    BY <1>1, FlatValue
<1>5. IsFlat(f, P, n)
    BY <1>3, <1>4 DEF IsFlat
<1> QED
    BY <1>2, <1>4, <1>5

LEMMA FlatGrows ==
    ASSUME NEW C, NEW P, NEW n \in Nat, P[n + 1] \in Seq(C)
    PROVE  Flat(P, n + 1) = IF n = 0 THEN P[1] ELSE Flat(P, n) \o P[n + 1]
<1>1. n + 1 \in Nat \ {0} /\ n <= n + 1 /\ (n + 1) - 1 = n /\ n + 1 \in 1..(n + 1)
    OBVIOUS
<1>2. PICK f : IsFlat(f, P, n + 1) /\ Flat(P, n + 1) = f[n + 1]
    BY <1>1, FlatFunction
<1>3. f[n + 1] = IF n + 1 = 1 THEN P[n + 1] ELSE f[(n + 1) - 1] \o P[n + 1]
    BY <1>1, <1>2, Zenon DEF IsFlat
<1>4. ASSUME n # 0 PROVE f[n] = Flat(P, n)
  <2>1. PICK g : IsFlat(g, P, n) /\ Flat(P, n) = g[n]
      BY <1>4, FlatFunction
  <2>2. \A i \in 1..n : f[i] = g[i]
      BY <1>1, <1>2, <2>1, FlatUnique
  <2> QED
      BY <1>4, <2>1, <2>2
<1> QED
    BY <1>1, <1>2, <1>3, <1>4

LEMMA FlatType ==
    ASSUME NEW C, NEW P, NEW n \in Nat, AreParts(P, n, C)
    PROVE  Flat(P, n) \in Seq(C)
<1> DEFINE G == {k \in Nat : k <= n => Flat(P, k) \in Seq(C)}
<1>1. 0 \in G
    BY FlatEmpty, EmptySeq
<1>2. ASSUME NEW k \in Nat, k \in G, k + 1 <= n PROVE Flat(P, k + 1) \in Seq(C)
  <2>1. P[k + 1] \in Seq(C) /\ Flat(P, k) \in Seq(C)
      BY <1>2 DEF AreParts
  <2>2. Flat(P, k) \o P[k + 1] \in Seq(C)
      BY <2>1, ConcatProperties
  <2>3. Flat(P, k + 1) = IF k = 0 THEN P[1] ELSE Flat(P, k) \o P[k + 1]
      BY <2>1, FlatGrows
  <2>4. k = 0 => P[1] = P[k + 1]
      OBVIOUS
  <2> QED
      BY <2>1, <2>2, <2>3, <2>4, Zenon
<1>3. \A k \in Nat : k \in G => k + 1 \in G
    BY <1>2
<1>4. Nat \subseteq G
  <2> HIDE DEF G
  <2> QED
      BY <1>1, <1>3, Induction
<1> QED
    BY <1>4

\* One more part.
LEMMA FlatStep ==
    ASSUME NEW C, NEW P, NEW n \in Nat, AreParts(P, n + 1, C)
    PROVE  /\ Flat(P, n) \in Seq(C) /\ P[n + 1] \in Seq(C)
           /\ Flat(P, n + 1) \in Seq(C)
           /\ Flat(P, n + 1) = Flat(P, n) \o P[n + 1]
<1>1. AreParts(P, n, C) /\ P[n + 1] \in Seq(C)
    BY DEF AreParts
<1>2. Flat(P, n) \in Seq(C) /\ Flat(P, n + 1) \in Seq(C)
    BY <1>1, FlatType
<1>3. n = 0 => Flat(P, n) \o P[n + 1] = P[1]
    BY <1>1, FlatEmpty, ConcatEmptySeq
<1> QED
    BY <1>1, <1>2, <1>3, FlatGrows

-----------------------------------------------------------------------------
(* Chosen keeps the members of the set, in their order.                       *)
Ones(s, S) == [i \in DOMAIN s |-> IF s[i] \in S THEN <<s[i]>> ELSE <<>>]

\* f tells for each place of t its place among the first n of s.
Positions(f, t, s, S, n) ==
    /\ f \in [1..Len(t) -> 1..n]
    /\ \A i \in 1..Len(t) : t[i] = s[f[i]] /\ s[f[i]] \in S
    /\ \A i, j \in 1..Len(t) : i < j => f[i] < f[j]
    /\ \A j \in 1..n : s[j] \in S => \E i \in 1..Len(t) : f[i] = j

LEMMA OnesGrow ==
    ASSUME NEW T, NEW s \in Seq(T), NEW S, NEW n \in Nat, n + 1 <= Len(s)
    PROVE  /\ Flat(Ones(s, S), n) \in Seq(T)
           /\ Flat(Ones(s, S), n + 1) \in Seq(T)
           /\ Flat(Ones(s, S), n + 1) =
                IF s[n + 1] \in S THEN Append(Flat(Ones(s, S), n), s[n + 1]) ELSE Flat(Ones(s, S), n)
<1> DEFINE P == Ones(s, S)
<1>1. AreParts(P, n + 1, T)
  <2>1. \A i \in 1..(n + 1) : i \in DOMAIN s /\ s[i] \in T
      OBVIOUS
  <2>2. \A x \in T : <<x>> \in Seq(T)
      OBVIOUS
  <2>3. <<>> \in Seq(T)
      OBVIOUS
  <2> QED
      BY <2>1, <2>2, <2>3 DEF AreParts, Ones
<1>2. P[n + 1] = IF s[n + 1] \in S THEN <<s[n + 1]>> ELSE <<>>
    BY DEF Ones
<1> HIDE DEF P
<1>3. Flat(P, n) \in Seq(T) /\ Flat(P, n + 1) \in Seq(T) /\ Flat(P, n + 1) = Flat(P, n) \o P[n + 1]
    BY <1>1, FlatStep
<1>4. Flat(P, n) \o <<>> = Flat(P, n)
    BY <1>3, ConcatEmptySeq
<1>5. Flat(P, n) \o <<s[n + 1]>> = Append(Flat(P, n), s[n + 1])
    BY <1>3
<1> QED
    BY <1>2, <1>3, <1>4, <1>5 DEF P

LEMMA OnesPlaces ==
    ASSUME NEW T, NEW s \in Seq(T), NEW S
    PROVE  \A n \in Nat : n <= Len(s) =>
              /\ Flat(Ones(s, S), n) \in Seq(T)
              /\ \E f : Positions(f, Flat(Ones(s, S), n), s, S, n)
<1> DEFINE t(n) == Flat(Ones(s, S), n)
           Good(n) == t(n) \in Seq(T) /\ \E f : Positions(f, t(n), s, S, n)
           G == {n \in Nat : n <= Len(s) => Good(n)}
<1>1. 0 \in G
  <2> DEFINE P == Ones(s, S)
  <2> HIDE DEF P
  <2>0. Flat(P, 0) = <<>>
      BY FlatEmpty
  <2>1. t(0) = <<>> /\ Len(t(0)) = 0 /\ t(0) \in Seq(T)
    <3>1. t(0) = <<>>
        BY <2>0 DEF P
    <3>2. Len(<<>>) = 0 /\ <<>> \in Seq(T)
        OBVIOUS
    <3> QED
        BY <3>1, <3>2, Zenon
  <2>2. Positions([i \in 1..0 |-> 0], t(0), s, S, 0)
      BY <2>1 DEF Positions
  <2> QED
      BY <2>1, <2>2
<1>2. ASSUME NEW n \in Nat, n \in G, n + 1 <= Len(s) PROVE Good(n + 1)
  <2>1. PICK f : Positions(f, t(n), s, S, n)
      BY <1>2
  <2>2. /\ t(n) \in Seq(T) /\ t(n + 1) \in Seq(T)
        /\ t(n + 1) = IF s[n + 1] \in S THEN Append(t(n), s[n + 1]) ELSE t(n)
      BY <1>2, OnesGrow
  <2> DEFINE u == t(n)
             v == t(n + 1)
             m == Len(u)
  <2> HIDE DEF t, u, v
  <2>3. Positions(f, u, s, S, n) /\ u \in Seq(T) /\ v \in Seq(T) /\ m \in Nat
        /\ v = IF s[n + 1] \in S THEN Append(u, s[n + 1]) ELSE u
      BY <2>1, <2>2 DEF u, v
  <2>4. CASE s[n + 1] \notin S
    <3>1. Positions(f, v, s, S, n + 1)
        BY <1>2, <2>3, <2>4 DEF Positions
    <3> QED
        BY <2>3, <3>1 DEF v
  <2>5. CASE s[n + 1] \in S
    <3> DEFINE g == [i \in 1..(m + 1) |-> IF i = m + 1 THEN n + 1 ELSE f[i]]
    <3>1. Len(v) = m + 1 /\ v[m + 1] = s[n + 1] /\ \A i \in 1..m : v[i] = u[i]
        BY <2>3, <2>5
    <3>2. /\ f \in [1..m -> 1..n]
          /\ \A i \in 1..m : u[i] = s[f[i]] /\ s[f[i]] \in S
          /\ \A i, j \in 1..m : i < j => f[i] < f[j]
          /\ \A j \in 1..n : s[j] \in S => \E i \in 1..m : f[i] = j
        BY <2>3 DEF Positions
    <3> HIDE DEF m
    <3>3. g \in [1..(m + 1) -> 1..(n + 1)]
        BY <2>3, <3>2
    <3>4. \A i \in 1..(m + 1) : v[i] = s[g[i]] /\ s[g[i]] \in S
        BY <2>3, <2>5, <3>1, <3>2
    <3>5. \A i, j \in 1..(m + 1) : i < j => g[i] < g[j]
        BY <2>3, <3>2
    <3>6. ASSUME NEW j \in 1..(n + 1), s[j] \in S PROVE \E i \in 1..(m + 1) : g[i] = j
      <4>1. CASE j = n + 1
          BY <2>3, <4>1
      <4>2. CASE j # n + 1
        <5>1. PICK i \in 1..m : f[i] = j
            BY <3>2, <3>6, <4>2
        <5> QED
            BY <2>3, <5>1
      <4> QED
          BY <4>1, <4>2
    <3> HIDE DEF g
    <3>7. Positions(g, v, s, S, n + 1)
        BY <3>1, <3>3, <3>4, <3>5, <3>6 DEF Positions
    <3> QED
        BY <2>3, <3>7 DEF v
  <2> QED
      BY <2>4, <2>5
<1>3. \A n \in Nat : n \in G => n + 1 \in G
    BY <1>2
<1>4. Nat \subseteq G
  <2> HIDE DEF G
  <2> QED
      BY <1>1, <1>3, Induction
<1> QED
    BY <1>4

LEMMA ChosenMeans ==
    ASSUME NEW T, NEW s \in Seq(T), NEW S
    PROVE  Chosen(s, S) \in Seq(T) /\ \E f : Positions(f, Chosen(s, S), s, S, Len(s))
<1>1. Len(s) \in Nat /\ DOMAIN s = 1..Len(s)
    OBVIOUS
<1>2. Ones(s, S) = [i \in 1..Len(s) |-> Ones(s, S)[i]]
    BY <1>1 DEF Ones
<1>3. Chosen(s, S) = Flat(Ones(s, S), Len(s))
    BY <1>2 DEF Chosen, Ones, Flat
<1> QED
    BY <1>1, <1>3, OnesPlaces

LEMMA ChosenRange ==
    ASSUME NEW T, NEW s \in Seq(T), NEW S
    PROVE  Chosen(s, S) \in Seq(T) /\ Range(Chosen(s, S)) = Range(s) \cap S
<1>1. PICK f : Positions(f, Chosen(s, S), s, S, Len(s))
    BY ChosenMeans
<1>2. Chosen(s, S) \in Seq(T)
    BY ChosenMeans
<1>3. DOMAIN Chosen(s, S) = 1..Len(Chosen(s, S)) /\ DOMAIN s = 1..Len(s)
    BY <1>2
<1> DEFINE t == Chosen(s, S)
<1> HIDE DEF t
<1>4. Positions(f, t, s, S, Len(s)) /\ DOMAIN t = 1..Len(t) /\ DOMAIN s = 1..Len(s)
    BY <1>1, <1>3 DEF t
<1>5. Range(t) = Range(s) \cap S
    BY <1>4 DEF Positions, Range
<1> QED
    BY <1>2, <1>5 DEF t

-----------------------------------------------------------------------------
(* Lists of rules.                                                            *)
IsList(s) == s \in Seq(Range(s))

LEMMA ListOf ==
    ASSUME NEW T, NEW s \in Seq(T)
    PROVE  IsList(s) /\ Range(s) \subseteq T
<1>1. DOMAIN s = 1..Len(s) /\ Len(s) \in Nat /\ \A i \in 1..Len(s) : s[i] \in T
    OBVIOUS
<1>2. s \in [1..Len(s) -> Range(s)]
    BY <1>1 DEF Range
<1> QED
    BY <1>1, <1>2 DEF IsList, Range

LEMMA ListFacts ==
    ASSUME NEW s, IsList(s)
    PROVE  /\ Len(s) \in Nat /\ DOMAIN s = 1..Len(s)
           /\ \A i \in DOMAIN s : s[i] \in Range(s)
           /\ \A x \in Range(s) : \E i \in DOMAIN s : s[i] = x
    BY DEF IsList, Range

LEMMA EmptyList == IsList(<<>>) /\ Range(<<>>) = {}
    BY DEF IsList, Range

LEMMA ListAppend ==
    ASSUME NEW s, IsList(s), NEW x
    PROVE  IsList(Append(s, x)) /\ Range(Append(s, x)) = Range(s) \cup {x}
<1> DEFINE T == Range(s) \cup {x}
<1>1. s \in Seq(T) /\ x \in T
    BY DEF IsList, Range
<1> HIDE DEF T
<1>2. Append(s, x) \in Seq(T) /\ Len(Append(s, x)) = Len(s) + 1 /\ Append(s, x)[Len(s) + 1] = x
      /\ \A i \in 1..Len(s) : Append(s, x)[i] = s[i]
    BY <1>1
<1>3. DOMAIN Append(s, x) = 1..(Len(s) + 1) /\ DOMAIN s = 1..Len(s) /\ Len(s) \in Nat
    BY <1>1, <1>2
<1>4. Range(Append(s, x)) = Range(s) \cup {x}
    BY <1>2, <1>3 DEF Range
<1> QED
    BY <1>2, <1>4, ListOf

LEMMA ListJoin ==
    ASSUME NEW s, IsList(s), NEW t, IsList(t)
    PROVE  IsList(s \o t) /\ Range(s \o t) = Range(s) \cup Range(t)
<1> DEFINE T == Range(s) \cup Range(t)
<1>1. s \in Seq(T) /\ t \in Seq(T)
    BY DEF IsList, Range
<1> HIDE DEF T
<1>2. /\ s \o t \in Seq(T) /\ Len(s \o t) = Len(s) + Len(t)
      /\ \A i \in 1..Len(s) : (s \o t)[i] = s[i]
      /\ \A i \in 1..Len(t) : (s \o t)[Len(s) + i] = t[i]
    BY <1>1, ConcatProperties
<1>3. DOMAIN (s \o t) = 1..(Len(s) + Len(t)) /\ DOMAIN s = 1..Len(s) /\ DOMAIN t = 1..Len(t)
      /\ Len(s) \in Nat /\ Len(t) \in Nat
    BY <1>1, <1>2
<1>4. Range(s) \subseteq Range(s \o t)
    BY <1>2, <1>3 DEF Range
<1>5. Range(t) \subseteq Range(s \o t)
  <2> SUFFICES ASSUME NEW i \in 1..Len(t) PROVE t[i] \in Range(s \o t)
      BY <1>3 DEF Range
  <2>1. Len(s) + i \in DOMAIN (s \o t)
      BY <1>3
  <2>2. (s \o t)[Len(s) + i] = t[i]
      BY <1>2
  <2> QED
      BY <2>1, <2>2 DEF Range
<1>6. Range(s \o t) \subseteq Range(s) \cup Range(t)
  <2> SUFFICES ASSUME NEW i \in 1..(Len(s) + Len(t)) PROVE (s \o t)[i] \in Range(s) \cup Range(t)
      BY <1>3 DEF Range
  <2>1. i \in 1..Len(s) \/ (i - Len(s) \in 1..Len(t) /\ Len(s) + (i - Len(s)) = i)
      BY <1>3
  <2> QED
      BY <1>2, <1>3, <2>1 DEF Range
<1> QED
    BY <1>2, <1>4, <1>5, <1>6, ListOf

LEMMA ListTail ==
    ASSUME NEW s, IsList(s), s # <<>>
    PROVE  /\ Head(s) = s[1] /\ 1 \in DOMAIN s /\ Head(s) \in Range(s)
           /\ IsList(Tail(s)) /\ Range(Tail(s)) \subseteq Range(s)
           /\ \A i \in DOMAIN Tail(s) : i + 1 \in DOMAIN s /\ Tail(s)[i] = s[i + 1] /\ i \in Nat
<1>1. /\ Len(s) \in Nat \ {0} /\ DOMAIN s = 1..Len(s) /\ Head(s) = s[1]
      /\ Tail(s) \in Seq(Range(s)) /\ Len(Tail(s)) = Len(s) - 1
      /\ \A i \in 1..Len(Tail(s)) : Tail(s)[i] = s[i + 1]
    BY HeadTailProperties DEF IsList
<1>2. DOMAIN Tail(s) = 1..(Len(s) - 1)
    BY <1>1
<1>3. Head(s) \in Range(s)
    BY <1>1 DEF Range
<1>4. \A i \in DOMAIN Tail(s) : i + 1 \in DOMAIN s /\ Tail(s)[i] = s[i + 1] /\ i \in Nat
    BY <1>1, <1>2
<1>5. 1 \in DOMAIN s
    BY <1>1
<1>6. IsList(Tail(s)) /\ Range(Tail(s)) \subseteq Range(s)
  <2> DEFINE T == Range(s)
  <2> HIDE DEF T
  <2>1. Tail(s) \in Seq(T)
      BY <1>1 DEF T
  <2> QED
      BY <2>1, ListOf DEF T
<1> QED
    BY <1>1, <1>3, <1>4, <1>5, <1>6

LEMMA ListChosen ==
    ASSUME NEW s, IsList(s), NEW S
    PROVE  IsList(Chosen(s, S)) /\ Range(Chosen(s, S)) = Range(s) \cap S
    BY ChosenRange, ListOf DEF IsList

LEMMA ListNodes ==
    ASSUME NEW s, IsList(s)
    PROVE  /\ IsList(Nodes(s)) /\ Range(Nodes(s)) = {RuleNode(d) : d \in Range(s)}
           /\ DOMAIN Nodes(s) = DOMAIN s /\ \A i \in DOMAIN s : Nodes(s)[i] = RuleNode(s[i])
<1> DEFINE T == {RuleNode(d) : d \in Range(s)}
<1>1. Len(s) \in Nat /\ DOMAIN s = 1..Len(s) /\ \A i \in 1..Len(s) : s[i] \in Range(s)
    BY ListFacts
<1>2. \A i \in 1..Len(s) : RuleNode(s[i]) \in T
    BY <1>1
<1>3. Nodes(s) = [i \in 1..Len(s) |-> RuleNode(s[i])]
    BY <1>1, Zenon DEF Nodes
<1> HIDE DEF T
<1>4. Nodes(s) \in Seq(T)
    BY <1>1, <1>2, <1>3
<1>5. DOMAIN Nodes(s) = DOMAIN s /\ \A i \in DOMAIN s : Nodes(s)[i] = RuleNode(s[i])
    BY <1>1, <1>3
<1>6. Range(Nodes(s)) = {RuleNode(d) : d \in Range(s)}
    BY <1>5, Zenon DEF Range
<1> QED
    BY <1>4, <1>5, <1>6, ListOf

LEMMA ListDomain ==
    ASSUME NEW s, IsList(s), NEW t, t = [i \in DOMAIN s |-> t[i]]
    PROVE  IsList(t)
<1>1. Len(s) \in Nat /\ DOMAIN s = 1..Len(s)
    BY ListFacts
<1>2. t = [i \in 1..Len(s) |-> t[i]]
    BY <1>1
<1>3. t \in [1..Len(s) -> Range(t)]
    BY <1>2 DEF Range
<1> QED
    BY <1>1, <1>3 DEF IsList

LEMMA FlatRange ==
    ASSUME NEW P, NEW m \in Nat, \A i \in 1..m : IsList(P[i])
    PROVE  IsList(Flat(P, m)) /\ Range(Flat(P, m)) = UNION {Range(P[i]) : i \in 1..m}
<1> DEFINE C == UNION {Range(P[i]) : i \in 1..m}
           G == {n \in Nat : n <= m => Range(Flat(P, n)) = UNION {Range(P[i]) : i \in 1..n}}
<1>1. AreParts(P, m, C)
  <2> SUFFICES ASSUME NEW i \in 1..m PROVE P[i] \in Seq(C)
      BY Zenon DEF AreParts
  <2>1. P[i] \in Seq(Range(P[i])) /\ Range(P[i]) \subseteq C
      BY DEF IsList
  <2> QED
      BY <2>1
<1>2. 0 \in G
  <2>1. Flat(P, 0) = <<>> /\ {Range(P[i]) : i \in 1..0} = {}
      BY FlatEmpty
  <2> QED
      BY <2>1, EmptyList
<1>3. ASSUME NEW n \in Nat, n \in G, n + 1 <= m
      PROVE  Range(Flat(P, n + 1)) = UNION {Range(P[i]) : i \in 1..(n + 1)}
  <2> HIDE DEF C
  <2>1. AreParts(P, n + 1, C)
      BY <1>1, <1>3 DEF AreParts
  <2>2. Flat(P, n) \in Seq(C) /\ P[n + 1] \in Seq(C) /\ Flat(P, n + 1) = Flat(P, n) \o P[n + 1]
      BY <2>1, FlatStep
  <2>3. Range(Flat(P, n + 1)) = Range(Flat(P, n)) \cup Range(P[n + 1])
    <3>1. IsList(Flat(P, n))
        BY <2>2, ListOf
    <3>2. IsList(P[n + 1])
        BY <1>3
    <3> QED
        BY <2>2, <3>1, <3>2, ListJoin
  <2>4. 1..(n + 1) = 1..n \cup {n + 1}
      OBVIOUS
  <2>5. UNION {Range(P[i]) : i \in 1..(n + 1)} = (UNION {Range(P[i]) : i \in 1..n}) \cup Range(P[n + 1])
      BY <2>4, Zenon
  <2> QED
      BY <1>3, <2>3, <2>5
<1>4. \A n \in Nat : n \in G => n + 1 \in G
  <2> SUFFICES ASSUME NEW n \in Nat, n \in G, n + 1 <= m PROVE n + 1 \in G
      OBVIOUS
  <2> QED
      BY <1>3
<1>5. Nat \subseteq G
  <2> HIDE DEF G
  <2> QED
      BY <1>2, <1>4, Induction
<1>6. Range(Flat(P, m)) = UNION {Range(P[i]) : i \in 1..m}
    BY <1>5
<1>7. Flat(P, m) \in Seq(C)
  <2> HIDE DEF C
  <2> QED
      BY <1>1, FlatType
<1> HIDE DEF C
<1> QED
    BY <1>6, <1>7, ListOf

-----------------------------------------------------------------------------
(* The invariant: where a rule is, and what its node says, in each phase.     *)

Fields == {"doc", "names", "sel", "agg", "type", "generate", "ref", "refs"}

Counting == {c \in Range(files) : IsCorrelation(c) /\ ~IsTemporal(c)}

\* Before there are rules there is nothing else, before the scan no record.
Phases ==
    /\ phase \in {"read", "failed", "create", "merge", "temporal", "panic", "scan", "done"}
    /\ phase \in {"read", "failed", "create"} =>
         /\ rules = <<>> /\ merging = <<>> /\ merged = <<>> /\ temporals = <<>>
         /\ ref_rules = <<>> /\ temporal_nodes = <<>> /\ del_ids = {} /\ reported = {}
    /\ phase \notin {"scan", "done"} => log = <<>> /\ alerts = {}
    /\ log \in Seq(Records)

Lists ==
    /\ IsList(rules) /\ IsList(merging) /\ IsList(merged)
    /\ IsList(temporals) /\ IsList(ref_rules) /\ IsList(temporal_nodes)

\* Correlation rules wait as they were created.
Waiting ==
    /\ \A r \in Range(merging) : \E c \in Counting : r = RuleNode(c)
    /\ \A r \in Range(temporals) : \E t \in Range(files) : IsTemporal(t) /\ r = RuleNode(t)

\* What waits to be merged was not yet reported, if nothing is loaded twice.
Unreported ==
    /\ \A id \in reported : \E c \in Counting : c.id = id
    /\ LoadedOnce(Correlations) =>
         /\ \A i, j \in DOMAIN merging : merging[i].doc.id = merging[j].doc.id => i = j
         /\ \A r \in Range(merging) : r.doc.id \notin reported

\* A name in del_ids is one that a temporal rule without "generate" refers to.
Deleted ==
    \A n \in del_ids : \E t \in Range(files) :
        IsTemporal(t) /\ ~t.correlation.generate /\ n \in Range(t.correlation.refs)

Takes(c, d) == c \in NamedBy(d) /\ ~c.correlation.generate /\ ~Refused(c)

\* A plain rule is there until a correlation rule has taken it.
Kept ==
    LoadedOnce(Correlations) => \A d \in PlainRules :
        /\ phase \in {"merge", "temporal"} =>
             \/ RuleNode(d) \in Range(rules)
             \/ \E c \in Counting : Takes(c, d) /\ \A r \in Range(merging) : r.doc.id # c.id
        /\ phase \in {"scan", "done"} =>
             RuleNode(d) \in Range(rules) \/ \E c \in Range(files) : Takes(c, d)

\* A plain rule that is there has alerts for what it matched.
Alerted ==
    \A d \in PlainRules : RuleNode(d) \in Range(rules) =>
        \A i \in DOMAIN log : d.id \in log[i].hits => AlertsOf(d) # {}

BaseInv == LoaderTypeOK /\ Phases /\ Lists /\ Waiting /\ Unreported /\ Deleted /\ Kept /\ Alerted

-----------------------------------------------------------------------------
(* What a node says, by the rule it was made for.                             *)

\* The plain rules that c names.
Covered(c) == {d.id : d \in {p \in PlainRules : c \in NamedBy(p)}}

\* A plain rule, as it was created.
PlainNode(r) == r.doc \in PlainRules /\ r = RuleNode(r.doc)

\* A rule that counts: refused, and then without conditions, or merged.  One that a
\* temporal rule names goes by that name.
CountingNode(r) ==
    /\ DOMAIN r = Fields /\ r.doc \in Counting /\ r.names = Names(r.doc)
    /\ \/ r.type = CorrelationType(r.doc)
       \/ r.type = "ref" /\ NamedBy(r.doc) # {} /\ Len(r.ref) = 1
    /\ \/ r.sel = {} /\ r.agg = NoAgg /\ r.doc.id \in reported
       \/ /\ Detectable(r.doc.correlation) /\ CorrelationType(r.doc) # "none"
          /\ r.agg = [num |-> r.doc.correlation.num, span |-> r.doc.correlation.span]
          /\ r.agg.num \in Int /\ r.agg.span \in Nat
          /\ r.sel \subseteq Covered(r.doc)
          /\ (LoadedOnce(Documents) /\ OnlyOne(r.doc) => r.sel = Covered(r.doc))

Temporals == {t \in Range(files) : IsTemporal(t)}

\* x is the id of a clone made for the k-th reference of t.
ForRef(x, t, k) == Len(x) = 3 /\ x[1] = t.id /\ x[2] = k

\* A clone that a temporal rule made of a plain rule, or of a refused one.
CloneNode(r) ==
    /\ DOMAIN r = Fields /\ r.type = "ref" /\ r.agg.num = 1 /\ r.agg.span \in Nat
    /\ \E t \in Temporals : \E k \in DOMAIN t.correlation.refs :
         /\ ForRef(r.ref, t, k)
         /\ \/ r.sel = {} /\ r.doc \in Counting
            \/ r.doc \in PlainRules /\ r.sel = {r.doc.id} /\ t.correlation.refs[k] \in Names(r.doc)

\* A temporal rule refers to a clone for each name of a plain rule.
TemporalNode(r) ==
    /\ DOMAIN r = Fields /\ r.doc \in Temporals
    /\ r.type = r.doc.correlation.type /\ r.sel = {}
    /\ r.agg = [num |-> 1, span |-> r.doc.correlation.span] /\ r.agg.span \in Nat
    /\ IsList(r.refs)
    /\ LoadedOnce(Documents) /\ OnlyOne(r.doc) =>
         \A n \in Range(r.doc.correlation.refs) : (\E d \in PlainRules : n \in Names(d)) =>
            \E j \in DOMAIN r.refs, k \in DOMAIN r.doc.correlation.refs :
                ForRef(r.refs[j], r.doc, k) /\ r.doc.correlation.refs[k] = n

\* What kinds of nodes there are in each phase.
Classified ==
    /\ phase = "merge" => \A r \in Range(rules) : PlainNode(r)
    /\ phase \in {"temporal", "panic"} => \A r \in Range(rules) : PlainNode(r) \/ CountingNode(r)
    /\ phase \in {"scan", "done"} =>
         \A r \in Range(rules) : PlainNode(r) \/ CountingNode(r) \/ CloneNode(r) \/ TemporalNode(r)
    /\ \A r \in Range(merged) : CountingNode(r) /\ r.type # "ref"
    /\ \A r \in Range(ref_rules) : CloneNode(r)
    /\ \A r \in Range(temporal_nodes) : TemporalNode(r)

\* A rule that counts stays, unless a temporal rule names it.
Counted ==
    \A c \in Counting : NamedBy(c) = {} =>
        /\ phase = "merge" => RuleNode(c) \in Range(merging) \/ \E r \in Range(merged) : r.doc = c
        /\ phase \in {"temporal", "scan", "done"} => \E r \in Range(rules) : r.doc = c /\ CountingNode(r)

\* Where alerts come from.
Early(a) == \E d \in PlainRules : a.rule = d.id

Judged(a) ==
    \E r \in Range(rules) :
        /\ a.rule = r.doc.id
        /\ \/ HasAgg(r) /\ \E x \in Results(r) : a = Alert(r, x.group, x.time)
           \/ /\ r.type \in {"temporal", "temporal_ordered"}
              /\ \E x \in TemporalResults(r) : a = Alert(r, x.group, x.time)

Sources ==
    /\ phase = "scan" => \A a \in alerts : Early(a)
    /\ phase = "done" =>
         /\ \A a \in alerts : Early(a) \/ Judged(a)
         /\ \A r \in Range(rules) : HasAgg(r) /\ r.type # "ref" =>
                \A x \in Results(r) : Alert(r, x.group, x.time) \in alerts

-----------------------------------------------------------------------------
LEMMA LoadMeans ==
    ASSUME Load
    PROVE  /\ phase = "read" /\ phase' \in {"read", "failed", "create"}
           /\ UNCHANGED <<correlating, log, alerts>>
    BY DEF Load, LoaderNext, ReadFile, FailToRead, Skip, Recurse, Abort, EndOfDirectory,
       Filter, EndOfRead, Reading

\* What is said of the files stays true once they are read.
LEMMA SameFiles ==
    ASSUME UNCHANGED loading
    PROVE  /\ LoaderTypeOK => LoaderTypeOK'
           /\ files' = files /\ PlainRules' = PlainRules /\ Counting' = Counting
           /\ Temporals' = Temporals
           /\ \A d : NamedBy(d)' = NamedBy(d)
           /\ \A D : LoadedOnce(D)' <=> LoadedOnce(D)
<1>1. files' = files
    BY DEF loading
<1>2. LoaderTypeOK => LoaderTypeOK'
    BY DEF loading, counters, reading, LoaderTypeOK
<1> QED
    BY <1>1, <1>2 DEF PlainRules, Counting, NamedBy, LoadedOnce, Temporals

LEMMA OnceMeans ==
    ASSUME LoaderTypeOK, NEW D, LoadedOnce(D),
           NEW x \in Range(files), x \in D, NEW y \in Range(files), y \in D, x.id = y.id
    PROVE  x = y
    BY DEF LoadedOnce, Range

\* The references of a correlation rule are the pairs of a reference and a rule.
LEMMA ReferencesMeans ==
    ASSUME NEW c, c.refs \in Seq(STRING), IsList(rules)
    PROVE  /\ IsList(References(c))
           /\ Range(References(c)) = {p \in (DOMAIN c.refs) \X (DOMAIN rules) :
                                         is_referenced_rule(rules[p[2]], c.refs[p[1]])}
<1> DEFINE of(k) == [i \in DOMAIN rules |-> <<k, i>>]
           hits == {p \in (DOMAIN c.refs) \X (DOMAIN rules) :
                        is_referenced_rule(rules[p[2]], c.refs[p[1]])}
           P == [k \in DOMAIN c.refs |-> of(k)]
           n == Len(c.refs)
<1>1. n \in Nat /\ DOMAIN c.refs = 1..n
    OBVIOUS
<1>2. References(c) = Chosen(FlattenSeq(P), hits)
    BY Zenon DEF References
<1>3. P = [k \in 1..n |-> P[k]]
    BY <1>1
<1>4. FlattenSeq(P) = Flat(P, n)
    BY <1>3 DEF Flat
<1>5. \A k \in 1..n : P[k] = of(k)
    BY <1>1
<1>6. ASSUME NEW k \in 1..n PROVE IsList(P[k]) /\ Range(P[k]) = {<<k, i>> : i \in DOMAIN rules}
  <2>1. IsList(of(k))
      BY ListDomain
  <2>2. Range(of(k)) = {<<k, i>> : i \in DOMAIN rules}
      BY Zenon DEF Range
  <2> QED
      BY <1>5, <2>1, <2>2
<1> HIDE DEF P, hits, n
<1>7. IsList(Flat(P, n)) /\ Range(Flat(P, n)) = UNION {Range(P[k]) : k \in 1..n}
    BY <1>1, <1>6, FlatRange
<1>8. hits \subseteq Range(Flat(P, n))
  <2> SUFFICES ASSUME NEW k \in DOMAIN c.refs, NEW i \in DOMAIN rules PROVE <<k, i>> \in Range(Flat(P, n))
      BY DEF hits
  <2> QED
      BY <1>1, <1>6, <1>7
<1> QED
    BY <1>2, <1>4, <1>7, <1>8, ListChosen DEF hits

LEMMA PlainFacts ==
    ASSUME LoaderTypeOK
    PROVE  /\ IsList(files) /\ Range(files) \subseteq Documents
           /\ \A d \in PlainRules : d \in Range(files) /\ ~IsCorrelation(d) /\ RuleInitOk(d)
                                    /\ RuleNode(d).names = Names(d) /\ RuleNode(d).type = "none"
                                    /\ RuleNode(d).agg = NoAgg /\ RuleNode(d).doc = d
                                    /\ RuleNode(d).sel = {d.id}
           /\ \A c \in Counting : IsCorrelation(c) /\ RuleNode(c).doc = c
           /\ \A t \in Range(files) : IsTemporal(t) => IsCorrelation(t) /\ t \notin Counting
<1>1. IsList(files) /\ Range(files) \subseteq Documents
    BY ListOf DEF LoaderTypeOK
<1> QED
    BY <1>1 DEF PlainRules, Counting, RuleNode, Names, RuleInitOk, IsCorrelation, IsTemporal,
       CorrelationType

-----------------------------------------------------------------------------
(* A step of each action, for what BaseStillHeard needs.                      *)
LEMMA CreateBase == BaseInv /\ CreateRules => BaseInv'
<1> SUFFICES ASSUME BaseInv, CreateRules PROVE BaseInv'
    OBVIOUS
<1> DEFINE plain == {d \in Documents : ~IsCorrelation(d) /\ RuleInitOk(d)}
           counting == {d \in Documents : IsCorrelation(d) /\ ~IsTemporal(d)}
           temporal == {d \in Documents : IsTemporal(d)}
<1>1. /\ UNCHANGED loading /\ phase = "create" /\ phase' = "merge"
      /\ UNCHANGED <<merged, ref_rules, del_ids, temporal_nodes, reported, log, alerts>>
      /\ rules' = Nodes(Chosen(files, plain)) /\ merging' = Nodes(Chosen(files, counting))
      /\ temporals' = Nodes(Chosen(files, temporal))
    BY DEF CreateRules
<1>2. /\ LoaderTypeOK' /\ files' = files /\ PlainRules' = PlainRules /\ Counting' = Counting
      /\ \A D : LoadedOnce(D)' <=> LoadedOnce(D)
    BY <1>1, SameFiles DEF BaseInv
<1>3. /\ merged = <<>> /\ ref_rules = <<>> /\ temporal_nodes = <<>> /\ del_ids = {}
      /\ reported = {} /\ log = <<>> /\ alerts = {}
    BY <1>1 DEF BaseInv, Phases
<1>4. IsList(files) /\ Range(files) \subseteq Documents /\ files \in Seq(Documents)
    BY PlainFacts DEF BaseInv, LoaderTypeOK
<1>5. \A S : IsList(Chosen(files, S)) /\ Range(Chosen(files, S)) = Range(files) \cap S
    BY <1>4, ListChosen
<1> HIDE DEF plain, counting, temporal
<1>6. /\ IsList(rules') /\ Range(rules') = {RuleNode(d) : d \in Range(files) \cap plain}
      /\ IsList(merging') /\ Range(merging') = {RuleNode(d) : d \in Range(files) \cap counting}
      /\ IsList(temporals') /\ Range(temporals') = {RuleNode(d) : d \in Range(files) \cap temporal}
    BY <1>1, <1>5, ListNodes
<1>7. Phases'
    BY <1>1, <1>3 DEF Phases, BaseInv
<1>8. Lists'
    BY <1>1, <1>3, <1>6, EmptyList DEF Lists
<1>9. Range(files) \cap counting = Counting
    BY <1>4 DEF counting, Counting
<1>10. Waiting'
    BY <1>2, <1>6, <1>9 DEF Waiting, temporal
<1>11. Unreported'
  <2>1. reported' = {}
      BY <1>1, <1>3
  <2>2. ASSUME LoadedOnce(Correlations), NEW i \in DOMAIN merging', NEW j \in DOMAIN merging',
               merging'[i].doc.id = merging'[j].doc.id
        PROVE  i = j
    <3> DEFINE t == Chosen(files, counting)
    <3>1. PICK f : Positions(f, t, files, counting, Len(files))
        BY <1>4, ChosenMeans
    <3>2. DOMAIN t = 1..Len(t) /\ Len(t) \in Nat
        BY <1>5, ListFacts
    <3>3. DOMAIN merging' = DOMAIN t /\ \A k \in DOMAIN t : merging'[k] = RuleNode(t[k])
        BY <1>1, <1>5, ListNodes
    <3> HIDE DEF t
    <3>4. /\ f[i] \in DOMAIN files /\ files[f[i]] \in counting /\ merging'[i].doc = files[f[i]]
          /\ f[j] \in DOMAIN files /\ files[f[j]] \in counting /\ merging'[j].doc = files[f[j]]
      <4>1. t[i] = files[f[i]] /\ t[j] = files[f[j]] /\ files[f[i]] \in counting
            /\ files[f[j]] \in counting /\ f[i] \in DOMAIN files /\ f[j] \in DOMAIN files
          BY <1>4, <2>2, <3>1, <3>2, <3>3 DEF Positions
      <4> QED
          BY <2>2, <3>3, <4>1 DEF RuleNode
    <3>5. f[i] = f[j]
        BY <1>4, <2>2, <3>4, ListFacts DEF LoadedOnce, Correlations, counting
    <3>6. i \in 1..Len(t) /\ j \in 1..Len(t)
        BY <2>2, <3>2, <3>3
    <3>7. ~ (i < j) /\ ~ (j < i)
        BY <3>1, <3>2, <3>4, <3>5, <3>6, <1>4 DEF Positions
    <3> QED
        BY <3>2, <3>6, <3>7
  <2> QED
      BY <1>2, <2>1, <2>2 DEF Unreported
<1>12. Deleted'
    BY <1>1, <1>3 DEF Deleted
<1>13. Kept'
  <2>1. \A d \in PlainRules : RuleNode(d) \in Range(rules')
      BY <1>4, <1>6, PlainFacts DEF plain, BaseInv
  <2> QED
      BY <1>1, <1>2, <2>1 DEF Kept
<1>14. Alerted'
    BY <1>1, <1>3 DEF Alerted
<1> QED
    BY <1>2, <1>7, <1>8, <1>10, <1>11, <1>12, <1>13, <1>14 DEF BaseInv

LEMMA MergeBase == BaseInv /\ Merge => BaseInv'
<1> SUFFICES ASSUME BaseInv, Merge PROVE BaseInv'
    OBVIOUS
<1> DEFINE rule == Head(merging)
           c == rule.doc.correlation
           kept == {r \in Range(rules) : r.names \cap TakenOut(c, Range(c.refs)) = {}}
<1>1. /\ UNCHANGED loading /\ phase = "merge" /\ phase' = phase /\ merging # <<>>
      /\ UNCHANGED <<temporals, ref_rules, del_ids, temporal_nodes, log, alerts>>
      /\ merging' = Tail(merging)
      /\ rules' = IF Mergeable(c) THEN Chosen(rules, kept) ELSE rules
      /\ \E r : merged' = Append(merged, r)
      /\ IF Mergeable(c) /\ Detectable(c) THEN reported' = reported
         ELSE reported' = reported \cup {rule.doc.id}
    BY DEF Merge
<1>2. /\ LoaderTypeOK' /\ files' = files /\ PlainRules' = PlainRules /\ Counting' = Counting
      /\ \A D : LoadedOnce(D)' <=> LoadedOnce(D)
      /\ \A d : NamedBy(d)' = NamedBy(d)
    BY <1>1, SameFiles DEF BaseInv
<1>3. Lists /\ Waiting /\ Unreported /\ Kept
    BY DEF BaseInv
<1>4. /\ rule \in Range(merging) /\ Range(Tail(merging)) \subseteq Range(merging)
      /\ IsList(Tail(merging)) /\ rule = merging[1] /\ 1 \in DOMAIN merging
      /\ \A i \in DOMAIN Tail(merging) :
            i \in Nat /\ i + 1 \in DOMAIN merging /\ Tail(merging)[i] = merging[i + 1]
    BY <1>1, <1>3, ListTail DEF Lists
<1>5. rule.doc \in Counting /\ rule = RuleNode(rule.doc)
    BY <1>3, <1>4, PlainFacts DEF Waiting, BaseInv
<1>6. IsList(Chosen(rules, kept)) /\ Range(Chosen(rules, kept)) = Range(rules) \cap kept
    BY <1>3, ListChosen DEF Lists
<1>7. IsList(rules') /\ Range(rules') = IF Mergeable(c) THEN Range(rules) \cap kept ELSE Range(rules)
    BY <1>1, <1>3, <1>6 DEF Lists
<1>8. LoadedOnce(Correlations) => \A r \in Range(Tail(merging)) : r.doc.id # rule.doc.id
  <2> SUFFICES ASSUME LoadedOnce(Correlations), NEW r \in Range(Tail(merging)),
                      r.doc.id = rule.doc.id
               PROVE  FALSE
      OBVIOUS
  <2>1. PICK i \in DOMAIN Tail(merging) : Tail(merging)[i] = r
      BY <1>4, ListFacts
  <2>2. i + 1 = 1
      BY <1>3, <1>4, <2>1 DEF Unreported
  <2> QED
      BY <1>4, <2>1, <2>2, ListFacts
<1> HIDE DEF rule, kept
<1>9. Phases'
    BY <1>1 DEF Phases, BaseInv
<1>10. Lists'
    BY <1>1, <1>3, <1>4, <1>7, ListAppend DEF Lists
<1>11. Waiting'
    BY <1>1, <1>2, <1>3, <1>4 DEF Waiting
<1>12. Unreported'
  <2>1. \A id \in reported' : \E k \in Counting : k.id = id
      BY <1>1, <1>3, <1>5 DEF Unreported
  <2>2. ASSUME LoadedOnce(Correlations)
        PROVE  \A i, j \in DOMAIN Tail(merging) :
                   Tail(merging)[i].doc.id = Tail(merging)[j].doc.id => i = j
    <3> SUFFICES ASSUME NEW i \in DOMAIN Tail(merging), NEW j \in DOMAIN Tail(merging),
                        Tail(merging)[i].doc.id = Tail(merging)[j].doc.id
                 PROVE  i = j
        OBVIOUS
    <3>1. i + 1 = j + 1
        BY <1>3, <1>4, <2>2 DEF Unreported
    <3> QED
        BY <1>4, <3>1
  <2>3. ASSUME LoadedOnce(Correlations), NEW r \in Range(Tail(merging))
        PROVE  r.doc.id \notin reported'
      BY <1>1, <1>3, <1>4, <1>8, <2>3 DEF Unreported
  <2> QED
      BY <1>1, <1>2, <2>1, <2>2, <2>3 DEF Unreported
<1>13. Deleted'
    BY <1>1, <1>2 DEF Deleted, BaseInv
<1>14. Kept'
  <2> SUFFICES ASSUME LoadedOnce(Correlations), NEW d \in PlainRules
               PROVE  \/ RuleNode(d) \in Range(rules')
                      \/ \E k \in Counting :
                            Takes(k, d)' /\ \A r \in Range(merging') : r.doc.id # k.id
      BY <1>1, <1>2 DEF Kept
  <2>1. CASE RuleNode(d) \in Range(rules)
    <3>1. CASE RuleNode(d) \in Range(rules')
        BY <3>1
    <3>2. CASE RuleNode(d) \notin Range(rules')
      <4>1. Mergeable(c) /\ Names(d) \cap TakenOut(c, Range(c.refs)) # {}
          BY <1>7, <2>1, <3>2, PlainFacts DEF kept, BaseInv
      <4>2. ~ c.generate /\ Names(d) \cap Range(c.refs) # {} /\ c.group_by
          BY <4>1 DEF TakenOut, Mergeable
      <4>3. rule.doc \in NamedBy(d)
          BY <1>5, <4>2 DEF NamedBy, Counting
      <4>4. rule.doc.id \in reported' => ~ Detectable(c)
          BY <1>1, <1>3, <1>4, <4>1 DEF Unreported
      <4>5. PICK k \in Counting : k = rule.doc
          BY <1>5
      <4>6. k \in NamedBy(d) /\ k.correlation = c
          BY <4>3, <4>5 DEF c
      <4> HIDE DEF c
      <4>7. Takes(k, d)'
          BY <1>2, <4>2, <4>4, <4>5, <4>6 DEF Takes, Refused, Detectable
      <4> QED
          BY <1>1, <1>8, <4>5, <4>7
    <3> QED
        BY <3>1, <3>2
  <2>2. CASE \E k \in Counting : Takes(k, d) /\ \A r \in Range(merging) : r.doc.id # k.id
    <3>1. PICK k \in Counting : Takes(k, d) /\ \A r \in Range(merging) : r.doc.id # k.id
        BY <2>2
    <3>2. k.id \in reported' => k.id \in reported
        BY <1>1, <1>4, <3>1
    <3>3. Takes(k, d)'
        BY <1>2, <3>1, <3>2 DEF Takes, Refused, Detectable
    <3> QED
        BY <1>1, <1>4, <3>1, <3>3
  <2> QED
      BY <1>1, <1>3, <2>1, <2>2 DEF Kept
<1>15. Alerted'
    BY <1>1 DEF Alerted, Phases, BaseInv
<1> QED
    BY <1>2, <1>9, <1>10, <1>11, <1>12, <1>13, <1>14, <1>15 DEF BaseInv

LEMMA MergedBase == BaseInv /\ Merged => BaseInv'
<1> SUFFICES ASSUME BaseInv, Merged PROVE BaseInv'
    OBVIOUS
<1>1. /\ UNCHANGED loading /\ phase = "merge" /\ phase' = "temporal" /\ merging = <<>>
      /\ rules' = merged \o rules /\ merged' = <<>>
      /\ UNCHANGED <<merging, temporals, ref_rules, del_ids, temporal_nodes, reported, log, alerts>>
    BY DEF Merged
<1>2. /\ LoaderTypeOK' /\ files' = files /\ PlainRules' = PlainRules /\ Counting' = Counting
      /\ \A D : LoadedOnce(D)' <=> LoadedOnce(D)
      /\ \A d : NamedBy(d)' = NamedBy(d)
    BY <1>1, SameFiles DEF BaseInv
<1>3. IsList(rules') /\ Range(rules') = Range(merged) \cup Range(rules)
    BY <1>1, ListJoin DEF Lists, BaseInv
<1>4. Lists'
    BY <1>1, <1>3, EmptyList DEF Lists, BaseInv
<1>5. Phases'
    BY <1>1 DEF Phases, BaseInv
<1>6. Waiting' /\ Unreported' /\ Deleted'
    BY <1>1, <1>2 DEF Waiting, Unreported, Deleted, BaseInv
<1>7. Kept'
  <2>1. \A c, d : Takes(c, d)' <=> Takes(c, d)
      BY <1>1, <1>2 DEF Takes, Refused, Detectable
  <2> QED
      BY <1>1, <1>2, <1>3, <2>1 DEF Kept, BaseInv
<1>8. Alerted'
    BY <1>1 DEF Alerted, Phases, BaseInv
<1> QED
    BY <1>2, <1>4, <1>5, <1>6, <1>7, <1>8 DEF BaseInv

\* The pieces of ParseTemporal.
TemporalRefs == References(Head(temporals).doc.correlation)
TemporalClones ==
    Chosen(TemporalRefs, {p \in Range(TemporalRefs) : ~(rules[p[2]].type # "none")})

LEMMA ParseTemporalMeans ==
    ASSUME BaseInv, ParseTemporal
    PROVE  \E t \in Temporals :
             /\ Head(temporals) = RuleNode(t) /\ Head(temporals).doc = t
             /\ t.correlation.refs \in Seq(STRING) /\ t.correlation.span \in Nat
             /\ UNCHANGED loading /\ phase = "temporal" /\ phase' = phase
             /\ UNCHANGED <<merging, merged, reported, log, alerts>>
             /\ temporals # <<>> /\ temporals' = Tail(temporals)
             /\ IsList(TemporalRefs)
             /\ Range(TemporalRefs) =
                  {p \in (DOMAIN t.correlation.refs) \X (DOMAIN rules) :
                       is_referenced_rule(rules[p[2]], t.correlation.refs[p[1]])}
             /\ IsList(TemporalClones)
             /\ Range(TemporalClones) = {p \in Range(TemporalRefs) : rules[p[2]].type = "none"}
             /\ ref_rules' = ref_rules \o
                    [n \in DOMAIN TemporalClones |-> Clone(RuleNode(t), TemporalClones[n])]
             /\ del_ids' = del_ids \cup TakenOut(t.correlation,
                    {t.correlation.refs[TemporalClones[n][1]] : n \in DOMAIN TemporalClones})
             /\ temporal_nodes' = Append(temporal_nodes,
                    [RuleNode(t) EXCEPT
                        !.agg = [num |-> 1, span |-> t.correlation.span],
                        !.refs = [n \in DOMAIN TemporalRefs |->
                             IF rules[TemporalRefs[n][2]].type # "none"
                             THEN ByName(t.correlation.refs[TemporalRefs[n][1]])
                             ELSE NewId(RuleNode(t), TemporalRefs[n])]])
             /\ rules' = [i \in DOMAIN rules |-> rules'[i]]
             /\ \A i \in DOMAIN rules : rules'[i] = rules[i] \/
                    /\ rules[i].type # "none"
                    /\ \E k \in DOMAIN t.correlation.refs :
                         /\ is_referenced_rule(rules[i], t.correlation.refs[k])
                         /\ rules'[i] = [rules[i] EXCEPT !.type = "ref",
                                !.generate = t.correlation.generate,
                                !.ref = ByName(t.correlation.refs[k])]
<1> DEFINE h == Head(temporals)
           refs == TemporalRefs
           last(i) == {n \in DOMAIN refs : refs[n][2] = i /\ \A m \in DOMAIN refs :
                            refs[m][2] = i => m <= n}
<1>1. h \in Range(temporals)
    BY ListTail DEF ParseTemporal, BaseInv, Lists
<1>2. PICK t \in Range(files) : IsTemporal(t) /\ h = RuleNode(t)
    BY <1>1 DEF BaseInv, Waiting
<1>3. t \in Temporals /\ h.doc = t /\ t.correlation.refs \in Seq(STRING)
    BY <1>2, PlainFacts, RuleAssumption DEF Temporals, RuleNode, BaseInv
<1>11. t.correlation.span \in Nat
    BY <1>2, <1>3, PlainFacts, RuleAssumption DEF ParseTemporal, BaseInv
<1>4. /\ IsList(refs)
      /\ Range(refs) = {p \in (DOMAIN t.correlation.refs) \X (DOMAIN rules) :
                           is_referenced_rule(rules[p[2]], t.correlation.refs[p[1]])}
    BY <1>3, ReferencesMeans DEF BaseInv, Lists, TemporalRefs
<1>5. /\ IsList(TemporalClones)
      /\ Range(TemporalClones) = {p \in Range(TemporalRefs) : rules[p[2]].type = "none"}
  <2> DEFINE S == {p \in Range(TemporalRefs) : ~(rules[p[2]].type # "none")}
  <2>1. IsList(Chosen(refs, S)) /\ Range(Chosen(refs, S)) = Range(refs) \cap S
      BY <1>4, ListChosen
  <2> QED
      BY <2>1 DEF TemporalClones
<1>6. /\ UNCHANGED loading /\ phase = "temporal" /\ phase' = phase
      /\ UNCHANGED <<merging, merged, reported, log, alerts>>
      /\ temporals # <<>> /\ temporals' = Tail(temporals)
    BY DEF ParseTemporal
<1>7. /\ ref_rules' = ref_rules \o
                    [n \in DOMAIN TemporalClones |-> Clone(RuleNode(t), TemporalClones[n])]
      /\ del_ids' = del_ids \cup TakenOut(t.correlation,
                    {t.correlation.refs[TemporalClones[n][1]] : n \in DOMAIN TemporalClones})
      /\ temporal_nodes' = Append(temporal_nodes,
                    [RuleNode(t) EXCEPT
                        !.agg = [num |-> 1, span |-> t.correlation.span],
                        !.refs = [n \in DOMAIN TemporalRefs |->
                             IF rules[TemporalRefs[n][2]].type # "none"
                             THEN ByName(t.correlation.refs[TemporalRefs[n][1]])
                             ELSE NewId(RuleNode(t), TemporalRefs[n])]])
    BY <1>2, <1>3, Zenon DEF ParseTemporal, TemporalRefs, TemporalClones
<1>8. rules' = [i \in DOMAIN rules |->
                IF rules[i].type # "none" /\ last(i) # {}
                THEN [rules[i] EXCEPT !.type = "ref", !.generate = t.correlation.generate,
                         !.ref = ByName(t.correlation.refs[refs[CHOOSE n \in last(i) : TRUE][1]])]
                ELSE rules[i]]
    BY <1>2, <1>3, Zenon DEF ParseTemporal, TemporalRefs
<1>9. ASSUME NEW i \in DOMAIN rules, rules'[i] # rules[i]
      PROVE  /\ rules[i].type # "none"
             /\ \E k \in DOMAIN t.correlation.refs :
                         /\ is_referenced_rule(rules[i], t.correlation.refs[k])
                         /\ rules'[i] = [rules[i] EXCEPT !.type = "ref",
                                !.generate = t.correlation.generate,
                                !.ref = ByName(t.correlation.refs[k])]
  <2> DEFINE n == CHOOSE m \in last(i) : TRUE
  <2>1. /\ rules[i].type # "none" /\ last(i) # {}
        /\ rules'[i] = [rules[i] EXCEPT !.type = "ref", !.generate = t.correlation.generate,
                         !.ref = ByName(t.correlation.refs[refs[n][1]])]
      BY <1>8, <1>9
  <2>2. n \in DOMAIN refs /\ refs[n][2] = i
      BY <2>1
  <2>3. refs[n] \in Range(refs)
      BY <1>4, <2>2, ListFacts
  <2>4. refs[n][1] \in DOMAIN t.correlation.refs
        /\ is_referenced_rule(rules[i], t.correlation.refs[refs[n][1]])
      BY <1>4, <2>2, <2>3
  <2> QED
      BY <2>1, <2>4
<1>10. rules' = [i \in DOMAIN rules |-> rules'[i]]
    BY <1>8
<1> HIDE DEF h, refs, last
<1> QED
    BY <1>2, <1>3, <1>4, <1>5, <1>6, <1>7, <1>9, <1>10, <1>11 DEF h, refs

LEMMA ParseTemporalBase == BaseInv /\ ParseTemporal => BaseInv'
<1> SUFFICES ASSUME BaseInv, ParseTemporal PROVE BaseInv'
    OBVIOUS
<1>1. PICK t \in Temporals :
             /\ Head(temporals) = RuleNode(t)
             /\ UNCHANGED loading /\ phase = "temporal" /\ phase' = phase
             /\ UNCHANGED <<merging, merged, reported, log, alerts>>
             /\ temporals # <<>> /\ temporals' = Tail(temporals)
             /\ IsList(TemporalClones)
             /\ Range(TemporalClones) = {p \in Range(TemporalRefs) : rules[p[2]].type = "none"}
             /\ Range(TemporalRefs) =
                  {p \in (DOMAIN t.correlation.refs) \X (DOMAIN rules) :
                       is_referenced_rule(rules[p[2]], t.correlation.refs[p[1]])}
             /\ ref_rules' = ref_rules \o
                    [n \in DOMAIN TemporalClones |-> Clone(RuleNode(t), TemporalClones[n])]
             /\ del_ids' = del_ids \cup TakenOut(t.correlation,
                    {t.correlation.refs[TemporalClones[n][1]] : n \in DOMAIN TemporalClones})
             /\ \E v : temporal_nodes' = Append(temporal_nodes, v)
             /\ rules' = [i \in DOMAIN rules |-> rules'[i]]
             /\ \A i \in DOMAIN rules : rules'[i] = rules[i] \/ rules[i].type # "none"
    BY ParseTemporalMeans
<1>2. /\ LoaderTypeOK' /\ files' = files /\ PlainRules' = PlainRules /\ Counting' = Counting
      /\ \A D : LoadedOnce(D)' <=> LoadedOnce(D)
      /\ \A d : NamedBy(d)' = NamedBy(d)
    BY <1>1, SameFiles DEF BaseInv
<1>3. IsList(rules') /\ DOMAIN rules' = DOMAIN rules
    BY <1>1, ListDomain DEF Lists, BaseInv
<1>4. IsList(ref_rules')
  <2> DEFINE u == [n \in DOMAIN TemporalClones |-> Clone(RuleNode(t), TemporalClones[n])]
  <2>1. IsList(u)
      BY <1>1, ListDomain
  <2> HIDE DEF u
  <2> QED
      BY <1>1, <2>1, ListJoin DEF Lists, BaseInv, u
<1>5. IsList(temporals') /\ Range(temporals') \subseteq Range(temporals)
    BY <1>1, ListTail DEF Lists, BaseInv
<1>6. Lists'
    BY <1>1, <1>3, <1>4, <1>5, ListAppend DEF Lists, BaseInv
<1>7. Phases'
    BY <1>1 DEF Phases, BaseInv
<1>8. Waiting'
    BY <1>1, <1>2, <1>5 DEF Waiting, BaseInv
<1>9. Unreported'
    BY <1>1, <1>2 DEF Unreported, BaseInv
<1>10. Deleted'
  <2> SUFFICES ASSUME NEW n \in del_ids', n \notin del_ids
               PROVE  \E x \in Range(files) : /\ IsTemporal(x) /\ ~x.correlation.generate
                                              /\ n \in Range(x.correlation.refs)
      BY <1>2 DEF Deleted, BaseInv
  <2>1. /\ ~ t.correlation.generate
        /\ n \in {t.correlation.refs[TemporalClones[m][1]] : m \in DOMAIN TemporalClones}
      BY <1>1 DEF TakenOut
  <2>2. PICK m \in DOMAIN TemporalClones : n = t.correlation.refs[TemporalClones[m][1]]
      BY <2>1
  <2>3. TemporalClones[m] \in Range(TemporalRefs)
      BY <1>1, <2>2, ListFacts
  <2>4. TemporalClones[m][1] \in DOMAIN t.correlation.refs
      BY <1>1, <2>3
  <2>5. n \in Range(t.correlation.refs)
      BY <2>2, <2>4 DEF Range
  <2> QED
      BY <2>1, <2>5 DEF Temporals
<1>11. \A d \in PlainRules : RuleNode(d) \in Range(rules) => RuleNode(d) \in Range(rules')
  <2> SUFFICES ASSUME NEW d \in PlainRules, RuleNode(d) \in Range(rules)
               PROVE  RuleNode(d) \in Range(rules')
      OBVIOUS
  <2>1. PICK i \in DOMAIN rules : rules[i] = RuleNode(d)
      BY DEF Range
  <2>2. rules'[i] = rules[i]
      BY <1>1, <2>1, PlainFacts DEF BaseInv
  <2> QED
      BY <1>3, <2>1, <2>2, ListFacts
<1>12. Kept'
  <2>1. \A c, d : Takes(c, d)' <=> Takes(c, d)
      BY <1>1, <1>2 DEF Takes, Refused, Detectable
  <2> QED
      BY <1>1, <1>2, <1>11, <2>1 DEF Kept, BaseInv
<1>13. Alerted'
    BY <1>1 DEF Alerted, Phases, BaseInv
<1> QED
    BY <1>2, <1>6, <1>7, <1>8, <1>9, <1>10, <1>12, <1>13 DEF BaseInv

LEMMA AssembledBase == BaseInv /\ Assembled => BaseInv'
<1> SUFFICES ASSUME BaseInv, Assembled PROVE BaseInv'
    OBVIOUS
<1> DEFINE kept == {r \in Range(rules) : r.names \cap del_ids = {}}
<1>1. /\ UNCHANGED loading /\ phase = "temporal" /\ phase' = "scan"
      /\ UNCHANGED <<merging, merged, temporals, ref_rules, del_ids, temporal_nodes, reported,
                     log, alerts>>
      /\ rules' = Chosen(rules, kept) \o ref_rules \o temporal_nodes
    BY DEF Assembled
<1>2. /\ LoaderTypeOK' /\ files' = files /\ PlainRules' = PlainRules /\ Counting' = Counting
      /\ \A D : LoadedOnce(D)' <=> LoadedOnce(D)
      /\ \A d : NamedBy(d)' = NamedBy(d)
    BY <1>1, SameFiles DEF BaseInv
<1>3. IsList(Chosen(rules, kept)) /\ Range(Chosen(rules, kept)) = kept
    BY ListChosen DEF Lists, BaseInv
<1> HIDE DEF kept
<1>4. IsList(rules') /\ kept \subseteq Range(rules')
  <2>1. IsList(ref_rules) /\ IsList(temporal_nodes)
      BY DEF Lists, BaseInv
  <2>2. /\ IsList(Chosen(rules, kept) \o ref_rules)
        /\ kept \subseteq Range(Chosen(rules, kept) \o ref_rules)
      BY <1>3, <2>1, ListJoin
  <2> QED
      BY <1>1, <2>1, <2>2, ListJoin
<1>5. Lists'
    BY <1>1, <1>4 DEF Lists, BaseInv
<1>6. Phases'
    BY <1>1 DEF Phases, BaseInv
<1>7. Waiting' /\ Unreported' /\ Deleted'
    BY <1>1, <1>2 DEF Waiting, Unreported, Deleted, BaseInv
<1>8. Kept'
  <2> SUFFICES ASSUME LoadedOnce(Correlations), NEW d \in PlainRules, RuleNode(d) \notin Range(rules')
               PROVE  \E c \in Range(files) : Takes(c, d)'
      BY <1>1, <1>2 DEF Kept
  <2>1. \A c : Takes(c, d)' <=> Takes(c, d)
      BY <1>1, <1>2 DEF Takes, Refused, Detectable
  <2>2. CASE RuleNode(d) \notin Range(rules)
      BY <1>1, <2>1, <2>2 DEF Kept, BaseInv, Counting
  <2>3. CASE RuleNode(d) \in Range(rules)
    <3>1. PICK n \in Names(d) : n \in del_ids
        BY <1>4, <2>3, PlainFacts DEF kept, BaseInv
    <3>2. PICK t \in Range(files) : /\ IsTemporal(t) /\ ~t.correlation.generate
                                    /\ n \in Range(t.correlation.refs)
        BY <3>1 DEF Deleted, BaseInv
    <3>3. IsCorrelation(t) /\ t \notin Counting /\ t \in Documents
        BY <3>2, PlainFacts DEF BaseInv
    <3>4. t \in NamedBy(d)
        BY <3>1, <3>2, <3>3 DEF NamedBy
    <3>5. ASSUME t.id \in reported PROVE FALSE
      <4>1. PICK c \in Counting : c.id = t.id
          BY <3>5 DEF Unreported, BaseInv
      <4>2. c = t
          BY <3>3, <4>1, OnceMeans, PlainFacts DEF BaseInv, Counting, Correlations
      <4> QED
          BY <3>3, <4>1, <4>2
    <3> QED
        BY <2>1, <3>2, <3>4, <3>5 DEF Takes, Refused
  <2> QED
      BY <2>2, <2>3
<1>9. Alerted'
    BY <1>1 DEF Alerted, Phases, BaseInv
<1> QED
    BY <1>2, <1>5, <1>6, <1>7, <1>8, <1>9 DEF BaseInv

LEMMA ScanBase == ASSUME NEW e \in Records PROVE BaseInv /\ Scan(e) => BaseInv'
<1> SUFFICES ASSUME BaseInv, Scan(e) PROVE BaseInv'
    OBVIOUS
<1>1. /\ UNCHANGED loading /\ phase = "scan" /\ phase' = phase /\ UNCHANGED correlating
      /\ log' = Append(log, e)
      /\ alerts' = alerts \cup {Alert(r, e.group, e.time) :
                        r \in {q \in Range(rules) : ~HasAgg(q) /\ e.hits \cap q.sel # {}}}
    BY DEF Scan
<1>2. /\ LoaderTypeOK' /\ files' = files /\ PlainRules' = PlainRules /\ Counting' = Counting
      /\ \A D : LoadedOnce(D)' <=> LoadedOnce(D)
      /\ \A d : NamedBy(d)' = NamedBy(d)
    BY <1>1, SameFiles DEF BaseInv
<1>3. /\ log \in Seq(Records) /\ log' \in Seq(Records) /\ Len(log') = Len(log) + 1
      /\ log'[Len(log) + 1] = e /\ \A i \in 1..Len(log) : log'[i] = log[i]
    BY <1>1 DEF Phases, BaseInv
<1>4. Phases' /\ Lists' /\ Waiting' /\ Unreported' /\ Deleted'
    BY <1>1, <1>2, <1>3 DEF Phases, Lists, Waiting, Unreported, Deleted, BaseInv, correlating
<1>5. Kept'
  <2>1. \A c, d : Takes(c, d)' <=> Takes(c, d)
      BY <1>1, <1>2 DEF Takes, Refused, Detectable, correlating
  <2> QED
      BY <1>1, <1>2, <2>1 DEF Kept, BaseInv, correlating
<1>6. Alerted'
  <2> SUFFICES ASSUME NEW d \in PlainRules, RuleNode(d) \in Range(rules),
                      NEW i \in DOMAIN log', d.id \in log'[i].hits
               PROVE  \E x \in alerts' : x.rule = d.id
      BY <1>1, <1>2 DEF Alerted, AlertsOf, correlating
  <2>1. CASE i \in DOMAIN log
      BY <1>1, <1>3, <2>1 DEF Alerted, AlertsOf, BaseInv
  <2>2. CASE i = Len(log) + 1
    <3>1. ~HasAgg(RuleNode(d)) /\ e.hits \cap RuleNode(d).sel # {} /\ RuleNode(d).doc = d
        BY <1>3, <2>2, PlainFacts DEF BaseInv, HasAgg
    <3>2. Alert(RuleNode(d), e.group, e.time) \in alerts'
        BY <1>1, <3>1
    <3> QED
        BY <3>1, <3>2 DEF Alert
  <2> QED
      BY <1>3, <2>1, <2>2
<1> QED
    BY <1>2, <1>4, <1>5, <1>6 DEF BaseInv

LEMMA BaseStep == BaseInv /\ [Next]_vars => BaseInv'
<1> SUFFICES ASSUME BaseInv, [Next]_vars PROVE BaseInv'
    OBVIOUS
<1>1. CASE Load
  <2>1. /\ phase = "read" /\ phase' \in {"read", "failed", "create"}
        /\ UNCHANGED <<correlating, log, alerts>>
      BY <1>1, LoadMeans
  <2>2. LoaderTypeOK'
      BY <1>1, StepTypeOK DEF Load, BaseInv
  <2>3. /\ rules = <<>> /\ merging = <<>> /\ merged = <<>> /\ temporals = <<>>
        /\ ref_rules = <<>> /\ temporal_nodes = <<>> /\ del_ids = {} /\ reported = {}
        /\ log = <<>> /\ alerts = {}
      BY <2>1 DEF BaseInv, Phases
  <2>4. Phases' /\ Lists'
      BY <2>1 DEF Phases, Lists, BaseInv, correlating
  <2>5. Waiting' /\ Deleted' /\ Alerted'
      BY <2>1, <2>3, EmptyList DEF Waiting, Deleted, Alerted, correlating
  <2>6. Unreported'
      BY <2>1, <2>3, EmptyList DEF Unreported, correlating
  <2>7. Kept'
      BY <2>1 DEF Kept
  <2> QED
      BY <2>2, <2>4, <2>5, <2>6, <2>7 DEF BaseInv
<1>2. CASE Panic
  <2>1. UNCHANGED <<loading, correlating, log, alerts>> /\ phase = "temporal" /\ phase' = "panic"
      BY <1>2 DEF Panic
  <2>2. /\ LoaderTypeOK' /\ files' = files /\ PlainRules' = PlainRules /\ Counting' = Counting
        /\ \A D : LoadedOnce(D)' <=> LoadedOnce(D)
      BY <2>1, SameFiles DEF BaseInv
  <2>3. Phases' /\ Lists' /\ Waiting' /\ Unreported' /\ Deleted' /\ Kept' /\ Alerted'
      BY <2>1, <2>2 DEF Phases, Lists, Waiting, Unreported, Deleted, Kept, Alerted, BaseInv,
         correlating
  <2> QED
      BY <2>2, <2>3 DEF BaseInv
<1>3. CASE Judge
  <2>1. /\ UNCHANGED <<loading, correlating, log>> /\ phase = "scan" /\ phase' = "done"
        /\ alerts \subseteq alerts'
      BY <1>3 DEF Judge
  <2>2. /\ LoaderTypeOK' /\ files' = files /\ PlainRules' = PlainRules /\ Counting' = Counting
        /\ \A D : LoadedOnce(D)' <=> LoadedOnce(D)
        /\ \A d : NamedBy(d)' = NamedBy(d)
      BY <2>1, SameFiles DEF BaseInv
  <2>3. Phases' /\ Lists' /\ Waiting' /\ Unreported' /\ Deleted'
      BY <2>1, <2>2 DEF Phases, Lists, Waiting, Unreported, Deleted, BaseInv, correlating
  <2>4. \A c, d : Takes(c, d)' <=> Takes(c, d)
      BY <2>1, <2>2 DEF Takes, Refused, Detectable, correlating
  <2>5. Kept'
      BY <2>1, <2>2, <2>4 DEF Kept, BaseInv, correlating
  <2>6. Alerted'
      BY <2>1, <2>2 DEF Alerted, AlertsOf, BaseInv, correlating
  <2> QED
      BY <2>2, <2>3, <2>5, <2>6 DEF BaseInv
<1>4. CASE UNCHANGED vars
  <2>1. /\ UNCHANGED <<loading, correlating, log, alerts>> /\ phase' = phase
      BY <1>4 DEF vars, loaderVars, loading
  <2>2. /\ LoaderTypeOK' /\ files' = files /\ PlainRules' = PlainRules /\ Counting' = Counting
        /\ \A D : LoadedOnce(D)' <=> LoadedOnce(D)
        /\ \A d : NamedBy(d)' = NamedBy(d)
      BY <2>1, SameFiles DEF BaseInv
  <2>3. Phases' /\ Lists' /\ Waiting' /\ Unreported' /\ Deleted' /\ Alerted'
      BY <2>1, <2>2 DEF Phases, Lists, Waiting, Unreported, Deleted, Alerted, AlertsOf, BaseInv,
         correlating
  <2>4. \A c, d : Takes(c, d)' <=> Takes(c, d)
      BY <2>1, <2>2 DEF Takes, Refused, Detectable, correlating
  <2>5. Kept'
      BY <2>1, <2>2, <2>4 DEF Kept, BaseInv, correlating
  <2> QED
      BY <2>2, <2>3, <2>5 DEF BaseInv
<1> QED
    BY <1>1, <1>2, <1>3, <1>4, CreateBase, MergeBase, MergedBase, ParseTemporalBase,
       AssembledBase, ScanBase DEF Next

LEMMA BaseInit == Init => BaseInv
<1> SUFFICES ASSUME Init PROVE BaseInv
    OBVIOUS
<1>1. LoaderTypeOK /\ phase = "read"
    BY InitTypeOK DEF Init, LoaderInit
<1>2. /\ rules = <<>> /\ merging = <<>> /\ merged = <<>> /\ temporals = <<>>
      /\ ref_rules = <<>> /\ del_ids = {} /\ temporal_nodes = <<>> /\ reported = {}
      /\ log = <<>> /\ alerts = {}
    BY DEF Init
<1>3. Phases /\ Lists
    BY <1>1, <1>2, EmptyList DEF Phases, Lists
<1>4. Waiting /\ Unreported /\ Deleted /\ Kept /\ Alerted
    BY <1>1, <1>2, EmptyList DEF Waiting, Unreported, Deleted, Kept, Alerted
<1> QED
    BY <1>1, <1>3, <1>4 DEF BaseInv

(* No plain rule goes missing among the correlation rules.                    *)
THEOREM BaseThm == Spec => []BaseStillHeard
<1>1. BaseInv => BaseStillHeard
    BY DEF BaseInv, Kept, Alerted, BaseStillHeard, Takes
<1> QED
    BY <1>1, BaseInit, BaseStep, PTL DEF Spec

-----------------------------------------------------------------------------
(* What the nodes of the rules say, for the other two properties.             *)
ClassInv == BaseInv /\ Classified /\ Counted /\ Sources

LEMMA ListSplit ==
    ASSUME NEW s, IsList(s), s # <<>>, NEW x \in Range(s)
    PROVE  x = Head(s) \/ x \in Range(Tail(s))
<1>1. /\ Len(s) \in Nat \ {0} /\ DOMAIN s = 1..Len(s) /\ Head(s) = s[1]
      /\ Tail(s) \in Seq(Range(s)) /\ Len(Tail(s)) = Len(s) - 1
      /\ \A i \in 1..Len(Tail(s)) : Tail(s)[i] = s[i + 1]
    BY HeadTailProperties DEF IsList
<1>2. PICK i \in 1..Len(s) : s[i] = x
    BY <1>1 DEF Range
<1>3. ASSUME i # 1 PROVE x \in Range(Tail(s))
  <2>1. i - 1 \in 1..Len(Tail(s)) /\ (i - 1) + 1 = i /\ DOMAIN Tail(s) = 1..Len(Tail(s))
      BY <1>1, <1>2, <1>3
  <2>2. Tail(s)[i - 1] = x
      BY <1>1, <1>2, <2>1
  <2> QED
      BY <2>1, <2>2 DEF Range
<1> QED
    BY <1>1, <1>2, <1>3

LEMMA OnceForAll == LoadedOnce(Documents) => LoadedOnce(Correlations)
    BY DEF LoadedOnce, Correlations

\* Nodes say the same after a step that leaves files and reported alone.
LEMMA SameNodes ==
    ASSUME UNCHANGED loading, reported \subseteq reported', NEW r
    PROVE  /\ PlainNode(r)' <=> PlainNode(r)
           /\ CountingNode(r) => CountingNode(r)'
           /\ CloneNode(r)' <=> CloneNode(r)
           /\ TemporalNode(r)' <=> TemporalNode(r)
<1>1. /\ PlainRules' = PlainRules /\ Counting' = Counting /\ Temporals' = Temporals
      /\ \A d : NamedBy(d)' = NamedBy(d)
      /\ \A D : LoadedOnce(D)' <=> LoadedOnce(D)
    BY SameFiles
<1>2. \A c : Covered(c)' = Covered(c) /\ (OnlyOne(c)' <=> OnlyOne(c))
    BY <1>1 DEF Covered, OnlyOne
<1>3. PlainNode(r)' <=> PlainNode(r)
    BY <1>1 DEF PlainNode
<1>4. CountingNode(r) => CountingNode(r)'
    BY <1>1, <1>2 DEF CountingNode, Detectable
<1>5. CloneNode(r)' <=> CloneNode(r)
    BY <1>1 DEF CloneNode, ForRef
<1>6. TemporalNode(r)' <=> TemporalNode(r)
    BY <1>1, <1>2 DEF TemporalNode, ForRef
<1> QED
    BY <1>3, <1>4, <1>5, <1>6

LEMMA CreateClass == ClassInv /\ CreateRules => ClassInv'
<1> SUFFICES ASSUME ClassInv, CreateRules PROVE ClassInv'
    OBVIOUS
<1> DEFINE plain == {d \in Documents : ~IsCorrelation(d) /\ RuleInitOk(d)}
           counting == {d \in Documents : IsCorrelation(d) /\ ~IsTemporal(d)}
<1>1. /\ UNCHANGED loading /\ phase = "create" /\ phase' = "merge"
      /\ UNCHANGED <<merged, ref_rules, temporal_nodes, alerts>>
      /\ rules' = Nodes(Chosen(files, plain)) /\ merging' = Nodes(Chosen(files, counting))
    BY DEF CreateRules
<1>2. BaseInv' /\ BaseInv
    BY CreateBase DEF ClassInv
<1>3. PlainRules' = PlainRules /\ Counting' = Counting /\ (\A d : NamedBy(d)' = NamedBy(d))
    BY <1>1, SameFiles
<1>4. IsList(files) /\ Range(files) \subseteq Documents
    BY <1>2, PlainFacts DEF BaseInv
<1> HIDE DEF plain, counting
<1>5. \A S : IsList(Chosen(files, S)) /\ Range(Chosen(files, S)) = Range(files) \cap S
    BY <1>4, ListChosen
<1>6. /\ Range(rules') = {RuleNode(d) : d \in Range(files) \cap plain}
      /\ Range(merging') = {RuleNode(d) : d \in Range(files) \cap counting}
    BY <1>1, <1>5, ListNodes
<1>7. Range(files) \cap counting = Counting /\ Range(files) \cap plain = PlainRules
    BY <1>4 DEF counting, Counting, plain, PlainRules, RuleInitOk
<1>8. \A r \in Range(rules') : PlainNode(r)'
    BY <1>3, <1>6, <1>7 DEF PlainNode, RuleNode
<1>9. merged' = <<>> /\ ref_rules' = <<>> /\ temporal_nodes' = <<>> /\ alerts' = {}
    BY <1>1, <1>2 DEF BaseInv, Phases
<1>10. Classified'
    BY <1>1, <1>8, <1>9, EmptyList DEF Classified
<1>11. Counted'
    BY <1>1, <1>3, <1>6, <1>7 DEF Counted
<1>12. Sources'
    BY <1>1 DEF Sources
<1> QED
    BY <1>2, <1>10, <1>11, <1>12 DEF ClassInv

LEMMA MergeClass == ClassInv /\ Merge => ClassInv'
<1> SUFFICES ASSUME ClassInv, Merge PROVE ClassInv'
    OBVIOUS
<1>0. BaseInv' /\ BaseInv
    BY MergeBase DEF ClassInv
<1>1. PICK k \in Counting : Head(merging) = RuleNode(k) /\ Head(merging) \in Range(merging)
    BY <1>0, ListTail DEF Merge, BaseInv, Lists, Waiting
<1> DEFINE c == k.correlation
           kept == {r \in Range(rules) : r.names \cap TakenOut(c, Range(c.refs)) = {}}
           sel == UNION {rules[j].sel : j \in Related(c)}
           node == [RuleNode(k) EXCEPT !.sel = sel, !.agg = [num |-> c.num, span |-> c.span]]
<1>2. RuleNode(k).doc = k /\ IsCorrelation(k)
    BY <1>0, PlainFacts DEF BaseInv
<1>3. /\ UNCHANGED loading /\ phase = "merge" /\ phase' = phase /\ merging # <<>>
      /\ UNCHANGED <<ref_rules, temporal_nodes, alerts>>
      /\ merging' = Tail(merging)
      /\ rules' = IF Mergeable(c) THEN Chosen(rules, kept) ELSE rules
      /\ IF Mergeable(c) /\ Detectable(c)
         THEN merged' = Append(merged, node) /\ reported' = reported
         ELSE merged' = Append(merged, RuleNode(k)) /\ reported' = reported \cup {k.id}
    BY <1>1, <1>2, Zenon DEF Merge
<1>4. Counting' = Counting /\ (\A d : NamedBy(d)' = NamedBy(d))
    BY <1>3, SameFiles
<1>6. \A r \in Range(rules) : PlainNode(r)
    BY <1>3 DEF ClassInv, Classified
<1>7. Range(rules') \subseteq Range(rules)
  <2>1. Range(Chosen(rules, kept)) = Range(rules) \cap kept
      BY <1>0, ListChosen DEF BaseInv, Lists
  <2> QED
      BY <1>3, <2>1
<1> HIDE DEF kept
<1>8. ASSUME Mergeable(c), Detectable(c) PROVE CountingNode(node) /\ node.type # "ref" /\ node.doc = k
  <2>1. /\ DOMAIN node = Fields /\ node.doc = k /\ node.names = Names(k)
        /\ node.type = CorrelationType(k) /\ node.sel = sel
        /\ node.agg = [num |-> c.num, span |-> c.span]
      BY DEF RuleNode, Fields, Names
  <2>2. CorrelationType(k) \notin {"none", "ref"}
      BY <1>8 DEF Mergeable, CorrelationType
  <2>5. c.num \in Int /\ c.span \in Nat
    <3>1. k \in Documents
        BY <1>0, PlainFacts DEF BaseInv, Counting
    <3> QED
        BY <1>2, <1>8, <3>1, RuleAssumption DEF Mergeable, Detectable
  <2>3. sel \subseteq Covered(k)
    <3> SUFFICES ASSUME NEW j \in Related(c), NEW id \in rules[j].sel PROVE id \in Covered(k)
        OBVIOUS
    <3>1. j \in DOMAIN rules /\ rules[j].names \cap Range(c.refs) # {}
        BY DEF Related
    <3>2. rules[j] \in Range(rules)
        BY <3>1 DEF Range
    <3>3. PlainNode(rules[j])
        BY <1>6, <3>2
    <3>4. PICK d \in PlainRules : rules[j] = RuleNode(d)
        BY <3>3 DEF PlainNode
    <3>5. id = d.id /\ Names(d) \cap Range(c.refs) # {}
        BY <1>0, <3>1, <3>4, PlainFacts DEF BaseInv
    <3>6. k \in NamedBy(d)
        BY <3>5 DEF NamedBy, Counting
    <3> QED
        BY <3>5, <3>6 DEF Covered
  <2>4. ASSUME LoadedOnce(Documents), OnlyOne(k) PROVE Covered(k) \subseteq sel
    <3> SUFFICES ASSUME NEW d \in PlainRules, k \in NamedBy(d) PROVE d.id \in sel
        BY DEF Covered
    <3>1. NamedBy(d) = {k}
        BY <2>4 DEF OnlyOne
    <3>2. LoadedOnce(Correlations)
        BY <2>4, OnceForAll
    <3>3. RuleNode(d) \in Range(rules)
        BY <1>0, <1>1, <1>2, <1>3, <3>1, <3>2 DEF BaseInv, Kept, Takes
    <3>4. PICK j \in DOMAIN rules : rules[j] = RuleNode(d)
        BY <3>3 DEF Range
    <3>5. RuleNode(d).names \cap Range(c.refs) # {} /\ d.id \in RuleNode(d).sel
        BY <1>0, PlainFacts DEF BaseInv, NamedBy
    <3>6. j \in Related(c)
        BY <3>4, <3>5 DEF Related
    <3> QED
        BY <3>4, <3>5, <3>6
  <2> HIDE DEF node, sel
  <2> QED
      BY <1>8, <2>1, <2>2, <2>3, <2>4, <2>5 DEF CountingNode
<1>9. ASSUME k.id \in reported'
      PROVE  CountingNode(RuleNode(k))' /\ RuleNode(k).type # "ref"
  <2>1. /\ DOMAIN RuleNode(k) = Fields /\ RuleNode(k).doc = k /\ RuleNode(k).names = Names(k)
        /\ RuleNode(k).type = CorrelationType(k) /\ RuleNode(k).sel = {}
        /\ RuleNode(k).agg = NoAgg /\ CorrelationType(k) # "ref"
      BY <1>2 DEF RuleNode, Fields, Names, CorrelationType
  <2> QED
      BY <1>4, <1>9, <2>1 DEF CountingNode
<1>10. \E x : /\ merged' = Append(merged, x) /\ CountingNode(x)' /\ x.type # "ref" /\ x.doc = k
  <2>1. CASE Mergeable(c) /\ Detectable(c)
    <3>1. PICK x : x = node
        OBVIOUS
    <3>2. CountingNode(x) /\ x.type # "ref" /\ x.doc = k /\ merged' = Append(merged, x)
        BY <1>3, <1>8, <2>1, <3>1
    <3>3. CountingNode(x)'
        BY <1>3, <3>2, SameNodes
    <3> QED
        BY <3>2, <3>3
  <2>2. CASE ~ (Mergeable(c) /\ Detectable(c))
      BY <1>2, <1>3, <1>9, <2>2
  <2> QED
      BY <2>1, <2>2
<1>11. PICK x : /\ merged' = Append(merged, x) /\ CountingNode(x)' /\ x.type # "ref" /\ x.doc = k
    BY <1>10
<1>12. Range(merged') = Range(merged) \cup {x}
    BY <1>0, <1>11, ListAppend DEF BaseInv, Lists
<1>13. Classified'
  <2>0. /\ \A r \in Range(merged) : CountingNode(r) /\ r.type # "ref"
        /\ \A r \in Range(ref_rules) : CloneNode(r)
        /\ \A r \in Range(temporal_nodes) : TemporalNode(r)
      BY DEF ClassInv, Classified
  <2>1. ASSUME NEW r \in Range(rules') PROVE PlainNode(r)'
    <3>1. PlainNode(r)
        BY <1>6, <1>7
    <3> QED
        BY <1>3, <3>1, SameNodes
  <2>2. ASSUME NEW r \in Range(merged') PROVE CountingNode(r)' /\ r.type # "ref"
    <3>1. CASE r = x
        BY <1>11, <3>1
    <3>2. CASE r # x
      <4>1. CountingNode(r) /\ r.type # "ref"
          BY <1>12, <2>0, <3>2
      <4> QED
          BY <1>3, <4>1, SameNodes
    <3> QED
        BY <3>1, <3>2
  <2>3. ASSUME NEW r \in Range(ref_rules) PROVE CloneNode(r)'
      BY <1>3, <2>0, SameNodes
  <2>4. ASSUME NEW r \in Range(temporal_nodes) PROVE TemporalNode(r)'
      BY <1>3, <2>0, SameNodes
  <2> QED
      BY <1>3, <2>1, <2>2, <2>3, <2>4 DEF Classified
<1>14. Counted'
  <2> SUFFICES ASSUME NEW q \in Counting, NamedBy(q) = {}
               PROVE  RuleNode(q) \in Range(merging') \/ \E r \in Range(merged') : r.doc = q
      BY <1>3, <1>4 DEF Counted
  <2>1. RuleNode(q).doc = q
      BY <1>0, PlainFacts DEF BaseInv
  <2>2. CASE RuleNode(q) \in Range(merging)
    <3>1. RuleNode(q) = RuleNode(k) \/ RuleNode(q) \in Range(Tail(merging))
        BY <1>0, <1>1, <1>3, <2>2, ListSplit DEF BaseInv, Lists
    <3> QED
        BY <1>2, <1>3, <1>11, <1>12, <2>1, <3>1
  <2>3. CASE \E r \in Range(merged) : r.doc = q
      BY <1>12, <2>3
  <2> QED
      BY <1>3, <2>2, <2>3 DEF ClassInv, Counted
<1>15. Sources'
    BY <1>3 DEF Sources
<1> QED
    BY <1>0, <1>13, <1>14, <1>15 DEF ClassInv

LEMMA MergedClass == ClassInv /\ Merged => ClassInv'
<1> SUFFICES ASSUME ClassInv, Merged PROVE ClassInv'
    OBVIOUS
<1>1. /\ UNCHANGED loading /\ phase = "merge" /\ phase' = "temporal" /\ merging = <<>>
      /\ rules' = merged \o rules /\ merged' = <<>>
      /\ UNCHANGED <<ref_rules, temporal_nodes, reported, alerts>>
    BY DEF Merged
<1>2. BaseInv' /\ BaseInv
    BY MergedBase DEF ClassInv
<1>3. Range(rules') = Range(merged) \cup Range(rules)
    BY <1>1, <1>2, ListJoin DEF Lists, BaseInv
<1>4. Counting' = Counting /\ (\A d : NamedBy(d)' = NamedBy(d))
    BY <1>1, SameFiles
<1>5. /\ \A r \in Range(rules) : PlainNode(r)
      /\ \A r \in Range(merged) : CountingNode(r) /\ r.type # "ref"
      /\ \A r \in Range(ref_rules) : CloneNode(r)
      /\ \A r \in Range(temporal_nodes) : TemporalNode(r)
    BY <1>1 DEF ClassInv, Classified
<1>6. Classified'
  <2>1. ASSUME NEW r \in Range(rules') PROVE PlainNode(r)' \/ CountingNode(r)'
    <3>1. PlainNode(r) \/ CountingNode(r)
        BY <1>3, <1>5
    <3> QED
        BY <1>1, <3>1, SameNodes
  <2>2. Range(merged') = {}
      BY <1>1, EmptyList
  <2>3. ASSUME NEW r \in Range(ref_rules) PROVE CloneNode(r)'
      BY <1>1, <1>5, SameNodes
  <2>4. ASSUME NEW r \in Range(temporal_nodes) PROVE TemporalNode(r)'
      BY <1>1, <1>5, SameNodes
  <2> QED
      BY <1>1, <2>1, <2>2, <2>3, <2>4 DEF Classified
<1>7. Counted'
  <2> SUFFICES ASSUME NEW q \in Counting, NamedBy(q) = {}
               PROVE  \E r \in Range(rules') : r.doc = q /\ CountingNode(r)'
      BY <1>1, <1>4 DEF Counted
  <2>1. PICK r \in Range(merged) : r.doc = q
      BY <1>1, EmptyList DEF ClassInv, Counted
  <2>2. CountingNode(r)'
      BY <1>1, <1>5, <2>1, SameNodes
  <2> QED
      BY <1>3, <2>1, <2>2
<1>8. Sources'
    BY <1>1 DEF Sources
<1> QED
    BY <1>2, <1>6, <1>7, <1>8 DEF ClassInv

LEMMA CloneIsClone ==
    ASSUME BaseInv, NEW t \in Temporals, t.correlation.refs \in Seq(STRING),
           t.correlation.span \in Nat,
           NEW p \in (DOMAIN t.correlation.refs) \X (DOMAIN rules),
           is_referenced_rule(rules[p[2]], t.correlation.refs[p[1]]),
           PlainNode(rules[p[2]]) \/ CountingNode(rules[p[2]]), rules[p[2]].type = "none"
    PROVE  CloneNode(Clone(RuleNode(t), p))
<1> DEFINE r == rules[p[2]]
           k == p[1]
           x == Clone(RuleNode(t), p)
<1>1. RuleNode(t).doc = t
    BY DEF RuleNode
<1>2. /\ DOMAIN r = Fields
      /\ \/ r.sel = {} /\ r.doc \in Counting
         \/ r.doc \in PlainRules /\ r.sel = {r.doc.id} /\ t.correlation.refs[k] \in Names(r.doc)
  <2>1. CASE PlainNode(r)
      BY <2>1, PlainFacts DEF PlainNode, BaseInv, is_referenced_rule, RuleNode, Fields
  <2>2. CASE CountingNode(r)
      BY <2>2 DEF CountingNode, Detectable
  <2> QED
      BY <2>1, <2>2
<1>3. /\ DOMAIN x = Fields /\ x.type = "ref" /\ x.agg.num = 1 /\ x.agg.span \in Nat /\ x.sel = r.sel /\ x.doc = r.doc
      /\ x.ref = <<t.id, k, p[2]>>
    BY <1>1, <1>2 DEF Clone, NewId, Fields
<1>4. ForRef(x.ref, t, k)
    BY <1>3 DEF ForRef
<1> HIDE DEF x, r
<1> QED
    BY <1>2, <1>3, <1>4 DEF CloneNode, r, x

LEMMA TemporalIsTemporal ==
    ASSUME BaseInv, phase = "temporal", NEW t \in Temporals, t.correlation.refs \in Seq(STRING),
           t.correlation.span \in Nat, IsList(TemporalRefs),
           Range(TemporalRefs) = {p \in (DOMAIN t.correlation.refs) \X (DOMAIN rules) :
                       is_referenced_rule(rules[p[2]], t.correlation.refs[p[1]])}
    PROVE  TemporalNode([RuleNode(t) EXCEPT
                !.agg = [num |-> 1, span |-> t.correlation.span],
                !.refs = [n \in DOMAIN TemporalRefs |->
                             IF rules[TemporalRefs[n][2]].type # "none"
                             THEN ByName(t.correlation.refs[TemporalRefs[n][1]])
                             ELSE NewId(RuleNode(t), TemporalRefs[n])]])
<1> DEFINE refs == [n \in DOMAIN TemporalRefs |->
                             IF rules[TemporalRefs[n][2]].type # "none"
                             THEN ByName(t.correlation.refs[TemporalRefs[n][1]])
                             ELSE NewId(RuleNode(t), TemporalRefs[n])]
           agg == [num |-> 1, span |-> t.correlation.span]
           v == [RuleNode(t) EXCEPT !.agg = agg, !.refs = refs]
<1>1. IsList(refs)
    BY ListDomain
<1>2. /\ DOMAIN v = Fields /\ v.doc = t /\ v.type = CorrelationType(t) /\ v.agg = agg
      /\ agg.span \in Nat
      /\ v.refs = refs /\ v.sel = IF IsCorrelation(t) THEN {} ELSE {t.id}
    BY DEF RuleNode, Fields
<1>3. IsCorrelation(t) /\ CorrelationType(t) = t.correlation.type /\ IsTemporal(t)
    BY DEF Temporals, IsTemporal, CorrelationType, IsCorrelation
<1>4. ASSUME LoadedOnce(Documents), OnlyOne(t), NEW n \in Range(t.correlation.refs),
             NEW d \in PlainRules, n \in Names(d)
      PROVE  \E j \in DOMAIN refs, k \in DOMAIN t.correlation.refs :
                ForRef(refs[j], t, k) /\ t.correlation.refs[k] = n
  <2>1. PICK k \in DOMAIN t.correlation.refs : t.correlation.refs[k] = n
      BY DEF Range
  <2>2. t \in NamedBy(d)
      BY <1>3, <1>4 DEF NamedBy, Temporals
  <2>3. NamedBy(d) = {t} /\ t \notin Counting
      BY <1>3, <1>4, <2>2 DEF OnlyOne, Counting
  <2>4. RuleNode(d) \in Range(rules)
      BY <1>4, <2>3, OnceForAll DEF BaseInv, Kept, Takes
  <2>5. PICK i \in DOMAIN rules : rules[i] = RuleNode(d)
      BY <2>4 DEF Range
  <2>6. rules[i].type = "none" /\ is_referenced_rule(rules[i], n)
      BY <1>4, <2>5, PlainFacts DEF BaseInv, is_referenced_rule
  <2>7. <<k, i>> \in Range(TemporalRefs)
      BY <2>1, <2>5, <2>6
  <2>8. PICK j \in DOMAIN TemporalRefs : TemporalRefs[j] = <<k, i>>
      BY <2>7 DEF Range
  <2>9. refs[j] = NewId(RuleNode(t), <<k, i>>)
      BY <2>6, <2>8
  <2>10. refs[j] = <<t.id, k, i>>
      BY <2>9 DEF NewId, RuleNode
  <2>11. j \in DOMAIN refs
      BY <2>8
  <2> HIDE DEF refs
  <2>12. ForRef(refs[j], t, k)
      BY <2>10 DEF ForRef
  <2> QED
      BY <2>1, <2>11, <2>12
<1> HIDE DEF v, refs, agg
<1>5. LoadedOnce(Documents) /\ OnlyOne(t) =>
         \A n \in Range(t.correlation.refs) : (\E d \in PlainRules : n \in Names(d)) =>
            \E j \in DOMAIN refs, k \in DOMAIN t.correlation.refs :
                ForRef(refs[j], t, k) /\ t.correlation.refs[k] = n
    BY <1>4
<1>6. TemporalNode(v)
    BY <1>1, <1>2, <1>3, <1>5 DEF TemporalNode, agg
<1> QED
    BY <1>6 DEF v, refs, agg

LEMMA Retyped ==
    ASSUME BaseInv, NEW t \in Temporals, NEW k \in DOMAIN t.correlation.refs,
           t.correlation.refs \in Seq(STRING),
           NEW r, CountingNode(r), is_referenced_rule(r, t.correlation.refs[k])
    PROVE  CountingNode([r EXCEPT !.type = "ref", !.generate = t.correlation.generate,
                                  !.ref = ByName(t.correlation.refs[k])])
<1> DEFINE x == [r EXCEPT !.type = "ref", !.generate = t.correlation.generate,
                          !.ref = ByName(t.correlation.refs[k])]
<1>1. DOMAIN r = Fields
    BY DEF CountingNode
<1>2. /\ DOMAIN x = Fields /\ x.doc = r.doc /\ x.names = r.names /\ x.type = "ref"
      /\ x.sel = r.sel /\ x.agg = r.agg /\ x.ref = ByName(t.correlation.refs[k])
    BY <1>1 DEF Fields
<1>3. Len(x.ref) = 1
    BY <1>2 DEF ByName
<1>4. t \in NamedBy(r.doc)
  <2>1. t.correlation.refs[k] \in Names(r.doc) /\ t.correlation.refs[k] \in Range(t.correlation.refs)
      BY DEF CountingNode, is_referenced_rule, Range
  <2> QED
      BY <2>1, PlainFacts DEF NamedBy, Temporals, BaseInv
<1> HIDE DEF x
<1>5. CountingNode(x)
    BY <1>2, <1>3, <1>4 DEF CountingNode
<1> QED
    BY <1>5 DEF x

LEMMA ParseTemporalClass == ClassInv /\ ParseTemporal => ClassInv'
<1> SUFFICES ASSUME ClassInv, ParseTemporal PROVE ClassInv'
    OBVIOUS
<1>0. BaseInv' /\ BaseInv
    BY ParseTemporalBase DEF ClassInv
<1>1. PICK t \in Temporals :
             /\ t.correlation.refs \in Seq(STRING) /\ t.correlation.span \in Nat
             /\ UNCHANGED loading /\ phase = "temporal" /\ phase' = phase
             /\ UNCHANGED <<merging, merged, reported, log, alerts>>
             /\ IsList(TemporalRefs)
             /\ Range(TemporalRefs) =
                  {p \in (DOMAIN t.correlation.refs) \X (DOMAIN rules) :
                       is_referenced_rule(rules[p[2]], t.correlation.refs[p[1]])}
             /\ IsList(TemporalClones)
             /\ Range(TemporalClones) = {p \in Range(TemporalRefs) : rules[p[2]].type = "none"}
             /\ ref_rules' = ref_rules \o
                    [n \in DOMAIN TemporalClones |-> Clone(RuleNode(t), TemporalClones[n])]
             /\ temporal_nodes' = Append(temporal_nodes,
                    [RuleNode(t) EXCEPT
                        !.agg = [num |-> 1, span |-> t.correlation.span],
                        !.refs = [n \in DOMAIN TemporalRefs |->
                             IF rules[TemporalRefs[n][2]].type # "none"
                             THEN ByName(t.correlation.refs[TemporalRefs[n][1]])
                             ELSE NewId(RuleNode(t), TemporalRefs[n])]])
             /\ rules' = [i \in DOMAIN rules |-> rules'[i]]
             /\ \A i \in DOMAIN rules : rules'[i] = rules[i] \/
                    /\ rules[i].type # "none"
                    /\ \E k \in DOMAIN t.correlation.refs :
                         /\ is_referenced_rule(rules[i], t.correlation.refs[k])
                         /\ rules'[i] = [rules[i] EXCEPT !.type = "ref",
                                !.generate = t.correlation.generate,
                                !.ref = ByName(t.correlation.refs[k])]
    BY <1>0, ParseTemporalMeans
<1>2. Counting' = Counting /\ (\A d : NamedBy(d)' = NamedBy(d))
    BY <1>1, SameFiles
<1>3. /\ \A r \in Range(rules) : PlainNode(r) \/ CountingNode(r)
      /\ \A r \in Range(merged) : CountingNode(r) /\ r.type # "ref"
      /\ \A r \in Range(ref_rules) : CloneNode(r)
      /\ \A r \in Range(temporal_nodes) : TemporalNode(r)
    BY <1>1 DEF ClassInv, Classified
<1>4. \A r : PlainNode(r) => r.type = "none"
    BY <1>0, PlainFacts DEF PlainNode, BaseInv
<1>5. ASSUME NEW i \in DOMAIN rules
      PROVE  /\ PlainNode(rules'[i]) \/ CountingNode(rules'[i])
             /\ CountingNode(rules[i]) => CountingNode(rules'[i]) /\ rules'[i].doc = rules[i].doc
  <2>1. PlainNode(rules[i]) \/ CountingNode(rules[i])
      BY <1>3 DEF Range
  <2>2. CASE rules'[i] = rules[i]
      BY <2>1, <2>2
  <2>3. CASE rules'[i] # rules[i]
    <3>1. CountingNode(rules[i])
        BY <1>1, <1>4, <2>1, <2>3
    <3>2. PICK k \in DOMAIN t.correlation.refs :
                         /\ is_referenced_rule(rules[i], t.correlation.refs[k])
                         /\ rules'[i] = [rules[i] EXCEPT !.type = "ref",
                                !.generate = t.correlation.generate,
                                !.ref = ByName(t.correlation.refs[k])]
        BY <1>1, <2>3
    <3>3. PICK s : s = rules[i]
        OBVIOUS
    <3>4. CountingNode(s) /\ is_referenced_rule(s, t.correlation.refs[k])
        BY <3>1, <3>2, <3>3
    <3>5. t.correlation.refs \in Seq(STRING)
        BY <1>1
    <3>6. CountingNode([s EXCEPT !.type = "ref", !.generate = t.correlation.generate,
                                 !.ref = ByName(t.correlation.refs[k])])
        BY <1>0, <3>4, <3>5, Retyped
    <3>7. rules'[i] = [s EXCEPT !.type = "ref", !.generate = t.correlation.generate,
                                !.ref = ByName(t.correlation.refs[k])]
        BY <3>2, <3>3
    <3>8. rules'[i].doc = rules[i].doc
        BY <3>1, <3>2 DEF CountingNode, Fields
    <3> QED
        BY <3>1, <3>6, <3>7, <3>8
  <2> QED
      BY <2>2, <2>3
<1>6. DOMAIN rules' = DOMAIN rules
    BY <1>1
<1>7. ASSUME NEW r \in Range(ref_rules') PROVE CloneNode(r)
  <2> DEFINE u == [n \in DOMAIN TemporalClones |-> Clone(RuleNode(t), TemporalClones[n])]
  <2>0. IsList(TemporalClones)
      BY <1>1
  <2>1. IsList(u)
      BY <2>0, ListDomain
  <2>2. \A n \in DOMAIN u : n \in DOMAIN TemporalClones /\ u[n] = Clone(RuleNode(t), TemporalClones[n])
      OBVIOUS
  <2>3. ref_rules' = ref_rules \o u
      BY <1>1
  <2> HIDE DEF u
  <2>4. r \in Range(ref_rules) \/ r \in Range(u)
      BY <1>0, <2>1, <2>3, ListJoin DEF Lists, BaseInv
  <2>5. CASE r \in Range(u)
    <3>1. PICK n \in DOMAIN TemporalClones : r = Clone(RuleNode(t), TemporalClones[n])
        BY <2>2, <2>5 DEF Range
    <3>2. PICK p : p = TemporalClones[n]
        OBVIOUS
    <3>3. /\ p \in (DOMAIN t.correlation.refs) \X (DOMAIN rules)
          /\ is_referenced_rule(rules[p[2]], t.correlation.refs[p[1]])
          /\ rules[p[2]].type = "none"
        BY <1>1, <3>1, <3>2 DEF Range
    <3>4. PlainNode(rules[p[2]]) \/ CountingNode(rules[p[2]])
        BY <1>3, <3>3 DEF Range
    <3> QED
        BY <1>0, <1>1, <3>1, <3>2, <3>3, <3>4, CloneIsClone
  <2> QED
      BY <1>3, <2>4, <2>5
<1>8. ASSUME NEW r \in Range(temporal_nodes') PROVE TemporalNode(r)
  <2>1. PICK v : temporal_nodes' = Append(temporal_nodes, v) /\ TemporalNode(v)
      BY <1>0, <1>1, TemporalIsTemporal
  <2>2. r \in Range(temporal_nodes) \/ r = v
      BY <1>0, <2>1, ListAppend DEF Lists, BaseInv
  <2> QED
      BY <1>3, <2>1, <2>2
<1>9. Classified'
  <2>1. ASSUME NEW r \in Range(rules') PROVE PlainNode(r)' \/ CountingNode(r)'
    <3>1. PlainNode(r) \/ CountingNode(r)
        BY <1>5, <1>6 DEF Range
    <3> QED
        BY <1>1, <3>1, SameNodes
  <2>2. ASSUME NEW r \in Range(merged) PROVE CountingNode(r)' /\ r.type # "ref"
      BY <1>1, <1>3, SameNodes
  <2>3. ASSUME NEW r \in Range(ref_rules') PROVE CloneNode(r)'
    <3>1. CloneNode(r)
        BY <1>7
    <3> QED
        BY <1>1, <3>1, SameNodes
  <2>4. ASSUME NEW r \in Range(temporal_nodes') PROVE TemporalNode(r)'
    <3>1. TemporalNode(r)
        BY <1>8
    <3> QED
        BY <1>1, <3>1, SameNodes
  <2> QED
      BY <1>1, <2>1, <2>2, <2>3, <2>4 DEF Classified
<1>10. Counted'
  <2> SUFFICES ASSUME NEW q \in Counting, NamedBy(q) = {}
               PROVE  \E r \in Range(rules') : r.doc = q /\ CountingNode(r)'
      BY <1>1, <1>2 DEF Counted
  <2>1. PICK s \in Range(rules) : s.doc = q /\ CountingNode(s)
      BY <1>1 DEF ClassInv, Counted
  <2>2. PICK i \in DOMAIN rules : s = rules[i]
      BY DEF Range
  <2>3. PICK r : r = rules'[i]
      OBVIOUS
  <2>4. r \in Range(rules') /\ CountingNode(r) /\ r.doc = q
      BY <1>5, <1>6, <2>1, <2>2, <2>3 DEF Range
  <2>5. CountingNode(r)'
      BY <1>1, <2>4, SameNodes
  <2> QED
      BY <2>4, <2>5
<1>11. Sources'
    BY <1>1 DEF Sources
<1> QED
    BY <1>0, <1>9, <1>10, <1>11 DEF ClassInv

LEMMA AssembledClass == ClassInv /\ Assembled => ClassInv'
<1> SUFFICES ASSUME ClassInv, Assembled PROVE ClassInv'
    OBVIOUS
<1>0. BaseInv' /\ BaseInv
    BY AssembledBase DEF ClassInv
<1> DEFINE kept == {r \in Range(rules) : r.names \cap del_ids = {}}
<1>1. /\ UNCHANGED loading /\ phase = "temporal" /\ phase' = "scan"
      /\ UNCHANGED <<merged, ref_rules, temporal_nodes, reported, log, alerts>>
      /\ rules' = Chosen(rules, kept) \o ref_rules \o temporal_nodes
    BY DEF Assembled
<1>2. Counting' = Counting /\ (\A d : NamedBy(d)' = NamedBy(d))
    BY <1>1, SameFiles
<1>3. Range(rules') = kept \cup Range(ref_rules) \cup Range(temporal_nodes)
  <2>1. IsList(Chosen(rules, kept)) /\ Range(Chosen(rules, kept)) = kept
      BY <1>0, ListChosen DEF Lists, BaseInv
  <2> HIDE DEF kept
  <2>2. IsList(ref_rules) /\ IsList(temporal_nodes)
      BY <1>0 DEF Lists, BaseInv
  <2>3. /\ IsList(Chosen(rules, kept) \o ref_rules)
        /\ Range(Chosen(rules, kept) \o ref_rules) = kept \cup Range(ref_rules)
      BY <2>1, <2>2, ListJoin
  <2> QED
      BY <1>1, <2>2, <2>3, ListJoin
<1>4. /\ \A r \in Range(rules) : PlainNode(r) \/ CountingNode(r)
      /\ \A r \in Range(merged) : CountingNode(r) /\ r.type # "ref"
      /\ \A r \in Range(ref_rules) : CloneNode(r)
      /\ \A r \in Range(temporal_nodes) : TemporalNode(r)
    BY <1>1 DEF ClassInv, Classified
<1>5. Classified'
  <2>1. ASSUME NEW r \in Range(rules')
        PROVE  PlainNode(r)' \/ CountingNode(r)' \/ CloneNode(r)' \/ TemporalNode(r)'
    <3>1. PlainNode(r) \/ CountingNode(r) \/ CloneNode(r) \/ TemporalNode(r)
        BY <1>3, <1>4
    <3> QED
        BY <1>1, <3>1, SameNodes
  <2>2. ASSUME NEW r \in Range(merged) PROVE CountingNode(r)' /\ r.type # "ref"
      BY <1>1, <1>4, SameNodes
  <2>3. ASSUME NEW r \in Range(ref_rules) PROVE CloneNode(r)'
      BY <1>1, <1>4, SameNodes
  <2>4. ASSUME NEW r \in Range(temporal_nodes) PROVE TemporalNode(r)'
      BY <1>1, <1>4, SameNodes
  <2> QED
      BY <1>1, <2>1, <2>2, <2>3, <2>4 DEF Classified
<1>6. Counted'
  <2> SUFFICES ASSUME NEW q \in Counting, NamedBy(q) = {}
               PROVE  \E r \in Range(rules') : r.doc = q /\ CountingNode(r)'
      BY <1>1, <1>2 DEF Counted
  <2>1. PICK r \in Range(rules) : r.doc = q /\ CountingNode(r)
      BY <1>1 DEF ClassInv, Counted
  <2>2. ASSUME NEW n \in r.names, n \in del_ids PROVE FALSE
    <3>1. n \in Names(q)
        BY <2>1, <2>2 DEF CountingNode
    <3>2. PICK t \in Range(files) : IsTemporal(t) /\ n \in Range(t.correlation.refs)
        BY <1>0, <2>2 DEF Deleted, BaseInv
    <3>3. t \in NamedBy(q)
        BY <1>0, <3>1, <3>2, PlainFacts DEF NamedBy, BaseInv
    <3> QED
        BY <3>3
  <2>3. r \in Range(rules')
      BY <1>3, <2>2
  <2>4. CountingNode(r)'
      BY <1>1, <2>1, SameNodes
  <2> QED
      BY <2>1, <2>3, <2>4
<1>7. Sources'
    BY <1>0, <1>1 DEF Sources, Phases, BaseInv
<1> QED
    BY <1>0, <1>5, <1>6, <1>7 DEF ClassInv

\* A rule that does not count and matches something is a plain one.
LEMMA NoAggIsPlain ==
    ASSUME NEW r, PlainNode(r) \/ CountingNode(r) \/ CloneNode(r) \/ TemporalNode(r),
           ~HasAgg(r), r.sel # {}
    PROVE  r.doc \in PlainRules
<1>1. NoAgg.num = Bad
    BY DEF NoAgg
<1>2. ~CountingNode(r)
    BY <1>1 DEF CountingNode, HasAgg, Detectable
<1>3. ~CloneNode(r) /\ ~TemporalNode(r)
    BY <1>1 DEF CloneNode, TemporalNode, HasAgg, Bad
<1> QED
    BY <1>2, <1>3 DEF PlainNode

\* Steps that change no rule.
LEMMA SameRules ==
    ASSUME ClassInv, UNCHANGED <<loading, correlating>>,
           phase' = phase \/ (phase = "scan" /\ phase' = "done") \/ (phase = "temporal" /\ phase' = "panic")
    PROVE  Classified' /\ Counted'
<1>1. /\ UNCHANGED <<rules, merging, merged, ref_rules, temporal_nodes, reported>>
      /\ Counting' = Counting /\ (\A d : NamedBy(d)' = NamedBy(d))
    BY SameFiles DEF correlating
<1>2. Classified'
  <2>1. ASSUME NEW r
        PROVE  /\ PlainNode(r)' <=> PlainNode(r)
               /\ CountingNode(r) => CountingNode(r)'
               /\ CloneNode(r)' <=> CloneNode(r)
               /\ TemporalNode(r)' <=> TemporalNode(r)
      BY <1>1, SameNodes
  <2>2. Classified
      BY DEF ClassInv
  <2>3. ASSUME phase' = "merge", NEW r \in Range(rules) PROVE PlainNode(r)'
      BY <2>1, <2>2, <2>3 DEF Classified
  <2>4. ASSUME phase' \in {"temporal", "panic"}, NEW r \in Range(rules)
        PROVE  PlainNode(r)' \/ CountingNode(r)'
      BY <2>1, <2>2, <2>4 DEF Classified
  <2>5. ASSUME phase' \in {"scan", "done"}, NEW r \in Range(rules)
        PROVE  PlainNode(r)' \/ CountingNode(r)' \/ CloneNode(r)' \/ TemporalNode(r)'
      BY <2>1, <2>2, <2>5 DEF Classified
  <2>6. ASSUME NEW r \in Range(merged) PROVE CountingNode(r)' /\ r.type # "ref"
      BY <2>1, <2>2 DEF Classified
  <2>7. ASSUME NEW r \in Range(ref_rules) PROVE CloneNode(r)'
      BY <2>1, <2>2 DEF Classified
  <2>8. ASSUME NEW r \in Range(temporal_nodes) PROVE TemporalNode(r)'
      BY <2>1, <2>2 DEF Classified
  <2> QED
      BY <1>1, <2>3, <2>4, <2>5, <2>6, <2>7, <2>8 DEF Classified
<1>3. Counted'
  <2> SUFFICES ASSUME NEW q \in Counting, NamedBy(q) = {}
               PROVE  /\ phase' = "merge" =>
                           RuleNode(q) \in Range(merging) \/ \E r \in Range(merged) : r.doc = q
                      /\ phase' \in {"temporal", "scan", "done"} =>
                           \E r \in Range(rules) : r.doc = q /\ CountingNode(r)'
      BY <1>1 DEF Counted
  <2>1. Counted
      BY DEF ClassInv
  <2>2. ASSUME phase' = "merge"
        PROVE  RuleNode(q) \in Range(merging) \/ \E r \in Range(merged) : r.doc = q
      BY <2>1, <2>2 DEF Counted
  <2>3. ASSUME phase' \in {"temporal", "scan", "done"}
        PROVE  \E r \in Range(rules) : r.doc = q /\ CountingNode(r)'
    <3>1. PICK r \in Range(rules) : r.doc = q /\ CountingNode(r)
        BY <2>1, <2>3 DEF Counted
    <3>2. CountingNode(r)'
        BY <1>1, <3>1, SameNodes
    <3> QED
        BY <3>1, <3>2
  <2> QED
      BY <2>2, <2>3
<1> QED
    BY <1>2, <1>3

LEMMA ScanClass == ASSUME NEW e \in Records PROVE ClassInv /\ Scan(e) => ClassInv'
<1> SUFFICES ASSUME ClassInv, Scan(e) PROVE ClassInv'
    OBVIOUS
<1>1. /\ UNCHANGED <<loading, correlating>> /\ phase = "scan" /\ phase' = phase
      /\ alerts' = alerts \cup {Alert(r, e.group, e.time) :
                        r \in {q \in Range(rules) : ~HasAgg(q) /\ e.hits \cap q.sel # {}}}
    BY DEF Scan
<1>2. BaseInv' /\ BaseInv
    BY ScanBase DEF ClassInv
<1>3. Classified' /\ Counted'
    BY <1>1, SameRules
<1>4. Sources'
  <2>1. PlainRules' = PlainRules
      BY <1>1, SameFiles
  <2>2. ASSUME NEW x \in alerts', x \notin alerts PROVE Early(x)
    <3>1. PICK r \in Range(rules) : ~HasAgg(r) /\ r.sel # {} /\ x = Alert(r, e.group, e.time)
        BY <1>1, <2>2
    <3>2. PlainNode(r) \/ CountingNode(r) \/ CloneNode(r) \/ TemporalNode(r)
        BY <1>1 DEF ClassInv, Classified
    <3>3. r.doc \in PlainRules
        BY <3>1, <3>2, NoAggIsPlain
    <3> QED
        BY <3>1, <3>3 DEF Early, Alert
  <2>3. \A x \in alerts : Early(x)
      BY <1>1 DEF ClassInv, Sources
  <2>4. \A x \in alerts' : \E d \in PlainRules' : x.rule = d.id
      BY <2>1, <2>2, <2>3 DEF Early
  <2> QED
      BY <1>1, <2>4 DEF Sources, Early
<1> QED
    BY <1>2, <1>3, <1>4 DEF ClassInv

\* Results depend on the rules and the log only.
LEMMA SameResults ==
    ASSUME UNCHANGED <<rules, log>>
    PROVE  /\ \A r : Results(r)' = Results(r)
           /\ \A r : TemporalResults(r)' = TemporalResults(r)
<1>1. \A r : Results(r)' = Results(r)
    BY DEF Results, CountData, Matches
<1>2. \A id : RefResults(id)' = RefResults(id)
    BY <1>1 DEF RefResults
<1>3. \A r : TemporalResults(r)' = TemporalResults(r)
    BY <1>2 DEF TemporalResults, detect_within_timeframe
<1> QED
    BY <1>1, <1>3

LEMMA JudgeClass == ClassInv /\ Judge => ClassInv'
<1> SUFFICES ASSUME ClassInv, Judge PROVE ClassInv'
    OBVIOUS
<1> DEFINE counting == {r \in Range(rules) : HasAgg(r) /\ (r.type = "ref" => r.generate)}
           temporal == {r \in Range(rules) : r.type \in {"temporal", "temporal_ordered"}}
<1>1. /\ UNCHANGED <<loading, correlating, log>> /\ phase = "scan" /\ phase' = "done"
      /\ alerts' = alerts
             \cup (UNION {{Alert(r, x.group, x.time) : x \in Results(r)} : r \in counting})
             \cup (UNION {{Alert(r, x.group, x.time) : x \in TemporalResults(r)} : r \in temporal})
    BY DEF Judge
<1>2. BaseInv'
    BY BaseStep DEF ClassInv, Next
<1>3. Classified' /\ Counted'
    BY <1>1, SameRules
<1>4. Sources'
  <2>1. PlainRules' = PlainRules /\ rules' = rules /\ log' = log
      BY <1>1, SameFiles DEF correlating
  <2>2. /\ \A r : Results(r)' = Results(r)
        /\ \A r : TemporalResults(r)' = TemporalResults(r)
      BY <2>1, SameResults
  <2>3. \A x \in alerts : Early(x)
      BY <1>1 DEF ClassInv, Sources
  <2> HIDE DEF counting, temporal
  <2>9. \A x : x \in alerts' <=>
                 \/ x \in alerts
                 \/ \E r \in counting : \E y \in Results(r) : x = Alert(r, y.group, y.time)
                 \/ \E r \in temporal : \E y \in TemporalResults(r) : x = Alert(r, y.group, y.time)
    <3> DEFINE counts(r) == {Alert(r, y.group, y.time) : y \in Results(r)}
               follows(r) == {Alert(r, y.group, y.time) : y \in TemporalResults(r)}
    <3>1. \A r, x : /\ x \in counts(r) <=> \E y \in Results(r) : x = Alert(r, y.group, y.time)
                    /\ x \in follows(r) <=> \E y \in TemporalResults(r) : x = Alert(r, y.group, y.time)
        OBVIOUS
    <3> DEFINE C == UNION {counts(r) : r \in counting}
               T == UNION {follows(r) : r \in temporal}
    <3>2. alerts' = alerts \cup C \cup T
        BY <1>1
    <3> HIDE DEF counts, follows
    <3> TAKE x
    <3>3. x \in C <=> \E r \in counting : x \in counts(r)
        OBVIOUS
    <3>4. x \in T <=> \E r \in temporal : x \in follows(r)
        OBVIOUS
    <3> HIDE DEF C, T
    <3>5. x \in alerts' <=> x \in alerts \/ (\E r \in counting : x \in counts(r))
                                         \/ (\E r \in temporal : x \in follows(r))
        BY <3>2, <3>3, <3>4
    <3>6. (\E r \in counting : x \in counts(r))
            <=> \E r \in counting : \E y \in Results(r) : x = Alert(r, y.group, y.time)
        BY <3>1
    <3>7. (\E r \in temporal : x \in follows(r))
            <=> \E r \in temporal : \E y \in TemporalResults(r) : x = Alert(r, y.group, y.time)
        BY <3>1
    <3> QED
        BY <3>5, <3>6, <3>7
  <2>4. ASSUME NEW x \in alerts', x \notin alerts PROVE Judged(x)
    <3>1. CASE \E r \in counting : \E y \in Results(r) : x = Alert(r, y.group, y.time)
        BY <3>1 DEF Judged, Alert, counting
    <3>2. CASE \E r \in temporal : \E y \in TemporalResults(r) : x = Alert(r, y.group, y.time)
        BY <3>2 DEF Judged, Alert, temporal
    <3> QED
        BY <2>4, <2>9, <3>1, <3>2
  <2>5. ASSUME NEW r \in Range(rules), HasAgg(r), r.type # "ref", NEW x \in Results(r)
        PROVE  Alert(r, x.group, x.time) \in alerts'
    <3>1. r \in counting
        BY <2>5 DEF counting
    <3> QED
        BY <2>9, <3>1
  <2>6. \A x \in alerts' : Early(x)' \/ Judged(x)'
    <3> SUFFICES ASSUME NEW x \in alerts' PROVE Early(x)' \/ Judged(x)'
        OBVIOUS
    <3>1. Early(x) \/ Judged(x)
        BY <2>3, <2>4
    <3>2. Early(x)' <=> Early(x)
        BY <2>1 DEF Early
    <3>3. Judged(x)' <=> Judged(x)
        BY <2>1, <2>2 DEF Judged, HasAgg, Alert
    <3> QED
        BY <3>1, <3>2, <3>3
  <2>7. \A r \in Range(rules') : HasAgg(r) /\ r.type # "ref" =>
                \A x \in Results(r)' : Alert(r, x.group, x.time) \in alerts'
      BY <2>1, <2>2, <2>5
  <2> QED
      BY <1>1, <2>6, <2>7 DEF Sources, HasAgg, Alert
<1> QED
    BY <1>2, <1>3, <1>4 DEF ClassInv

LEMMA ClassStep == ClassInv /\ [Next]_vars => ClassInv'
<1> SUFFICES ASSUME ClassInv, [Next]_vars PROVE ClassInv'
    OBVIOUS
<1>0. BaseInv' /\ BaseInv
    BY BaseStep DEF ClassInv
<1>1. CASE Load
  <2>1. /\ phase = "read" /\ phase' \in {"read", "failed", "create"}
        /\ UNCHANGED <<correlating, log, alerts>>
      BY <1>1, LoadMeans
  <2>2. merged' = <<>> /\ ref_rules' = <<>> /\ temporal_nodes' = <<>>
      BY <1>0, <2>1 DEF BaseInv, Phases, correlating
  <2>3. Classified'
      BY <2>1, <2>2, EmptyList DEF Classified
  <2>4. Counted' /\ Sources'
      BY <2>1 DEF Counted, Sources
  <2> QED
      BY <1>0, <2>3, <2>4 DEF ClassInv
<1>2. CASE Panic
  <2>1. UNCHANGED <<loading, correlating, log, alerts>> /\ phase = "temporal" /\ phase' = "panic"
      BY <1>2 DEF Panic
  <2>2. Classified' /\ Counted'
      BY <2>1, SameRules
  <2>3. Sources'
      BY <2>1 DEF Sources
  <2> QED
      BY <1>0, <2>2, <2>3 DEF ClassInv
<1>3. CASE UNCHANGED vars
  <2>1. /\ UNCHANGED <<loading, correlating, log, alerts>> /\ phase' = phase
      BY <1>3 DEF vars, loaderVars, loading
  <2>2. Classified' /\ Counted'
      BY <2>1, SameRules
  <2>3. /\ PlainRules' = PlainRules /\ rules' = rules
        /\ \A r : Results(r)' = Results(r) /\ TemporalResults(r)' = TemporalResults(r)
      BY <2>1, SameFiles, SameResults DEF correlating
  <2>4. \A x : (Early(x)' <=> Early(x)) /\ (Judged(x)' <=> Judged(x))
      BY <2>3 DEF Early, Judged, HasAgg, Alert
  <2>5. Sources'
      BY <2>1, <2>3, <2>4 DEF Sources, ClassInv, HasAgg, Alert
  <2> QED
      BY <1>0, <2>2, <2>5 DEF ClassInv
<1> QED
    BY <1>1, <1>2, <1>3, CreateClass, MergeClass, MergedClass, ParseTemporalClass,
       AssembledClass, ScanClass, JudgeClass DEF Next

LEMMA ClassInit == Init => ClassInv
<1> SUFFICES ASSUME Init PROVE ClassInv
    OBVIOUS
<1>1. phase = "read" /\ merged = <<>> /\ ref_rules = <<>> /\ temporal_nodes = <<>>
    BY DEF Init, LoaderInit
<1>2. Classified /\ Counted /\ Sources
    BY <1>1, EmptyList DEF Classified, Counted, Sources
<1> QED
    BY <1>2, BaseInit DEF ClassInv

-----------------------------------------------------------------------------
(* The times of the records that a rule matched, in order.                    *)

\* In a finite set, one is the latest.
LEMMA Latest ==
    ASSUME NEW f
    PROVE  \A n \in Nat : \A I : IsFiniteSet(I) /\ Cardinality(I) = n /\ I # {} /\ (\A i \in I : f[i] \in Int) =>
                                 \E m \in I : \A i \in I : f[i] <= f[m]
<1> DEFINE Good(n) == \A I : IsFiniteSet(I) /\ Cardinality(I) = n /\ I # {} /\ (\A i \in I : f[i] \in Int) =>
                                 \E m \in I : \A i \in I : f[i] <= f[m]
           G == {n \in Nat : Good(n)}
<1>1. 0 \in G
    BY FS_EmptySet
<1>2. ASSUME NEW n \in Nat, n \in G PROVE n + 1 \in G
  <2> SUFFICES ASSUME NEW I, IsFiniteSet(I), Cardinality(I) = n + 1, I # {}, \A i \in I : f[i] \in Int
               PROVE  \E m \in I : \A i \in I : f[i] <= f[m]
      OBVIOUS
  <2>1. PICK x : x \in I
      OBVIOUS
  <2> DEFINE J == I \ {x}
  <2>2. IsFiniteSet(J) /\ Cardinality(J) = n
      BY <2>1, FS_RemoveElement
  <2>3. CASE J = {}
    <3>1. \A i \in I : i = x
        BY <2>3
    <3> QED
        BY <2>1, <3>1
  <2>4. CASE J # {}
    <3>1. \A i \in J : i \in I
        OBVIOUS
    <3>2. \A i \in I : i = x \/ i \in J
        OBVIOUS
    <3> HIDE DEF J
    <3>3. PICK m \in J : \A i \in J : f[i] <= f[m]
        BY <1>2, <2>2, <2>4, <3>1
    <3>4. CASE f[m] <= f[x]
      <4>1. \A i \in I : f[i] <= f[x]
          BY <2>1, <3>1, <3>2, <3>3, <3>4
      <4> QED
          BY <2>1, <4>1
    <3>5. CASE ~(f[m] <= f[x])
        BY <2>1, <3>1, <3>2, <3>3, <3>5
    <3> QED
        BY <3>4, <3>5
  <2> QED
      BY <2>3, <2>4
<1>3. Nat \subseteq G
  <2> HIDE DEF G
  <2> QED
      BY <1>1, <1>2, Induction
<1> QED
    BY <1>3

\* q counts I in the order of f.
Counts(q, I, f, n) ==
    /\ q \in [1..n -> I] /\ IsInjective(q)
    /\ \A j, k \in 1..n : j < k => f[q[j]] <= f[q[k]]

LEMMA Enumerated ==
    ASSUME NEW f
    PROVE  \A n \in Nat : \A I : IsFiniteSet(I) /\ Cardinality(I) = n /\ (\A i \in I : f[i] \in Int) =>
                                 \E q : Counts(q, I, f, n)
<1> DEFINE Good(n) == \A I : IsFiniteSet(I) /\ Cardinality(I) = n /\ (\A i \in I : f[i] \in Int) =>
                                 \E q : Counts(q, I, f, n)
           G == {n \in Nat : Good(n)}
<1>1. 0 \in G
  <2> SUFFICES ASSUME NEW I PROVE Counts([i \in 1..0 |-> 0], I, f, 0)
      BY Zenon
  <2> QED
      BY DEF Counts, IsInjective
<1>2. ASSUME NEW n \in Nat, n \in G PROVE n + 1 \in G
  <2> SUFFICES ASSUME NEW I, IsFiniteSet(I), Cardinality(I) = n + 1, \A i \in I : f[i] \in Int
               PROVE  \E q : Counts(q, I, f, n + 1)
      OBVIOUS
  <2>1. I # {} /\ n + 1 \in Nat
      BY FS_EmptySet
  <2>2. PICK m \in I : \A i \in I : f[i] <= f[m]
      BY <2>1, Latest
  <2> DEFINE J == I \ {m}
  <2>3. IsFiniteSet(J) /\ Cardinality(J) = n
      BY FS_RemoveElement
  <2>4. \A i : i \in J <=> i \in I /\ i # m
      OBVIOUS
  <2> HIDE DEF J
  <2>5. PICK p : Counts(p, J, f, n)
      BY <1>2, <2>3, <2>4
  <2>6. /\ p \in [1..n -> J]
        /\ \A j, k \in 1..n : p[j] = p[k] => j = k
        /\ \A j, k \in 1..n : j < k => f[p[j]] <= f[p[k]]
      BY <2>5 DEF Counts, IsInjective
  <2> DEFINE q == [k \in 1..(n + 1) |-> IF k = n + 1 THEN m ELSE p[k]]
  <2>7. \A k \in 1..(n + 1) : /\ k = n + 1 => q[k] = m
                              /\ k # n + 1 => k \in 1..n /\ q[k] = p[k] /\ p[k] \in J
      BY <2>6
  <2>8. q \in [1..(n + 1) -> I]
      BY <2>4, <2>6
  <2> HIDE DEF q
  <2>9. \A j, k \in 1..(n + 1) : q[j] = q[k] => j = k
      BY <2>4, <2>6, <2>7
  <2>10. ASSUME NEW j \in 1..(n + 1), NEW k \in 1..(n + 1), j < k PROVE f[q[j]] <= f[q[k]]
    <3>1. j # n + 1
        BY <2>10
    <3>2. CASE k = n + 1
        BY <2>2, <2>4, <2>7, <3>1, <3>2
    <3>3. CASE k # n + 1
        BY <2>6, <2>7, <2>10, <3>1, <3>3
    <3> QED
        BY <3>2, <3>3
  <2>11. DOMAIN q = 1..(n + 1)
      BY <2>8
  <2>12. Counts(q, I, f, n + 1)
      BY <2>8, <2>9, <2>10, <2>11 DEF Counts, IsInjective
  <2> QED
      BY <2>12
<1>3. Nat \subseteq G
  <2> HIDE DEF G, Good
  <2> QED
      BY <1>1, <1>2, Induction
<1> QED
    BY <1>3

\* d are the times of the records in I, which q counts in their order.
AreTimes(d, I, q) ==
    /\ IsFiniteSet(I) /\ d \in Seq(Int) /\ Len(d) = Cardinality(I)
    /\ q \in [1..Len(d) -> I]
    /\ \A j, k \in 1..Len(d) : q[j] = q[k] => j = k
    /\ \A i \in I : \E k \in 1..Len(d) : q[k] = i
    /\ \A k \in 1..Len(d) : d[k] = log[q[k]].time
    /\ \A j, k \in 1..Len(d) : j <= k => d[j] <= d[k]

LEMMA CountDataMeans ==
    ASSUME log \in Seq(Records), NEW r, NEW g
    PROVE  \E q : AreTimes(CountData(r, g), Matches(r, g), q)
<1> DEFINE I == Matches(r, g)
           N == Cardinality(I)
           f == [i \in DOMAIN log |-> log[i].time]
           Q(q) == /\ IsInjective(q)
                   /\ \A j, k \in DOMAIN q : j < k => log[q[j]].time <= log[q[k]].time
           order == CHOOSE q \in [1..N -> I] : Q(q)
<1>1. I \in SUBSET (DOMAIN log) /\ DOMAIN log = 1..Len(log) /\ Len(log) \in Nat
    BY DEF Matches
<1>2. IsFiniteSet(I) /\ N \in Nat
  <2>1. IsFiniteSet(DOMAIN log)
      BY <1>1, FS_Interval
  <2> QED
      BY <1>1, <2>1, FS_Subset, FS_CardinalityType
<1>3. \A i \in I : f[i] = log[i].time /\ f[i] \in Int
  <2>1. \A i \in DOMAIN log : log[i] \in Records
      BY <1>1
  <2> QED
      BY <1>1, <2>1, RuleAssumption
<1>4. CountData(r, g) = [k \in 1..N |-> log[order[k]].time]
    BY Zenon DEF CountData
<1> HIDE DEF I, f, N
<1>5. \E q \in [1..N -> I] : Q(q)
  <2>1. PICK q : Counts(q, I, f, N)
      BY <1>2, <1>3, Enumerated DEF N
  <2>2. q \in [1..N -> I] /\ IsInjective(q) /\ \A j, k \in 1..N : j < k => f[q[j]] <= f[q[k]]
      BY <2>1 DEF Counts
  <2>3. DOMAIN q = 1..N /\ \A k \in 1..N : q[k] \in I
      BY <2>2
  <2>4. Q(q)
      BY <1>3, <2>2, <2>3
  <2> HIDE DEF Q
  <2> QED
      BY <2>2, <2>4
<1>6. order \in [1..N -> I] /\ Q(order)
  <2> HIDE DEF Q
  <2> QED
      BY <1>5, Zenon
<1>7. PICK q : q = order
    OBVIOUS
<1>8. q \in [1..N -> I] /\ Q(q) /\ CountData(r, g) = [k \in 1..N |-> log[q[k]].time]
    BY <1>4, <1>6, <1>7
<1> HIDE DEF order
<1>9. /\ DOMAIN q = 1..N
      /\ \A j, k \in 1..N : q[j] = q[k] => j = k
      /\ \A j, k \in 1..N : j < k => log[q[j]].time <= log[q[k]].time
      /\ \A k \in 1..N : q[k] \in I /\ log[q[k]].time \in Int
    BY <1>3, <1>8 DEF IsInjective
<1>10. \A i \in I : \E k \in 1..N : q[k] = i
  <2>1. q \in Injection(1..N, I)
      BY <1>8, <1>9 DEF Injection, IsInjective
  <2>2. Cardinality(1..N) = N
      BY <1>2, FS_Interval
  <2>3. q \in Surjection(1..N, I)
      BY <1>2, <2>1, <2>2, FS_Injection DEF N
  <2> QED
      BY <2>3 DEF Surjection
<1> DEFINE d == [k \in 1..N |-> log[q[k]].time]
<1>11. d \in Seq(Int) /\ Len(d) = N /\ \A k \in 1..N : d[k] = log[q[k]].time
    BY <1>2, <1>9
<1>12. \A j, k \in 1..N : j <= k => d[j] <= d[k]
    BY <1>2, <1>9, <1>11
<1> HIDE DEF d
<1>13. AreTimes(d, I, q)
    BY <1>2, <1>8, <1>9, <1>10, <1>11, <1>12 DEF AreTimes, N
<1> QED
    BY <1>8, <1>13 DEF d, I

-----------------------------------------------------------------------------
(* The windows of judge_timeframe.                                            *)

\* From the a-th to the b-th there are enough, and they lie within the span.
Stretch(d, agg, a, b) ==
    a \in 1..Len(d) /\ b \in 1..Len(d) /\ a <= b /\ b - a + 1 >= agg.num /\ d[b] - d[a] <= agg.span

Judgeable(d, agg) ==
    /\ d \in Seq(Int) /\ agg.num \in Int /\ agg.span \in Nat
    /\ \A j, k \in 1..Len(d) : j <= k => d[j] <= d[k]

LEMMA Least ==
    ASSUME NEW T \in SUBSET Nat, NEW n \in T
    PROVE  \E x \in T : \A y \in T : x <= y
<1> DEFINE G == {k \in Nat : \A x \in T : x > k}
<1> SUFFICES ASSUME \A x \in T : \E y \in T : ~(x <= y) PROVE FALSE
    OBVIOUS
<1>1. 0 \in G
  <2> SUFFICES ASSUME NEW x \in T, ~(x > 0) PROVE FALSE
      OBVIOUS
  <2>1. PICK y \in T : ~(x <= y)
      OBVIOUS
  <2> QED
      BY <2>1
<1>2. ASSUME NEW k \in Nat, k \in G PROVE k + 1 \in G
  <2> SUFFICES ASSUME NEW x \in T, ~(x > k + 1) PROVE FALSE
      BY <1>2
  <2>1. PICK y \in T : ~(x <= y)
      OBVIOUS
  <2>2. x = k + 1 /\ y > k
      BY <1>2
  <2> QED
      BY <2>1, <2>2
<1> HIDE DEF G
<1>3. n \in G
    BY <1>1, <1>2, Induction
<1> QED
    BY <1>3 DEF G

\* How far the right end goes.
LEMMA ReachMeans ==
    ASSUME NEW d \in Seq(Int), NEW span \in Int, NEW left \in Nat, NEW right \in Nat,
           left < Len(d), right <= Len(d)
    PROVE  LET r == Reach(d, span, left, right)
           IN  /\ r \in right..Len(d)
               /\ \A m \in right..(r - 1) : d[m + 1] - d[left + 1] <= span
               /\ r = Len(d) \/ d[r + 1] - d[left + 1] > span
<1> DEFINE Ends(r) == r = Len(d) \/ d[r + 1] - d[left + 1] > span
           T == {r \in right..Len(d) : Ends(r)}
           Q(r) == /\ \A m \in right..(r - 1) : d[m + 1] - d[left + 1] <= span
                   /\ r = Len(d) \/ d[r + 1] - d[left + 1] > span
<1>1. Len(d) \in T /\ T \in SUBSET Nat /\ Len(d) \in Nat
    OBVIOUS
<1>2. PICK x \in T : \A y \in T : x <= y
  <2> HIDE DEF T
  <2> QED
      BY <1>1, Least
<1>3. x \in right..Len(d) /\ Ends(x)
    BY <1>2
<1>4. ASSUME NEW m \in right..(x - 1) PROVE d[m + 1] - d[left + 1] <= span
  <2>1. m \in right..Len(d) /\ m \notin T /\ m # Len(d)
      BY <1>1, <1>2, <1>3
  <2>2. ~Ends(m)
      BY <2>1
  <2>3. d[m + 1] \in Int /\ d[left + 1] \in Int
      BY <1>1, <2>1
  <2> QED
      BY <2>2, <2>3
<1>5. Q(x)
    BY <1>3, <1>4
<1>6. Reach(d, span, left, right) = CHOOSE r \in right..Len(d) : Q(r)
    BY Zenon DEF Reach
<1> DEFINE z == CHOOSE r \in right..Len(d) : Q(r)
<1>7. z \in right..Len(d) /\ Q(z)
  <2> HIDE DEF Q
  <2> QED
      BY <1>3, <1>5
<1>8. PICK r : r = z
    OBVIOUS
<1>9. r \in right..Len(d) /\ Q(r) /\ Reach(d, span, left, right) = r
    BY <1>6, <1>7, <1>8, Zenon
<1> HIDE DEF z
<1> QED
    BY <1>9

Start == [left |-> 0, right |-> 0, starts |-> {}]

\* The window after n turns.
Slid(w, d, agg, n) ==
    /\ DOMAIN w = {"left", "right", "starts"}
    /\ w.left \in Nat /\ w.right \in Nat /\ w.left <= w.right /\ w.right <= Len(d) + 1
    /\ w.left <= Len(d)
    /\ w.left >= n \/ w.right = Len(d) + 1
    \* nothing was put into the window that does not fit, or there are too few
    /\ w.left < w.right => \/ w.right - w.left < agg.num
                           \/ w.right <= Len(d) /\ d[w.right] - d[w.left + 1] <= agg.span
    \* what was found is there
    /\ \A s \in w.starts : \E a, b \in Nat : Stretch(d, agg, a, b) /\ d[a] = s
    \* what is there was found
    /\ w.starts = {} => \A a, b \in Nat : Stretch(d, agg, a, b) => a > w.left /\ w.right <= Len(d)

LEMMA TurnSlides ==
    ASSUME NEW d, NEW agg, Judgeable(d, agg), NEW n \in Nat, n < Len(d), NEW w, Slid(w, d, agg, n)
    PROVE  Slid(Turn(d, agg, w), d, agg, n + 1)
<1>0. Len(d) \in Nat /\ (\A k \in 1..Len(d) : d[k] \in Int) /\ agg.num \in Int /\ agg.span \in Nat
    BY DEF Judgeable
<1>3. /\ w.left \in Nat /\ w.right \in Nat /\ w.left <= w.right /\ w.right <= Len(d) + 1
      /\ w.left <= Len(d)
    BY DEF Slid
<1>1. CASE w.left >= Len(d) \/ w.right > Len(d)
  <2>1. Turn(d, agg, w) = w
      BY <1>1 DEF Turn
  <2>2. w.right = Len(d) + 1 \/ w.left = Len(d)
      BY <1>0, <1>1, <1>3
  <2>3. w.left >= n + 1 \/ w.right = Len(d) + 1
      BY <1>0, <2>2
  <2> QED
      BY <2>1, <2>3 DEF Slid
<1>2. CASE w.left < Len(d) /\ w.right <= Len(d)
  <2> DEFINE l == w.left
             r == Reach(d, agg.span, w.left, w.right)
  <2>1. /\ l \in Nat /\ w.right \in Nat /\ l <= w.right
        /\ l < w.right => \/ w.right - l < agg.num
                          \/ d[w.right] - d[l + 1] <= agg.span
      BY <1>2 DEF Slid
  <2>2. /\ r \in w.right..Len(d)
        /\ \A m \in w.right..(r - 1) : d[m + 1] - d[l + 1] <= agg.span
        /\ r = Len(d) \/ d[r + 1] - d[l + 1] > agg.span
    <3>1. /\ d \in Seq(Int) /\ agg.span \in Int /\ w.left \in Nat /\ w.right \in Nat
          /\ w.left < Len(d) /\ w.right <= Len(d)
        BY <1>0, <1>2, <2>1 DEF Judgeable
    <3> QED
        BY <3>1, ReachMeans
  <2>3. Turn(d, agg, w) =
             IF r - l >= agg.num
             THEN [left |-> r, right |-> r, starts |-> w.starts \cup {d[l + 1]}]
             ELSE [left |-> l + 1, right |-> r + 1, starts |-> w.starts]
      BY <1>0, <1>2, <2>1 DEF Turn
  <2> HIDE DEF r
  <2>4. r \in Nat /\ l < r
    <3>1. ASSUME r = l PROVE FALSE
      <4>1. w.right = l /\ d[l + 1] - d[l + 1] > agg.span
          BY <1>0, <1>2, <2>1, <2>2, <3>1
      <4> QED
          BY <1>0, <1>2, <2>1, <4>1
    <3> QED
        BY <1>0, <2>1, <2>2, <3>1
  <2>8. r <= Len(d)
      BY <1>0, <2>2
  <2>5. r - l >= agg.num => d[r] - d[l + 1] <= agg.span
    <3>1. CASE r = w.right
        BY <1>0, <2>1, <2>4, <3>1
    <3>2. CASE r # w.right
      <4>1. r - 1 \in w.right..(r - 1) /\ (r - 1) + 1 = r
          BY <2>1, <2>2, <2>4, <3>2
      <4> QED
          BY <2>2, <4>1
    <3> QED
        BY <3>1, <3>2
  <2>6. CASE r - l >= agg.num
    <3>1. Stretch(d, agg, l + 1, r) /\ l + 1 \in Nat
      <4>1. l + 1 \in 1..Len(d) /\ r \in 1..Len(d) /\ l + 1 <= r /\ r - (l + 1) + 1 = r - l
          BY <1>0, <1>2, <1>3, <2>4, <2>8
      <4> QED
          BY <2>5, <2>6, <4>1 DEF Stretch
    <3>2. PICK v : v = [left |-> r, right |-> r, starts |-> w.starts \cup {d[l + 1]}]
        OBVIOUS
    <3>3. \A s \in v.starts : \E a, b \in Nat : Stretch(d, agg, a, b) /\ d[a] = s
        BY <2>4, <3>1, <3>2 DEF Slid
    <3>4. v.left >= n + 1 \/ v.right = Len(d) + 1
        BY <1>0, <1>2, <2>1, <2>4, <3>2 DEF Slid
    <3>5. DOMAIN v = {"left", "right", "starts"} /\ v.left = r /\ v.right = r /\ v.starts # {}
        BY <3>2
    <3>6. Slid(v, d, agg, n + 1)
        BY <1>0, <2>1, <2>2, <2>4, <3>3, <3>4, <3>5 DEF Slid
    <3> QED
        BY <2>3, <2>6, <3>2, <3>6
  <2>7. CASE r - l < agg.num
    <3>1. PICK v : v = [left |-> l + 1, right |-> r + 1, starts |-> w.starts]
        OBVIOUS
    <3>2. DOMAIN v = {"left", "right", "starts"} /\ v.left = l + 1 /\ v.right = r + 1 /\ v.starts = w.starts
        BY <3>1
    <3>3. \A s \in v.starts : \E a, b \in Nat : Stretch(d, agg, a, b) /\ d[a] = s
        BY <3>2 DEF Slid
    <3>4. v.left >= n + 1 \/ v.right = Len(d) + 1
        BY <1>0, <1>2, <2>1, <2>4, <3>2 DEF Slid
    <3>5. ASSUME w.starts = {}, NEW a \in Nat, NEW b \in Nat, Stretch(d, agg, a, b)
          PROVE  a > l + 1 /\ r + 1 <= Len(d)
      <4>1. a > l
          BY <3>5 DEF Slid
      <4>2. /\ a \in 1..Len(d) /\ b \in 1..Len(d) /\ a <= b /\ b - a + 1 >= agg.num
            /\ d[b] - d[a] <= agg.span
          BY <3>5 DEF Stretch
      <4>3. b > r
          BY <1>0, <2>1, <2>4, <2>7, <4>1, <4>2
      <4>4. r + 1 <= Len(d) /\ d[r + 1] - d[l + 1] > agg.span
          BY <1>0, <2>2, <2>4, <4>2, <4>3
      <4>5. a # l + 1
        <5>1. d[r + 1] <= d[b] /\ d[r + 1] \in Int /\ d[b] \in Int
            BY <1>0, <2>4, <4>2, <4>3, <4>4 DEF Judgeable
        <5> QED
            BY <1>0, <2>1, <4>2, <4>4, <5>1
      <4> QED
          BY <1>0, <2>1, <4>1, <4>4, <4>5
    <3>6. /\ v.left \in Nat /\ v.right \in Nat /\ v.left <= v.right /\ v.right <= Len(d) + 1
          /\ v.left <= Len(d) /\ v.right - v.left < agg.num
        BY <1>0, <1>2, <1>3, <2>4, <2>7, <2>8, <3>2
    <3>7. v.starts = {} => \A a, b \in Nat : Stretch(d, agg, a, b) => a > v.left /\ v.right <= Len(d)
        BY <3>2, <3>5
    <3>8. Slid(v, d, agg, n + 1)
        BY <3>2, <3>3, <3>4, <3>6, <3>7 DEF Slid
    <3> QED
        BY <1>0, <2>1, <2>3, <2>4, <2>7, <3>1, <3>8
  <2> QED
      BY <1>0, <2>1, <2>4, <2>6, <2>7
<1> QED
    BY <1>0, <1>1, <1>2 DEF Slid

\* w tells the window after every turn.
IsWindow(w, d, agg, n) ==
    w = [k \in 0..n |-> IF k = 0 THEN Start ELSE Turn(d, agg, w[k - 1])]

LEMMA WindowExists == ASSUME NEW d, NEW agg PROVE \A n \in Nat : \E w : IsWindow(w, d, agg, n)
<1> DEFINE G == {n \in Nat : \E w : IsWindow(w, d, agg, n)}
<1>1. 0 \in G
  <2>1. IsWindow([k \in 0..0 |-> Start], d, agg, 0)
      BY DEF IsWindow
  <2> QED
      BY <2>1
<1>2. ASSUME NEW n \in Nat, n \in G PROVE n + 1 \in G
  <2>1. PICK w : IsWindow(w, d, agg, n)
      BY <1>2
  <2> DEFINE v == [k \in 0..(n + 1) |-> IF k = n + 1 THEN Turn(d, agg, w[n]) ELSE w[k]]
             u == [k \in 0..(n + 1) |-> IF k = 0 THEN Start ELSE Turn(d, agg, v[k - 1])]
  <2>2. ASSUME NEW k \in 0..(n + 1) PROVE v[k] = u[k]
    <3>1. CASE k = n + 1
      <4>1. k # 0 /\ k - 1 = n /\ n \in 0..(n + 1) /\ n # n + 1
          BY <3>1
      <4> QED
          BY <3>1, <4>1
    <3>2. CASE k # n + 1
      <4>1. k \in 0..n /\ (k # 0 => k - 1 \in 0..(n + 1) /\ k - 1 # n + 1)
          BY <3>2
      <4>2. w[k] = IF k = 0 THEN Start ELSE Turn(d, agg, w[k - 1])
          BY <2>1, <4>1 DEF IsWindow
      <4> QED
          BY <3>2, <4>1, <4>2
    <3> QED
        BY <3>1, <3>2
  <2>3. v = u
      BY <2>2
  <2>4. IsWindow(v, d, agg, n + 1)
      BY <2>3 DEF IsWindow
  <2> HIDE DEF v
  <2> QED
      BY <2>4
<1>3. Nat \subseteq G
  <2> HIDE DEF G
  <2> QED
      BY <1>1, <1>2, Induction
<1> QED
    BY <1>3

\* judge_timeframe finds windows, and one where there is one.
LEMMA WindowsMean ==
    ASSUME NEW d, NEW agg, Judgeable(d, agg)
    PROVE  /\ \A s \in WindowStarts(d, agg) : \E a, b \in Nat : Stretch(d, agg, a, b) /\ d[a] = s
           /\ (\E a, b \in Nat : Stretch(d, agg, a, b)) => WindowStarts(d, agg) # {}
<1> DEFINE L == Len(d)
           F == CHOOSE w : w = [k \in 0..L |-> IF k = 0 THEN Start ELSE Turn(d, agg, w[k - 1])]
<1>1. L \in Nat
    BY DEF Judgeable
<1>2. \E w : w = [k \in 0..L |-> IF k = 0 THEN Start ELSE Turn(d, agg, w[k - 1])]
  <2>1. PICK w : IsWindow(w, d, agg, L)
      BY <1>1, WindowExists
  <2>2. w = [k \in 0..L |-> IF k = 0 THEN Start ELSE Turn(d, agg, w[k - 1])]
      BY <2>1, Zenon DEF IsWindow
  <2> QED
      BY <2>2, Zenon
<1>3. IsWindow(F, d, agg, L)
    BY <1>2, Zenon DEF IsWindow
<1>4. WindowStarts(d, agg) = F[L].starts
    BY Zenon DEF WindowStarts, Start
<1> HIDE DEF F, L
<1> DEFINE G == {n \in Nat : n <= L => Slid(F[n], d, agg, n)}
<1>5. 0 \in G
  <2>2. F[0] = Start
    <3>1. 0 \in 0..L
        BY <1>1
    <3> QED
        BY <1>3, <3>1 DEF IsWindow
  <2>3. Slid(Start, d, agg, 0)
      BY <1>1 DEF Slid, Start, Stretch, L
  <2> QED
      BY <2>2, <2>3
<1>6. ASSUME NEW n \in Nat, n \in G PROVE n + 1 \in G
  <2> SUFFICES ASSUME n + 1 <= L PROVE Slid(F[n + 1], d, agg, n + 1)
      BY DEF G
  <2>1. n + 1 \in 0..L /\ n + 1 # 0 /\ (n + 1) - 1 = n /\ n <= L
      BY <1>1
  <2>2. F[n + 1] = Turn(d, agg, F[n])
      BY <1>3, <2>1 DEF IsWindow
  <2>3. Slid(F[n], d, agg, n)
      BY <1>6, <2>1
  <2> QED
      BY <1>1, <2>1, <2>2, <2>3, TurnSlides DEF L
<1>7. Nat \subseteq G
  <2> HIDE DEF G
  <2> QED
      BY <1>5, <1>6, Induction
<1>8. Slid(F[L], d, agg, L)
    BY <1>1, <1>7
<1>9. ASSUME F[L].starts = {}, NEW a \in Nat, NEW b \in Nat, Stretch(d, agg, a, b) PROVE FALSE
  <2>1. a > F[L].left /\ F[L].right <= L
      BY <1>8, <1>9 DEF Slid, L
  <2>2. F[L].left >= L /\ F[L].left \in Nat
      BY <1>1, <1>8, <2>1 DEF Slid, L
  <2>3. a <= L
      BY <1>9 DEF Stretch, L
  <2> QED
      BY <1>1, <2>1, <2>2, <2>3
<1> QED
    BY <1>4, <1>8, <1>9 DEF Slid

-----------------------------------------------------------------------------
(* The results of a rule, and of the rules a temporal one refers to.          *)

Judges(r) == r.agg.num \in Int /\ r.agg.span \in Nat

\* A result is the start of a stretch of records that the rule matched.
LEMMA ResultsMean ==
    ASSUME log \in Seq(Records), NEW r, Judges(r), NEW x \in Results(r)
    PROVE  \E d, q : \E a, b \in Nat :
              /\ AreTimes(d, Matches(r, x.group), q) /\ Stretch(d, r.agg, a, b) /\ d[a] = x.time
<1>1. PICK g \in {log[i].group : i \in DOMAIN log} :
         x \in {[group |-> g, time |-> s] : s \in WindowStarts(CountData(r, g), r.agg)}
    BY DEF Results
<1>2. PICK s \in WindowStarts(CountData(r, g), r.agg) : x.group = g /\ x.time = s
    BY <1>1
<1>3. PICK q : AreTimes(CountData(r, g), Matches(r, g), q)
    BY CountDataMeans
<1> DEFINE d == CountData(r, g)
<1>4. AreTimes(d, Matches(r, x.group), q) /\ s \in WindowStarts(d, r.agg)
    BY <1>2, <1>3
<1> HIDE DEF d
<1>5. Judgeable(d, r.agg)
    BY <1>4 DEF AreTimes, Judgeable, Judges
<1>6. PICK a \in Nat, b \in Nat : Stretch(d, r.agg, a, b) /\ d[a] = s
    BY <1>4, <1>5, WindowsMean
<1> QED
    BY <1>2, <1>4, <1>6

\* A stretch of records of a group gives a result.
LEMMA ResultsExist ==
    ASSUME log \in Seq(Records), NEW r, Judges(r), NEW g \in {log[i].group : i \in DOMAIN log},
           NEW d, d = CountData(r, g), NEW q, AreTimes(d, Matches(r, g), q),
           NEW a \in Nat, NEW b \in Nat, Stretch(d, r.agg, a, b)
    PROVE  \E x \in Results(r) : x.group = g
<1>1. Judgeable(d, r.agg)
    BY DEF AreTimes, Judgeable, Judges
<1>2. PICK s : s \in WindowStarts(d, r.agg)
    BY <1>1, WindowsMean
<1> DEFINE x == [group |-> g, time |-> s]
<1>3. x \in {[group |-> g, time |-> y] : y \in WindowStarts(CountData(r, g), r.agg)}
    BY <1>2
<1>4. x \in Results(r)
    BY <1>3 DEF Results
<1> QED
    BY <1>4

\* The record of a result.
LEMMA ResultRecord ==
    ASSUME log \in Seq(Records), NEW r, Judges(r), NEW x \in Results(r)
    PROVE  x.time \in Int /\ \E i \in DOMAIN log : log[i].time = x.time /\ log[i].hits \cap r.sel # {}
<1>0. PICK d, q : \E a, b \in Nat :
              /\ AreTimes(d, Matches(r, x.group), q) /\ Stretch(d, r.agg, a, b) /\ d[a] = x.time
    BY ResultsMean
<1>1. PICK a \in Nat, b \in Nat :
              /\ AreTimes(d, Matches(r, x.group), q) /\ Stretch(d, r.agg, a, b) /\ d[a] = x.time
    BY <1>0
<1>2. a \in 1..Len(d)
    BY <1>1 DEF Stretch
<1>3. q[a] \in Matches(r, x.group) /\ x.time = log[q[a]].time /\ x.time \in Int
    BY <1>1, <1>2 DEF AreTimes
<1> QED
    BY <1>3 DEF Matches

LEMMA AllJudge ==
    ASSUME ClassInv, phase = "done", NEW r \in Range(rules), HasAgg(r) \/ r.type \in {"temporal", "temporal_ordered"} \/ r.type = "ref"
    PROVE  \/ CountingNode(r) /\ r.sel = {} /\ r.agg = NoAgg /\ r.doc.id \in reported
           \/ CountingNode(r) /\ Judges(r)
           \/ CloneNode(r) /\ Judges(r)
           \/ TemporalNode(r) /\ Judges(r)
<1>1. PlainNode(r) \/ CountingNode(r) \/ CloneNode(r) \/ TemporalNode(r)
    BY DEF ClassInv, Classified
<1>2. ~PlainNode(r)
  <2> SUFFICES ASSUME PlainNode(r) PROVE FALSE
      OBVIOUS
  <2>1. r.agg = NoAgg /\ r.type = "none"
    <3>1. PICK d \in PlainRules : r = RuleNode(d)
        BY DEF PlainNode
    <3> QED
        BY <3>1, PlainFacts DEF RuleNode, ClassInv, BaseInv
  <2> QED
      BY <2>1 DEF HasAgg
<1>3. CASE CountingNode(r)
    BY <1>3 DEF CountingNode, Judges
<1>4. CASE CloneNode(r)
    BY <1>4 DEF CloneNode, Judges
<1>5. CASE TemporalNode(r)
    BY <1>5 DEF TemporalNode, Judges
<1> QED
    BY <1>1, <1>2, <1>3, <1>4, <1>5

\* Nothing is judged without conditions.
LEMMA NoResults ==
    ASSUME log \in Seq(Records), NEW r, r.sel = {},
           Judges(r) \/ r.agg = NoAgg
    PROVE  Results(r) = {}
<1>1. r.agg.num \in Int /\ r.agg.span \in Nat
    BY DEF Judges, NoAgg, Bad
<1>2. Judges(r)
    BY <1>1 DEF Judges
<1> QED
    BY <1>2, ResultRecord

\* The results of the rules a temporal rule refers to are times.
LEMMA RefTimes ==
    ASSUME ClassInv, phase = "done", NEW id, NEW x \in RefResults(id)
    PROVE  \E r \in Range(rules) : r.type = "ref" /\ r.ref = id /\ x \in Results(r) /\ Judges(r)
<1>1. PICK r \in Range(rules) : r.type = "ref" /\ r.ref = id /\ x \in Results(r)
    BY DEF RefResults
<1>2. log \in Seq(Records)
    BY DEF ClassInv, BaseInv, Phases
<1>3. Judges(r)
    BY <1>1, <1>2, AllJudge, NoResults
<1> QED
    BY <1>1, <1>3

\* The documents of the rules are loaded ones.
LEMMA NodeDocs ==
    ASSUME ClassInv, phase = "done", NEW r \in Range(rules)
    PROVE  r.doc \in Range(files)
    BY DEF ClassInv, Classified, PlainNode, CountingNode, CloneNode, TemporalNode, PlainRules, Counting, Temporals

LEMMA Backed ==
    ASSUME ClassInv, phase = "done", LoadedOnce(Documents), NEW t \in Temporals, OnlyOne(t),
           NEW a \in AlertsOf(t), NEW n \in Range(t.correlation.refs), \E d \in PlainRules : n \in Names(d)
    PROVE  \E d \in PlainRules, i \in DOMAIN log :
                    /\ n \in Names(d) /\ d.id \in log[i].hits
                    /\ log[i].time <= a.time + t.correlation.span
                    /\ log[i].time >= a.time - (IF t.correlation.type = "temporal" THEN t.correlation.span ELSE 0)
<1>0. LoaderTypeOK /\ log \in Seq(Records) /\ Range(files) \subseteq Documents
    BY PlainFacts DEF ClassInv, BaseInv, Phases
<1>1. \A x, y \in Range(files) : x.id = y.id => x = y
    BY <1>0, OnceMeans
<1>2. a \in alerts /\ a.rule = t.id /\ t \in Range(files) /\ IsTemporal(t) /\ IsCorrelation(t)
    BY <1>0, PlainFacts DEF AlertsOf, Temporals, IsTemporal, IsCorrelation
<1>3. ~Early(a)
    BY <1>1, <1>2 DEF Early, PlainRules
<1>4. Judged(a)
    BY <1>2, <1>3 DEF ClassInv, Sources
<1>5. PICK r \in Range(rules) :
        /\ a.rule = r.doc.id
        /\ \/ HasAgg(r) /\ \E x \in Results(r) : a = Alert(r, x.group, x.time)
           \/ /\ r.type \in {"temporal", "temporal_ordered"}
              /\ \E x \in TemporalResults(r) : a = Alert(r, x.group, x.time)
    BY <1>4 DEF Judged
<1>6. r.doc = t
    BY <1>1, <1>2, <1>5, NodeDocs
<1>7. TemporalNode(r) /\ Judges(r)
  <2>1. ~CountingNode(r) /\ ~CloneNode(r)
      BY <1>2, <1>6 DEF CountingNode, CloneNode, Counting, PlainRules
  <2> QED
      BY <1>5, <2>1, AllJudge
<1>8. Results(r) = {}
    BY <1>0, <1>7, NoResults DEF TemporalNode
<1>9. PICK x \in TemporalResults(r) : a = Alert(r, x.group, x.time)
    BY <1>5, <1>8
<1>10. /\ x \in RefResults(r.refs[1]) /\ Len(r.refs) > 1
       /\ \A k \in 2..Len(r.refs) : \E other \in RefResults(r.refs[k]) : Near(r, x, other)
    BY <1>9 DEF TemporalResults, detect_within_timeframe
<1>11. PICK j \in DOMAIN r.refs, k \in DOMAIN t.correlation.refs :
                ForRef(r.refs[j], t, k) /\ t.correlation.refs[k] = n
    BY <1>6, <1>7 DEF TemporalNode
<1>12. j \in 1..Len(r.refs) /\ Len(r.refs) \in Nat
    BY <1>7, <1>11, ListFacts DEF TemporalNode
<1>13. x.time \in Int /\ a.time = x.time /\ r.agg.span \in Nat /\ r.agg.span = t.correlation.span
       /\ r.type = t.correlation.type
  <2>1. x.time \in Int
    <3>1. PICK s \in Range(rules) : x \in Results(s) /\ Judges(s)
        BY <1>10, RefTimes
    <3> QED
        BY <1>0, <3>1, ResultRecord
  <2>2. a.time = x.time
      BY <1>9 DEF Alert
  <2>3. r.agg = [num |-> 1, span |-> t.correlation.span]
      BY <1>6, <1>7 DEF TemporalNode
  <2> QED
      BY <1>6, <1>7, <2>1, <2>2, <2>3 DEF TemporalNode
<1>14. \E y \in RefResults(r.refs[j]) : y = x \/ Near(r, x, y)
  <2>1. CASE j = 1
      BY <1>10, <2>1
  <2>2. CASE j # 1
    <3>1. j \in 2..Len(r.refs)
        BY <1>12, <2>2
    <3> QED
        BY <1>10, <3>1
  <2> QED
      BY <2>1, <2>2
<1>15. PICK y \in RefResults(r.refs[j]) : y = x \/ Near(r, x, y)
    BY <1>14
<1>16. PICK s \in Range(rules) : s.type = "ref" /\ s.ref = r.refs[j] /\ y \in Results(s) /\ Judges(s)
    BY <1>15, RefTimes
<1>17. PICK i \in DOMAIN log : log[i].time = y.time /\ log[i].hits \cap s.sel # {} /\ y.time \in Int
    BY <1>0, <1>16, ResultRecord
<1>18. CloneNode(s)
  <2>1. ~TemporalNode(s)
      BY <1>0, <1>16, PlainFacts DEF TemporalNode, Temporals, IsTemporal
  <2>2. ~CountingNode(s)
    <3>1. Len(s.ref) = 3
        BY <1>11, <1>16 DEF ForRef
    <3>2. CorrelationType(s.doc) # "ref"
        BY DEF CorrelationType
    <3> QED
        BY <1>16, <3>1, <3>2 DEF CountingNode
  <2> QED
      BY <1>16, <2>1, <2>2, AllJudge
<1>19. s.doc \in PlainRules /\ s.sel = {s.doc.id} /\ n \in Names(s.doc)
  <2>0. PICK u \in Temporals : \E m \in DOMAIN u.correlation.refs :
         /\ ForRef(s.ref, u, m)
         /\ \/ s.sel = {} /\ s.doc \in Counting
            \/ s.doc \in PlainRules /\ s.sel = {s.doc.id} /\ u.correlation.refs[m] \in Names(s.doc)
      BY <1>18 DEF CloneNode
  <2>1. PICK m \in DOMAIN u.correlation.refs :
         /\ ForRef(s.ref, u, m)
         /\ \/ s.sel = {} /\ s.doc \in Counting
            \/ s.doc \in PlainRules /\ s.sel = {s.doc.id} /\ u.correlation.refs[m] \in Names(s.doc)
      BY <2>0
  <2>2. u.id = t.id /\ m = k
      BY <1>11, <1>16, <2>1 DEF ForRef
  <2>3. u = t
      BY <1>1, <1>2, <2>1, <2>2 DEF Temporals
  <2> QED
      BY <1>11, <1>17, <2>1, <2>2, <2>3
<1>20. s.doc.id \in log[i].hits
    BY <1>17, <1>19
<1>21. /\ log[i].time <= a.time + t.correlation.span
       /\ log[i].time >= a.time - (IF t.correlation.type = "temporal" THEN t.correlation.span ELSE 0)
  <2>1. CASE y = x
      BY <1>13, <1>17, <2>1
  <2>2. CASE Near(r, x, y)
    <3>1. /\ y.time <= x.time + t.correlation.span
          /\ IF t.correlation.type = "temporal_ordered" THEN y.time >= x.time
                                      ELSE y.time >= x.time - t.correlation.span
        BY <1>13, <2>2 DEF Near
    <3>2. t.correlation.type \in {"temporal", "temporal_ordered"}
        BY <1>2 DEF IsTemporal
    <3> QED
        BY <1>13, <1>17, <3>1, <3>2
  <2> QED
      BY <1>15, <2>1, <2>2
<1> QED
    BY <1>17, <1>19, <1>20, <1>21

-----------------------------------------------------------------------------
(* Bursts and stretches.                                                      *)

\* The records of a stretch, as many as it is long.
LEMMA StretchRecords ==
    ASSUME NEW d, NEW I, NEW q, AreTimes(d, I, q), NEW agg, agg.num \in Int, agg.span \in Nat,
           NEW a \in Nat, NEW b \in Nat, Stretch(d, agg, a, b)
    PROVE  \E J \in SUBSET I : /\ J # {} /\ Cardinality(J) >= agg.num
                               /\ \A i, j \in J : log[i].time - log[j].time <= agg.span
<1>1. /\ a \in 1..Len(d) /\ b \in 1..Len(d) /\ a <= b /\ b - a + 1 >= agg.num
      /\ d[b] - d[a] <= agg.span
    BY DEF Stretch
<1>2. /\ IsFiniteSet(I) /\ q \in [1..Len(d) -> I] /\ Len(d) \in Nat
      /\ \A j, k \in 1..Len(d) : q[j] = q[k] => j = k
      /\ \A k \in 1..Len(d) : d[k] = log[q[k]].time /\ d[k] \in Int
      /\ \A j, k \in 1..Len(d) : j <= k => d[j] <= d[k]
    BY DEF AreTimes
<1> DEFINE J == {q[k] : k \in a..b}
           p == [k \in a..b |-> q[k]]
<1>3. \A k \in a..b : k \in 1..Len(d)
    BY <1>1, <1>2
<1>4. J \in SUBSET I /\ q[a] \in J
    BY <1>1, <1>2, <1>3
<1>5. IsFiniteSet(J)
    BY <1>2, <1>4, FS_Subset
<1>6. p \in Injection(a..b, J)
  <2>1. p \in [a..b -> J]
      OBVIOUS
  <2>2. \A j, k \in a..b : p[j] = p[k] => j = k
      BY <1>2, <1>3
  <2> QED
      BY <2>1, <2>2 DEF Injection, IsInjective
<1>7. Cardinality(J) >= b - a + 1
  <2>1. Cardinality(a..b) = b - a + 1
      BY <1>1, FS_Interval
  <2>2. Cardinality(a..b) <= Cardinality(J)
      BY <1>5, <1>6, FS_Injection
  <2>3. Cardinality(J) \in Nat
      BY <1>5, FS_CardinalityType
  <2> QED
      BY <1>1, <2>1, <2>2, <2>3
<1>8. Cardinality(J) >= agg.num
    BY <1>1, <1>5, <1>7, FS_CardinalityType
<1>9. ASSUME NEW i \in J, NEW j \in J PROVE log[i].time - log[j].time <= agg.span
  <2>1. PICK k \in a..b, m \in a..b : i = q[k] /\ j = q[m]
      OBVIOUS
  <2>2. log[i].time = d[k] /\ log[j].time = d[m] /\ d[k] \in Int /\ d[m] \in Int
      BY <1>2, <1>3, <2>1
  <2>3. d[a] <= d[m] /\ d[k] <= d[b] /\ d[a] \in Int /\ d[b] \in Int
      BY <1>1, <1>2, <1>3
  <2> QED
      BY <1>1, <2>2, <2>3
<1> HIDE DEF J
<1> QED
    BY <1>4, <1>8, <1>9

\* Records within the span lie in a stretch of all.
LEMMA RecordsStretch ==
    ASSUME NEW d, NEW I, NEW q, AreTimes(d, I, q), NEW agg, agg.num \in Int, agg.span \in Nat,
           NEW J \in SUBSET I, J # {}, Cardinality(J) >= agg.num,
           \A i, j \in J : log[i].time - log[j].time <= agg.span
    PROVE  \E a, b \in Nat : Stretch(d, agg, a, b)
<1>2. /\ IsFiniteSet(I) /\ q \in [1..Len(d) -> I] /\ Len(d) \in Nat
      /\ \A j, k \in 1..Len(d) : q[j] = q[k] => j = k
      /\ \A i \in I : \E k \in 1..Len(d) : q[k] = i
      /\ \A k \in 1..Len(d) : d[k] = log[q[k]].time /\ d[k] \in Int
      /\ \A j, k \in 1..Len(d) : j <= k => d[j] <= d[k]
    BY DEF AreTimes
<1> DEFINE K == {k \in 1..Len(d) : q[k] \in J}
           id == [k \in K |-> k]
<1>3. K \in SUBSET (1..Len(d)) /\ K # {}
    BY <1>2
<1>4. IsFiniteSet(K)
  <2>1. IsFiniteSet(1..Len(d))
      BY <1>2, FS_Interval
  <2> HIDE DEF K
  <2> QED
      BY <1>3, <2>1, FS_Subset
<1>5. Cardinality(J) <= Cardinality(K)
  <2> DEFINE p == [k \in K |-> q[k]]
  <2>1. p \in [K -> J]
      OBVIOUS
  <2>2. \A i \in J : \E k \in K : p[k] = i
      BY <1>2
  <2>3. p \in Surjection(K, J)
      BY <2>1, <2>2 DEF Surjection
  <2> QED
      BY <1>4, <2>3, FS_Surjection
<1>6. \A k \in K : k \in 1..Len(d) /\ q[k] \in J
    OBVIOUS
<1> HIDE DEF K
<1>7. PICK a \in K : \A k \in K : a <= k
  <2>1. K \in SUBSET Nat
      BY <1>3
  <2> QED
      BY <1>3, <2>1, Least
<1>8. PICK b \in K : \A k \in K : k <= b
  <2>1. \A k \in K : id[k] = k /\ id[k] \in Int
      BY <1>6
  <2>2. Cardinality(K) \in Nat
      BY <1>4, FS_CardinalityType
  <2> HIDE DEF id
  <2>3. PICK m \in K : \A k \in K : id[k] <= id[m]
      BY <1>3, <1>4, <2>1, <2>2, Latest
  <2> QED
      BY <2>1, <2>3
<1>9. a \in 1..Len(d) /\ b \in 1..Len(d) /\ a <= b
    BY <1>6, <1>7, <1>8
<1>10. Cardinality(K) <= b - a + 1
  <2>1. K \in SUBSET (a..b)
      BY <1>6, <1>7, <1>8
  <2>2. IsFiniteSet(a..b) /\ Cardinality(a..b) = b - a + 1
      BY <1>9, FS_Interval
  <2> QED
      BY <2>1, <2>2, FS_Subset
<1>11. b - a + 1 >= agg.num
  <2>1. IsFiniteSet(J)
      BY <1>2, FS_Subset
  <2>2. Cardinality(J) \in Nat /\ Cardinality(K) \in Nat
      BY <1>4, <2>1, FS_CardinalityType
  <2> QED
      BY <1>5, <1>9, <1>10, <2>2
<1>12. d[b] - d[a] <= agg.span
  <2>1. q[a] \in J /\ q[b] \in J
      BY <1>6
  <2>2. log[q[b]].time - log[q[a]].time <= agg.span
      BY <2>1
  <2> QED
      BY <1>2, <1>9, <2>2
<1> QED
    BY <1>9, <1>11, <1>12 DEF Stretch

\* An alert of a counting rule comes from a burst.
LEMMA CountSound ==
    ASSUME ClassInv, phase = "done", LoadedOnce(Documents), NEW c \in Counting, c.id \notin reported,
           NEW x \in AlertsOf(c)
    PROVE  Burst(c, x.group)
<1>0. LoaderTypeOK /\ log \in Seq(Records) /\ Range(files) \subseteq Documents
    BY PlainFacts DEF ClassInv, BaseInv, Phases
<1>1. \A y, z \in Range(files) : y.id = z.id => y = z
    BY <1>0, OnceMeans
<1>2. x \in alerts /\ x.rule = c.id /\ c \in Range(files) /\ ~IsTemporal(c) /\ IsCorrelation(c)
    BY DEF AlertsOf, Counting
<1>3. ~Early(x)
    BY <1>1, <1>2 DEF Early, PlainRules
<1>4. Judged(x)
    BY <1>2, <1>3 DEF ClassInv, Sources
<1>5. PICK r \in Range(rules) :
        /\ x.rule = r.doc.id
        /\ \/ HasAgg(r) /\ \E y \in Results(r) : x = Alert(r, y.group, y.time)
           \/ /\ r.type \in {"temporal", "temporal_ordered"}
              /\ \E y \in TemporalResults(r) : x = Alert(r, y.group, y.time)
    BY <1>4 DEF Judged
<1>6. r.doc = c
    BY <1>1, <1>2, <1>5, NodeDocs
<1>7. ~TemporalNode(r)
    BY <1>2, <1>6 DEF TemporalNode, Temporals
<1>8. CountingNode(r) \/ (CloneNode(r) /\ r.sel = {} /\ r.type = "ref")
    BY <1>2, <1>5, <1>6, <1>7, AllJudge DEF CloneNode, PlainRules
<1>9. r.type \notin {"temporal", "temporal_ordered"}
  <2>1. CorrelationType(c) \notin {"temporal", "temporal_ordered"}
      BY <1>2 DEF CorrelationType, IsTemporal
  <2> QED
      BY <1>6, <1>8, <2>1 DEF CountingNode
<1>10. HasAgg(r) /\ \E y \in Results(r) : x = Alert(r, y.group, y.time)
    BY <1>5, <1>9
<1>11. PICK y \in Results(r) : x = Alert(r, y.group, y.time)
    BY <1>10
<1>12. r.sel # {} /\ Judges(r)
    BY <1>0, <1>5, <1>11, AllJudge, NoResults
<1>13. /\ r.agg = [num |-> c.correlation.num, span |-> c.correlation.span] /\ r.sel \subseteq Covered(c)
    BY <1>6, <1>8, <1>12 DEF CountingNode
<1>14. PICK d, q : \E a, b \in Nat :
              /\ AreTimes(d, Matches(r, y.group), q) /\ Stretch(d, r.agg, a, b) /\ d[a] = y.time
    BY <1>0, <1>12, ResultsMean
<1>15. PICK J \in SUBSET Matches(r, y.group) :
             /\ J # {} /\ Cardinality(J) >= r.agg.num
             /\ \A i, j \in J : log[i].time - log[j].time <= r.agg.span
    BY <1>12, <1>14, StretchRecords DEF Judges
<1>16. x.group = y.group
    BY <1>11 DEF Alert
<1>17. J \in SUBSET {i \in DOMAIN log : log[i].group = x.group /\
                        \E p \in PlainRules : c \in NamedBy(p) /\ p.id \in log[i].hits}
  <2> SUFFICES ASSUME NEW i \in J
               PROVE  /\ i \in DOMAIN log /\ log[i].group = x.group
                      /\ \E p \in PlainRules : c \in NamedBy(p) /\ p.id \in log[i].hits
      BY Zenon
  <2>1. i \in DOMAIN log /\ log[i].group = x.group /\ log[i].hits \cap r.sel # {}
      BY <1>15, <1>16 DEF Matches
  <2>2. PICK id : id \in log[i].hits /\ id \in Covered(c)
      BY <1>13, <2>1
  <2> QED
      BY <2>1, <2>2 DEF Covered
<1>18. r.agg.num = c.correlation.num /\ r.agg.span = c.correlation.span
    BY <1>13
<1> QED
    BY <1>15, <1>17, <1>18 DEF Burst

\* A burst gives an alert.
LEMMA CountComplete ==
    ASSUME ClassInv, phase = "done", LoadedOnce(Documents), NEW c \in Counting, c.id \notin reported,
           OnlyOne(c), NEW g, Burst(c, g)
    PROVE  \E x \in AlertsOf(c) : x.group = g
<1>0. log \in Seq(Records)
    BY DEF ClassInv, BaseInv, Phases
<1>1. PICK r \in Range(rules) : r.doc = c /\ CountingNode(r)
    BY DEF ClassInv, Counted, OnlyOne
<1>2. r.type # "ref"
    BY <1>1 DEF CountingNode, OnlyOne, CorrelationType
<1>3. /\ r.agg = [num |-> c.correlation.num, span |-> c.correlation.span]
      /\ Detectable(c.correlation) /\ r.sel = Covered(c) /\ Judges(r)
    BY <1>1 DEF CountingNode, Judges
<1>4. HasAgg(r)
  <2>1. r.agg.num # Bad
      BY <1>3 DEF Detectable
  <2> QED
      BY <2>1 DEF HasAgg, NoAgg
<1>5. PICK I \in SUBSET {i \in DOMAIN log : log[i].group = g /\
                        \E d \in PlainRules : c \in NamedBy(d) /\ d.id \in log[i].hits} :
        /\ Cardinality(I) >= c.correlation.num /\ I # {}
        /\ \A i, j \in I : log[i].time - log[j].time <= c.correlation.span
    BY DEF Burst
<1>6. I \in SUBSET Matches(r, g)
  <2> SUFFICES ASSUME NEW i \in I PROVE i \in Matches(r, g)
      OBVIOUS
  <2>1. i \in DOMAIN log /\ log[i].group = g
      BY <1>5
  <2>2. PICK d \in PlainRules : c \in NamedBy(d) /\ d.id \in log[i].hits
      BY <1>5
  <2>3. d.id \in Covered(c)
      BY <2>2 DEF Covered
  <2> QED
      BY <1>3, <2>1, <2>2, <2>3 DEF Matches
<1>7. g \in {log[i].group : i \in DOMAIN log}
    BY <1>5
<1>8. PICK q : AreTimes(CountData(r, g), Matches(r, g), q)
    BY <1>0, CountDataMeans
<1>9. PICK d : d = CountData(r, g)
    OBVIOUS
<1>10. r.agg.num = c.correlation.num /\ r.agg.span = c.correlation.span
    BY <1>3
<1>11. AreTimes(d, Matches(r, g), q) /\ r.agg.num \in Int /\ r.agg.span \in Nat
    BY <1>3, <1>8, <1>9 DEF Judges
<1>12. PICK a \in Nat, b \in Nat : Stretch(d, r.agg, a, b)
    BY <1>5, <1>6, <1>10, <1>11, RecordsStretch
<1>13. PICK x \in Results(r) : x.group = g
    BY <1>0, <1>3, <1>7, <1>9, <1>11, <1>12, ResultsExist
<1>14. Alert(r, x.group, x.time) \in alerts
    BY <1>2, <1>4 DEF ClassInv, Sources
<1> QED
    BY <1>1, <1>13, <1>14 DEF AlertsOf, Alert

\* An alert of a temporal rule is backed by a record of every rule it names.
THEOREM TemporalThm == Spec => []TemporalIsBacked
<1>1. ClassInv => TemporalIsBacked
  <2> SUFFICES ASSUME ClassInv, phase = "done", LoadedOnce(Documents),
                      NEW t \in Range(files), IsTemporal(t), OnlyOne(t),
                      NEW a \in AlertsOf(t), NEW n \in Range(t.correlation.refs),
                      \E d \in PlainRules : n \in Names(d)
               PROVE  \E d \in PlainRules, i \in DOMAIN log :
                    /\ n \in Names(d) /\ d.id \in log[i].hits
                    /\ log[i].time <= a.time + t.correlation.span
                    /\ log[i].time >= a.time - (IF t.correlation.type = "temporal" THEN t.correlation.span ELSE 0)
      BY DEF TemporalIsBacked
  <2>1. t \in Temporals
      BY DEF Temporals
  <2> QED
      BY <2>1, Backed
<1> QED
    BY ClassInit, ClassStep, <1>1, PTL DEF Spec

\* A merged event count rule alerts exactly for the groups with a burst.
THEOREM CountThm == Spec => []CountMeansBurst
<1>1. ClassInv => CountMeansBurst
  <2> SUFFICES ASSUME ClassInv, phase = "done", LoadedOnce(Documents), NEW c \in Range(files),
                      c.correlation.type = "event_count", c.id \notin reported, NEW e \in Records
               PROVE  /\ (\E a \in AlertsOf(c) : a.group = e.group) => Burst(c, e.group)
                      /\ OnlyOne(c) /\ Burst(c, e.group) => \E a \in AlertsOf(c) : a.group = e.group
      BY DEF CountMeansBurst
  <2>1. c \in Counting
      BY DEF Counting, IsCorrelation, IsTemporal
  <2>2. (\E a \in AlertsOf(c) : a.group = e.group) => Burst(c, e.group)
      BY <2>1, CountSound
  <2>3. OnlyOne(c) /\ Burst(c, e.group) => \E a \in AlertsOf(c) : a.group = e.group
      BY <2>1, CountComplete
  <2> QED
      BY <2>2, <2>3
<1> QED
    BY ClassInit, ClassStep, <1>1, PTL DEF Spec

-----------------------------------------------------------------------------
(* The loader's own properties, in the whole.                                 *)

\* Outside of the loader nothing that it counts changes.
LEMMA LoadOrKeep == [Next]_vars => [LoaderNext]_loaderVars \/ UNCHANGED loading
<1> SUFFICES ASSUME [Next]_vars PROVE [LoaderNext]_loaderVars \/ UNCHANGED loading
    OBVIOUS
<1>1. CASE Load
    BY <1>1 DEF Load
<1>2. CASE UNCHANGED vars
    BY <1>2 DEF vars
<1>3. CASE CreateRules \/ Merge \/ Merged \/ ParseTemporal \/ Panic \/ Assembled
           \/ (\E e \in Records : Scan(e)) \/ Judge
    BY <1>3 DEF CreateRules, Merge, Merged, ParseTemporal, Panic, Assembled, Scan, Judge
<1> QED
    BY <1>1, <1>2, <1>3 DEF Next

LEMMA InitLoads == Init => LoaderInit
    BY DEF Init

\* What print_rule_load_info shows as loaded was loaded, in the whole as well.
THEOREM SetTotalThm == Spec => []TotalIsLoaded
<1>0. LoaderInit => TotalIsLoaded
    BY DEF LoaderInit, TotalIsLoaded, total_loaded_rule_cnt, Enabled, Statuses
<1>1. Init => TotalIsLoaded
    BY <1>0, InitLoads
<1>2. BaseInv /\ TotalIsLoaded /\ [Next]_vars => TotalIsLoaded'
  <2> SUFFICES ASSUME BaseInv, TotalIsLoaded, [Next]_vars PROVE TotalIsLoaded'
      OBVIOUS
  <2>1. CASE [LoaderNext]_loaderVars
      BY <2>1, TotalStep DEF BaseInv
  <2>2. CASE UNCHANGED loading
      BY <2>2 DEF loading, counters, reading, TotalIsLoaded, total_loaded_rule_cnt, Enabled, Disabled
  <2> QED
      BY <2>1, <2>2, LoadOrKeep
<1> QED
    BY <1>1, <1>2, BaseInit, BaseStep, PTL DEF Spec

\* Every document is loaded or in a counter, in the whole as well.
THEOREM SetAccountedThm == Spec => []EveryDocumentAccounted
<1>0. LoaderInit => EveryDocumentAccounted
    BY DEF LoaderInit, EveryDocumentAccounted, Dropped, NotUsed, Statuses
<1>1. Init => EveryDocumentAccounted
    BY <1>0, InitLoads
<1>2. BaseInv /\ EveryDocumentAccounted /\ [Next]_vars => EveryDocumentAccounted'
  <2> SUFFICES ASSUME BaseInv, EveryDocumentAccounted, [Next]_vars PROVE EveryDocumentAccounted'
      OBVIOUS
  <2>1. CASE [LoaderNext]_loaderVars
      BY <2>1, AccountedStep DEF BaseInv
  <2>2. CASE UNCHANGED loading
      BY <2>2 DEF loading, counters, reading, EveryDocumentAccounted, Dropped, NotUsed, Disabled
  <2> QED
      BY <2>1, <2>2, LoadOrKeep
<1> QED
    BY <1>1, <1>2, BaseInit, BaseStep, PTL DEF Spec

\* The variables of RuleSet have their types.
THEOREM TypeCorrect == Spec => []TypeOK
<1>1. ClassInv => TypeOK
  <2> SUFFICES ASSUME ClassInv PROVE TypeOK
      OBVIOUS
  <2>1. LoaderTypeOK /\ Phases /\ Unreported /\ Lists /\ Range(files) \subseteq Documents
      BY PlainFacts DEF ClassInv, BaseInv
  <2>2. reported \subseteq {d.id : d \in Documents}
      BY <2>1 DEF Unreported, Counting
  <2>3. ASSUME NEW i \in DOMAIN rules PROVE rules[i].doc \in Documents
    <3>1. rules[i] \in Range(rules)
        BY DEF Range
    <3>2. rules # <<>>
        BY <3>1, EmptyList
    <3>3. phase \in {"merge", "temporal", "panic", "scan", "done"}
        BY <2>1, <3>2 DEF Phases
    <3>4. PlainNode(rules[i]) \/ CountingNode(rules[i]) \/ CloneNode(rules[i]) \/ TemporalNode(rules[i])
        BY <3>1, <3>3 DEF ClassInv, Classified
    <3> QED
        BY <2>1, <3>4 DEF PlainNode, CountingNode, CloneNode, TemporalNode, PlainRules, Counting, Temporals
  <2> QED
      BY <2>1, <2>2, <2>3 DEF TypeOK, Phases
<1> QED
    BY ClassInit, ClassStep, <1>1, PTL DEF Spec
-----------------------------------------------------------------------------
(* Sums over sets.                                                            *)

\* What iterates inside a sum over S, for the summands f.
IsSumming(h, f, S) ==
    h = [T \in SUBSET S |-> IF T = {} THEN 0
                            ELSE LET x == CHOOSE x \in T : TRUE IN f[x] + h[T \ {x}]]

\* A sum is what is 0 of nothing and takes an element's summand off with it.
IsTotal(g, f, S) ==
    /\ \A T \in SUBSET S : g[T] \in Int
    /\ g[{}] = 0
    /\ \A T \in SUBSET S : \A x \in T : g[T] = f[x] + g[T \ {x}]

LEMMA SummingExists ==
    ASSUME NEW S, NEW f, NEW g, g = [T \in SUBSET S |-> g[T]], IsTotal(g, f, S)
    PROVE  IsSumming(g, f, S)
<1> DEFINE e(T) == IF T = {} THEN 0
                   ELSE LET x == CHOOSE x \in T : TRUE IN f[x] + g[T \ {x}]
<1>1. ASSUME NEW T \in SUBSET S PROVE g[T] = e(T)
  <2>1. CASE T = {}
      BY <2>1 DEF IsTotal
  <2>2. CASE T # {}
    <3>1. (CHOOSE x \in T : TRUE) \in T
        BY <2>2
    <3> QED
        BY <2>2, <3>1 DEF IsTotal
  <2> QED
      BY <2>1, <2>2
<1>2. g = [T \in SUBSET S |-> e(T)]
  <2> HIDE DEF e
  <2>1. [T \in SUBSET S |-> g[T]] = [T \in SUBSET S |-> e(T)]
      BY <1>1
  <2> QED
      BY <2>1
<1> QED
    BY <1>2 DEF IsSumming

LEMMA SummingIs ==
    ASSUME NEW S, IsFiniteSet(S), NEW f, NEW g, IsTotal(g, f, S), NEW h, IsSumming(h, f, S)
    PROVE  h[S] = g[S]
<1> DEFINE G == {n \in Nat : \A T \in SUBSET S : Cardinality(T) = n => h[T] = g[T]}
<1>1. ASSUME NEW T \in SUBSET S
      PROVE  /\ IsFiniteSet(T) /\ Cardinality(T) \in Nat
             /\ T = {} => h[T] = 0
             /\ T # {} => LET x == CHOOSE x \in T : TRUE
                          IN  x \in T /\ h[T] = f[x] + h[T \ {x}]
  <2>1. IsFiniteSet(T) /\ Cardinality(T) \in Nat
      BY FS_Subset, FS_CardinalityType
  <2>2. h[T] = IF T = {} THEN 0
               ELSE LET x == CHOOSE x \in T : TRUE IN f[x] + h[T \ {x}]
      BY DEF IsSumming
  <2> QED
      BY <2>1, <2>2
<1>2. 0 \in G
  <2>1. ASSUME NEW T \in SUBSET S, Cardinality(T) = 0 PROVE T = {}
      BY <2>1, <1>1, FS_EmptySet
  <2> QED
      BY <1>1, <2>1 DEF IsTotal
<1>3. ASSUME NEW n \in Nat, n \in G PROVE n + 1 \in G
  <2> SUFFICES ASSUME NEW T \in SUBSET S, Cardinality(T) = n + 1 PROVE h[T] = g[T]
      OBVIOUS
  <2> DEFINE x == CHOOSE x \in T : TRUE
  <2>1. T # {}
      BY FS_EmptySet
  <2>2. x \in T /\ h[T] = f[x] + h[T \ {x}]
      BY <1>1, <2>1
  <2> HIDE DEF x
  <2>6. IsFiniteSet(T)
      BY <1>1
  <2>7. Cardinality(T \ {x}) = Cardinality(T) - 1
      BY <2>2, <2>6, FS_RemoveElement
  <2>3. T \ {x} \in SUBSET S /\ Cardinality(T \ {x}) = n
      BY <2>7
  <2>4. h[T \ {x}] = g[T \ {x}]
      BY <1>3, <2>3
  <2>5. g[T] = f[x] + g[T \ {x}]
      BY <2>2 DEF IsTotal
  <2> QED
      BY <2>2, <2>4, <2>5
<1>4. Nat \subseteq G
  <2> HIDE DEF G
  <2> QED
      BY <1>2, <1>3, Induction
<1>5. S \in SUBSET S /\ Cardinality(S) \in Nat
    BY FS_CardinalityType
<1> QED
    BY <1>4, <1>5

LEMMA SumIs ==
    ASSUME NEW S, IsFiniteSet(S), NEW f, NEW g, g = [T \in SUBSET S |-> g[T]], IsTotal(g, f, S)
    PROVE  SumFunctionOnSet(f, S) = g[S]
<1> DEFINE H == CHOOSE h : IsSumming(h, f, S)
<1>1. SumFunctionOnSet(f, S) = H[S]
    BY Zenon DEF SumFunctionOnSet, FoldFunctionOnSet, MapThenFoldSet, IsSumming
<1>2. \E h : IsSumming(h, f, S)
    BY SummingExists
<1>3. IsSumming(H, f, S)
    BY <1>2, Zenon
<1> HIDE DEF H
<1> QED
    BY <1>1, <1>3, SummingIs

\* A summand of 1 for all but one.
LEMMA AllButOne ==
    ASSUME NEW S, IsFiniteSet(S), NEW o, NEW m \in Int,
           NEW f, \A x \in S : f[x] = IF x = o THEN m ELSE 1
    PROVE  SumFunctionOnSet(f, S)
              = IF o \in S THEN m + Cardinality(S \ {o}) ELSE Cardinality(S)
<1> DEFINE G(T) == IF o \in T THEN m + Cardinality(T \ {o}) ELSE Cardinality(T)
           g == [T \in SUBSET S |-> G(T)]
<1>1. ASSUME NEW T \in SUBSET S
      PROVE  /\ G(T) \in Int
             /\ \A x \in T : G(T) = f[x] + G(T \ {x})
  <2>1. IsFiniteSet(T) /\ Cardinality(T) \in Nat
      BY FS_Subset, FS_CardinalityType
  <2>2. IsFiniteSet(T \ {o}) /\ Cardinality(T \ {o}) \in Nat
      BY <2>1, FS_Subset, FS_CardinalityType
  <2>3. ASSUME NEW x \in T PROVE G(T) = f[x] + G(T \ {x})
    <3>1. CASE x = o
      <4>1. f[x] = m /\ o \notin T \ {x} /\ T \ {x} = T \ {o}
          BY <3>1
      <4> QED
          BY <2>2, <3>1, <4>1
    <3>2. CASE x # o /\ o \in T
      <4>1. (T \ {x}) \ {o} = (T \ {o}) \ {x} /\ x \in T \ {o}
          BY <3>2
      <4>2. Cardinality((T \ {o}) \ {x}) = Cardinality(T \ {o}) - 1
          BY <2>2, <4>1, FS_RemoveElement
      <4>3. o \in T \ {x} /\ f[x] = 1
          BY <3>2
      <4>4. G(T) = m + Cardinality(T \ {o})
          BY <3>2
      <4>5. G(T \ {x}) = m + Cardinality((T \ {o}) \ {x})
          BY <4>1, <4>3, Zenon
      <4> HIDE DEF G
      <4> QED
          BY <2>2, <4>2, <4>3, <4>4, <4>5
    <3>3. CASE o \notin T
      <4>1. Cardinality(T \ {x}) = Cardinality(T) - 1
          BY <2>1, FS_RemoveElement
      <4>2. o \notin T \ {x} /\ f[x] = 1
          BY <3>3
      <4> QED
          BY <2>1, <3>3, <4>1, <4>2
    <3> QED
        BY <3>1, <3>2, <3>3
  <2>4. G(T) \in Int
      BY <2>1, <2>2
  <2> HIDE DEF G
  <2> QED
      BY <2>3, <2>4
<1>2. G({}) = 0
    BY FS_EmptySet
<1> HIDE DEF G
<1>3. IsTotal(g, f, S)
  <2>1. \A T \in SUBSET S : g[T] = G(T)
      OBVIOUS
  <2>2. {} \in SUBSET S /\ \A T \in SUBSET S : \A x \in T : T \ {x} \in SUBSET S
      OBVIOUS
  <2> HIDE DEF g
  <2> QED
      BY <1>1, <1>2, <2>1, <2>2 DEF IsTotal
<1>4. g = [T \in SUBSET S |-> g[T]] /\ g[S] = G(S)
    OBVIOUS
<1> HIDE DEF g
<1>5. SumFunctionOnSet(f, S) = g[S]
    BY <1>3, <1>4, SumIs
<1> QED
    BY <1>4, <1>5 DEF G

LEMMA TagsFinite ==
    ASSUME NEW T
    PROVE  /\ IsFiniteSet(T \cap WizardTags) /\ Cardinality(T \cap WizardTags) \in Nat
           /\ Cardinality(T \cap WizardTags) = 0 <=> T \cap WizardTags = {}
<1>1. WizardTags = {"detection.emerging_threats"} \cup {"detection.threat_hunting"} \cup {"sysmon"}
    BY DEF WizardTags
<1>2. IsFiniteSet(WizardTags)
    BY <1>1, FS_Singleton, FS_Union
<1> QED
    BY <1>2, FS_Subset, FS_CardinalityType, FS_EmptySet

\* Every document adds one in all, whatever tags it has.
LEMMA AddsOne == ASSUME NEW s, NEW d PROVE SumFunction(Adds(s, d)) = 1
<1> DEFINE F == Adds(s, d)
           S == DOMAIN F
           n == Cardinality(d.tags \cap WizardTags)
           o == "duplicated"
<1>1. n \in Nat /\ IsFiniteSet(d.tags \cap WizardTags) /\ (n = 0 <=> d.tags \cap WizardTags = {})
    BY TagsFinite
<1>2. o \notin d.tags \cap WizardTags
    BY DEF WizardTags
<1> HIDE DEF n, F
<1>3. SumFunction(F) = SumFunctionOnSet(F, S)
    BY DEF SumFunction
<1>4. SumFunctionOnSet(F, S) = 1
  <2>1. ASSUME NEW v, F = [x \in {v} |-> 1] PROVE SumFunctionOnSet(F, S) = 1
    <3>1. S = {v} /\ IsFiniteSet(S) /\ Cardinality(S \ {v}) = 0
        BY <2>1, FS_Singleton, FS_EmptySet
    <3>2. \A x \in S : F[x] = IF x = v THEN 1 ELSE 1
        BY <2>1
    <3> HIDE DEF S
    <3> QED
        BY <3>1, <3>2, AllButOne
  <2>2. CASE Key(s, d) \in Listing
      BY <2>1, <2>2 DEF F, Adds
  <2>3. CASE Key(s, d) \notin Listing /\ n = 0
      BY <2>1, <2>3 DEF F, Adds, n
  <2>4. CASE Key(s, d) \notin Listing /\ n > 0
    <3>1. F = [x \in (d.tags \cap WizardTags) \cup (IF n > 1 THEN {o} ELSE {}) |->
                 IF x = o THEN 1 - n ELSE 1]
        BY <1>1, <2>4 DEF F, Adds, n
    <3>2. S = (d.tags \cap WizardTags) \cup (IF n > 1 THEN {o} ELSE {})
        BY <3>1
    <3>3. IsFiniteSet(S)
      <4>1. IsFiniteSet(IF n > 1 THEN {o} ELSE {})
          BY FS_Singleton, FS_EmptySet
      <4> QED
          BY <1>1, <3>2, <4>1, FS_Union
    <3>4. \A x \in S : F[x] = IF x = o THEN 1 - n ELSE 1
        BY <3>1, <3>2
    <3> HIDE DEF S, o
    <3>5. SumFunctionOnSet(F, S)
             = IF o \in S THEN (1 - n) + Cardinality(S \ {o}) ELSE Cardinality(S)
        BY <1>1, <3>3, <3>4, AllButOne
    <3>6. CASE n > 1
      <4>1. o \in S /\ S \ {o} = d.tags \cap WizardTags
          BY <1>2, <3>2, <3>6
      <4> QED
        <5>1. Cardinality(S \ {o}) = n
            BY <4>1 DEF n
        <5> QED
            BY <1>1, <3>5, <4>1, <5>1
    <3>7. CASE ~(n > 1)
      <4>1. o \notin S /\ S = d.tags \cap WizardTags
          BY <1>2, <3>2, <3>7
      <4> QED
          BY <1>1, <2>4, <3>5, <3>7, <4>1 DEF n
    <3> QED
        BY <3>6, <3>7
  <2> QED
      BY <1>1, <2>2, <2>3, <2>4
<1> QED
    BY <1>3, <1>4 DEF F

LEMMA SumCounts ==
    ASSUME NEW s, NEW places, IsFiniteSet(places)
    PROVE  Sum(s, places) = Cardinality(places)
<1> DEFINE F == [x \in places |-> SumFunction(Adds(s, At(s, x)))]
           o == "duplicated"
<1>1. \A x \in places : F[x] = IF x = o THEN 1 ELSE 1
    BY AddsOne
<1>2. Sum(s, places) = SumFunctionOnSet(F, places)
    BY DEF Sum, SumFunction
<1> HIDE DEF F, o
<1>3. SumFunctionOnSet(F, places)
         = IF o \in places THEN 1 + Cardinality(places \ {o}) ELSE Cardinality(places)
    BY <1>1, AllButOne
<1>4. Cardinality(places) \in Nat
    BY FS_CardinalityType
<1>5. o \in places => Cardinality(places \ {o}) = Cardinality(places) - 1
    BY FS_RemoveElement
<1> QED
    BY <1>2, <1>3, <1>4, <1>5

-----------------------------------------------------------------------------
(* The tree of the rule directory.                                            *)

IsTree(t) ==
    /\ t \in [Paths -> Node]
    /\ \A p, q \in Paths :
        /\ Root \notin t[p].entries
        /\ p # q => t[p].entries \cap t[q].entries = {}

LEMMA WithinIs ==
    ASSUME NEW t, t \in [Paths -> Node], NEW W, W \subseteq Paths
    PROVE  /\ W \subseteq Within(t, W) /\ Within(t, W) \subseteq Paths
           /\ Closed(t, Within(t, W))
           /\ \A S : W \subseteq S /\ Closed(t, S \cap Paths) => Within(t, W) \subseteq S
<1>1. W \subseteq Within(t, W) /\ Within(t, W) \subseteq Paths
    BY DEF Within
<1>2. ASSUME NEW p \in Within(t, W), t[p].kind = "dir", NEW e \in t[p].entries
      PROVE  e \in Within(t, W)
  <2>1. p \in Paths /\ e \in Paths
      BY <1>2 DEF Within, Node
  <2>2. ASSUME NEW S \in SUBSET Paths, W \subseteq S, Closed(t, S) PROVE e \in S
    <3>1. p \in S
        BY <1>2, <2>2 DEF Within
    <3> QED
        BY <1>2, <2>2, <3>1 DEF Closed
  <2> QED
      BY <2>1, <2>2 DEF Within
<1>3. Closed(t, Within(t, W))
    BY <1>2 DEF Closed
<1>4. ASSUME NEW S, W \subseteq S, Closed(t, S \cap Paths) PROVE Within(t, W) \subseteq S
  <2>1. S \cap Paths \in SUBSET Paths /\ W \subseteq S \cap Paths
      BY <1>4
  <2> QED
      BY <1>4, <2>1 DEF Within
<1> QED
    BY <1>1, <1>3, <1>4

\* What lies below is named, or an entry of a directory that lies below.
LEMMA HasParent ==
    ASSUME NEW t, t \in [Paths -> Node], NEW W, W \subseteq Paths, NEW x \in Within(t, W), x \notin W
    PROVE  \E y \in Within(t, W) : t[y].kind = "dir" /\ x \in t[y].entries
<1> SUFFICES ASSUME ~ \E y \in Within(t, W) : t[y].kind = "dir" /\ x \in t[y].entries
             PROVE  FALSE
    OBVIOUS
<1> DEFINE S == Within(t, W) \ {x}
<1>1. W \subseteq S /\ Closed(t, Within(t, W)) /\ S \cap Paths = S
    BY WithinIs
<1>2. Closed(t, S \cap Paths)
    BY <1>1 DEF Closed
<1>3. Within(t, W) \subseteq S
  <2> HIDE DEF S
  <2> QED
      BY <1>1, <1>2, WithinIs
<1> QED
    BY <1>3

LEMMA WithinJoin ==
    ASSUME NEW t, t \in [Paths -> Node], NEW V, V \subseteq Paths, NEW W, W \subseteq Paths
    PROVE  /\ Within(t, V \cup W) = Within(t, V) \cup Within(t, W)
           /\ V \subseteq Within(t, W) => Within(t, V) \subseteq Within(t, W)
           /\ Within(t, {}) = {}
<1> DEFINE U == Within(t, V) \cup Within(t, W)
<1>1. /\ Closed(t, Within(t, V)) /\ Closed(t, Within(t, W)) /\ U \cap Paths = U
      /\ V \cup W \subseteq U /\ Within(t, W) \cap Paths = Within(t, W)
    BY WithinIs
<1>2. Closed(t, U)
    BY <1>1 DEF Closed
<1>3. Within(t, V \cup W) \subseteq U
    BY <1>1, <1>2, WithinIs
<1>4. /\ Closed(t, Within(t, V \cup W)) /\ V \cup W \subseteq Within(t, V \cup W)
      /\ Within(t, V \cup W) \cap Paths = Within(t, V \cup W)
    BY WithinIs
<1>5. Within(t, V) \subseteq Within(t, V \cup W) /\ Within(t, W) \subseteq Within(t, V \cup W)
    BY <1>4, WithinIs
<1>6. V \subseteq Within(t, W) => Within(t, V) \subseteq Within(t, W)
    BY <1>1, WithinIs
<1>7. Closed(t, {} \cap Paths)
    BY DEF Closed
<1>8. Within(t, {}) \subseteq {}
    BY <1>7, WithinIs
<1> QED
    BY <1>3, <1>5, <1>6, <1>8

\* A path, and what lies below its entries.
Inside(t, p) == IF t[p].kind = "dir" THEN Within(t, t[p].entries) ELSE {}

LEMMA WithinOne ==
    ASSUME NEW t, t \in [Paths -> Node], NEW p \in Paths
    PROVE  Within(t, {p}) = {p} \cup Inside(t, p) /\ t[p].entries \subseteq Paths
<1>1. t[p].entries \subseteq Paths
    BY DEF Node
<1>2. p \in Within(t, {p}) /\ Closed(t, Within(t, {p}))
    BY WithinIs
<1>3. Inside(t, p) \subseteq Within(t, {p})
  <2>1. CASE t[p].kind = "dir"
    <3>1. t[p].entries \subseteq Within(t, {p})
        BY <1>2, <2>1 DEF Closed
    <3>2. {p} \subseteq Paths
        OBVIOUS
    <3>3. Within(t, t[p].entries) \subseteq Within(t, {p})
        BY <1>1, <3>1, <3>2, WithinJoin
    <3> QED
        BY <2>1, <3>3 DEF Inside
  <2> QED
      BY <2>1 DEF Inside
<1>4. Within(t, {p}) \subseteq {p} \cup Inside(t, p)
  <2> DEFINE S == {p} \cup Inside(t, p)
  <2>1. /\ t[p].kind = "dir" => t[p].entries \subseteq Inside(t, p)
        /\ Closed(t, Inside(t, p)) /\ Inside(t, p) \subseteq Paths
    <3>1. Closed(t, {})
        BY DEF Closed
    <3> QED
        BY <1>1, <3>1, WithinIs DEF Inside
  <2>2. Closed(t, S) /\ S \cap Paths = S
      BY <2>1 DEF Closed
  <2> QED
      BY <2>2, WithinIs
<1> QED
    BY <1>1, <1>2, <1>3, <1>4

\* No directory lies below itself.
LEMMA NotBelowItself ==
    ASSUME NEW t, IsTree(t), Root \in Paths, NEW p \in Within(t, {Root})
    PROVE  p \notin Inside(t, p)
<1> DEFINE S == {q \in Within(t, {Root}) : q \notin Inside(t, q)}
<1>0. t \in [Paths -> Node] /\ {Root} \subseteq Paths
    BY DEF IsTree
<1>1. Within(t, {Root}) \subseteq Paths /\ Root \in Within(t, {Root}) /\ Closed(t, Within(t, {Root}))
    BY <1>0, WithinIs
<1>2. ASSUME NEW q \in Paths, NEW x \in Inside(t, q)
      PROVE  \E y \in Paths : t[y].kind = "dir" /\ x \in t[y].entries /\ (y = q \/ y \in Inside(t, q))
  <2>1. t[q].kind = "dir" /\ x \in Within(t, t[q].entries) /\ t[q].entries \subseteq Paths
      BY <1>0, <1>2, WithinOne DEF Inside
  <2>2. CASE x \in t[q].entries
      BY <2>1, <2>2
  <2>3. CASE x \notin t[q].entries
    <3>1. PICK y \in Within(t, t[q].entries) : t[y].kind = "dir" /\ x \in t[y].entries
        BY <1>0, <2>1, <2>3, HasParent
    <3>2. y \in Paths
        BY <1>0, <2>1, WithinIs
    <3> QED
        BY <2>1, <3>1, <3>2 DEF Inside
  <2> QED
      BY <2>2, <2>3
<1>3. Root \in S
  <2>1. \A y \in Paths : Root \notin t[y].entries
      BY DEF IsTree
  <2> QED
      BY <1>1, <1>2, <2>1
<1>4. ASSUME NEW q \in S, t[q].kind = "dir", NEW e \in t[q].entries PROVE e \in S
  <2>1. q \in Paths /\ e \in Within(t, {Root}) /\ e \in Paths
      BY <1>1, <1>4 DEF Closed
  <2>2. e \in Inside(t, q) /\ Inside(t, e) \subseteq Inside(t, q)
    <3>1. t[q].entries \subseteq Paths /\ e \in Within(t, t[q].entries)
        BY <1>0, <1>4, <2>1, WithinOne, WithinIs
    <3>2. {e} \subseteq Within(t, t[q].entries) /\ {e} \subseteq Paths
        BY <2>1, <3>1
    <3>3. Within(t, {e}) \subseteq Within(t, t[q].entries)
        BY <1>0, <3>1, <3>2, WithinJoin
    <3> QED
        BY <1>0, <1>4, <2>1, <3>1, <3>3, WithinOne DEF Inside
  <2>3. ASSUME e \in Inside(t, e) PROVE FALSE
    <3>1. PICK y \in Paths : /\ t[y].kind = "dir" /\ e \in t[y].entries
                             /\ y = e \/ y \in Inside(t, e)
        BY <1>2, <2>1, <2>3
    <3>2. y = q
        BY <1>4, <2>1, <3>1 DEF IsTree
    <3>3. q \in Inside(t, q)
        BY <2>2, <3>1, <3>2
    <3> QED
        BY <1>4, <3>3
  <2> QED
      BY <2>1, <2>3
<1>5. Closed(t, S) /\ S \cap Paths = S /\ {Root} \subseteq S
    BY <1>1, <1>3, <1>4 DEF Closed
<1>6. Within(t, {Root}) \subseteq S
  <2> HIDE DEF S
  <2> QED
      BY <1>0, <1>5, WithinIs
<1> QED
    BY <1>6

\* Nothing lies below two paths, unless one of them lies below the other.
LEMMA BelowOneOnly ==
    ASSUME NEW t, IsTree(t), NEW p \in Paths, NEW q \in Paths,
           p \notin Within(t, {q}), q \notin Within(t, {p})
    PROVE  Within(t, {p}) \cap Within(t, {q}) = {}
<1> DEFINE S == Within(t, {p}) \ Within(t, {q})
<1>0. t \in [Paths -> Node] /\ {p} \subseteq Paths /\ {q} \subseteq Paths
    BY DEF IsTree
<1>1. /\ p \in Within(t, {p}) /\ Closed(t, Within(t, {p}))
      /\ Within(t, {p}) \subseteq Paths /\ Within(t, {q}) \subseteq Paths
    BY <1>0, WithinIs
<1>2. ASSUME NEW x \in S, t[x].kind = "dir", NEW e \in t[x].entries, e \in Within(t, {q}) PROVE FALSE
  <2>1. e \in Within(t, {p}) /\ e # q
      BY <1>1, <1>2 DEF Closed
  <2>2. PICK y \in Within(t, {q}) : t[y].kind = "dir" /\ e \in t[y].entries
      BY <1>0, <1>2, <2>1, HasParent
  <2>3. y = x
      BY <1>1, <1>2, <2>2 DEF IsTree
  <2> QED
      BY <2>2, <2>3
<1>3. Closed(t, S) /\ S \cap Paths = S /\ {p} \subseteq S
    BY <1>1, <1>2 DEF Closed
<1>4. Within(t, {p}) \subseteq S
  <2> HIDE DEF S
  <2> QED
      BY <1>0, <1>3, WithinIs
<1> QED
    BY <1>4

\* Two entries of a directory have nothing below them in common.
LEMMA EntriesApart ==
    ASSUME NEW t, IsTree(t), Root \in Paths, NEW p \in Within(t, {Root}), t[p].kind = "dir",
           NEW c \in t[p].entries, NEW d \in t[p].entries, c # d
    PROVE  Within(t, {c}) \cap Within(t, {d}) = {}
<1>0. t \in [Paths -> Node] /\ {Root} \subseteq Paths
    BY DEF IsTree
<1>1. p \in Paths /\ t[p].entries \subseteq Paths
  <2>1. p \in Paths
      BY <1>0, WithinIs
  <2> QED
      BY <1>0, <2>1, WithinOne
<1>2. p \notin Within(t, t[p].entries)
    BY NotBelowItself DEF Inside
<1>3. ASSUME NEW x \in t[p].entries, NEW y \in t[p].entries, x # y, x \in Within(t, {y}) PROVE FALSE
  <2>1. x \in Paths /\ y \in Paths /\ {y} \subseteq Paths /\ x \notin {y}
      BY <1>1, <1>3
  <2>2. PICK z \in Within(t, {y}) : t[z].kind = "dir" /\ x \in t[z].entries
      BY <1>0, <1>3, <2>1, HasParent
  <2>3. z \in Paths
      BY <1>0, <2>1, WithinIs
  <2>4. z = p
      BY <1>1, <1>3, <2>2, <2>3 DEF IsTree
  <2>5. {y} \subseteq Within(t, t[p].entries)
      BY <1>0, <1>1, <1>3, WithinIs
  <2>6. Within(t, {y}) \subseteq Within(t, t[p].entries)
      BY <1>0, <1>1, <2>1, <2>5, WithinJoin
  <2> QED
      BY <1>2, <2>2, <2>4, <2>6
<1> QED
    BY <1>1, <1>3, BelowOneOnly

-----------------------------------------------------------------------------
(* How many documents of a kind there are, in a sequence and below a path.    *)

Number(s, S) == Cardinality({i \in DOMAIN s : s[i] \in S})

LEMMA NumberType ==
    ASSUME NEW D, NEW s \in Seq(D), NEW S
    PROVE  IsFiniteSet({i \in DOMAIN s : s[i] \in S}) /\ Number(s, S) \in Nat
<1>1. DOMAIN s = 1..Len(s) /\ Len(s) \in Nat
    BY LenProperties
<1>2. IsFiniteSet(1..Len(s))
    BY <1>1, FS_Interval
<1> QED
    BY <1>1, <1>2, FS_Subset, FS_CardinalityType DEF Number

LEMMA NumberJoin ==
    ASSUME NEW D, NEW s \in Seq(D), NEW u \in Seq(D), NEW S
    PROVE  Number(s \o u, S) = Number(s, S) + Number(u, S)
<1> DEFINE n == Len(s)
           I == {i \in DOMAIN s : s[i] \in S}
           J == {j \in DOMAIN u : u[j] \in S}
           K == {n + j : j \in J}
           L == {i \in DOMAIN (s \o u) : (s \o u)[i] \in S}
<1>1. /\ n \in Nat /\ Len(u) \in Nat /\ DOMAIN s = 1..n /\ DOMAIN u = 1..Len(u)
      /\ DOMAIN (s \o u) = 1..(n + Len(u))
      /\ \A i \in 1..(n + Len(u)) : (s \o u)[i] = IF i <= n THEN s[i] ELSE u[i - n]
    BY LenProperties, ConcatProperties
<1>2. IsFiniteSet(I) /\ IsFiniteSet(J) /\ Cardinality(I) = Number(s, S) /\ Cardinality(J) = Number(u, S)
    BY NumberType DEF Number
<1>3. L = I \cup K
  <2>1. ASSUME NEW i \in L PROVE i \in I \cup K
    <3>1. i \in 1..(n + Len(u)) /\ (i <= n => s[i] \in S) /\ (i > n => u[i - n] \in S)
        BY <1>1, <2>1
    <3>2. CASE i <= n
        BY <1>1, <3>1, <3>2
    <3>3. CASE i > n
      <4>1. i - n \in 1..Len(u) /\ i = n + (i - n)
          BY <1>1, <3>1, <3>3
      <4> QED
          BY <1>1, <3>1, <3>3, <4>1
    <3> QED
        BY <1>1, <3>1, <3>2, <3>3
  <2>2. ASSUME NEW i \in I PROVE i \in L
      BY <1>1
  <2>3. ASSUME NEW j \in J PROVE n + j \in L
    <3>1. n + j \in 1..(n + Len(u)) /\ ~(n + j <= n) /\ (n + j) - n = j
        BY <1>1
    <3> QED
        BY <1>1, <3>1
  <2> QED
      BY <2>1, <2>2, <2>3
<1>4. I \cap K = {}
    BY <1>1
<1>5. IsFiniteSet(K) /\ Cardinality(K) = Cardinality(J)
  <2> DEFINE f == [j \in J |-> n + j]
  <2>1. \A j \in J : j \in Int
      BY <1>1
  <2>2. f \in Bijection(J, K)
      BY <1>1, <2>1 DEF Bijection, Injection, Surjection, IsInjective
  <2>3. ExistsBijection(J, K)
      BY <2>2 DEF ExistsBijection
  <2> HIDE DEF J, K
  <2> QED
      BY <1>2, <2>3, FS_Bijection
<1>6. Number(s \o u, S) = Cardinality(L)
    BY DEF Number
<1> HIDE DEF I, J, K, L
<1>7. Cardinality(I \cap K) = 0 /\ Cardinality(I) \in Nat /\ Cardinality(K) \in Nat
    BY <1>2, <1>4, <1>5, FS_EmptySet, FS_CardinalityType
<1>8. Cardinality(I \cup K) = Cardinality(I) + Cardinality(K) - Cardinality(I \cap K)
    BY <1>2, <1>5, FS_Union
<1> QED
    BY <1>2, <1>3, <1>5, <1>6, <1>7, <1>8

LEMMA NumberNone == ASSUME NEW S PROVE Number(<<>>, S) = 0
<1>1. {i \in DOMAIN <<>> : <<>>[i] \in S} = {}
    OBVIOUS
<1> QED
    BY <1>1, FS_EmptySet DEF Number

LEMMA NumberOne ==
    ASSUME NEW D, NEW d \in D, NEW S
    PROVE  Number(<<d>>, S) = (IF d \in S THEN 1 ELSE 0)
<1>2. {i \in DOMAIN <<d>> : <<d>>[i] \in S} = IF d \in S THEN {1} ELSE {}
    OBVIOUS
<1> QED
    BY <1>2, FS_EmptySet, FS_Singleton DEF Number

\* The places of documents of a kind that lie below some paths.
Spots(t, W, S) ==
    {x \in UNION {{p} \X DOMAIN t[p].docs : p \in {q \in Within(t, W) : t[q].kind = "yml"}} :
        t[x[1]].docs[x[2]] \in S}

\* x is a place of file p with such a document.
IsSpot(t, p, S, x) ==
    \E i \in DOMAIN t[p].docs : x = <<p, i>> /\ t[p].kind = "yml" /\ t[p].docs[i] \in S

LEMMA InSpots ==
    ASSUME NEW t, NEW W, NEW S, NEW x
    PROVE  x \in Spots(t, W, S) <=> \E p \in Within(t, W) : IsSpot(t, p, S, x)
BY DEF Spots, IsSpot

LEMMA SpotsFinite ==
    ASSUME NEW t, t \in [Paths -> Node], NEW W, NEW S
    PROVE  IsFiniteSet(Spots(t, W, S)) /\ Cardinality(Spots(t, W, S)) \in Nat
<1> DEFINE Q == {q \in Within(t, W) : t[q].kind = "yml"}
           PP == {{p} \X DOMAIN t[p].docs : p \in Q}
<1>1. IsFiniteSet(Q) /\ Q \subseteq Paths
  <2>1. Q \subseteq Paths /\ IsFiniteSet(Paths)
      BY WizardAssumption DEF Within
  <2> QED
      BY <2>1, FS_Subset
<1>2. \A P \in PP : IsFiniteSet(P)
  <2> SUFFICES ASSUME NEW p \in Q PROVE IsFiniteSet({p} \X DOMAIN t[p].docs)
      OBVIOUS
  <2>1. t[p].docs \in Seq(Documents)
      BY <1>1 DEF Node
  <2>2. DOMAIN t[p].docs = 1..Len(t[p].docs) /\ Len(t[p].docs) \in Nat
      BY <2>1, LenProperties
  <2>3. IsFiniteSet(1..Len(t[p].docs))
      BY <2>2, FS_Interval
  <2>4. IsFiniteSet({p})
      BY FS_Singleton
  <2> QED
      BY <2>2, <2>3, <2>4, FS_Product
<1>3. IsFiniteSet(PP)
  <2>1. [p \in Q |-> {p} \X DOMAIN t[p].docs] \in Surjection(Q, PP)
      BY DEF Surjection
  <2> HIDE DEF Q, PP
  <2> QED
      BY <1>1, <2>1, FS_Surjection
<1>4. Spots(t, W, S) \subseteq UNION PP
    BY DEF Spots
<1> HIDE DEF PP
<1>5. IsFiniteSet(UNION PP)
    BY <1>2, <1>3, FS_UNION
<1> QED
    BY <1>4, <1>5, FS_Subset, FS_CardinalityType

\* A file has as many as its documents.
LEMMA SpotsOfFile ==
    ASSUME NEW t, t \in [Paths -> Node], NEW p \in Paths, t[p].kind = "yml", NEW S
    PROVE  Cardinality(Spots(t, {p}, S)) = Number(t[p].docs, S)
<1> DEFINE I == {i \in DOMAIN t[p].docs : t[p].docs[i] \in S}
           f == [i \in I |-> <<p, i>>]
<1>1. Within(t, {p}) = {p}
    BY WithinOne DEF Inside
<1>2. ASSUME NEW x PROVE x \in Spots(t, {p}, S) <=> \E i \in I : x = <<p, i>>
  <2>1. x \in Spots(t, {p}, S) <=> \E q \in Within(t, {p}) : IsSpot(t, q, S, x)
      BY InSpots
  <2> QED
      BY <1>1, <2>1 DEF IsSpot
<1>3. t[p].docs \in Seq(Documents)
    BY DEF Node
<1>4. IsFiniteSet(I)
    BY <1>3, NumberType
<1>5. PICK T : T = Spots(t, {p}, S)
    OBVIOUS
<1>6. f \in Bijection(I, T)
    BY <1>2, <1>5 DEF Bijection, Injection, Surjection, IsInjective
<1>7. ExistsBijection(I, T)
    BY <1>6 DEF ExistsBijection
<1>8. Cardinality(T) = Cardinality(I)
  <2> HIDE DEF I, f
  <2> QED
      BY <1>4, <1>7, FS_Bijection
<1> QED
    BY <1>5, <1>8 DEF Number

\* What lies below some paths lies below one of them.
LEMMA BelowOne ==
    ASSUME NEW t, t \in [Paths -> Node], NEW W, W \subseteq Paths, NEW x \in Within(t, W)
    PROVE  \E q \in W : x \in Within(t, {q})
<1> DEFINE S == UNION {Within(t, {q}) : q \in W}
<1>1. \A q \in W : q \in Within(t, {q}) /\ Closed(t, Within(t, {q})) /\ Within(t, {q}) \subseteq Paths
    BY WithinIs
<1>2. W \subseteq S /\ Closed(t, S \cap Paths)
    BY <1>1 DEF Closed
<1>3. Within(t, W) \subseteq S
  <2> HIDE DEF S
  <2> QED
      BY <1>2, WithinIs
<1> QED
    BY <1>3

\* Path p of W has nothing below it that another one has.
Alone(t, W, p) ==
    /\ W \subseteq Paths /\ p \in W
    /\ \A q \in W : q # p => Within(t, {p}) \cap Within(t, {q}) = {}

\* One path less.
LEMMA SpotsLess ==
    ASSUME NEW t, t \in [Paths -> Node], NEW W, NEW p, Alone(t, W, p), NEW S
    PROVE  Cardinality(Spots(t, W, S))
              = Cardinality(Spots(t, W \ {p}, S)) + Cardinality(Spots(t, {p}, S))
<1>0. /\ W \subseteq Paths /\ p \in W
      /\ \A q \in W : q # p => Within(t, {p}) \cap Within(t, {q}) = {}
    BY DEF Alone
<1>1. W = (W \ {p}) \cup {p} /\ W \ {p} \subseteq Paths /\ {p} \subseteq Paths
    BY <1>0
<1>2. Within(t, W) = Within(t, W \ {p}) \cup Within(t, {p})
    BY <1>1, WithinJoin
<1>3. Within(t, W \ {p}) \cap Within(t, {p}) = {}
  <2>1. \A x \in Within(t, W \ {p}) : \E q \in W \ {p} : x \in Within(t, {q})
      BY <1>1, BelowOne, Zenon
  <2> QED
      BY <1>0, <2>1
<1>4. PICK A : A = Spots(t, W \ {p}, S)
    OBVIOUS
<1>5. PICK B : B = Spots(t, {p}, S)
    OBVIOUS
<1>6. ASSUME NEW x
      PROVE  /\ x \in Spots(t, W, S) <=> \E q \in Within(t, W) : IsSpot(t, q, S, x)
             /\ x \in A <=> \E q \in Within(t, W \ {p}) : IsSpot(t, q, S, x)
             /\ x \in B <=> \E q \in Within(t, {p}) : IsSpot(t, q, S, x)
    BY <1>4, <1>5, InSpots
<1>7. \A x, q, r : IsSpot(t, q, S, x) /\ IsSpot(t, r, S, x) => q = r
    BY DEF IsSpot
<1>8. Spots(t, W, S) = A \cup B
  <2>1. \A x : x \in Spots(t, W, S) <=> x \in A \cup B
      BY <1>2, <1>6, Zenon
  <2> QED
      BY <2>1, Zenon
<1>9. A \cap B = {}
    BY <1>3, <1>6, <1>7
<1>10. /\ IsFiniteSet(A) /\ IsFiniteSet(B) /\ Cardinality(A) \in Nat /\ Cardinality(B) \in Nat
    BY <1>4, <1>5, SpotsFinite
<1>11. Cardinality(A \cup B) = Cardinality(A) + Cardinality(B) - Cardinality(A \cap B)
    BY <1>10, FS_Union
<1>12. Cardinality(A \cap B) = 0
    BY <1>9, FS_EmptySet
<1>13. Cardinality(A \cup B) = Cardinality(A) + Cardinality(B)
    BY <1>10, <1>11, <1>12
<1> QED
    BY <1>4, <1>5, <1>8, <1>13, Zenon

-----------------------------------------------------------------------------
(* The walk: what has been loaded, what waits, and what lies below the        *)
(* entries that are left, is what is wanted of the whole directory.           *)

\* What is still to come of a directory that is being read.
Left(t, S, f) == Number(f.docs, S) + Cardinality(Spots(t, f.entries, S))

\* m is what is to come of all directories on the stack.
Weighs(t, S, st, m) ==
    \E g \in [0..Len(st) -> Nat] :
        /\ g[0] = 0 /\ g[Len(st)] = m
        /\ \A k \in 1..Len(st) : g[k] = g[k - 1] + Left(t, S, st[k])

LEMMA LeftType ==
    ASSUME NEW t, t \in [Paths -> Node], NEW S, NEW f \in Frame
    PROVE  /\ Left(t, S, f) \in Nat /\ Number(f.docs, S) \in Nat
           /\ Cardinality(Spots(t, f.entries, S)) \in Nat
           /\ f.docs \in Seq(Documents) /\ f.entries \subseteq Paths
<1>1. f.docs \in Seq(Documents) /\ f.entries \subseteq Paths
    BY DEF Frame
<1>2. Number(f.docs, S) \in Nat
    BY <1>1, NumberType
<1>3. Cardinality(Spots(t, f.entries, S)) \in Nat
    BY SpotsFinite
<1> QED
    BY <1>1, <1>2, <1>3 DEF Left

LEMMA WeighsNothing ==
    ASSUME NEW t, NEW S, NEW m
    PROVE  Weighs(t, S, <<>>, m) <=> m = 0
<1>1. Len(<<>>) = 0
    BY EmptySeq
<1>2. ASSUME m = 0 PROVE Weighs(t, S, <<>>, m)
  <2> DEFINE g == [k \in 0..0 |-> 0]
  <2>1. g \in [0..0 -> Nat] /\ g[0] = 0
      OBVIOUS
  <2>2. \A k \in 1..0 : FALSE
      OBVIOUS
  <2> HIDE DEF g
  <2> QED
      BY <1>1, <1>2, <2>1, <2>2 DEF Weighs
<1> QED
    BY <1>1, <1>2 DEF Weighs

LEMMA WeighsMore ==
    ASSUME NEW t, t \in [Paths -> Node], NEW S, NEW st \in Seq(Frame), NEW m \in Nat,
           Weighs(t, S, st, m), NEW f \in Frame
    PROVE  Weighs(t, S, Append(st, f), m + Left(t, S, f))
<1> DEFINE n == Len(st)
<1>1. PICK g \in [0..n -> Nat] :
        /\ g[0] = 0 /\ g[n] = m
        /\ \A k \in 1..n : g[k] = g[k - 1] + Left(t, S, st[k])
    BY DEF Weighs
<1> DEFINE h == [k \in 0..(n + 1) |-> IF k = n + 1 THEN m + Left(t, S, f) ELSE g[k]]
<1>2. /\ n \in Nat /\ Len(Append(st, f)) = n + 1 /\ Append(st, f)[n + 1] = f
      /\ \A k \in 1..n : Append(st, f)[k] = st[k]
    BY AppendProperties, LenProperties
<1>3. Left(t, S, f) \in Nat
    BY LeftType
<1>4. h \in [0..(n + 1) -> Nat] /\ h[0] = 0 /\ h[n + 1] = m + Left(t, S, f)
  <2>1. \A k \in 0..(n + 1) : k # n + 1 => k \in 0..n
      BY <1>2
  <2> QED
      BY <1>1, <1>2, <1>3, <2>1
<1>5. ASSUME NEW k \in 1..(n + 1) PROVE h[k] = h[k - 1] + Left(t, S, Append(st, f)[k])
  <2>1. CASE k = n + 1
    <3>1. h[n] = m
        BY <1>1, <1>2
    <3> QED
        BY <1>2, <1>4, <2>1, <3>1
  <2>2. CASE k # n + 1
    <3>1. k \in 1..n /\ h[k] = g[k] /\ h[k - 1] = g[k - 1]
        BY <1>2, <2>2
    <3> QED
        BY <1>1, <1>2, <3>1
  <2> QED
      BY <2>1, <2>2
<1> HIDE DEF h
<1> QED
    BY <1>2, <1>4, <1>5 DEF Weighs

LEMMA WeighsLess ==
    ASSUME NEW t, t \in [Paths -> Node], NEW S, NEW st \in Seq(Frame), st # <<>>, NEW m \in Nat,
           Weighs(t, S, st, m)
    PROVE  \E b \in Nat : /\ Weighs(t, S, SubSeq(st, 1, Len(st) - 1), b)
                          /\ m = b + Left(t, S, st[Len(st)])
<1> DEFINE n == Len(st)
           u == SubSeq(st, 1, n - 1)
<1>1. PICK g \in [0..n -> Nat] :
        /\ g[0] = 0 /\ g[n] = m
        /\ \A k \in 1..n : g[k] = g[k - 1] + Left(t, S, st[k])
    BY DEF Weighs
<1> DEFINE h == [k \in 0..(n - 1) |-> g[k]]
<1>2. /\ n \in Nat \ {0} /\ Len(u) = n - 1
      /\ \A k \in 1..(n - 1) : u[k] = st[k]
  <2>1. n \in Nat \ {0}
      BY LenProperties, EmptySeq
  <2>2. \A i \in 1..(n - 1) : st[i] \in Frame
      BY <2>1
  <2>3. 1 \in Int /\ n - 1 \in Int
      BY <2>1
  <2>4. /\ Len(u) = IF 1 <= n - 1 THEN (n - 1) - 1 + 1 ELSE 0
        /\ \A k \in 1..((n - 1) - 1 + 1) : u[k] = st[1 + k - 1]
      BY <2>2, <2>3, SubSeqProperties
  <2> HIDE DEF u
  <2>5. Len(u) = n - 1
    <3>1. PICK k : k = n
        OBVIOUS
    <3>2. k \in Nat /\ k > 0
        BY <2>1, <3>1
    <3>3. (IF 1 <= k - 1 THEN (k - 1) - 1 + 1 ELSE 0) = k - 1
        BY <3>2
    <3> HIDE DEF n
    <3> QED
        BY <2>4, <3>1, <3>3
  <2>6. ASSUME NEW k \in 1..(n - 1) PROVE u[k] = st[k]
    <3>1. k \in 1..((n - 1) - 1 + 1) /\ 1 + k - 1 = k
        BY <2>1
    <3> QED
        BY <2>4, <3>1
  <2> QED
      BY <2>1, <2>5, <2>6
<1>3. h \in [0..(n - 1) -> Nat] /\ h[0] = 0 /\ h[n - 1] = g[n - 1] /\ g[n - 1] \in Nat
    BY <1>1, <1>2
<1>4. ASSUME NEW k \in 1..(n - 1) PROVE h[k] = h[k - 1] + Left(t, S, u[k])
  <2>1. h[k] = g[k] /\ h[k - 1] = g[k - 1] /\ k \in 1..n
      BY <1>2
  <2> QED
      BY <1>1, <1>2, <2>1
<1>5. m = g[n - 1] + Left(t, S, st[n])
    BY <1>1, <1>2
<1> HIDE DEF h, u
<1>6. Weighs(t, S, u, g[n - 1])
    BY <1>2, <1>3, <1>4 DEF Weighs
<1> QED
    BY <1>3, <1>5, <1>6 DEF u

\* The entries of a directory that is being read have nothing below them in common.
Siblings(t, W) ==
    W \subseteq {Root} \/ \E p \in Within(t, {Root}) : t[p].kind = "dir" /\ W \subseteq t[p].entries

LEMMA SiblingsApart ==
    ASSUME NEW t, IsTree(t), Root \in Paths, NEW W, Siblings(t, W), NEW p \in W
    PROVE  /\ Alone(t, W, p) /\ W \subseteq Paths /\ p \in Within(t, {Root}) /\ Siblings(t, W \ {p})
<1>0. t \in [Paths -> Node] /\ {Root} \subseteq Paths
    BY DEF IsTree
<1>1. Root \in Within(t, {Root}) /\ Closed(t, Within(t, {Root})) /\ Within(t, {Root}) \subseteq Paths
    BY <1>0, WithinIs
<1>2. CASE W \subseteq {Root}
    BY <1>0, <1>1, <1>2 DEF Siblings, Alone
<1>3. ASSUME NEW d \in Within(t, {Root}), t[d].kind = "dir", W \subseteq t[d].entries
      PROVE  /\ Alone(t, W, p) /\ W \subseteq Paths /\ p \in Within(t, {Root}) /\ Siblings(t, W \ {p})
  <2>1. \A q \in W : q # p => Within(t, {p}) \cap Within(t, {q}) = {}
      BY <1>3, EntriesApart
  <2>2. t[d].entries \subseteq Within(t, {Root})
      BY <1>1, <1>3 DEF Closed
  <2>3. Siblings(t, W \ {p})
      BY <1>3 DEF Siblings
  <2> QED
      BY <1>1, <1>3, <2>1, <2>2, <2>3 DEF Alone
<1> QED
    BY <1>2, <1>3 DEF Siblings

\* What lies below a path is in the file itself, or below the entries of the directory.
LEMMA SpotsOfOne ==
    ASSUME NEW t, t \in [Paths -> Node], NEW p \in Paths, NEW S
    PROVE  Cardinality(Spots(t, {p}, S)) =
              CASE t[p].kind = "yml" -> Number(t[p].docs, S)
                [] t[p].kind = "dir" -> Cardinality(Spots(t, t[p].entries, S))
                [] OTHER -> 0
<1>0. Within(t, {p}) = {p} \cup Inside(t, p)
    BY WithinOne
<1>1. CASE t[p].kind = "yml"
    BY <1>1, SpotsOfFile
<1>2. CASE t[p].kind # "yml"
  <2>1. ASSUME NEW x PROVE x \in Spots(t, {p}, S) <=> \E q \in Inside(t, p) : IsSpot(t, q, S, x)
    <3>1. x \in Spots(t, {p}, S) <=> \E q \in Within(t, {p}) : IsSpot(t, q, S, x)
        BY InSpots
    <3>2. ~ IsSpot(t, p, S, x)
        BY <1>2 DEF IsSpot
    <3> QED
        BY <1>0, <3>1, <3>2
  <2>2. CASE t[p].kind = "dir"
    <3>1. \A x : x \in Spots(t, {p}, S) <=> x \in Spots(t, t[p].entries, S)
        BY <2>1, <2>2, InSpots DEF Inside
    <3>2. Spots(t, {p}, S) = Spots(t, t[p].entries, S)
        BY <3>1, Zenon
    <3> QED
        BY <2>2, <3>2
  <2>3. CASE t[p].kind # "dir"
    <3>1. \A x : ~ (x \in Spots(t, {p}, S))
        BY <2>1, <2>3 DEF Inside
    <3>2. Spots(t, {p}, S) = {}
        BY <3>1, Zenon
    <3> QED
        BY <1>2, <2>3, <3>2, FS_EmptySet
  <2> QED
      BY <2>2, <2>3
<1> QED
    BY <1>1, <1>2

\* The documents that are loaded when their turn comes, and all that no list calls noisy.
Wanted == {d \in Documents : Verdict(d) = "loaded" /\ d.id \notin options.noisy_rules}
Quiet == {d \in Documents : d.id \notin options.noisy_rules}

\* Directories whose entries are siblings, and what is to come of them.
Stacked(t, S, st, m) ==
    /\ st \in Seq(Frame) /\ m \in Nat /\ Weighs(t, S, st, m)
    /\ \A k \in DOMAIN st : Siblings(t, st[k].entries)

Walk ==
    /\ LoaderTypeOK
    /\ \E s \in Scenarios : tree = s.tree /\ options = s.options
    /\ phase \in {"read", "failed"} \/ (pending = <<>> /\ stack = <<>>)
    /\ \E m : /\ Stacked(tree, Wanted, stack, m)
              /\ Number(files, Quiet) + Number(pending, Wanted) + m
                    = Cardinality(Spots(tree, {Root}, Wanted))

LEMMA SameWanted ==
    ASSUME options' = options
    PROVE  Wanted' = Wanted /\ Quiet' = Quiet
<1>1. \A d : Verdict(d)' = Verdict(d)
    BY DEF Verdict, ExpandUnset, ListedOut, Listed, is_target, OutOfLevel, OutOfStatus,
       Disabled, OutOfCategory, OutOfTag
<1> QED
    BY <1>1 DEF Wanted, Quiet

LEMMA WalkFacts ==
    ASSUME Walk
    PROVE  /\ IsTree(tree) /\ Root \in Paths /\ tree \in [Paths -> Node]
           /\ pending \in Seq(Documents) /\ files \in Seq(Documents) /\ stack \in Seq(Frame)
           /\ Number(files, Quiet) \in Nat /\ Number(pending, Wanted) \in Nat
<1>1. Root \in Paths /\ tree \in [Paths -> Node] /\ pending \in Seq(Documents)
      /\ files \in Seq(Documents) /\ stack \in Seq(Frame)
    BY LoaderAssumption DEF Walk, LoaderTypeOK
<1>2. IsTree(tree)
    BY <1>1, WizardAssumption DEF Walk, IsTree
<1>3. Number(files, Quiet) \in Nat /\ Number(pending, Wanted) \in Nat
    BY <1>1, NumberType
<1> QED
    BY <1>1, <1>2, <1>3

LEMMA StackedMore ==
    ASSUME NEW t, t \in [Paths -> Node], NEW S, NEW st, NEW m, Stacked(t, S, st, m),
           NEW f \in Frame, Siblings(t, f.entries)
    PROVE  Stacked(t, S, Append(st, f), m + Left(t, S, f))
<1>1. st \in Seq(Frame) /\ m \in Nat /\ Weighs(t, S, st, m) /\ Left(t, S, f) \in Nat
    BY LeftType DEF Stacked
<1>2. Weighs(t, S, Append(st, f), m + Left(t, S, f))
    BY <1>1, WeighsMore
<1>3. /\ Append(st, f) \in Seq(Frame) /\ Len(Append(st, f)) = Len(st) + 1 /\ Len(st) \in Nat
      /\ Append(st, f)[Len(st) + 1] = f
      /\ \A k \in 1..Len(st) : Append(st, f)[k] = st[k]
    BY <1>1, AppendProperties, LenProperties
<1>4. ASSUME NEW k \in DOMAIN Append(st, f) PROVE Siblings(t, Append(st, f)[k].entries)
  <2>1. k \in 1..(Len(st) + 1)
      BY <1>3, LenProperties
  <2>2. CASE k = Len(st) + 1
      BY <1>3, <2>2
  <2>3. CASE k # Len(st) + 1
    <3>1. k \in 1..Len(st) /\ k \in DOMAIN st
        BY <1>1, <1>3, <2>1, <2>3, LenProperties
    <3> QED
        BY <1>3, <3>1 DEF Stacked
  <2> QED
      BY <2>2, <2>3
<1>5. m + Left(t, S, f) \in Nat
    BY <1>1
<1> QED
    BY <1>2, <1>3, <1>4, <1>5 DEF Stacked

LEMMA StackedLess ==
    ASSUME NEW S, NEW m, Stacked(tree, S, stack, m), stack # <<>>, tree \in [Paths -> Node]
    PROVE  \E b : /\ Stacked(tree, S, Below, b) /\ m = b + Left(tree, S, Top)
                  /\ Siblings(tree, Top.entries) /\ Top \in Frame
<1>1. stack \in Seq(Frame) /\ m \in Nat /\ Weighs(tree, S, stack, m)
      /\ \A k \in DOMAIN stack : Siblings(tree, stack[k].entries)
    BY DEF Stacked
<1>2. PICK b \in Nat : Weighs(tree, S, Below, b) /\ m = b + Left(tree, S, Top)
    BY <1>1, WeighsLess DEF Below, Top
<1>3. Top \in Frame /\ Below \in Seq(Frame)
    BY <1>1, Frames
<1>4. Len(stack) \in Nat \ {0} /\ DOMAIN stack = 1..Len(stack)
    BY <1>1, LenProperties, EmptySeq
<1>5. Siblings(tree, Top.entries)
  <2>1. Len(stack) \in DOMAIN stack
      BY <1>4
  <2> QED
      BY <1>1, <2>1 DEF Top
<1>6. ASSUME NEW k \in DOMAIN Below PROVE Siblings(tree, Below[k].entries)
  <2>1. DOMAIN Below = 1..(Len(stack) - 1) /\ k \in DOMAIN stack /\ Below[k] = stack[k]
      BY <1>1, <1>4 DEF Below
  <2> QED
      BY <1>1, <2>1
<1> QED
    BY <1>2, <1>3, <1>5, <1>6 DEF Stacked

\* What taking an entry leaves of the directory being read.
LEMMA TakenLeft ==
    ASSUME Walk, stack # <<>>, NEW S, NEW p \in Top.entries, NEW docs \in Seq(Documents),
           Siblings(tree, Top.entries), Top \in Frame
    PROVE  /\ Taken(p, docs) \in Frame /\ Siblings(tree, Taken(p, docs).entries)
           /\ p \in Paths /\ p \in Within(tree, {Root})
           /\ Left(tree, S, Taken(p, docs)) + Cardinality(Spots(tree, {p}, S))
                = Left(tree, S, Top) + Number(docs, S)
           /\ Number(docs, S) \in Nat /\ Cardinality(Spots(tree, {p}, S)) \in Nat
           /\ Left(tree, S, Taken(p, docs)) \in Nat /\ Left(tree, S, Top) \in Nat
<1>1. IsTree(tree) /\ Root \in Paths /\ tree \in [Paths -> Node] /\ stack \in Seq(Frame)
    BY WalkFacts
<1>2. Taken(p, docs) \in Frame
    BY <1>1, TakenType
<1>3. Taken(p, docs).entries = Top.entries \ {p} /\ Taken(p, docs).docs = Top.docs \o docs
    BY DEF Taken
<1>4. /\ Alone(tree, Top.entries, p)
      /\ Top.entries \subseteq Paths /\ p \in Within(tree, {Root})
      /\ Siblings(tree, Top.entries \ {p})
    BY <1>1, SiblingsApart
<1>5. Cardinality(Spots(tree, Top.entries, S))
         = Cardinality(Spots(tree, Top.entries \ {p}, S)) + Cardinality(Spots(tree, {p}, S))
    BY <1>1, <1>4, SpotsLess
<1>6. Top.docs \in Seq(Documents) /\ Number(Top.docs, S) \in Nat
      /\ Cardinality(Spots(tree, Top.entries, S)) \in Nat /\ Left(tree, S, Top) \in Nat
    BY <1>1, LeftType
<1>7. Number(Top.docs \o docs, S) = Number(Top.docs, S) + Number(docs, S)
    BY <1>6, NumberJoin
<1>8. Number(docs, S) \in Nat
    BY NumberType
<1>9. Cardinality(Spots(tree, {p}, S)) \in Nat /\ Cardinality(Spots(tree, Top.entries \ {p}, S)) \in Nat
    BY <1>1, SpotsFinite
<1>10. Left(tree, S, Taken(p, docs))
          = Number(Top.docs, S) + Number(docs, S) + Cardinality(Spots(tree, Top.entries \ {p}, S))
    BY <1>3, <1>7 DEF Left
<1>11. Left(tree, S, Top)
          = Number(Top.docs, S)
              + (Cardinality(Spots(tree, Top.entries \ {p}, S)) + Cardinality(Spots(tree, {p}, S)))
    BY <1>5 DEF Left
<1>12. Left(tree, S, Taken(p, docs)) \in Nat
    BY <1>1, <1>2, LeftType
<1>13. Left(tree, S, Taken(p, docs)) + Cardinality(Spots(tree, {p}, S))
          = Left(tree, S, Top) + Number(docs, S)
    BY <1>6, <1>8, <1>9, <1>10, <1>11
<1> QED
    BY <1>2, <1>3, <1>4, <1>6, <1>8, <1>9, <1>12, <1>13

\* The directory being read is another, with as much left.
LEMMA TopReplaced ==
    ASSUME Walk, stack # <<>>, NEW p \in Top.entries, NEW docs \in Seq(Documents),
           Cardinality(Spots(tree, {p}, Wanted)) = Number(docs, Wanted),
           LoaderTypeOK', stack' = Append(Below, Taken(p, docs)),
           UNCHANGED <<tree, options, phase, pending, files>>, phase = "read"
    PROVE  Walk'
<1>1. tree \in [Paths -> Node]
    BY WalkFacts
<1>2. PICK m : /\ Stacked(tree, Wanted, stack, m)
               /\ Number(files, Quiet) + Number(pending, Wanted) + m
                    = Cardinality(Spots(tree, {Root}, Wanted))
    BY DEF Walk
<1>3. PICK b : /\ Stacked(tree, Wanted, Below, b) /\ m = b + Left(tree, Wanted, Top)
               /\ Siblings(tree, Top.entries) /\ Top \in Frame
    BY <1>1, <1>2, StackedLess
<1>4. /\ Taken(p, docs) \in Frame /\ Siblings(tree, Taken(p, docs).entries)
      /\ Left(tree, Wanted, Taken(p, docs)) + Cardinality(Spots(tree, {p}, Wanted))
           = Left(tree, Wanted, Top) + Number(docs, Wanted)
      /\ Number(docs, Wanted) \in Nat
      /\ Left(tree, Wanted, Taken(p, docs)) \in Nat /\ Left(tree, Wanted, Top) \in Nat
    BY <1>3, TakenLeft
<1>5. Left(tree, Wanted, Taken(p, docs)) = Left(tree, Wanted, Top)
    BY <1>4
<1>6. Stacked(tree, Wanted, Append(Below, Taken(p, docs)), m)
    BY <1>1, <1>3, <1>4, <1>5, StackedMore
<1>7. Wanted' = Wanted /\ Quiet' = Quiet
    BY SameWanted
<1> QED
    BY <1>2, <1>6, <1>7 DEF Walk, Number

LEMMA WalkInit == LoaderInit => Walk
<1> SUFFICES ASSUME LoaderInit PROVE Walk
    OBVIOUS
<1> DEFINE f == [entries |-> {Root}, docs |-> <<>>]
<1>1. LoaderTypeOK /\ phase = "read" /\ pending = <<>> /\ files = <<>> /\ stack = <<f>>
      /\ \E s \in Scenarios : tree = s.tree /\ options = s.options
    BY InitTypeOK DEF LoaderInit
<1>2. tree \in [Paths -> Node] /\ f \in Frame /\ Siblings(tree, f.entries) /\ Stacked(tree, Wanted, <<>>, 0)
  <2>1. f \in Frame
      BY LoaderAssumption DEF Frame
  <2>2. Weighs(tree, Wanted, <<>>, 0)
      BY WeighsNothing
  <2>3. <<>> \in Seq(Frame) /\ DOMAIN <<>> = {}
      OBVIOUS
  <2> QED
      BY <1>1, <2>1, <2>2, <2>3 DEF LoaderTypeOK, Siblings, Stacked
<1>3. Stacked(tree, Wanted, Append(<<>>, f), 0 + Left(tree, Wanted, f))
    BY <1>2, StackedMore
<1>4. Append(<<>>, f) = <<f>>
    OBVIOUS
<1>5. f.entries = {Root} /\ f.docs = <<>>
    OBVIOUS
<1> HIDE DEF f
<1>6. Number(files, Quiet) = 0 /\ Number(pending, Wanted) = 0 /\ Number(f.docs, Wanted) = 0
    BY <1>1, <1>5, NumberNone
<1>7. Left(tree, Wanted, f) = Cardinality(Spots(tree, {Root}, Wanted))
      /\ Left(tree, Wanted, f) \in Nat
  <2>1. Left(tree, Wanted, f) = 0 + Cardinality(Spots(tree, {Root}, Wanted))
      BY <1>5, <1>6 DEF Left
  <2>2. Cardinality(Spots(tree, {Root}, Wanted)) \in Nat
      BY <1>2, SpotsFinite
  <2> QED
      BY <2>1, <2>2
<1> QED
    BY <1>1, <1>3, <1>4, <1>6, <1>7 DEF Walk

LEMMA ReadFileWalk == ASSUME Walk, LoaderTypeOK', NEW p \in Paths, ReadFile(p) PROVE Walk'
<1>1. /\ stack # <<>> /\ p \in Top.entries /\ tree[p].kind = "yml" /\ phase = "read"
      /\ stack' = Append(Below, Taken(p, tree[p].docs))
      /\ UNCHANGED <<tree, options, phase, pending, files>>
    BY DEF ReadFile, Reading
<1>2. tree \in [Paths -> Node] /\ tree[p].docs \in Seq(Documents)
    BY WalkFacts DEF Node
<1>3. Cardinality(Spots(tree, {p}, Wanted)) = Number(tree[p].docs, Wanted)
    BY <1>1, <1>2, SpotsOfFile
<1> QED
    BY <1>1, <1>2, <1>3, TopReplaced

LEMMA PassWalk == ASSUME Walk, LoaderTypeOK', NEW p \in Paths, FailToRead(p) \/ Skip(p) PROVE Walk'
<1>1. /\ stack # <<>> /\ p \in Top.entries /\ tree[p].kind \notin {"yml", "dir"} /\ phase = "read"
      /\ stack' = Append(Below, Taken(p, <<>>))
      /\ UNCHANGED <<tree, options, phase, pending, files>>
    BY DEF FailToRead, Skip, Reading
<1>2. tree \in [Paths -> Node] /\ <<>> \in Seq(Documents)
    BY WalkFacts
<1>3. Cardinality(Spots(tree, {p}, Wanted)) = 0
    BY <1>1, <1>2, SpotsOfOne
<1>4. Number(<<>>, Wanted) = 0
    BY NumberNone
<1> QED
    BY <1>1, <1>2, <1>3, <1>4, TopReplaced

LEMMA RecurseWalk == ASSUME Walk, LoaderTypeOK', NEW p \in Paths, Recurse(p) PROVE Walk'
<1> DEFINE rest == Taken(p, <<>>)
           f == [entries |-> tree[p].entries, docs |-> <<>>]
<1>1. /\ stack # <<>> /\ p \in Top.entries /\ tree[p].kind = "dir" /\ phase = "read"
      /\ stack' = Append(Append(Below, rest), f)
      /\ UNCHANGED <<tree, options, phase, pending, files>>
    BY DEF Recurse, Reading
<1>2. tree \in [Paths -> Node] /\ <<>> \in Seq(Documents)
    BY WalkFacts
<1>3. PICK m : /\ Stacked(tree, Wanted, stack, m)
               /\ Number(files, Quiet) + Number(pending, Wanted) + m
                    = Cardinality(Spots(tree, {Root}, Wanted))
    BY DEF Walk
<1>4. PICK b : /\ Stacked(tree, Wanted, Below, b) /\ m = b + Left(tree, Wanted, Top)
               /\ Siblings(tree, Top.entries) /\ Top \in Frame
    BY <1>1, <1>2, <1>3, StackedLess
<1>5. /\ rest \in Frame /\ Siblings(tree, rest.entries) /\ p \in Within(tree, {Root})
      /\ Left(tree, Wanted, rest) + Cardinality(Spots(tree, {p}, Wanted))
           = Left(tree, Wanted, Top) + Number(<<>>, Wanted)
      /\ Cardinality(Spots(tree, {p}, Wanted)) \in Nat
      /\ Left(tree, Wanted, rest) \in Nat /\ Left(tree, Wanted, Top) \in Nat
    BY <1>1, <1>2, <1>4, TakenLeft
<1>6. f \in Frame /\ f.entries = tree[p].entries /\ f.docs = <<>>
    BY <1>2 DEF Frame, Node
<1>7. Siblings(tree, f.entries)
    BY <1>1, <1>5, <1>6 DEF Siblings
<1>8. Number(<<>>, Wanted) = 0
    BY NumberNone
<1> HIDE DEF f, rest
<1>9. Left(tree, Wanted, f) = Cardinality(Spots(tree, {p}, Wanted))
  <2>1. Cardinality(Spots(tree, {p}, Wanted)) = Cardinality(Spots(tree, tree[p].entries, Wanted))
      BY <1>1, <1>2, SpotsOfOne
  <2>2. Left(tree, Wanted, f) = 0 + Cardinality(Spots(tree, tree[p].entries, Wanted))
      BY <1>6, <1>8 DEF Left
  <2> QED
      BY <1>5, <2>1, <2>2
<1>10. Stacked(tree, Wanted, Append(Below, rest), b + Left(tree, Wanted, rest))
    BY <1>2, <1>4, <1>5, StackedMore
<1>11. Stacked(tree, Wanted, stack', b + Left(tree, Wanted, rest) + Left(tree, Wanted, f))
    BY <1>1, <1>2, <1>6, <1>7, <1>10, StackedMore
<1>12. b + Left(tree, Wanted, rest) + Left(tree, Wanted, f) = m
    BY <1>4, <1>5, <1>8, <1>9 DEF Stacked
<1>13. Wanted' = Wanted /\ Quiet' = Quiet
    BY <1>1, SameWanted
<1> QED
    BY <1>1, <1>3, <1>11, <1>12, <1>13 DEF Walk, Number

LEMMA EndOfDirectoryWalk == ASSUME Walk, LoaderTypeOK', EndOfDirectory PROVE Walk'
<1>1. /\ stack # <<>> /\ pending = <<>> /\ Top.entries = {} /\ phase = "read"
      /\ stack' = Below /\ pending' = Top.docs
      /\ UNCHANGED <<tree, options, phase, files>>
    BY DEF EndOfDirectory, Reading
<1>2. tree \in [Paths -> Node] /\ Number(files, Quiet) \in Nat
    BY WalkFacts
<1>3. PICK m : /\ Stacked(tree, Wanted, stack, m)
               /\ Number(files, Quiet) + Number(pending, Wanted) + m
                    = Cardinality(Spots(tree, {Root}, Wanted))
    BY DEF Walk
<1>4. PICK b : /\ Stacked(tree, Wanted, Below, b) /\ m = b + Left(tree, Wanted, Top) /\ Top \in Frame
    BY <1>1, <1>2, <1>3, StackedLess
<1>5. Number(pending, Wanted) = 0
    BY <1>1, NumberNone
<1>6. Cardinality(Spots(tree, Top.entries, Wanted)) = 0
  <2>1. Within(tree, {}) = {}
      BY <1>2, WithinJoin
  <2>2. \A x : ~ (x \in Spots(tree, {}, Wanted))
      BY <2>1, InSpots
  <2>3. Spots(tree, {}, Wanted) = {}
      BY <2>2, Zenon
  <2> QED
      BY <1>1, <2>3, FS_EmptySet
<1>7. Number(Top.docs, Wanted) \in Nat
    BY <1>2, <1>4, LeftType
<1>8. Left(tree, Wanted, Top) = Number(Top.docs, Wanted)
    BY <1>6, <1>7 DEF Left
<1>9. Number(files, Quiet) + Number(Top.docs, Wanted) + b = Cardinality(Spots(tree, {Root}, Wanted))
    BY <1>2, <1>3, <1>4, <1>5, <1>7, <1>8 DEF Stacked
<1>10. Wanted' = Wanted /\ Quiet' = Quiet
    BY <1>1, SameWanted
<1>11. Number(files, Quiet)' = Number(files, Quiet) /\ Number(pending, Wanted)' = Number(Top.docs, Wanted)
    BY <1>1, <1>10 DEF Number
<1> QED
    BY <1>1, <1>4, <1>9, <1>10, <1>11 DEF Walk

LEMMA FilterWalk == ASSUME Walk, LoaderTypeOK', Filter PROVE Walk'
<1> DEFINE d == Head(pending)
<1>1. /\ phase = "read" /\ pending # <<>> /\ pending' = Tail(pending)
      /\ files' = (IF Verdict(d) = "loaded" THEN Append(files, d) ELSE files)
      /\ UNCHANGED <<tree, options, phase, stack>>
    BY DEF Filter, reading
<1>2. pending \in Seq(Documents) /\ files \in Seq(Documents)
      /\ Number(files, Quiet) \in Nat
    BY WalkFacts
<1>3. d \in Documents /\ Tail(pending) \in Seq(Documents) /\ pending = <<d>> \o Tail(pending)
  <2>1. d \in Documents /\ Tail(pending) \in Seq(Documents)
      BY <1>1, <1>2, HeadTailProperties
  <2>2. pending = <<d>> \o Tail(pending)
      BY <1>1, <1>2
  <2> QED
      BY <2>1, <2>2
<1>4. <<d>> \in Seq(Documents)
    BY <1>3
<1>5. Append(files, d) = files \o <<d>>
    BY <1>2, <1>3
<1> HIDE DEF d
<1>6. /\ Number(pending, Wanted) = Number(<<d>>, Wanted) + Number(Tail(pending), Wanted)
      /\ Number(files \o <<d>>, Quiet) = Number(files, Quiet) + Number(<<d>>, Quiet)
  <2>1. PICK u \in Seq(Documents), v \in Seq(Documents) : u = <<d>> /\ v = Tail(pending)
      BY <1>3, <1>4
  <2>2. Number(u \o v, Wanted) = Number(u, Wanted) + Number(v, Wanted)
      BY NumberJoin
  <2>3. Number(files \o u, Quiet) = Number(files, Quiet) + Number(u, Quiet)
      BY <1>2, NumberJoin
  <2> QED
      BY <1>3, <2>1, <2>2, <2>3
<1>7. /\ Number(<<d>>, Wanted) = (IF d \in Wanted THEN 1 ELSE 0)
      /\ Number(<<d>>, Quiet) = (IF d \in Quiet THEN 1 ELSE 0)
    BY <1>3, NumberOne
<1>8. Number(Tail(pending), Wanted) \in Nat
    BY <1>3, NumberType
<1>9. d \in Wanted <=> Verdict(d) = "loaded" /\ d \in Quiet
    BY <1>3 DEF Wanted, Quiet
<1>10. Wanted' = Wanted /\ Quiet' = Quiet
    BY <1>1, SameWanted
<1>11. Number(files, Quiet)' = Number(files', Quiet) /\ Number(pending, Wanted)' = Number(Tail(pending), Wanted)
    BY <1>1, <1>10 DEF Number
<1>12. Number(files', Quiet) + Number(Tail(pending), Wanted) = Number(files, Quiet) + Number(pending, Wanted)
  <2>1. CASE Verdict(d) = "loaded"
    <3>1. Number(files', Quiet) = Number(files, Quiet) + Number(<<d>>, Quiet)
        BY <1>1, <1>5, <1>6, <2>1
    <3>2. Number(<<d>>, Quiet) = Number(<<d>>, Wanted) /\ Number(<<d>>, Wanted) \in {0, 1}
        BY <1>7, <1>9, <2>1
    <3> QED
        BY <1>2, <1>6, <1>8, <3>1, <3>2
  <2>2. CASE Verdict(d) # "loaded"
    <3>1. files' = files /\ Number(<<d>>, Wanted) = 0
        BY <1>1, <1>7, <1>9, <2>2
    <3> QED
        BY <1>2, <1>6, <1>8, <3>1
  <2> QED
      BY <2>1, <2>2
<1>13. PICK m : /\ Stacked(tree, Wanted, stack, m)
                /\ Number(files, Quiet) + Number(pending, Wanted) + m
                     = Cardinality(Spots(tree, {Root}, Wanted))
    BY DEF Walk
<1>14. Number(files, Quiet)' + Number(pending, Wanted)' + m = Cardinality(Spots(tree, {Root}, Wanted))
    BY <1>11, <1>12, <1>13
<1> QED
    BY <1>1, <1>10, <1>13, <1>14 DEF Walk

LEMMA WalkStep == Walk /\ [LoaderNext]_loaderVars => Walk'
<1> SUFFICES ASSUME Walk, [LoaderNext]_loaderVars PROVE Walk'
    OBVIOUS
<1>0. LoaderTypeOK'
    BY StepTypeOK DEF Walk
<1>1. ASSUME UNCHANGED <<tree, options, pending, files, stack>>,
             phase' \in {"read", "failed"} \/ (pending = <<>> /\ stack = <<>>)
      PROVE  Walk'
  <2>1. Wanted' = Wanted /\ Quiet' = Quiet
      BY <1>1, SameWanted
  <2> QED
      BY <1>0, <1>1, <2>1 DEF Walk, Number
<1>2. CASE \E p \in Paths : Abort(p)
    BY <1>1, <1>2 DEF Abort, reading
<1>3. CASE EndOfRead
    BY <1>1, <1>3 DEF EndOfRead, reading
<1>4. CASE UNCHANGED loaderVars
    BY <1>1, <1>4 DEF loaderVars, reading, Walk
<1> QED
    BY <1>0, <1>2, <1>3, <1>4, ReadFileWalk, PassWalk, RecurseWalk, EndOfDirectoryWalk, FilterWalk
       DEF LoaderNext

\* When all has been read, the rules that no list calls noisy are those that were wanted.
LEMMA WalkEnds ==
    ASSUME Walk, phase = "create"
    PROVE  Number(files, Quiet) = Cardinality(Spots(tree, {Root}, Wanted))
<1>1. pending = <<>> /\ stack = <<>> /\ Number(files, Quiet) \in Nat
    BY WalkFacts DEF Walk
<1>2. PICK m : /\ Stacked(tree, Wanted, stack, m)
               /\ Number(files, Quiet) + Number(pending, Wanted) + m
                    = Cardinality(Spots(tree, {Root}, Wanted))
    BY DEF Walk
<1>3. m = 0
    BY <1>1, <1>2, WeighsNothing DEF Stacked
<1>4. Number(pending, Wanted) = 0
    BY <1>1, NumberNone
<1> QED
    BY <1>1, <1>2, <1>3, <1>4

-----------------------------------------------------------------------------
(* What the answers ask for.                                                  *)

\* The rule directory with these options, and the options without the answers.
Here(o) == [tree |-> tree, options |-> o]
Unasked == [options EXCEPT !.include_status = {}, !.exclude_tag = {},
                !.enable_deprecated = FALSE, !.enable_unsupported = FALSE, !.enable_noisy = FALSE]

OptionNames == {"output", "min_level", "target_level", "exclude_rules", "noisy_rules",
                "enable_noisy", "target_ruleids", "include_status", "exclude_status",
                "enable_deprecated", "enable_unsupported", "include_category",
                "exclude_category", "has_include_tag", "include_tag", "exclude_tag"}

LEMMA Answers ==
    ASSUME Walk, ByAnswers
    PROVE  /\ options.set \in Sets /\ options.refused \subseteq Questions(Here(Unasked), options.set)
           /\ options.output /\ options.target_level = 0 /\ options.target_ruleids = {}
           /\ options.exclude_status = {} /\ ~options.has_include_tag
           /\ options.include_category = {} /\ options.exclude_category = {}
           /\ options.min_level = min_level(options.set)
           /\ options.include_status = target_status(options.set)
           /\ options.exclude_tag = options.refused \cap WizardTags
           /\ options.enable_deprecated <=>
                "deprecated" \in Questions(Here(Unasked), options.set) \ options.refused
           /\ options.enable_unsupported <=>
                "unsupported" \in Questions(Here(Unasked), options.set) \ options.refused
           /\ Unasked.exclude_rules = options.exclude_rules /\ Unasked.noisy_rules = options.noisy_rules
<1>1. OptionNames \subseteq DOMAIN options
    BY LoaderAssumption DEF Walk, OptionNames
<1>2. /\ options.output /\ options.target_level = 0 /\ options.target_ruleids = {}
      /\ options.exclude_status = {} /\ ~options.has_include_tag
      /\ options.include_category = {} /\ options.exclude_category = {}
      /\ options.set \in Sets
      /\ options.refused \subseteq Questions(Here(Unasked), options.set)
      /\ options = Answered(Here(Unasked), options.set, options.refused)
    BY Zenon DEF ByAnswers, Here, Unasked
<1> DEFINE Q == Questions(Here(Unasked), options.set)
           given == [Here(Unasked).options EXCEPT
                        !.min_level = min_level(options.set),
                        !.include_status = @ \cup target_status(options.set),
                        !.exclude_tag = @ \cup (options.refused \cap WizardTags),
                        !.enable_deprecated = @ \/ "deprecated" \in Q \ options.refused,
                        !.enable_unsupported = @ \/ "unsupported" \in Q \ options.refused,
                        !.enable_noisy = @ \/ "noisy" \in Q \ options.refused]
           answers == [set |-> options.set, refused |-> options.refused]
<1>4. options = [name \in DOMAIN given \cup DOMAIN answers |->
                    IF name \in DOMAIN given THEN given[name] ELSE answers[name]]
    BY <1>2, Zenon DEF Answered
<1>5. /\ DOMAIN Unasked = DOMAIN options /\ Unasked.include_status = {} /\ Unasked.exclude_tag = {}
      /\ Unasked.enable_deprecated = FALSE /\ Unasked.enable_unsupported = FALSE
      /\ Unasked.exclude_rules = options.exclude_rules /\ Unasked.noisy_rules = options.noisy_rules
      /\ Here(Unasked).options = Unasked
    BY <1>1 DEF Unasked, OptionNames, Here
<1> HIDE DEF Q
<1>6. /\ OptionNames \subseteq DOMAIN given
      /\ given.min_level = min_level(options.set)
      /\ given.include_status = target_status(options.set)
      /\ given.exclude_tag = options.refused \cap WizardTags
      /\ given.enable_deprecated <=> "deprecated" \in Q \ options.refused
      /\ given.enable_unsupported <=> "unsupported" \in Q \ options.refused
    BY <1>1, <1>5 DEF OptionNames
<1> HIDE DEF given, answers
<1>7. \A name \in OptionNames : options[name] = given[name]
    BY <1>4, <1>6
<1>8. /\ options.min_level = given.min_level /\ options.include_status = given.include_status
      /\ options.exclude_tag = given.exclude_tag
      /\ options.enable_deprecated = given.enable_deprecated
      /\ options.enable_unsupported = given.enable_unsupported
  <2>1. /\ "min_level" \in OptionNames /\ "include_status" \in OptionNames
        /\ "exclude_tag" \in OptionNames /\ "enable_deprecated" \in OptionNames
        /\ "enable_unsupported" \in OptionNames
      BY DEF OptionNames
  <2> QED
      BY <1>7, <2>1, Zenon
<1> QED
    BY <1>2, <1>5, <1>6, <1>8, Zenon DEF Q

LEMMA PlaceFacts ==
    ASSUME LoaderTypeOK, WellFormed, NEW o, NEW x \in Places(Here(o))
    PROVE  /\ At(Here(o), x) \in Documents
           /\ At(Here(o), x).format /\ ~ExpandUnset(At(Here(o), x))
           /\ At(Here(o), x).status \in Statuses /\ At(Here(o), x).level \in Int
<1>1. Here(o).tree = tree
    BY DEF Here
<1>2. PICK p \in Files(tree) : \E i \in DOMAIN tree[p].docs : x = <<p, i>>
    BY <1>1 DEF Places
<1>3. PICK i \in DOMAIN tree[p].docs : x = <<p, i>>
    BY <1>2
<1>4. p \in Paths /\ tree[p].docs \in Seq(Documents)
    BY DEF Files, Within, LoaderTypeOK, Node
<1>5. At(Here(o), x) = tree[p].docs[i]
    BY <1>1, <1>3 DEF At
<1>6. tree[p].docs[i] \in Documents
    BY <1>4
<1>7. tree[p].docs[i].format /\ ~ExpandUnset(tree[p].docs[i])
    BY <1>4, <1>6 DEF WellFormed
<1>8. tree[p].docs[i].status \in Statuses /\ tree[p].docs[i].level \in Int
    BY <1>6, LoaderAssumption, WizardAssumption
<1> QED
    BY <1>5, <1>6, <1>7, <1>8

LEMMA PlacesAreSpots ==
    ASSUME NEW o, NEW S
    PROVE  Spots(tree, {Root}, S) = {x \in Places(Here(o)) : At(Here(o), x) \in S}
<1>1. Here(o).tree = tree
    BY DEF Here
<1>2. Places(Here(o)) = UNION {{p} \X DOMAIN tree[p].docs : p \in {q \in Within(tree, {Root}) : tree[q].kind = "yml"}}
    BY <1>1 DEF Places, Files
<1>3. \A x : At(Here(o), x) = tree[x[1]].docs[x[2]]
    BY <1>1 DEF At
<1>4. \A x : x \in Spots(tree, {Root}, S) <=> x \in Places(Here(o)) /\ tree[x[1]].docs[x[2]] \in S
    BY <1>2 DEF Spots
<1>5. \A x : x \in Spots(tree, {Root}, S)
               <=> x \in {y \in Places(Here(o)) : At(Here(o), y) \in S}
    BY <1>3, <1>4
<1> QED
    BY <1>5, Zenon

LEMMA PlacesFinite ==
    ASSUME LoaderTypeOK, WellFormed, NEW o, NEW P, P \subseteq Places(Here(o))
    PROVE  IsFiniteSet(P) /\ Cardinality(P) \in Nat /\ Sum(Here(o), P) = Cardinality(P)
<1>1. Places(Here(o)) = Spots(tree, {Root}, Documents)
    BY PlacesAreSpots, PlaceFacts
<1>2. IsFiniteSet(Places(Here(o)))
    BY <1>1, SpotsFinite DEF LoaderTypeOK
<1>3. IsFiniteSet(P) /\ Cardinality(P) \in Nat
    BY <1>2, FS_Subset, FS_CardinalityType
<1> QED
    BY <1>3, SumCounts

\* The counters know the documents by what the loader will ask.
LEMMA KeyMeans ==
    ASSUME NEW d, d.status \in Statuses, NEW o
    PROVE  /\ Key(Here(o), d) \in Statuses \cup Listing
           /\ Key(Here(o), d) \in Listing <=> d.id \in o.exclude_rules \/ d.id \in o.noisy_rules
           /\ Key(Here(o), d) \notin Listing => Key(Here(o), d) = d.status
           /\ Statuses \cap Listing = {}
BY DEF Key, Here, Listing, Statuses

LEMMA TagCounted ==
    ASSUME NEW d, d.status \in Statuses, NEW o, NEW q \in WizardTags
    PROVE  q \in DOMAIN Adds(Here(o), d) <=> Key(Here(o), d) \notin Listing /\ q \in d.tags
<1> DEFINE tags == d.tags \cap WizardTags
           n == Cardinality(tags)
<1>1. n \in Nat /\ (n = 0 <=> tags = {})
    BY TagsFinite
<1>2. q \notin Statuses /\ q # "other" /\ q # "duplicated"
    BY DEF WizardTags, Statuses
<1>3. DOMAIN Adds(Here(o), d) =
        IF Key(Here(o), d) \in Listing THEN {d.status}
        ELSE IF n = 0 THEN {"other"}
        ELSE tags \cup (IF n > 1 THEN {"duplicated"} ELSE {})
  <2>1. CASE Key(Here(o), d) \in Listing
      BY <2>1 DEF Adds
  <2>2. CASE Key(Here(o), d) \notin Listing /\ n = 0
      BY <2>2 DEF Adds
  <2>3. CASE Key(Here(o), d) \notin Listing /\ n # 0
      BY <2>3 DEF Adds
  <2> QED
      BY <2>1, <2>2, <2>3
<1> HIDE DEF n
<1>4. q \in tags <=> q \in d.tags
    OBVIOUS
<1> QED
    BY <1>1, <1>2, <1>3, <1>4

\* A well-formed document is loaded, and not noisy, if the answers want it.
LEMMA WantedMeans ==
    ASSUME Walk, ByAnswers, NEW d \in Documents, d.format, ~ExpandUnset(d)
    PROVE  d \in Wanted <=>
              /\ Key(Here(options), d) \notin Listing
              /\ d.level >= min_level(options.set)
              /\ "*" \in target_status(options.set) \/ d.status \in target_status(options.set)
              /\ ~Disabled(d.status)
              /\ d.tags \cap options.refused \cap WizardTags = {}
<1>1. d.status \in Statuses /\ d.level \in Int /\ min_level(options.set) \in Int
  <2>1. options.set \in Sets
      BY Answers
  <2> QED
      BY <2>1, LoaderAssumption, WizardAssumption DEF min_level, Sets
<1>2. Key(Here(options), d) \in Listing <=> d.id \in options.exclude_rules \/ d.id \in options.noisy_rules
    BY <1>1, KeyMeans
<1>3. /\ options.output /\ options.target_level = 0 /\ options.target_ruleids = {}
      /\ options.exclude_status = {} /\ ~options.has_include_tag
      /\ options.include_category = {} /\ options.exclude_category = {}
      /\ options.min_level = min_level(options.set)
      /\ options.include_status = target_status(options.set)
      /\ options.exclude_tag = options.refused \cap WizardTags
    BY Answers
<1>4. is_target(d.id) /\ ~OutOfCategory(d)
    BY <1>3 DEF is_target, OutOfCategory
<1>5. OutOfLevel(d) <=> ~(d.level >= min_level(options.set))
    BY <1>1, <1>3 DEF OutOfLevel
<1>6. OutOfStatus(d) <=> ~("*" \in target_status(options.set) \/ d.status \in target_status(options.set))
    BY <1>3 DEF OutOfStatus
<1>7. OutOfTag(d) <=> ~(d.tags \cap options.refused \cap WizardTags = {})
    BY <1>3 DEF OutOfTag
<1>8. d.id \notin options.noisy_rules => (ListedOut(d) <=> d.id \in options.exclude_rules)
    BY DEF ListedOut, Listed
<1>9. ListedOut(d) => Listed(d.id) \in {"excluded", "noisy"}
    BY DEF ListedOut
<1>10. Verdict(d) = "loaded" <=>
          /\ ~ListedOut(d) /\ ~OutOfLevel(d) /\ ~OutOfStatus(d)
          /\ ~Disabled(d.status) /\ ~OutOfTag(d)
    BY <1>3, <1>4, <1>9 DEF Verdict
<1> QED
    BY <1>2, <1>5, <1>6, <1>7, <1>8, <1>10 DEF Wanted

LEMMA MeantMeans ==
    ASSUME NEW o, NEW K, NEW m
    PROVE  /\ Meant(Here(o), K, m) \subseteq Places(Here(o))
           /\ \A x : x \in Meant(Here(o), K, m) <=>
                /\ x \in Places(Here(o)) /\ Key(Here(o), At(Here(o), x)) \in K
                /\ At(Here(o), x).level >= m
BY DEF Meant

\* Those of M that have the tag, and stand on no list.
Tagged(o, M, q) ==
    {x \in M : Key(Here(o), At(Here(o), x)) \notin Listing /\ q \in At(Here(o), x).tags}

\* The number that a question is asked with.
LEMMA CountIs ==
    ASSUME LoaderTypeOK, WellFormed, NEW o, NEW set, NEW q
    PROVE  Count(Here(o), set, q) =
              IF q \in WizardTags THEN Cardinality(Tagged(o, Meant(Here(o), Keys(set), min_level(set)), q))
              ELSE Cardinality(Meant(Here(o), {q}, min_level(set)))
<1>1. CASE q \notin WizardTags
  <2>1. Count(Here(o), set, q) = Sum(Here(o), Meant(Here(o), {q}, min_level(set)))
      BY <1>1, Zenon DEF Count, exclude_noisy_cnt
  <2> QED
      BY <1>1, <2>1, MeantMeans, PlacesFinite
<1>2. CASE q \in WizardTags
  <2> DEFINE M == Meant(Here(o), Keys(set), min_level(set))
  <2>1. Count(Here(o), set, q) = Cardinality({x \in M : q \in DOMAIN Adds(Here(o), At(Here(o), x))})
      BY <1>2, Zenon DEF Count, tags_cnt
  <2>2. \A x \in M : q \in DOMAIN Adds(Here(o), At(Here(o), x)) <=>
                       Key(Here(o), At(Here(o), x)) \notin Listing /\ q \in At(Here(o), x).tags
      BY <1>2, MeantMeans, PlaceFacts, TagCounted
  <2>3. {x \in M : q \in DOMAIN Adds(Here(o), At(Here(o), x))} = Tagged(o, M, q)
      BY <2>2, Zenon DEF Tagged
  <2> QED
      BY <1>2, <2>1, <2>3
<1> QED
    BY <1>1, <1>2

\* The answers change nothing of what is counted.
LEMMA SameMeant ==
    ASSUME Walk, ByAnswers, NEW K, NEW m
    PROVE  Meant(Here(Unasked), K, m) = Meant(Here(options), K, m)
<1>1. Unasked.exclude_rules = options.exclude_rules /\ Unasked.noisy_rules = options.noisy_rules
    BY Answers
<1>2. Places(Here(Unasked)) = Places(Here(options)) /\ \A x : At(Here(Unasked), x) = At(Here(options), x)
    BY DEF Places, At, Here
<1>3. \A d : Key(Here(Unasked), d) = Key(Here(options), d)
    BY <1>1 DEF Key, Here
<1>4. \A x : x \in Meant(Here(Unasked), K, m) <=> x \in Meant(Here(options), K, m)
    BY <1>2, <1>3, MeantMeans
<1> QED
    BY <1>4, Zenon

\* Where there are deprecated or unsupported rules, the question is asked.
LEMMA Asked ==
    ASSUME Walk, ByAnswers, WellFormed, options.set \in {4, 5}, NEW q \in {"deprecated", "unsupported"},
           NEW x \in Meant(Here(options), {q}, min_level(options.set))
    PROVE  q \in Questions(Here(Unasked), options.set)
<1>1. q \notin WizardTags /\ LoaderTypeOK
    BY DEF WizardTags, Walk
<1>2. Count(Here(Unasked), options.set, q) = Cardinality(Meant(Here(options), {q}, min_level(options.set)))
  <2>1. Count(Here(Unasked), options.set, q)
           = Cardinality(Meant(Here(Unasked), {q}, min_level(options.set)))
      BY <1>1, CountIs, Zenon
  <2>2. Meant(Here(Unasked), {q}, min_level(options.set)) = Meant(Here(options), {q}, min_level(options.set))
      BY SameMeant, Zenon
  <2> QED
      BY <2>1, <2>2, Zenon
<1>3. PICK M : M = Meant(Here(options), {q}, min_level(options.set))
    OBVIOUS
<1>4. IsFiniteSet(M) /\ Cardinality(M) \in Nat /\ x \in M
    BY <1>1, <1>3, MeantMeans, PlacesFinite
<1>5. Cardinality(M) # 0
    BY <1>4, FS_EmptySet
<1>6. Count(Here(Unasked), options.set, q) > 0
    BY <1>2, <1>3, <1>4, <1>5
<1> QED
    BY <1>6 DEF Questions

LEMMA OneRefused ==
    ASSUME NEW R, R \subseteq {"noisy", "sysmon", "detection.emerging_threats",
                               "detection.threat_hunting", "deprecated", "unsupported"},
           Cardinality(R \ {"noisy"}) <= 1, R \ {"noisy"} # {}
    PROVE  \E q \in R : R \ {"noisy"} = {q} /\ q # "noisy" /\ q = CHOOSE r \in R \ {"noisy"} : TRUE
<1> DEFINE T == R \ {"noisy"}
<1>1. IsFiniteSet(T)
  <2>1. T \subseteq WizardTags \cup {"deprecated"} \cup {"unsupported"}
      BY DEF WizardTags
  <2>2. WizardTags = {"detection.emerging_threats"} \cup {"detection.threat_hunting"} \cup {"sysmon"}
      BY DEF WizardTags
  <2>3. IsFiniteSet(WizardTags)
      BY <2>2, FS_Singleton, FS_Union
  <2>4. IsFiniteSet(WizardTags \cup {"deprecated"} \cup {"unsupported"})
      BY <2>3, FS_Singleton, FS_Union
  <2> QED
      BY <2>1, <2>4, FS_Subset
<1>2. Cardinality(T) = 1
  <2>1. Cardinality(T) \in Nat /\ Cardinality(T) # 0
      BY <1>1, FS_CardinalityType, FS_EmptySet
  <2> QED
      BY <2>1
<1>3. PICK q : T = {q}
    BY <1>1, <1>2, FS_Singleton
<1>4. (CHOOSE r \in {q} : TRUE) = q
    OBVIOUS
<1> QED
    BY <1>3, <1>4

LEMMA Subtracted ==
    ASSUME LoaderTypeOK, WellFormed, NEW o, NEW M, M \subseteq Places(Here(o)), NEW X, X \subseteq M
    PROVE  /\ Cardinality(M \ X) = Cardinality(M) - Cardinality(X)
           /\ Cardinality(M) \in Nat /\ Cardinality(X) \in Nat
<1>1. IsFiniteSet(M) /\ Cardinality(M) \in Nat /\ Cardinality(X) \in Nat
    BY PlacesFinite
<1>2. M \cap X = X
    OBVIOUS
<1> QED
    BY <1>1, <1>2, FS_Difference

\* The rules of a set that are loaded, in the end.
Promised(set, refused) ==
    sections_rule_cnt(Here(options), set)
        - (IF set <= 3 THEN 0 ELSE exclude_noisy_cnt(Here(options), set, "noisy"))
        - (IF refused \ {"noisy"} = {} THEN 0
           ELSE Count(Here(options), set, CHOOSE q \in refused \ {"noisy"} : TRUE))

LEMMA CoreRules ==
    ASSUME Walk, ByAnswers, WellFormed, options.set <= 3, Cardinality(options.refused \ {"noisy"}) <= 1
    PROVE  Cardinality(Spots(tree, {Root}, Wanted)) = Promised(options.set, options.refused)
<1> DEFINE set == options.set
           R == options.refused
           target == target_status(set)
           m == min_level(set)
           M == Meant(Here(options), target, m)
<1>0. LoaderTypeOK /\ set \in {1, 2, 3}
  <2>1. set \in 1..5
      BY Answers DEF Sets
  <2> QED
      BY <2>1 DEF Walk
<1>1. /\ target \subseteq {"stable", "test", "experimental"} /\ Keys(set) = target
      /\ Keys(set) \ {"excluded"} = target
    BY <1>0 DEF target_status, Keys
<1>2. R \subseteq WizardTags \cup {"noisy"}
  <2>1. R \subseteq Questions(Here(Unasked), set)
      BY Answers
  <2>2. Questions(Here(Unasked), set) \subseteq WizardTags \cup {"noisy"}
      BY <1>0 DEF Questions, WizardTags
  <2> QED
      BY <2>1, <2>2
<1>3. M \subseteq Places(Here(options))
    BY MeantMeans
<1>4. Promised(set, R) = Cardinality(M)
        - (IF R \ {"noisy"} = {} THEN 0 ELSE Count(Here(options), set, CHOOSE q \in R \ {"noisy"} : TRUE))
  <2>1. sections_rule_cnt(Here(options), set) = Sum(Here(options), M)
      BY <1>1 DEF sections_rule_cnt
  <2>2. Sum(Here(options), M) = Cardinality(M) /\ Cardinality(M) \in Nat
      BY <1>0, <1>3, PlacesFinite
  <2> HIDE DEF M, R
  <2> QED
      BY <1>0, <2>1, <2>2 DEF Promised
<1>5. ASSUME NEW x \in Places(Here(options))
      PROVE  At(Here(options), x) \in Wanted <=>
                x \in M /\ At(Here(options), x).tags \cap R \cap WizardTags = {}
  <2> DEFINE d == At(Here(options), x)
  <2>1. d \in Documents /\ d.format /\ ~ExpandUnset(d) /\ d.status \in Statuses
      BY <1>0, PlaceFacts
  <2>2. /\ Key(Here(options), d) \notin Listing => Key(Here(options), d) = d.status
        /\ target \cap Listing = {} /\ "*" \notin target
      BY <1>1, <2>1, KeyMeans DEF Listing
  <2>3. d.status \in target => ~Disabled(d.status)
      BY <1>1 DEF Disabled
  <2>4. d \in Wanted <=>
              /\ Key(Here(options), d) \notin Listing /\ d.level >= m
              /\ "*" \in target \/ d.status \in target
              /\ ~Disabled(d.status) /\ d.tags \cap R \cap WizardTags = {}
      BY <2>1, WantedMeans
  <2>5. x \in M <=> Key(Here(options), d) \in target /\ d.level >= m
      BY MeantMeans
  <2> HIDE DEF d, M, target, m, R
  <2>6. d \in Wanted <=> x \in M /\ d.tags \cap R \cap WizardTags = {}
      BY <2>2, <2>3, <2>4, <2>5
  <2> QED
      BY <2>6 DEF d
<1>6. Spots(tree, {Root}, Wanted) = {x \in Places(Here(options)) : At(Here(options), x) \in Wanted}
    BY PlacesAreSpots
<1>7. CASE R \ {"noisy"} = {}
  <2>1. R \cap WizardTags = {}
      BY <1>7 DEF WizardTags
  <2>2. \A x : x \in Spots(tree, {Root}, Wanted) <=> x \in M
    <3> HIDE DEF M, R
    <3> QED
        BY <1>3, <1>5, <1>6, <2>1
  <2>3. Spots(tree, {Root}, Wanted) = M
    <3> HIDE DEF M
    <3> QED
        BY <2>2, Zenon
  <2>4. Cardinality(M) \in Nat
      BY <1>0, <1>3, PlacesFinite
  <2> HIDE DEF M, R, set
  <2> QED
      BY <1>4, <1>7, <2>3, <2>4 DEF R, set
<1>8. CASE R \ {"noisy"} # {}
  <2>1. R \subseteq {"noisy", "sysmon", "detection.emerging_threats",
                     "detection.threat_hunting", "deprecated", "unsupported"}
      BY <1>2 DEF WizardTags
  <2>2. PICK q \in R : R \ {"noisy"} = {q} /\ q # "noisy" /\ q = CHOOSE r \in R \ {"noisy"} : TRUE
      BY <1>8, <2>1, OneRefused
  <2>3. q \in WizardTags /\ R \cap WizardTags = {q}
      BY <1>2, <2>2 DEF WizardTags
  <2>4. PICK X : X = Tagged(options, M, q)
      OBVIOUS
  <2>5. Count(Here(options), set, q) = Cardinality(X)
    <3>1. Count(Here(options), set, q)
             = Cardinality(Tagged(options, Meant(Here(options), Keys(set), min_level(set)), q))
        BY <1>0, <2>3, CountIs
    <3> QED
        BY <1>1, <2>4, <3>1
  <2>6. \A x \in M : Key(Here(options), At(Here(options), x)) \notin Listing
      BY <1>1, MeantMeans DEF Listing
  <2>7. \A x : x \in Spots(tree, {Root}, Wanted) <=> x \in M \ X
    <3> HIDE DEF M, R
    <3> QED
        BY <1>3, <1>5, <1>6, <2>3, <2>4, <2>6 DEF Tagged
  <2> HIDE DEF M
  <2>8. Spots(tree, {Root}, Wanted) = M \ X
      BY <2>7, Zenon
  <2>9. Cardinality(M \ X) = Cardinality(M) - Cardinality(X) /\ Cardinality(M) \in Nat /\ Cardinality(X) \in Nat
      BY <1>0, <1>3, <2>4, Subtracted DEF Tagged
  <2> HIDE DEF R, set
  <2> QED
      BY <1>4, <1>8, <2>2, <2>5, <2>8, <2>9 DEF R, set
<1> QED
    BY <1>7, <1>8

LEMMA AllRules ==
    ASSUME Walk, ByAnswers, WellFormed, options.set \in {4, 5}, Cardinality(options.refused \ {"noisy"}) <= 1
    PROVE  Cardinality(Spots(tree, {Root}, Wanted)) = Promised(options.set, options.refused)
<1> DEFINE set == options.set
           R == options.refused
           m == min_level(set)
           M == Meant(Here(options), Statuses, m)
           N == Meant(Here(options), {"noisy"}, m)
           MN == Meant(Here(options), Keys(set) \ {"excluded"}, m)
<1>0. LoaderTypeOK /\ ~(set <= 3)
    BY DEF Walk
<1>1. /\ target_status(set) = {"*"} /\ Keys(set) = Statuses \cup Listing
      /\ Keys(set) \ {"excluded"} = Statuses \cup {"noisy"} /\ Statuses \cap Listing = {}
    BY DEF target_status, Keys, Listing, Statuses
<1>2. R \subseteq {"noisy", "sysmon", "deprecated", "unsupported"}
  <2>1. R \subseteq Questions(Here(Unasked), set)
      BY Answers
  <2>2. Questions(Here(Unasked), set) \subseteq {"noisy", "sysmon", "deprecated", "unsupported"}
      BY <1>0 DEF Questions
  <2> QED
      BY <2>1, <2>2
<1>3. /\ M \subseteq Places(Here(options)) /\ N \subseteq Places(Here(options)) /\ MN \subseteq Places(Here(options))
      /\ MN = M \cup N /\ M \cap N = {}
  <2>1. \A x : x \in MN <=> x \in M \cup N
      BY <1>1, MeantMeans
  <2>2. \A x : ~(x \in M /\ x \in N)
      BY <1>1, MeantMeans DEF Listing
  <2>3. M \subseteq Places(Here(options)) /\ N \subseteq Places(Here(options)) /\ MN \subseteq Places(Here(options))
      BY MeantMeans
  <2> HIDE DEF M, N, MN
  <2> QED
      BY <2>1, <2>2, <2>3
<1>4. Promised(set, R) = Cardinality(M)
        - (IF R \ {"noisy"} = {} THEN 0 ELSE Count(Here(options), set, CHOOSE q \in R \ {"noisy"} : TRUE))
  <2>1. sections_rule_cnt(Here(options), set) = Sum(Here(options), MN)
        /\ exclude_noisy_cnt(Here(options), set, "noisy") = Sum(Here(options), N)
      BY Zenon DEF sections_rule_cnt, exclude_noisy_cnt
  <2> HIDE DEF M, N, MN, R, set
  <2>2. /\ Sum(Here(options), MN) = Cardinality(MN) /\ Sum(Here(options), N) = Cardinality(N)
        /\ IsFiniteSet(M) /\ IsFiniteSet(N) /\ Cardinality(M) \in Nat /\ Cardinality(N) \in Nat
      BY <1>0, <1>3, PlacesFinite
  <2>3. Cardinality(M \cup N) = Cardinality(M) + Cardinality(N) - Cardinality(M \cap N)
      BY <2>2, FS_Union
  <2>4. Cardinality(M \cap N) = 0
      BY <1>3, FS_EmptySet
  <2>5. Cardinality(MN) = Cardinality(M) + Cardinality(N)
      BY <1>3, <2>2, <2>3, <2>4
  <2>6. sections_rule_cnt(Here(options), set) - exclude_noisy_cnt(Here(options), set, "noisy") = Cardinality(M)
      BY <2>1, <2>2, <2>5
  <2> QED
      BY <1>0, <2>6 DEF Promised
<1>5. ASSUME NEW x \in M PROVE Disabled(At(Here(options), x).status) <=> At(Here(options), x).status \in R
  <2> DEFINE d == At(Here(options), x)
  <2>1. x \in Places(Here(options)) /\ Key(Here(options), d) \in Statuses /\ d.level >= m
      BY MeantMeans
  <2>2. d.status \in Statuses
      BY <1>0, <2>1, PlaceFacts
  <2>3. Key(Here(options), d) = d.status
      BY <1>1, <2>1, <2>2, KeyMeans
  <2>4. ASSUME d.status \in {"deprecated", "unsupported"}
        PROVE  d.status \in Questions(Here(Unasked), set)
    <3>1. PICK q \in {"deprecated", "unsupported"} : q = d.status
        BY <2>4
    <3>2. x \in Meant(Here(options), {q}, min_level(options.set))
        BY <2>1, <2>3, <3>1, MeantMeans
    <3> QED
        BY <3>1, <3>2, Asked
  <2>5. /\ options.enable_deprecated <=> "deprecated" \in Questions(Here(Unasked), set) \ R
        /\ options.enable_unsupported <=> "unsupported" \in Questions(Here(Unasked), set) \ R
      BY Answers
  <2> HIDE DEF d, R, set
  <2>6. d.status \in R => d.status \in {"deprecated", "unsupported"}
      BY <1>2, <2>2 DEF Statuses
  <2>7. Disabled(d.status) <=> d.status \in R
      BY <2>4, <2>5, <2>6 DEF Disabled
  <2> QED
      BY <2>7 DEF d
<1>6. ASSUME NEW x \in Places(Here(options))
      PROVE  At(Here(options), x) \in Wanted <=>
                /\ x \in M /\ At(Here(options), x).status \notin R
                /\ At(Here(options), x).tags \cap R \cap WizardTags = {}
  <2> DEFINE d == At(Here(options), x)
  <2>1. d \in Documents /\ d.format /\ ~ExpandUnset(d) /\ d.status \in Statuses
      BY <1>0, PlaceFacts
  <2>2. Key(Here(options), d) \in Statuses \cup Listing
      BY <2>1, KeyMeans
  <2>3. d \in Wanted <=>
              /\ Key(Here(options), d) \notin Listing /\ d.level >= m
              /\ "*" \in {"*"} \/ d.status \in {"*"}
              /\ ~Disabled(d.status) /\ d.tags \cap R \cap WizardTags = {}
      BY <1>1, <2>1, WantedMeans
  <2>4. x \in M <=> Key(Here(options), d) \in Statuses /\ d.level >= m
      BY MeantMeans
  <2>5. x \in M => (Disabled(d.status) <=> d.status \in R)
      BY <1>5
  <2> HIDE DEF d, M, m, R
  <2>6. d \in Wanted <=> x \in M /\ d.status \notin R /\ d.tags \cap R \cap WizardTags = {}
      BY <1>1, <2>2, <2>3, <2>4, <2>5
  <2> QED
      BY <2>6 DEF d
<1>7. Spots(tree, {Root}, Wanted) = {x \in Places(Here(options)) : At(Here(options), x) \in Wanted}
    BY PlacesAreSpots
<1>8. \A x \in M : /\ At(Here(options), x).status \in Statuses
                   /\ Key(Here(options), At(Here(options), x)) = At(Here(options), x).status
                   /\ At(Here(options), x).level >= m
  <2> SUFFICES ASSUME NEW x \in M
               PROVE  /\ At(Here(options), x).status \in Statuses
                      /\ Key(Here(options), At(Here(options), x)) = At(Here(options), x).status
                      /\ At(Here(options), x).level >= m
      OBVIOUS
  <2>1. /\ x \in Places(Here(options)) /\ Key(Here(options), At(Here(options), x)) \in Statuses
        /\ At(Here(options), x).level >= m
      BY MeantMeans
  <2>2. At(Here(options), x).status \in Statuses
      BY <1>0, <2>1, PlaceFacts
  <2> QED
      BY <1>1, <2>1, <2>2, KeyMeans
<1>9. CASE R \ {"noisy"} = {}
  <2>1. R \cap WizardTags = {} /\ R \cap Statuses = {}
      BY <1>9 DEF WizardTags, Statuses
  <2>2. \A x : x \in Spots(tree, {Root}, Wanted) <=> x \in M
    <3> HIDE DEF M, R
    <3> QED
        BY <1>3, <1>6, <1>7, <1>8, <2>1
  <2>3. Spots(tree, {Root}, Wanted) = M
    <3> HIDE DEF M
    <3> QED
        BY <2>2, Zenon
  <2>4. Cardinality(M) \in Nat
      BY <1>0, <1>3, PlacesFinite
  <2> HIDE DEF M, R, set
  <2> QED
      BY <1>4, <1>9, <2>3, <2>4 DEF R, set
<1>10. CASE R \ {"noisy"} # {}
  <2>1. R \subseteq {"noisy", "sysmon", "detection.emerging_threats",
                     "detection.threat_hunting", "deprecated", "unsupported"}
      BY <1>2
  <2>2. PICK q \in R : R \ {"noisy"} = {q} /\ q # "noisy" /\ q = CHOOSE r \in R \ {"noisy"} : TRUE
      BY <1>10, <2>1, OneRefused
  <2>3. PICK X : X = IF q \in WizardTags THEN Tagged(options, Meant(Here(options), Keys(set), m), q)
                     ELSE Meant(Here(options), {q}, m)
      OBVIOUS
  <2>4. Count(Here(options), set, q) = Cardinality(X)
      BY <1>0, <2>3, CountIs
  <2>5. /\ q \in WizardTags => R \cap WizardTags = {q} /\ R \cap Statuses = {}
        /\ q \notin WizardTags => R \cap WizardTags = {} /\ R \cap Statuses = {q}
      BY <1>2, <2>2 DEF WizardTags, Statuses
  <2>6. X \subseteq M /\ \A x \in M :
            x \in X <=> \/ q \in WizardTags /\ q \in At(Here(options), x).tags
                        \/ q \notin WizardTags /\ At(Here(options), x).status = q
    <3>1. CASE q \in WizardTags
      <4>1. X = Tagged(options, Meant(Here(options), Keys(set), m), q)
          BY <2>3, <3>1
      <4>2. \A x : x \in X <=> x \in M /\ q \in At(Here(options), x).tags
          BY <1>1, <4>1, MeantMeans DEF Tagged
      <4> HIDE DEF M
      <4> QED
          BY <3>1, <4>2
    <3>2. CASE q \notin WizardTags
      <4>1. X = Meant(Here(options), {q}, m) /\ q \in Statuses
          BY <2>3, <2>5, <3>2
      <4>2. \A x : x \in X <=> x \in M /\ At(Here(options), x).status = q
          BY <1>8, <4>1, MeantMeans
      <4> HIDE DEF M
      <4> QED
          BY <3>2, <4>2
    <3> QED
        BY <3>1, <3>2
  <2>7. \A x : x \in Spots(tree, {Root}, Wanted) <=> x \in M \ X
    <3> HIDE DEF M, R
    <3> QED
        BY <1>3, <1>6, <1>7, <1>8, <2>5, <2>6
  <2> HIDE DEF M
  <2>8. Spots(tree, {Root}, Wanted) = M \ X
      BY <2>7, Zenon
  <2>9. Cardinality(M \ X) = Cardinality(M) - Cardinality(X) /\ Cardinality(M) \in Nat /\ Cardinality(X) \in Nat
      BY <1>0, <1>3, <2>6, Subtracted
  <2> HIDE DEF R, set
  <2> QED
      BY <1>4, <1>10, <2>2, <2>4, <2>8, <2>9 DEF R, set
<1> QED
    BY <1>9, <1>10

LEMMA PromiseKept == ASSUME Walk PROVE WizardPromise
<1> SUFFICES ASSUME phase = "create", ByAnswers, WellFormed, Cardinality(options.refused \ {"noisy"}) <= 1
             PROVE  Cardinality(PlainFiles) = Promised(options.set, options.refused)
    BY Zenon DEF WizardPromise, Promised, Here
<1>1. Number(files, Quiet) = Cardinality(Spots(tree, {Root}, Wanted))
    BY WalkEnds
<1>2. PlainFiles = {i \in DOMAIN files : files[i] \in Quiet}
  <2>1. \A i \in DOMAIN files : files[i] \in Documents
      BY WalkFacts
  <2> QED
      BY <2>1 DEF PlainFiles, Quiet
<1>3. options.set \in 1..5
    BY Answers DEF Sets
<1>4. Cardinality(Spots(tree, {Root}, Wanted)) = Promised(options.set, options.refused)
    BY <1>3, CoreRules, AllRules
<1> QED
    BY <1>1, <1>2, <1>4 DEF Number

\* Outside of the loader the walk stands still, and has ended.
LEMMA WalkStays ==
    BaseInv /\ Walk /\ [Next]_vars => Walk'
<1> SUFFICES ASSUME Walk, LoaderTypeOK', [Next]_vars PROVE Walk'
    BY BaseStep DEF BaseInv
<1>1. CASE Load
    BY <1>1, WalkStep DEF Load
<1>2. ASSUME UNCHANGED loading, phase \notin {"read", "failed"} \/ phase' = phase PROVE Walk'
  <2>1. Wanted' = Wanted /\ Quiet' = Quiet
      BY <1>2, SameWanted DEF loading
  <2> QED
      BY <1>2, <2>1 DEF Walk, loading, reading, Number
<1>3. CASE UNCHANGED vars
    BY <1>2, <1>3 DEF vars, loaderVars, loading
<1>4. CASE CreateRules \/ Merge \/ Merged \/ ParseTemporal \/ Panic \/ Assembled
           \/ (\E e \in Records : Scan(e)) \/ Judge
    BY <1>2, <1>4 DEF CreateRules, Merge, Merged, ParseTemporal, Panic, Assembled, Scan, Judge
<1> QED
    BY <1>1, <1>3, <1>4 DEF Next

\* The number in the wizard's menu, less that of the question refused, is loaded.
THEOREM WizardThm == Spec => []WizardPromise
<1>1. Init => Walk
    BY InitLoads, WalkInit
<1> QED
    BY <1>1, BaseInit, BaseStep, WalkStays, PromiseKept, PTL DEF Spec
=============================================================================
