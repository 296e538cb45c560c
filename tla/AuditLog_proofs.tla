-------------------------- MODULE AuditLog_proofs --------------------------
(***************************************************************************)
(* Proofs about AuditLog, for any number of appends, restarts, failures    *)
(* and edits.  The inductive invariant IndInv ties the hash in memory to   *)
(* the last line of the file as long as nothing has gone wrong.            *)
(***************************************************************************)
EXTENDS AuditLog, SequenceTheorems, WellFoundedInduction, TLAPS

-----------------------------------------------------------------------------
(* Lemmas about entries and files.                                            *)

LEMMA RecordType ==
    ASSUME NEW h \in Hash, NEW p \in Payload
    PROVE  /\ Record(h, p) \in Entry
           /\ Record(h, p) # Junk
           /\ Record(h, p).prev = h /\ Record(h, p).payload = p
           /\ Record(h, p).hash = EntryHash(h, p)
<1>1. EntryHash(h, p) \in Hash
    BY AppendProperties DEF EntryHash, Hash
<1>2. p # 0 /\ p \in 0..MaxAppends
    BY AuditAssumption DEF Payload
<1> QED
    BY <1>1, <1>2 DEF Record, Entry, Junk

LEMMA JunkType == Junk \in Entry
<1>1. GENESIS \in Hash
    BY EmptySeq DEF GENESIS, Hash
<1> QED
    BY <1>1, AuditAssumption DEF Junk, Entry

\* A record chained to the last hash of a sound file leaves it sound.
LEMMA ChainGrows ==
    ASSUME NEW s \in Seq(Entry), Chained(s), NEW p \in Payload,
           NEW h \in Hash, h = LastHash(s)
    PROVE  /\ Chained(Append(s, Record(h, p)))
           /\ LastHash(Append(s, Record(h, p))) = Record(h, p).hash
<1> DEFINE e == Record(h, p)
           t == Append(s, e)
<1>1. /\ e \in Entry /\ e # Junk /\ e.prev = h
      /\ e.hash = EntryHash(e.prev, e.payload)
    BY RecordType
<1>2. /\ t \in Seq(Entry) /\ t # <<>> /\ Len(t) = Len(s) + 1 /\ Len(s) \in Nat
      /\ \A i \in 1..Len(s) : t[i] = s[i]
      /\ t[Len(s) + 1] = e
    BY <1>1, AppendProperties
<1> HIDE DEF e, t
<1>3. LastHash(t) = e.hash
    BY <1>2 DEF LastHash
<1>4. ASSUME NEW i \in 1..Len(t)
      PROVE  /\ t[i] # Junk
             /\ t[i].prev = IF i = 1 THEN GENESIS ELSE t[i - 1].hash
             /\ t[i].hash = EntryHash(t[i].prev, t[i].payload)
  <2>1. CASE i \in 1..Len(s)
    <3>1. t[i] = s[i] /\ (i # 1 => t[i - 1] = s[i - 1])
        BY <1>2, <2>1
    <3> QED
        BY <2>1, <3>1 DEF Chained
  <2>2. CASE i = Len(s) + 1
    <3>1. CASE s = <<>>
        BY <1>1, <1>2, <2>2, <3>1 DEF LastHash
    <3>2. CASE s # <<>>
      <4>1. Len(s) # 0
          BY <3>2, EmptySeq
      <4>2. Len(s) \in 1..Len(s) /\ i # 1 /\ i - 1 = Len(s)
          BY <4>1, <1>2, <2>2
      <4>3. t[i - 1] = s[Len(s)]
          BY <1>2, <4>2
      <4> QED
          BY <1>1, <1>2, <2>2, <3>2, <4>2, <4>3 DEF LastHash
    <3> QED
        BY <3>1, <3>2
  <2> QED
      BY <1>2, <2>1, <2>2
<1>5. Chained(t)
    BY <1>4 DEF Chained
<1> QED
    BY <1>3, <1>5 DEF e, t

\* A longer file is sound only if the shorter one was.
LEMMA ChainPrefix ==
    ASSUME NEW s \in Seq(Entry), NEW e \in Entry, Chained(Append(s, e))
    PROVE  Chained(s)
<1> DEFINE t == Append(s, e)
<1>1. /\ Len(t) = Len(s) + 1 /\ Len(s) \in Nat
      /\ \A i \in 1..Len(s) : t[i] = s[i]
    BY AppendProperties
<1>2. Chained(t)
    OBVIOUS
<1> HIDE DEF t
<1>3. ASSUME NEW i \in 1..Len(s)
      PROVE  /\ s[i] # Junk
             /\ s[i].prev = IF i = 1 THEN GENESIS ELSE s[i - 1].hash
             /\ s[i].hash = EntryHash(s[i].prev, s[i].payload)
  <2>1. i \in 1..Len(t) /\ t[i] = s[i] /\ (i # 1 => t[i - 1] = s[i - 1])
      BY <1>1
  <2> QED
      BY <1>2, <2>1 DEF Chained
<1> QED
    BY <1>3 DEF Chained

\* What _load finds in a sound file is the hash of its last line.
LEMMA LoadSound ==
    ASSUME NEW s \in Seq(Entry), Chained(s), NEW h \in LoadedHash(s)
    PROVE  h = LastHash(s)
<1>1. CASE s = <<>>
    BY <1>1 DEF LoadedHash, LastParsed, LastHash
<1>2. CASE s # <<>>
  <2>1. Len(s) \in Nat /\ Len(s) # 0
      BY <1>2, EmptySeq, LenProperties
  <2>2. Len(s) \in 1..Len(s) /\ \A i \in 1..Len(s) : s[i] # Junk
      BY <2>1 DEF Chained
  <2>3. LastParsed(s) = {Len(s)}
      BY <2>1, <2>2 DEF LastParsed
  <2> QED
      BY <1>2, <2>3 DEF LoadedHash, LastHash
<1> QED
    BY <1>1, <1>2

LEMMA LoadType ==
    ASSUME NEW s \in Seq(Entry)
    PROVE  LoadedHash(s) \subseteq Hash
<1>1. GENESIS \in Hash
    BY EmptySeq DEF GENESIS, Hash
<1>2. ASSUME NEW i \in LastParsed(s) PROVE s[i].hash \in Hash
  <2>1. i \in 1..Len(s)
      BY DEF LastParsed
  <2>2. s[i] \in Entry
      BY <2>1, ElementOfSeq
  <2> QED
      BY <2>2 DEF Entry
<1> QED
    BY <1>1, <1>2 DEF LoadedHash

-----------------------------------------------------------------------------
(* The types.                                                                 *)

LEMMA VisibleType ==
    ASSUME TypeOK
    PROVE  Visible \in Seq(Entry) /\ Len(Visible) \in Nat
    BY ConcatProperties, LenProperties DEF TypeOK, Visible

LEMMA TypeStep == TypeOK /\ Writing /\ [Next]_vars => TypeOK'
<1> SUFFICES ASSUME TypeOK, Writing, [Next]_vars PROVE TypeOK'
    OBVIOUS
<1>0. /\ Junk \in Entry /\ <<>> \in Seq(Entry) /\ Len(<<>>) = 0
      /\ \A e \in Entry : <<e>> \in Seq(Entry) /\ Len(<<e>>) = 1
    BY JunkType, EmptySeq
<1> USE AuditAssumption DEF TypeOK, disk, memory, writer, bounds
<1>1. CASE Begin
  <2>1. made + 1 \in Payload /\ made + 1 \in 0..MaxAppends
      BY <1>1 DEF Begin, Payload
  <2>2. entry' \in Entry
      BY <1>1, <2>1, RecordType DEF Begin
  <2>3. acked' \subseteq 1..made'
      BY <1>1, <2>1 DEF Begin
  <2> QED
      BY <1>1, <2>1, <2>2, <2>3 DEF Begin
<1>2. CASE WriteSome
  <2>1. \E piece \in Entry : rest' = <<piece>>
      BY <1>0, <1>2 DEF WriteSome
  <2>2. rest' \in Seq(Entry) /\ Len(rest') <= 1
      BY <1>0, <2>1
  <2> QED
      BY <1>2, <2>2 DEF WriteSome
<1>3. CASE Finish
  <2>1. lines' \in Seq(Entry)
      BY <1>0, <1>3, AppendProperties DEF Finish, Written
  <2>2. acked' \subseteq 1..made
      BY <1>3 DEF Finish, Writing
  <2>4. lastHash' \in Hash
      BY <1>3 DEF Finish, Entry
  <2>3. rest' \in Seq(Entry) /\ Len(rest') <= 1
      BY <1>0, <1>3, EmptySeq DEF Finish
  <2> QED
      BY <1>3, <2>1, <2>2, <2>3, <2>4 DEF Finish
<1>4. CASE WriteFails
    BY <1>4 DEF WriteFails
<1>5. CASE Crash
  <2>1. Append(lines, Written) \in Seq(Entry)
    <3>1. Written \in Entry
        BY <1>0 DEF Written
    <3> QED
        BY <3>1, AppendProperties
  <2>5. \/ lines' = lines /\ rest' = rest
        \/ lines' = Append(lines, Written) /\ rest' = <<>>
      BY <1>5 DEF Crash
  <2>2. lines' \in Seq(Entry)
      BY <2>1, <2>5
  <2>3. rest' \in Seq(Entry) /\ Len(rest') <= 1
    <3>1. CASE rest' = rest
        BY <3>1
    <3>2. CASE rest' = <<>>
        BY <1>0, <3>2
    <3> QED
        BY <2>5, <3>1, <3>2
  <2>4. mishaps' \subseteq {"torn", "unread", "edited"}
    <3>1. mishaps' = mishaps \/ mishaps' = mishaps \cup {} \/ mishaps' = mishaps \cup {"torn"}
        BY <1>5, Zenon DEF Crash
    <3> QED
        BY <3>1
  <2>6. boots' \in 0..MaxBoots
      BY <1>5 DEF Crash
  <2> QED
      BY <1>5, <2>2, <2>3, <2>4, <2>6 DEF Crash
<1>6. CASE Boot
    BY <1>6, VisibleType, LoadType DEF Boot
<1>7. CASE BootUnread
  <2>1. lastHash' \in Hash
      BY <1>7, EmptySeq DEF BootUnread, GENESIS, Hash
  <2> QED
      BY <1>7, <2>1 DEF BootUnread
<1>8. CASE Edit
  <2>1. ASSUME NEW i \in 1..(Len(lines) - 1)
        PROVE  Without(i) \in Seq(Entry)
    <3>1. /\ SubSeq(lines, 1, i - 1) \in Seq(Entry)
          /\ SubSeq(lines, i + 1, Len(lines)) \in Seq(Entry)
        BY SubSeqProperties, ElementOfSeq, LenProperties
    <3> QED
        BY <3>1, ConcatProperties DEF Without
  <2>2. ASSUME NEW i \in 1..Len(lines)
        PROVE  Forged(i) \in Seq(Entry)
    <3>1. lines[i] \in Entry
        BY ElementOfSeq
    <3>0. ASSUME NEW e \in Entry PROVE [e EXCEPT !.payload = 0] \in Entry
      <4>1. 0 \in 0..MaxAppends
          OBVIOUS
      <4> QED
          BY <4>1, Zenon DEF Entry
    <3>2. [lines[i] EXCEPT !.payload = 0] \in Entry
        BY <3>0, <3>1
    <3>3. [lines EXCEPT ![i].payload = 0] = [lines EXCEPT ![i] = [lines[i] EXCEPT !.payload = 0]]
        OBVIOUS
    <3> QED
        BY <3>2, <3>3, ExceptSeq DEF Forged
  <2>3. lines' \in Seq(Entry)
      BY <1>8, <2>1, <2>2 DEF Edit
  <2>4. /\ edits' \in 0..MaxEdits
        /\ mishaps' \subseteq {"torn", "unread", "edited"}
        /\ UNCHANGED <<rest, lastHash, count, pc, entry, up, made, acked, boots, faults>>
      BY <1>8 DEF Edit
  <2> QED
      BY <2>3, <2>4
<1>9. CASE UNCHANGED vars
    BY <1>9 DEF vars
<1> QED
    BY <1>1, <1>2, <1>3, <1>4, <1>5, <1>6, <1>7, <1>8, <1>9 DEF Next, Server

-----------------------------------------------------------------------------
(* Memory and the file stay in step.                                          *)

\* The line that Finish or a late crash leaves is the record, if nothing is torn.
LEMMA WrittenSound ==
    ASSUME TypeOK, Writing, Clean, "torn" \notin mishaps, pc # "idle"
    PROVE  /\ Written = Record(lastHash, made) /\ made \in Payload
           /\ Written \in Entry /\ Written # Junk /\ Written.payload = made
<1>1. made \in Payload
    BY AuditAssumption DEF TypeOK, Writing, Payload
<1>2. Written = entry
    BY DEF Clean, Written
<1>3. entry = Record(lastHash, made)
    BY DEF Writing
<1> QED
    BY <1>1, <1>2, <1>3, RecordType DEF TypeOK

\* One more line loses no payload.
LEMMA PayloadsGrow ==
    ASSUME NEW s \in Seq(Entry), NEW e \in Entry
    PROVE  /\ Payloads(s) \subseteq Payloads(Append(s, e))
           /\ e # Junk => e.payload \in Payloads(Append(s, e))
<1> DEFINE t == Append(s, e)
<1>1. /\ Len(t) = Len(s) + 1 /\ Len(s) \in Nat
      /\ \A i \in 1..Len(s) : t[i] = s[i]
      /\ t[Len(s) + 1] = e
    BY AppendProperties
<1> HIDE DEF t
<1>2. ASSUME NEW i \in 1..Len(s), s[i] # Junk PROVE s[i].payload \in Payloads(t)
  <2>1. i \in 1..Len(t) /\ t[i] = s[i]
      BY <1>1
  <2> QED
      BY <1>2, <2>1 DEF Payloads
<1>3. ASSUME e # Junk PROVE e.payload \in Payloads(t)
  <2>1. Len(s) + 1 \in 1..Len(t)
      BY <1>1
  <2> QED
      BY <1>1, <1>3, <2>1 DEF Payloads
<1>4. Payloads(s) \subseteq Payloads(t)
    BY <1>2 DEF Payloads
<1> QED
    BY <1>3, <1>4 DEF t

LEMMA StepInv ==
    IndInv /\ [Next]_vars => Writing' /\ Clean' /\ InStep' /\ AckedReadable'
<1> SUFFICES ASSUME IndInv, [Next]_vars
             PROVE  Writing' /\ Clean' /\ InStep' /\ AckedReadable'
    OBVIOUS
<1>0. TypeOK /\ Writing /\ Clean /\ InStep /\ AckedReadable
    BY DEF IndInv
<1> USE DEF disk, memory, writer, bounds
<1>1. CASE Begin
  <2>1. Writing'
      BY <1>0, <1>1, AuditAssumption DEF Begin, Writing, TypeOK
  <2>2. Clean'
      BY <1>0, <1>1 DEF Begin, Clean
  <2>3. InStep' /\ AckedReadable'
      BY <1>0, <1>1 DEF Begin, InStep, AckedReadable
  <2> QED
      BY <2>1, <2>2, <2>3
<1>2. CASE WriteSome
  <2>1. Writing'
      BY <1>0, <1>2 DEF WriteSome, Writing
  <2>2. Clean'
      BY <1>0, <1>2 DEF WriteSome, Clean
  <2>3. InStep' /\ AckedReadable'
      BY <1>0, <1>2 DEF WriteSome, InStep, AckedReadable
  <2> QED
      BY <2>1, <2>2, <2>3
<1>3. CASE Finish
  <2>1. lines' = Append(lines, Written) /\ mishaps' = mishaps /\ pc # "idle"
      BY <1>3 DEF Finish
  <2>2. Writing' /\ Clean'
      BY <1>3 DEF Finish, Writing, Clean
  <2>3. ASSUME mishaps = {} PROVE Chained(lines') /\ lastHash' = LastHash(lines')
    <3>1. up
        BY <1>3 DEF Finish
    <3>2. Chained(lines) /\ lastHash = LastHash(lines) /\ count = Len(lines)
        BY <1>0, <2>3, <3>1 DEF InStep
    <3>3. Written = Record(lastHash, made) /\ made \in Payload
        BY <1>0, <2>1, <2>3, WrittenSound
    <3>4. lines \in Seq(Entry) /\ lastHash \in Hash
        BY <1>0 DEF TypeOK
    <3>5. Chained(lines') /\ LastHash(lines') = Record(lastHash, made).hash
        BY <2>1, <3>2, <3>3, <3>4, ChainGrows
    <3>6. lastHash' = Record(lastHash, made).hash
        BY <1>0, <1>3, <2>1 DEF Finish, Writing
    <3> QED
        BY <3>5, <3>6
  <2>4. ASSUME mishaps = {} PROVE count' = Len(lines')
    <3>1. count = Len(lines) /\ count' = count + 1
        BY <1>0, <1>3, <2>4 DEF InStep, Finish
    <3>2. Written \in Entry /\ lines \in Seq(Entry)
        BY <1>0, <2>1, <2>4, WrittenSound DEF TypeOK
    <3> QED
        BY <2>1, <3>1, <3>2, AppendProperties
  <2>5. InStep'
      BY <2>1, <2>3, <2>4 DEF InStep
  <2>6. AckedReadable'
    <3> SUFFICES ASSUME mishaps \subseteq {"unread"} PROVE acked' \subseteq Payloads(lines')
        BY <2>1 DEF AckedReadable
    <3>1. Written \in Entry /\ Written # Junk /\ Written.payload = made
        BY <1>0, <2>1, WrittenSound
    <3>2. lines \in Seq(Entry) /\ acked \subseteq Payloads(lines)
        BY <1>0 DEF TypeOK, AckedReadable
    <3>3. acked' = acked \cup {made}
        BY <1>3 DEF Finish
    <3> QED
        BY <2>1, <3>1, <3>2, <3>3, PayloadsGrow
  <2> QED
      BY <2>2, <2>5, <2>6
<1>4. CASE WriteFails
  <2>1. Writing'
      BY <1>4 DEF WriteFails, Writing
  <2>2. Clean'
      BY <1>0, <1>4 DEF WriteFails, Clean
  <2>3. mishaps \subseteq mishaps'
      BY <1>4 DEF WriteFails
  <2>4. InStep' /\ AckedReadable'
      BY <1>0, <1>4, <2>3 DEF WriteFails, InStep, AckedReadable
  <2> QED
      BY <2>1, <2>2, <2>4
<1>5. CASE Crash
  <2>1. ~ up' /\ pc' = "idle" /\ acked' = acked
      BY <1>5 DEF Crash
  <2>2. Writing'
      BY <2>1 DEF Writing
  <2>3. CASE UNCHANGED <<lines, rest>> /\
             mishaps' = mishaps \cup (IF rest = <<>> THEN {} ELSE {"torn"})
    <3>1. Clean'
        BY <1>0, <2>1, <2>3 DEF Clean
    <3>2. mishaps \subseteq mishaps'
        BY <2>3
    <3>3. InStep' /\ AckedReadable'
        BY <1>0, <2>1, <2>3, <3>2 DEF InStep, AckedReadable
    <3> QED
        BY <2>2, <3>1, <3>3
  <2>4. CASE pc # "idle" /\ lines' = Append(lines, Written) /\ rest' = <<>>
             /\ mishaps' = mishaps
    <3>1. Clean'
        BY <2>1, <2>4 DEF Clean
    <3>2. ASSUME mishaps = {} PROVE Chained(lines')
      <4>1. up
          BY <1>5 DEF Crash
      <4>2. Chained(lines) /\ lastHash = LastHash(lines)
          BY <1>0, <3>2, <4>1 DEF InStep
      <4>3. Written = Record(lastHash, made) /\ made \in Payload
          BY <1>0, <2>4, <3>2, WrittenSound
      <4>4. lines \in Seq(Entry) /\ lastHash \in Hash
          BY <1>0 DEF TypeOK
      <4> QED
          BY <2>4, <4>2, <4>3, <4>4, ChainGrows
    <3>3. InStep'
        BY <2>1, <2>4, <3>2 DEF InStep
    <3>4. AckedReadable'
      <4> SUFFICES ASSUME mishaps \subseteq {"unread"} PROVE acked \subseteq Payloads(lines')
          BY <2>1, <2>4 DEF AckedReadable
      <4>1. Written \in Entry
          BY <1>0, <2>4, WrittenSound
      <4>2. lines \in Seq(Entry) /\ acked \subseteq Payloads(lines)
          BY <1>0 DEF TypeOK, AckedReadable
      <4> QED
          BY <2>4, <4>1, <4>2, PayloadsGrow
    <3> QED
        BY <2>2, <3>1, <3>3, <3>4
  <2>5. \/ UNCHANGED <<lines, rest>> /\
             mishaps' = mishaps \cup (IF rest = <<>> THEN {} ELSE {"torn"})
        \/ pc # "idle" /\ lines' = Append(lines, Written) /\ rest' = <<>>
             /\ mishaps' = mishaps
      BY <1>5 DEF Crash
  <2> QED
      BY <2>3, <2>4, <2>5
<1>6. CASE Boot
  <2>1. pc = "idle" /\ pc' = "idle"
      BY <1>0, <1>6 DEF Boot, Writing
  <2>2. Writing' /\ Clean' /\ AckedReadable'
      BY <1>0, <1>6, <2>1 DEF Boot, Writing, Clean, AckedReadable
  <2>3. ASSUME mishaps = {} PROVE lastHash' = LastHash(lines) /\ count' = Len(lines)
    <3>1. rest = <<>> /\ Chained(lines) /\ lines \in Seq(Entry)
        BY <1>0, <2>1, <2>3 DEF Clean, InStep, TypeOK
    <3>2. Visible = lines
        BY <3>1, ConcatEmptySeq DEF Visible
    <3> QED
        BY <1>6, <3>1, <3>2, LoadSound DEF Boot
  <2>4. InStep'
      BY <1>0, <1>6, <2>3 DEF Boot, InStep
  <2> QED
      BY <2>2, <2>4
<1>7. CASE BootUnread
  <2>1. pc = "idle" /\ pc' = "idle"
      BY <1>0, <1>7 DEF BootUnread, Writing
  <2>2. Writing'
      BY <2>1 DEF Writing
  <2>3. Clean' /\ AckedReadable'
      BY <1>0, <1>7, <2>1 DEF BootUnread, Clean, AckedReadable
  <2>4. ASSUME mishaps' = {}
        PROVE  mishaps = {} /\ lines = <<>> /\ lastHash' = GENESIS /\ count' = 0
    <3>1. mishaps = {} /\ Visible = <<>> /\ lastHash' = GENESIS /\ count' = 0
        BY <1>7, <2>4 DEF BootUnread
    <3>2. rest = <<>> /\ lines \in Seq(Entry)
        BY <1>0, <2>1, <3>1 DEF Clean, TypeOK
    <3>3. Visible = lines
        BY <3>2, ConcatEmptySeq DEF Visible
    <3> QED
        BY <3>1, <3>3
  <2>5. Len(<<>>) = 0
      BY EmptySeq
  <2>6. lines' = lines
      BY <1>7 DEF BootUnread
  <2>7. InStep'
      BY <1>0, <2>4, <2>5, <2>6 DEF InStep, LastHash
  <2> QED
      BY <2>2, <2>3, <2>7
<1>8. CASE Edit
  <2>1. "edited" \in mishaps' /\ mishaps \subseteq mishaps'
        /\ UNCHANGED <<rest, lastHash, pc, entry, up, made>>
      BY <1>8 DEF Edit
  <2>2. InStep' /\ AckedReadable'
      BY <2>1 DEF InStep, AckedReadable
  <2>3. Writing' /\ Clean'
      BY <1>0, <2>1 DEF Writing, Clean
  <2> QED
      BY <2>2, <2>3
<1>9. CASE UNCHANGED vars
  <2>1. Writing' /\ Clean'
      BY <1>0, <1>9 DEF vars, Writing, Clean
  <2>2. InStep' /\ AckedReadable'
      BY <1>0, <1>9 DEF vars, InStep, AckedReadable
  <2> QED
      BY <2>1, <2>2
<1> QED
    BY <1>1, <1>2, <1>3, <1>4, <1>5, <1>6, <1>7, <1>8, <1>9 DEF Next, Server

\* A set of numbers that has one has a least one; so what can be taken from each
\* number to the next holds of all of them.
LEMMA Induction ==
    ASSUME NEW G, 0 \in G, \A n \in Nat : n \in G => n + 1 \in G
    PROVE  Nat \subseteq G
<1> DEFINE R == {ss \in Nat \X Nat : ss[1] < ss[2]}
           T == Nat \ G
<1> SUFFICES ASSUME T # {} PROVE FALSE
    OBVIOUS
<1>1. IsWellFoundedOn(R, Nat)
    BY NatLessThanWellFounded DEF OpToRel
<1>2. \A x, y \in Nat : <<y, x>> \in R <=> y < x
    OBVIOUS
<1>3. \E x \in T : \A y \in T : ~ (<<y, x>> \in R)
  <2> HIDE DEF R
  <2> QED
      BY <1>1, WFMin
<1>4. PICK n \in T : \A m \in T : ~ (m < n)
    BY <1>2, <1>3
<1>5. n - 1 \in Nat /\ n - 1 \notin T
    BY <1>4
<1> QED
    BY <1>4, <1>5

\* In a file that verifies the hash of a line spells the payloads of all the lines
\* up to it.
Spelt(s, i) ==
    /\ Len(s[i].hash) = i
    /\ \A k \in 1..i : s[i].hash[k] = s[k].payload

LEMMA ChainSpells ==
    ASSUME NEW s \in Seq(Entry), Chained(s)
    PROVE  \A i \in 1..Len(s) : Spelt(s, i)
<1> DEFINE G == {n \in Nat : n \in 1..Len(s) => Spelt(s, n)}
<1>1. 0 \in G
    OBVIOUS
<1>2. ASSUME NEW n \in Nat, n \in G, n + 1 \in 1..Len(s) PROVE Spelt(s, n + 1)
  <2> DEFINE e == s[n + 1]
             h == IF n = 0 THEN GENESIS ELSE s[n].hash
  <2>1. e \in Entry /\ e.prev = h /\ e.hash = Append(h, e.payload)
      BY <1>2 DEF Chained, EntryHash
  <2>2. h \in Seq(Nat) /\ e.payload \in Nat
    <3>1. h \in Seq(Payload) /\ e.payload \in 0..MaxAppends
        BY <2>1 DEF Entry, Hash
    <3>2. Payload \subseteq Nat /\ 0..MaxAppends \subseteq Nat
        BY AuditAssumption DEF Payload
    <3> HIDE DEF h, e
    <3>3. h \in Seq(Nat)
        BY <3>1, <3>2, SeqMonotonic
    <3> QED
        BY <3>1, <3>2, <3>3
  <2>3. Len(h) = n /\ \A k \in 1..n : h[k] = s[k].payload
      BY <1>2, EmptySeq DEF Spelt, GENESIS
  <2> HIDE DEF e, h
  <2>4. /\ Len(e.hash) = n + 1 /\ e.hash[n + 1] = e.payload
        /\ \A k \in 1..n : e.hash[k] = h[k]
      BY <2>1, <2>2, <2>3, AppendProperties
  <2> QED
      BY <2>3, <2>4 DEF Spelt, e
<1>3. \A n \in Nat : n \in G => n + 1 \in G
    BY <1>2
<1>4. Nat \subseteq G
  <2> HIDE DEF G
  <2> QED
      BY <1>1, <1>3, Induction
<1> QED
    BY <1>4

-----------------------------------------------------------------------------
(* The theorems.                                                              *)

\* IndInv holds in every reachable state.
THEOREM Inductive == Spec => []IndInv
<1>1. Init => IndInv
  <2> SUFFICES ASSUME Init PROVE IndInv
      OBVIOUS
  <2>1. /\ <<>> \in Seq(Entry) /\ Len(<<>>) = 0 /\ GENESIS \in Hash /\ Junk \in Entry
      BY EmptySeq, JunkType DEF GENESIS, Hash
  <2>2. TypeOK
      BY <2>1, AuditAssumption DEF Init, TypeOK
  <2>3. Writing /\ Clean
      BY DEF Init, Writing, Clean
  <2>4. InStep /\ AckedReadable
      BY <2>1 DEF Init, InStep, AckedReadable, Chained, LastHash
  <2> QED
      BY <2>2, <2>3, <2>4 DEF IndInv
<1>2. IndInv /\ [Next]_vars => IndInv'
    BY TypeStep, StepInv DEF IndInv
<1> QED
    BY <1>1, <1>2, PTL DEF Spec

\* Every variable keeps its type.
THEOREM TypeCorrect == Spec => []TypeOK
    BY Inductive, PTL DEF IndInv

\* Until a piece of a line is left behind, a boot cannot read the file, or
\* somebody edits it, verify() is ok between appends.
THEOREM ChainThm == Spec => []ChainHolds
<1>1. IndInv => ChainHolds
  <2> SUFFICES ASSUME IndInv, mishaps = {}, pc = "idle" PROVE Chained(Visible)
      BY DEF ChainHolds
  <2>1. rest = <<>> /\ Chained(lines) /\ lines \in Seq(Entry)
      BY DEF IndInv, Clean, InStep, TypeOK
  <2> QED
      BY <2>1, ConcatEmptySeq DEF Visible
<1> QED
    BY <1>1, Inductive, PTL

\* Under the same conditions the console counts every line.
THEOREM CountThm == Spec => []CountIsLength
<1>1. IndInv => CountIsLength
    BY DEF IndInv, Clean, InStep, CountIsLength
<1> QED
    BY <1>1, Inductive, PTL

\* An append that has returned is in the file, unless a piece of a line was left
\* behind or somebody edited the file.
THEOREM AckedThm == Spec => []AckedReadable
    BY Inductive, PTL DEF IndInv

\* A file that verifies has, at any place, all the entries up to it that were
\* chained there, and in their order: whatever was removed, changed or cut short,
\* and by whom, there is no file that verify() takes for another.
THEOREM LossThm == Spec => []LossDetected
<1>1. TypeOK => LossDetected
  <2> SUFFICES ASSUME TypeOK, Chained(Visible), NEW i \in 1..Len(Visible)
               PROVE  Spelt(Visible, i)
      BY DEF LossDetected, Spelt
  <2>1. Visible \in Seq(Entry)
      BY VisibleType
  <2> QED
      BY <2>1, ChainSpells
<1> QED
    BY <1>1, TypeCorrect, PTL

\* No step of the server makes a broken log verify again.
THEOREM DamageThm == Spec => DamageStays
<1>1. ASSUME TypeOK, Server, ~ Chained(lines) PROVE ~ Chained(lines')
  <2>1. lines \in Seq(Entry) /\ Written \in Entry
      BY <1>1, JunkType DEF TypeOK, Written
  <2>2. lines' = lines \/ lines' = Append(lines, Written)
      BY <1>1, Zenon DEF Server, Begin, WriteSome, Finish, WriteFails, Crash, Boot, BootUnread, disk
  <2> QED
      BY <1>1, <2>1, <2>2, ChainPrefix
<1>2. TypeOK /\ [Next]_vars => [Server /\ ~ Chained(lines) => ~ Chained(lines')]_vars
    BY <1>1
<1> QED
    BY <1>2, TypeCorrect, PTL DEF Spec, DamageStays

=============================================================================
