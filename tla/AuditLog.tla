------------------------------ MODULE AuditLog ------------------------------
(***************************************************************************)
(* The hash-chained audit log: AuditLog.append under its lock, the file it *)
(* leaves when a write is cut short, _load after a restart, and verify and *)
(* tail, which read the file without the lock.                             *)
(*                                                                         *)
(* SHA-256 is taken to be injective: the hash of an entry is the sequence  *)
(* of the payloads it commits to.  Payloads are numbered: each carries its *)
(* own time stamp.                                                         *)
(***************************************************************************)
EXTENDS Integers, Sequences

CONSTANTS
    MaxAppends,   \* bound: calls of append
    MaxBoots,     \* bound: restarts
    MaxFaults,    \* bound: failed writes and reads
    MaxEdits      \* bound: lines changed or removed behind the server's back

ASSUME AuditAssumption ==
    MaxAppends \in Nat /\ MaxBoots \in Nat /\ MaxFaults \in Nat /\ MaxEdits \in Nat

VARIABLES
    lines,     \* the lines of audit.jsonl that end in a newline
    rest,      \* what follows the last newline: at most one piece of a line
    lastHash,  \* _last_hash
    count,     \* _count
    pc,        \* the append that holds the lock: idle, ready, or partly on disk
    entry,     \* the record it writes
    up,
    made,      \* payloads made so far
    acked,     \* history: payloads whose append has returned
    mishaps,   \* history: torn, unread, edited
    boots, faults, edits

disk   == <<lines, rest>>
memory == <<lastHash, count>>
writer == <<pc, entry>>
bounds == <<boots, faults, edits>>
vars   == <<disk, memory, writer, up, made, acked, mishaps, bounds>>

GENESIS == <<>>
Junk == [payload |-> 0, prev |-> GENESIS, hash |-> GENESIS]   \* no JSON

Payload == 1..MaxAppends
EntryHash(prev, payload) == Append(prev, payload)
Record(prev, payload) ==
    [payload |-> payload, prev |-> prev, hash |-> EntryHash(prev, payload)]

\* Every line a reader of the file sees.
Visible == lines \o rest

Hash == Seq(Payload)
Entry == [payload : 0..MaxAppends, prev : Hash, hash : Hash]

\* Mutant of Chained: prev_hash is not looked at.
ChainedLoose(s) ==
    \A i \in 1..Len(s) : s[i] # Junk /\ s[i].hash = EntryHash(s[i].prev, s[i].payload)

\* verify(): every line parses, has the hash of the line before it as prev_hash,
\* and the hash that follows from its own payload.
Chained(s) ==
    \A i \in 1..Len(s) :
        /\ s[i] # Junk
        /\ s[i].prev = IF i = 1 THEN GENESIS ELSE s[i - 1].hash
        /\ s[i].hash = EntryHash(s[i].prev, s[i].payload)

\* The last line that parses, if there is one: _load goes on from its hash.
LastParsed(s) ==
    {i \in 1..Len(s) : s[i] # Junk /\ \A k \in (i + 1)..Len(s) : s[k] = Junk}
LoadedHash(s) ==
    IF LastParsed(s) = {} THEN {GENESIS} ELSE {s[i].hash : i \in LastParsed(s)}

TypeOK ==
    /\ lines \in Seq(Entry)
    /\ rest \in Seq(Entry) /\ Len(rest) <= 1
    /\ lastHash \in Hash
    /\ count \in Nat
    /\ pc \in {"idle", "ready", "partly", "glued"}
    /\ entry \in Entry
    /\ up \in BOOLEAN
    /\ made \in 0..MaxAppends
    /\ acked \subseteq 1..made
    /\ mishaps \subseteq {"torn", "unread", "edited"}
    /\ boots \in 0..MaxBoots /\ faults \in 0..MaxFaults /\ edits \in 0..MaxEdits

Init ==
    /\ lines = <<>> /\ rest = <<>>
    /\ lastHash = GENESIS /\ count = 0
    /\ pc = "idle" /\ entry = Junk
    /\ up = TRUE
    /\ made = 0 /\ acked = {} /\ mishaps = {}
    /\ boots = 0 /\ faults = 0 /\ edits = 0

-----------------------------------------------------------------------------
(* append *)

\* Take the lock, and chain the new record to _last_hash.
Begin ==
    /\ up /\ pc = "idle" /\ made < MaxAppends
    /\ pc' = "ready"
    /\ made' = made + 1
    /\ entry' = Record(lastHash, made + 1)
    /\ UNCHANGED <<disk, memory, up, acked, mishaps, bounds>>

\* Part of the line is on disk: behind an old piece if there is one.  The part
\* may be all of it but the newline.
WriteSome ==
    /\ up /\ pc = "ready"
    /\ IF rest = <<>>
         THEN /\ pc' = "partly"
              /\ \E piece \in {Junk, entry} : rest' = <<piece>>
         ELSE /\ pc' = "glued"
              /\ rest' = <<Junk>>
    /\ UNCHANGED <<lines, memory, entry, up, made, acked, mishaps, bounds>>

\* What the finished line reads as.
Written == IF pc = "glued" \/ (pc = "ready" /\ rest # <<>>) THEN Junk ELSE entry

\* Mutant of Finish: _last_hash is not moved on.
FinishStale ==
    /\ up /\ pc # "idle"
    /\ pc' = "idle"
    /\ lines' = Append(lines, Written) /\ rest' = <<>>
    /\ count' = count + 1
    /\ acked' = acked \cup {made}
    /\ UNCHANGED <<lastHash, entry, up, made, mishaps, bounds>>

\* The rest of the line and the newline, fsync, and the state in memory.
Finish ==
    /\ up /\ pc # "idle"
    /\ pc' = "idle"
    /\ lines' = Append(lines, Written) /\ rest' = <<>>
    /\ lastHash' = entry.hash
    /\ count' = count + 1
    /\ acked' = acked \cup {made}
    /\ UNCHANGED <<entry, up, made, mishaps, bounds>>

\* Mutant of WriteFails: the error is swallowed and the record returned.
WriteFailsSilently ==
    /\ up /\ pc # "idle" /\ faults < MaxFaults
    /\ pc' = "idle"
    /\ faults' = faults + 1
    /\ acked' = acked \cup {made}
    /\ mishaps' = mishaps \cup (IF rest = <<>> THEN {} ELSE {"torn"})
    /\ UNCHANGED <<disk, memory, entry, up, made, boots, edits>>

\* Opening or writing raises; what is on disk stays, and audit() only logs it.
WriteFails ==
    /\ up /\ pc # "idle" /\ faults < MaxFaults
    /\ pc' = "idle"
    /\ faults' = faults + 1
    /\ mishaps' = mishaps \cup (IF rest = <<>> THEN {} ELSE {"torn"})
    /\ UNCHANGED <<disk, memory, entry, up, made, acked, boots, edits>>

-----------------------------------------------------------------------------
(* Restarts, and changes of the file behind the server's back *)

\* The server dies, in the middle of a write or just before append returns.
Crash ==
    /\ up /\ boots < MaxBoots
    /\ up' = FALSE /\ pc' = "idle" /\ boots' = boots + 1
    /\ \/ /\ mishaps' = mishaps \cup (IF rest = <<>> THEN {} ELSE {"torn"})
          /\ UNCHANGED disk
       \/ /\ pc # "idle"
          /\ lines' = Append(lines, Written) /\ rest' = <<>>
          /\ UNCHANGED mishaps
    /\ UNCHANGED <<memory, entry, made, acked, faults, edits>>

\* _load: the hash to go on from.
Boot ==
    /\ ~ up
    /\ up' = TRUE
    /\ lastHash' \in LoadedHash(Visible)
    /\ count' = Len(Visible)
    /\ UNCHANGED <<disk, writer, made, acked, mishaps, bounds>>

\* An OSError while _load reads.
BootUnread ==
    /\ ~ up /\ faults < MaxFaults
    /\ up' = TRUE
    /\ faults' = faults + 1
    /\ lastHash' = GENESIS /\ count' = 0
    /\ mishaps' = IF Visible = <<>> THEN mishaps ELSE mishaps \cup {"unread"}
    /\ UNCHANGED <<disk, writer, made, acked, boots, edits>>

Without(i) == SubSeq(lines, 1, i - 1) \o SubSeq(lines, i + 1, Len(lines))
Forged(i) == [lines EXCEPT ![i].payload = 0]

\* Somebody removes a line that is not the last one, or changes what a line says.
Edit ==
    /\ pc = "idle" /\ edits < MaxEdits
    /\ edits' = edits + 1
    /\ \/ \E i \in 1..(Len(lines) - 1) : lines' = Without(i)
       \/ \E i \in 1..Len(lines) : lines[i] # Junk /\ lines' = Forged(i)
    /\ mishaps' = mishaps \cup {"edited"}
    /\ UNCHANGED <<rest, memory, writer, up, made, acked, boots, faults>>

Server == Begin \/ WriteSome \/ Finish \/ WriteFails \/ Crash \/ Boot \/ BootUnread
Next == Server \/ Edit

Spec == Init /\ [][Next]_vars

-----------------------------------------------------------------------------
(* Properties *)

Payloads(s) == {s[i].payload : i \in {k \in 1..Len(s) : s[k] # Junk}}

\* As long as no piece of a line is left behind, no read fails at a boot and
\* nobody edits the file, verify() is ok whenever no append is at work, through
\* any number of restarts and failed writes.
ChainHolds == mishaps = {} /\ pc = "idle" => Chained(Visible)

\* Then the count of the console is the number of entries, too.
CountIsLength == mishaps = {} /\ up /\ pc = "idle" => count = Len(lines) /\ rest = <<>>

\* Every append that has returned can be read back, if no piece was left behind
\* and nobody edited the file.
AckedReadable == mishaps \subseteq {"unread"} => acked \subseteq Payloads(lines)

\* verify() is not fooled: if it is ok, an entry in the file has all the entries
\* before it that it was chained to, and in their order.
LossDetected ==
    Chained(Visible) =>
        \A i \in 1..Len(Visible) :
            /\ Len(Visible[i].hash) = i
            /\ \A k \in 1..i : Visible[i].hash[k] = Visible[k].payload

\* The server never makes a broken log look sound again: no append, no crash and
\* no restart hides the damage.
DamageStays == [][Server /\ ~ Chained(lines) => ~ Chained(lines')]_vars

-----------------------------------------------------------------------------
(* The inductive invariant *)

\* The append that holds the lock was chained to what is still _last_hash.
Writing == pc # "idle" => up /\ made > 0 /\ entry = Record(lastHash, made)

\* No piece of a line is left: only the append at work has one on disk.
Clean == "torn" \notin mishaps => pc # "glued" /\ (rest # <<>> => pc = "partly")

LastHash(s) == IF s = <<>> THEN GENESIS ELSE s[Len(s)].hash

\* Memory agrees with the file.
InStep ==
    mishaps = {} =>
        /\ Chained(lines)
        /\ up => lastHash = LastHash(lines) /\ count = Len(lines)

IndInv == TypeOK /\ Writing /\ Clean /\ InStep /\ AckedReadable

=============================================================================
