---------------------------- MODULE Suppressions ----------------------------
(***************************************************************************)
(* Suppressions live in SQLite; every change exports all of them to one    *)
(* JSON snapshot per bucket, through a temporary file each, and a boot     *)
(* adds the entries of the snapshots again, one by one, each addition with *)
(* an export of its own.  Requests run on threads of their own and nothing *)
(* orders their exports.                                                   *)
(***************************************************************************)
EXTENDS Integers, Functions, TLC, HostPatterns

CONSTANTS
    Asked,       \* [rule, glob]: what analysts suppress; an empty glob is none
    Detections,  \* [rule, computer]; no name of a computer has a backslash
    Analysts,    \* threads that serve requests
    BootThread,  \* the main thread, in boot_reindex
    NoFile, NoThread,
    MaxRevs,     \* bound: additions
    MaxCrashes,  \* bound: crashes of the server
    MaxWipes     \* bound: losses of the database

ASSUME SuppressionsAssumption ==
    /\ \A a \in Asked : a.glob \in Pattern \cup {Absent}
    /\ \A d \in Detections : /\ d.computer \in Seq(Char)
                             /\ \A i \in DOMAIN d.computer : d.computer[i] # Escape
    /\ BootThread \notin Analysts /\ NoThread \notin Analysts \cup {BootThread}
    /\ MaxRevs \in Nat /\ MaxCrashes \in Nat /\ MaxWipes \in Nat

VARIABLES
    server,   \* down, booting, or up
    db,       \* the table: [keys of rows -> reasons]
    files,    \* the snapshots, [names -> parts of the table]
    tmp,      \* their temporary files
    pc,       \* where a thread is in _export_suppression_snapshots
    rows,     \* what list_suppressions gave it
    todo,     \* the files it has yet to write, or to empty
    current,  \* the file it is writing
    toRead,   \* the snapshots the boot has yet to read
    rest,     \* the entries it has read and not yet added
    revs, crashes, wipes

\* History: exports overlapped, failed or were cut short since the last one that
\* ran alone; the thread whose export runs alone; while the server boots, whether
\* the snapshots were good.
VARIABLES damaged, solo, clean

disk    == <<db, files, tmp>>
exports == <<pc, rows, todo, current>>
import  == <<toRead, rest>>
bounds  == <<revs, crashes, wipes>>
history == <<damaged, solo, clean>>
vars    == <<server, disk, exports, import, bounds, history>>

Threads == Analysts \cup {BootThread}
Nothing == [k \in {} |-> 0]

\* What makes a row the same: scope follows from the other two.
Key(a) == [rule |-> a.rule, like |-> GlobToLike(a.glob)]

\* The key under which a snapshot's entry is added.
Imported(k) == Key([rule |-> k.rule, glob |-> LikeToGlob(k.like)])

\* The bucket of a row, named as its file.
FileOf(k) ==
    IF k.like = Absent THEN <<"global">>
    ELSE IF \E i \in DOMAIN k.like : k.like[i] \in {Percent, Underscore} THEN <<"_glob">>
    ELSE k.like

\* A row comes from what was asked, or from a boot that found a backslash in it.
IsKey(k) ==
    /\ k = [rule |-> k.rule, like |-> k.like]
    /\ k.like \in Pattern \cup {Absent}
    /\ ~ Doubled(k.like) => Imported(k) = k
    /\ \E a \in Asked : Key(a) = k \/ HasEscape(k.like)

IsTable(t) == t = [k \in DOMAIN t |-> t[k]] /\ \A k \in DOMAIN t : IsKey(k)
AreTables(fs) == fs = [f \in DOMAIN fs |-> fs[f]] /\ \A f \in DOMAIN fs : IsTable(fs[f])

TypeOK ==
    /\ server \in {"down", "booting", "up"}
    /\ IsTable(db) /\ AreTables(files) /\ AreTables(tmp) /\ IsTable(rest)
    /\ pc \in [Threads -> {"idle", "import", "list", "write", "swap", "empty"}]
    /\ DOMAIN rows = Threads /\ AreTables(rows)
    /\ todo = [t \in Threads |-> todo[t]] /\ current = [t \in Threads |-> current[t]]
    /\ revs \in 0..MaxRevs /\ crashes \in 0..MaxCrashes /\ wipes \in 0..MaxWipes
    /\ damaged \in BOOLEAN /\ clean \in BOOLEAN
    /\ solo \in Threads \cup {NoThread}

Init ==
    /\ server = "up"
    /\ db = Nothing /\ files = Nothing /\ tmp = Nothing
    /\ pc = [t \in Threads |-> "idle"]
    /\ rows = [t \in Threads |-> Nothing]
    /\ todo = [t \in Threads |-> {}]
    /\ current = [t \in Threads |-> NoFile]
    /\ toRead = {} /\ rest = Nothing
    /\ revs = 0 /\ crashes = 0 /\ wipes = 0
    /\ damaged = FALSE /\ solo = NoThread
    /\ clean = TRUE

\* A function with the value v at x, and without x.
With(f, x, v) == [y \in DOMAIN f \cup {x} |-> IF y = x THEN v ELSE f[y]]
Without(f, x) == Restrict(f, DOMAIN f \ {x})

\* The part of a table that belongs in file f.
Bucket(table, f) == RestrictDomain(table, LAMBDA k : FileOf(k) = f)

FilesOf(table) == {FileOf(k) : k \in DOMAIN table}

Quiet == \A t \in Threads : pc[t] = "idle"

-----------------------------------------------------------------------------
(* Requests *)

\* The change is committed; the export follows outside the transaction.
Commit(t) ==
    /\ pc' = [pc EXCEPT ![t] = "list"]
    /\ solo' = IF Quiet THEN t ELSE NoThread
    /\ damaged' = (damaged \/ ~ Quiet)
    /\ UNCHANGED <<server, files, tmp, rows, todo, current, import, crashes, wipes,
                   clean>>

\* add_suppression: a new row, or a new reason for the old one.
Add(t, a) ==
    /\ server = "up" /\ pc[t] = "idle" /\ revs < MaxRevs
    /\ revs' = revs + 1
    /\ db' = With(db, Key(a), revs')
    /\ Commit(t)

\* remove_suppression; of a row that is not there it is answered with 404.
Remove(t, k) ==
    /\ server = "up" /\ pc[t] = "idle" /\ k \in DOMAIN db
    /\ db' = Without(db, k)
    /\ UNCHANGED revs
    /\ Commit(t)

\* What a snapshot says; one that is not there says nothing.
Says(snapshots, f) == IF f \in DOMAIN snapshots THEN snapshots[f] ELSE Nothing

-----------------------------------------------------------------------------
(* _export_suppression_snapshots *)

List(t) ==
    /\ pc[t] = "list"
    /\ rows' = [rows EXCEPT ![t] = db]
    /\ todo' = [todo EXCEPT ![t] = FilesOf(db)]
    /\ pc' = [pc EXCEPT ![t] = "write"]
    /\ UNCHANGED <<server, disk, current, import, bounds, history>>

\* Mutant: new entries are merged into the file, nothing is taken out.
WriteTmpMerges(t, f) ==
    /\ pc[t] = "write" /\ f \in todo[t]
    /\ tmp' = With(tmp, f, Bucket(rows[t], f) @@ Says(files, f))
    /\ current' = [current EXCEPT ![t] = f]
    /\ pc' = [pc EXCEPT ![t] = "swap"]
    /\ UNCHANGED <<server, db, files, rows, todo, import, bounds, history>>

\* The temporary file has one name, whoever writes it.
WriteTmp(t, f) ==
    /\ pc[t] = "write" /\ f \in todo[t]
    /\ tmp' = With(tmp, f, Bucket(rows[t], f))
    /\ current' = [current EXCEPT ![t] = f]
    /\ pc' = [pc EXCEPT ![t] = "swap"]
    /\ UNCHANGED <<server, db, files, rows, todo, import, bounds, history>>

Swap(t) ==
    /\ pc[t] = "swap" /\ current[t] \in DOMAIN tmp
    /\ files' = With(files, current[t], tmp[current[t]])
    /\ tmp' = Without(tmp, current[t])
    /\ todo' = [todo EXCEPT ![t] = @ \ {current[t]}]
    /\ current' = [current EXCEPT ![t] = NoFile]
    /\ pc' = [pc EXCEPT ![t] = "write"]
    /\ UNCHANGED <<server, db, rows, import, bounds, history>>

\* Another thread has swapped it in: FileNotFoundError ends the request.
SwapFails(t) ==
    /\ pc[t] = "swap" /\ current[t] \notin DOMAIN tmp
    /\ pc' = [pc EXCEPT ![t] = "idle"]
    /\ rows' = [rows EXCEPT ![t] = Nothing]
    /\ todo' = [todo EXCEPT ![t] = {}]
    /\ current' = [current EXCEPT ![t] = NoFile]
    /\ damaged' = TRUE
    /\ UNCHANGED <<server, disk, import, bounds, solo, clean>>

\* Snapshots that are there and were not written have no row any more.
ListDir(t) ==
    /\ pc[t] = "write" /\ todo[t] = {}
    /\ todo' = [todo EXCEPT ![t] = DOMAIN files \ FilesOf(rows[t])]
    /\ pc' = [pc EXCEPT ![t] = "empty"]
    /\ UNCHANGED <<server, disk, rows, current, import, bounds, history>>

Empty(t, f) ==
    /\ pc[t] = "empty" /\ f \in todo[t]
    /\ files' = [files EXCEPT ![f] = Nothing]
    /\ todo' = [todo EXCEPT ![t] = @ \ {f}]
    /\ UNCHANGED <<server, db, tmp, pc, rows, current, import, bounds, history>>

\* The request is answered, or the boot goes on.
Done(t) ==
    /\ pc[t] = "empty" /\ todo[t] = {}
    /\ pc' = [pc EXCEPT ![t] = IF t = BootThread THEN "import" ELSE "idle"]
    /\ rows' = [rows EXCEPT ![t] = Nothing]
    /\ damaged' = (damaged /\ solo # t)
    /\ solo' = IF solo = t THEN NoThread ELSE solo
    /\ UNCHANGED <<server, disk, todo, current, import, bounds, clean>>

-----------------------------------------------------------------------------
(* Crash, loss of the database, boot *)

Crash ==
    /\ server # "down" /\ crashes < MaxCrashes
    /\ server' = "down"
    /\ crashes' = crashes + 1
    /\ pc' = [t \in Threads |-> "idle"]
    /\ rows' = [t \in Threads |-> Nothing]
    /\ todo' = [t \in Threads |-> {}]
    /\ current' = [t \in Threads |-> NoFile]
    /\ toRead' = {} /\ rest' = Nothing
    /\ damaged' = (damaged \/ \E t \in Threads : pc[t] \notin {"idle", "import"})
    /\ solo' = NoThread /\ clean' = TRUE
    /\ UNCHANGED <<disk, revs, wipes>>

WipeDb ==
    /\ server = "down" /\ wipes < MaxWipes
    /\ wipes' = wipes + 1
    /\ db' = Nothing
    /\ damaged' = (damaged \/ db # Nothing)
    /\ UNCHANGED <<server, files, tmp, exports, import, revs, crashes,
                   solo, clean>>

Boot ==
    /\ server = "down"
    /\ server' = "booting"
    /\ pc' = [pc EXCEPT ![BootThread] = "import"]
    /\ toRead' = DOMAIN files
    /\ clean' = ~ damaged
    /\ UNCHANGED <<disk, rows, todo, current, rest, bounds, damaged, solo>>

\* They are sorted by name; here any order will do.
ReadFile(f) ==
    /\ pc[BootThread] = "import" /\ rest = Nothing /\ f \in toRead
    /\ rest' = files[f]
    /\ toRead' = toRead \ {f}
    /\ UNCHANGED <<server, disk, exports, bounds, history>>

\* add_suppression again, with the reason in the file.
ImportEntry(k) ==
    /\ pc[BootThread] = "import" /\ k \in DOMAIN rest
    /\ db' = With(db, Imported(k), rest[k])
    /\ rest' = Without(rest, k)
    /\ pc' = [pc EXCEPT ![BootThread] = "list"]
    /\ solo' = BootThread
    /\ UNCHANGED <<server, files, tmp, rows, todo, current, toRead, bounds,
                   damaged, clean>>

BootDone ==
    /\ pc[BootThread] = "import" /\ rest = Nothing /\ toRead = {}
    /\ pc' = [pc EXCEPT ![BootThread] = "idle"]
    /\ server' = "up"
    /\ clean' = TRUE
    /\ UNCHANGED <<disk, rows, todo, current, import, bounds, damaged, solo>>

Export(t) ==
    \/ List(t) \/ Swap(t) \/ SwapFails(t) \/ ListDir(t) \/ Done(t)
    \/ \E f \in todo[t] : WriteTmp(t, f) \/ Empty(t, f)

Next ==
    \/ \E t \in Analysts : (\E a \in Asked : Add(t, a)) \/ (\E k \in DOMAIN db : Remove(t, k))
    \/ \E t \in Threads : Export(t)
    \/ Crash \/ WipeDb \/ Boot \/ BootDone
    \/ (\E f \in toRead : ReadFile(f)) \/ (\E k \in DOMAIN rest : ImportEntry(k))

Spec == Init /\ [][Next]_vars

-----------------------------------------------------------------------------
(* Properties *)

\* Between requests the snapshots say what the table says, unless exports have
\* overlapped, failed or been cut short; and one export that runs alone puts all
\* of that right, in every bucket.
SnapshotCurrent ==
    Quiet /\ ~ damaged => \A f \in DOMAIN files \cup FilesOf(db) : Says(files, f) = Bucket(db, f)

\* Booting with good snapshots changes no row, whatever is exported meanwhile
\* (boot_reindex: "Both operations are idempotent").  A backslash in a glob is
\* apart: it is doubled whenever it is read back, and every boot adds a row.
BootIdempotent ==
    [][server = "booting" /\ clean /\ (\A k \in DOMAIN db : ~ Doubled(k.like))
         => db' = db]_vars

\* The detections that a row hides (_SUPP_JOIN), and those that an analyst means.
Hidden(k) == {d \in Detections : k.rule \in {Absent, d.rule} /\ Like(k.like, d.computer)}
Meant(a) == {d \in Detections : a.rule \in {Absent, d.rule} /\ Means(a.glob, d.computer)}

\* A row hides only what somebody has asked to hide, and all of it unless the
\* glob has a character that is escaped for LIKE, which is not told of an escape
\* character.
HidesAsAsked(k) ==
    /\ \E a \in Asked : Hidden(k) \subseteq Meant(a)
    /\ \A a \in Asked : Key(a) = k /\ ~ Special(a.glob) => Hidden(k) = Meant(a)

\* Neither a request nor a boot, which reads back what exports and crashes have
\* left, ever adds a row that hides something else.
HidesWhatWasAsked == [][\A k \in DOMAIN db' \ DOMAIN db : HidesAsAsked(k)]_vars

-----------------------------------------------------------------------------
(* The inductive invariant *)

Exporting(t) == pc[t] \notin {"idle", "import"}

\* Which threads can be at work; nobody takes the temporary file of a boot away.
Phases ==
    /\ server = "booting" <=> pc[BootThread] # "idle"
    /\ server # "up" => \A t \in Analysts : pc[t] = "idle"
    /\ \A t \in Analysts : pc[t] # "import"
    /\ server # "booting" => rest = Nothing
    /\ pc[BootThread] = "swap" => current[BootThread] \in DOMAIN tmp
    /\ toRead \subseteq DOMAIN files

Agrees(f) == Says(files, f) = Bucket(db, f)
SnapshotsAgree == \A f \in DOMAIN files \cup FilesOf(db) : Agrees(f)
Swapped(f) == f \in DOMAIN files /\ files[f] = Bucket(db, f)

\* How far the export of t has come, if nothing has changed since it began.
OnItsWay(t) ==
    /\ Exporting(t)
    /\ pc[t] # "list" => rows[t] = db
    /\ pc[t] \in {"write", "swap"} =>
        todo[t] \subseteq FilesOf(db) /\ \A f \in FilesOf(db) \ todo[t] : Swapped(f)
    /\ pc[t] = "swap" =>
        /\ current[t] \in DOMAIN tmp
        /\ tmp[current[t]] = Bucket(db, current[t])
    /\ pc[t] = "empty" =>
        /\ \A f \in FilesOf(db) : Swapped(f)
        /\ todo[t] \subseteq DOMAIN files \ FilesOf(db)
        /\ \A f \in DOMAIN files \ (FilesOf(db) \cup todo[t]) : files[f] = Nothing

\* solo is the only one at work, and on its way.
Alone ==
    solo # NoThread =>
        OnItsWay(solo) /\ \A t \in Threads \ {solo} : ~ Exporting(t)

\* Where nothing has gone wrong, an export is one that runs alone, and without
\* one the snapshots agree.
Undamaged ==
    ~ damaged =>
        /\ \A t \in Threads : Exporting(t) => solo = t
        /\ (\A t \in Threads : ~ Exporting(t)) => SnapshotsAgree

\* What a boot reads and writes is part of the table.
PartOfDb(table) == \A k \in DOMAIN table : k \in DOMAIN db /\ table[k] = db[k]
BootReads ==
    server = "booting" /\ clean /\ (\A k \in DOMAIN db : ~ Doubled(k.like)) =>
        /\ PartOfDb(rest)
        /\ \A f \in DOMAIN files : PartOfDb(files[f])
        /\ pc[BootThread] \in {"write", "swap"} => PartOfDb(rows[BootThread])
        /\ pc[BootThread] = "swap" => PartOfDb(tmp[current[BootThread]])

IndInv == TypeOK /\ Phases /\ Alone /\ Undamaged /\ BootReads

=============================================================================
