----------------------------- MODULE StoreProofs -----------------------------
(***************************************************************************)
(* Proofs about Store for every set of chunks, files, callers and          *)
(* syncManifests goroutines.                                               *)
(*                                                                         *)
(* Inv ties the indexes to the files and to what the goroutines carry in   *)
(* their local variables.  The two survival theorems then follow from      *)
(* predicates about one chunk or file that no step makes false: Kept and   *)
(* Safe.  QuiescentPersisted and Restartable, which the code does not      *)
(* keep, are proved under the conditions it lacks.  Then the publishers    *)
(* (Publish) and the identity (NodeStart), and that a node implements its  *)
(* store.                                                                  *)
(***************************************************************************)
EXTENDS NodeStart, FiniteSetTheorems, TLAPS

Running == {"loaded", "rewriting", "up"}

\* Every indexed chunk has a file.
FilesExist == \A c \in chunks : file[c] # "absent"

\* So has every chunk that is about to be written or indexed.
WritersHaveFiles ==
  \A p \in Caller : pc[p] \in {"put_write", "put_index"} => file[arg[p]] # "absent"

\* What AddManifest has validated stays valid until it inserts.
ValidatedBacked ==
  \A p \in Caller : pc[p] = "add_insert" => Blocks(arg[p]) \subseteq chunks

\* No goroutine carries an unknown manifest, and the file names none but those
\* a start could not read.
SnapsKnown == \A y \in Syncer : snap[y] \subseteq manifests
ListKnown == phase \in Running => list.front \subseteq manifests \cup skipped

\* Goroutines run only while the node is up; memory is empty while it is down.
QuietUnlessUp ==
  /\ phase # "up" => /\ \A p \in Caller : pc[p] = "idle"
                     /\ \A y \in Syncer : sync[y] = "idle" /\ snap[y] = {}
  /\ phase \notin Running => chunks = {} /\ manifests = {}

Inv ==
  /\ TypeOK
  /\ ManifestsBacked
  /\ ListedRecoverable
  /\ FilesExist
  /\ WritersHaveFiles
  /\ ValidatedBacked
  /\ SnapsKnown
  /\ ListKnown
  /\ QuietUnlessUp

\* Once chunk c has been indexed: its file stays, and it is indexed whenever
\* the node runs.
Kept(c) ==
  /\ file[c] # "absent"
  /\ phase \in Running => c \in chunks

\* Once the id of f has settled in manifests.json: its chunk files stay, and
\* memory, every list on its way and every complete list name it, as long as
\* every start can read it.
Safe(f) ==
  \/ f \in skipped
  \/ /\ \A c \in Blocks(f) : file[c] # "absent"
     /\ phase \in Running => f \in manifests
     /\ \A y \in Syncer : sync[y] \in {"open", "write"} => f \in snap[y]
     /\ list.state # "absent"
     /\ list.state = "written" => f \in list.front

-----------------------------------------------------------------------------
LEMMA InitInv == Init => Inv
BY FileIdAssumption DEF Init, Inv, TypeOK, ListFile, Absent, ManifestsBacked, ListedRecoverable,
   FilesExist, WritersHaveFiles, ValidatedBacked, SnapsKnown, ListKnown, QuietUnlessUp, Running

\* A list written over another one is a list file that names what was written.
LEMMA WrittenFacts ==
  ASSUME NEW old \in ListFile, NEW ids \in SUBSET FileId
  PROVE  /\ Written(old, ids) \in ListFile
         /\ Written(old, ids).front = ids
         /\ Written(old, ids).state = "written"
<1>1. IsFiniteSet(ids)
  BY FileIdAssumption, FS_Subset
<1>2. Cardinality(ids) \in Nat
  BY <1>1, FS_CardinalityType
<1>3. Larger(old.len, Cardinality(ids)) \in Nat
  BY <1>2 DEF ListFile, Larger
<1> QED BY <1>3 DEF Written, ListFile

LEMMA EmptyFacts == Empty \in ListFile /\ Empty.front = {} /\ Empty.state = "empty"
BY DEF Empty, ListFile

\* Blocks of a manifest are chunks.
LEMMA BlocksAreChunks ==
  ASSUME NEW f \in FileId
  PROVE  Blocks(f) \subseteq Chunk
BY FileIdAssumption, PartsAssumption DEF Blocks

LEMMA PutCheckInv ==
  ASSUME Inv, NEW p \in Caller, NEW c \in Chunk, PutCheck(p, c)
  PROVE  Inv'
<1> USE DEF PutCheck, Goto, Return, memory, callers, syncers
<1>1. ManifestsBacked' /\ ListedRecoverable' /\ ListKnown' /\ FilesExist' /\ SnapsKnown'
  BY DEF Inv, ManifestsBacked, ListedRecoverable, ListKnown, Running, FilesExist, SnapsKnown, TypeOK
<1>2. TypeOK' /\ QuietUnlessUp' /\ WritersHaveFiles' /\ ValidatedBacked'
  BY DEF Inv, TypeOK, QuietUnlessUp, Running, WritersHaveFiles, ValidatedBacked
<1> QED BY <1>1, <1>2 DEF Inv

\* A file that is truncated is still there.
LEMMA PutTruncateInv ==
  ASSUME Inv, NEW p \in Caller, PutTruncate(p)
  PROVE  Inv'
<1> USE DEF PutTruncate, Goto, Return, memory, callers, syncers
<1>1. WritersHaveFiles' /\ FilesExist' /\ ListedRecoverable'
  BY DEF Inv, WritersHaveFiles, FilesExist, ListedRecoverable, TypeOK
<1>2. ManifestsBacked' /\ ListKnown' /\ SnapsKnown'
  BY DEF Inv, ManifestsBacked, ListKnown, Running, SnapsKnown, TypeOK
<1>3. TypeOK' /\ QuietUnlessUp' /\ ValidatedBacked'
  BY DEF Inv, TypeOK, QuietUnlessUp, Running, ValidatedBacked
<1> QED BY <1>1, <1>2, <1>3 DEF Inv

LEMMA PutWriteInv ==
  ASSUME Inv, NEW p \in Caller, PutWrite(p)
  PROVE  Inv'
<1> USE DEF PutWrite, Goto, Return, memory, callers, syncers
<1>1. WritersHaveFiles' /\ FilesExist' /\ ListedRecoverable'
  BY DEF Inv, WritersHaveFiles, FilesExist, ListedRecoverable, TypeOK
<1>2. ManifestsBacked' /\ ListKnown' /\ SnapsKnown'
  BY DEF Inv, ManifestsBacked, ListKnown, Running, SnapsKnown, TypeOK
<1>3. TypeOK' /\ QuietUnlessUp' /\ ValidatedBacked'
  BY DEF Inv, TypeOK, QuietUnlessUp, Running, ValidatedBacked
<1> QED BY <1>1, <1>2, <1>3 DEF Inv

LEMMA PutFailInv ==
  ASSUME Inv, NEW p \in Caller, PutFail(p)
  PROVE  Inv'
<1> USE DEF PutFail, Goto, Return, memory, callers, syncers
<1>1. ManifestsBacked' /\ ListedRecoverable' /\ ListKnown' /\ FilesExist' /\ SnapsKnown'
  BY DEF Inv, ManifestsBacked, ListedRecoverable, ListKnown, Running, FilesExist, SnapsKnown, TypeOK
<1>2. TypeOK' /\ QuietUnlessUp' /\ WritersHaveFiles' /\ ValidatedBacked'
  BY DEF Inv, TypeOK, QuietUnlessUp, Running, WritersHaveFiles, ValidatedBacked
<1> QED BY <1>1, <1>2 DEF Inv

\* The chunk that is indexed has a file.
LEMMA PutIndexInv ==
  ASSUME Inv, NEW p \in Caller, PutIndex(p)
  PROVE  Inv'
<1> USE DEF PutIndex, Goto, Return, memory, callers, syncers
<1>1. FilesExist'
  BY DEF Inv, FilesExist, WritersHaveFiles, TypeOK
<1>2. ValidatedBacked' /\ ManifestsBacked'
  BY DEF Inv, ValidatedBacked, ManifestsBacked, TypeOK
<1>3. ListedRecoverable' /\ ListKnown' /\ SnapsKnown'
  BY DEF Inv, ListedRecoverable, ListKnown, Running, SnapsKnown, TypeOK
<1>4. TypeOK' /\ QuietUnlessUp' /\ WritersHaveFiles'
  BY DEF Inv, TypeOK, QuietUnlessUp, Running, WritersHaveFiles
<1> QED BY <1>1, <1>2, <1>3, <1>4 DEF Inv

LEMMA AddCheckInv ==
  ASSUME Inv, NEW p \in Caller, NEW f \in FileId, AddCheck(p, f)
  PROVE  Inv'
<1> USE DEF AddCheck, Goto, Return, memory, callers, syncers
<1>1. TypeOK'
  BY FileIdAssumption DEF Inv, TypeOK
<1>2. ManifestsBacked' /\ ListedRecoverable' /\ ListKnown' /\ FilesExist' /\ SnapsKnown'
  BY DEF Inv, ManifestsBacked, ListedRecoverable, ListKnown, Running, FilesExist, SnapsKnown, TypeOK
<1>3. QuietUnlessUp' /\ WritersHaveFiles' /\ ValidatedBacked'
  BY DEF Inv, QuietUnlessUp, Running, WritersHaveFiles, ValidatedBacked, TypeOK
<1> QED BY <1>1, <1>2, <1>3 DEF Inv

LEMMA AddValidateInv ==
  ASSUME Inv, NEW p \in Caller, AddValidate(p)
  PROVE  Inv'
<1> USE DEF AddValidate, Goto, Return, memory, callers, syncers
<1>1. ValidatedBacked'
  BY DEF Inv, ValidatedBacked, TypeOK, AllChunksHeld, Blocks
<1>2. ManifestsBacked' /\ ListedRecoverable' /\ ListKnown' /\ FilesExist' /\ SnapsKnown'
  BY DEF Inv, ManifestsBacked, ListedRecoverable, ListKnown, Running, FilesExist, SnapsKnown, TypeOK
<1>3. TypeOK' /\ QuietUnlessUp' /\ WritersHaveFiles'
  BY DEF Inv, TypeOK, QuietUnlessUp, Running, WritersHaveFiles
<1> QED BY <1>1, <1>2, <1>3 DEF Inv

\* What was validated is still true: chunks are never removed from the index.
LEMMA AddInsertInv ==
  ASSUME Inv, NEW p \in Caller, AddInsert(p)
  PROVE  Inv'
<1> USE DEF AddInsert, Goto, Return, memory, callers, syncers
<1>1. ManifestsBacked'
  BY DEF Inv, ManifestsBacked, TypeOK, ValidatedBacked
<1>2. ListKnown' /\ SnapsKnown'
  BY DEF Inv, ListKnown, Running, SnapsKnown, TypeOK
<1>3. ListedRecoverable' /\ FilesExist'
  BY DEF Inv, ListedRecoverable, FilesExist, TypeOK
<1>4. TypeOK' /\ QuietUnlessUp' /\ WritersHaveFiles' /\ ValidatedBacked'
  BY DEF Inv, TypeOK, QuietUnlessUp, Running, WritersHaveFiles, ValidatedBacked
<1> QED BY <1>1, <1>2, <1>3, <1>4 DEF Inv

LEMMA SyncSnapshotInv ==
  ASSUME Inv, NEW y \in Syncer, SyncSnapshot(y)
  PROVE  Inv'
<1> USE DEF SyncSnapshot, Goto, Return, memory, callers, syncers
<1>1. SnapsKnown'
  BY DEF Inv, SnapsKnown, TypeOK
<1>2. ManifestsBacked' /\ ListedRecoverable' /\ ListKnown' /\ FilesExist'
  BY DEF Inv, ManifestsBacked, ListedRecoverable, ListKnown, Running, FilesExist, TypeOK
<1>3. TypeOK' /\ QuietUnlessUp' /\ WritersHaveFiles' /\ ValidatedBacked'
  BY DEF Inv, TypeOK, QuietUnlessUp, Running, WritersHaveFiles, ValidatedBacked
<1> QED BY <1>1, <1>2, <1>3 DEF Inv

LEMMA SyncTruncateInv ==
  ASSUME Inv, NEW y \in Syncer, SyncTruncate(y)
  PROVE  Inv'
<1> USE DEF SyncTruncate, Goto, Return, memory, callers, syncers
<1>1. ListedRecoverable' /\ ListKnown'
  BY EmptyFacts DEF Inv, ListedRecoverable, ListKnown, Running
<1>2. TypeOK'
  BY EmptyFacts DEF Inv, TypeOK
<1>3. ManifestsBacked' /\ FilesExist' /\ SnapsKnown'
  BY DEF Inv, ManifestsBacked, FilesExist, SnapsKnown, TypeOK
<1>4. QuietUnlessUp' /\ WritersHaveFiles' /\ ValidatedBacked'
  BY DEF Inv, QuietUnlessUp, Running, WritersHaveFiles, ValidatedBacked, TypeOK
<1> QED BY <1>1, <1>2, <1>3, <1>4 DEF Inv

\* What is written is a list of manifests that memory holds or has held, so
\* their chunks are indexed and have files.
LEMMA SyncWriteInv ==
  ASSUME Inv, NEW y \in Syncer, SyncWrite(y)
  PROVE  Inv'
<1> USE DEF SyncWrite, SyncDone, memory, callers, syncers
<1>1. /\ list' \in ListFile
      /\ list'.front = snap[y]
      /\ snap[y] \subseteq manifests
  BY WrittenFacts DEF Inv, TypeOK, SnapsKnown
<1>2. ListedRecoverable'
  BY <1>1 DEF Inv, ListedRecoverable, ManifestsBacked, FilesExist
<1>3. ListKnown'
  BY <1>1 DEF Inv, ListKnown
<1>4. TypeOK'
  BY <1>1 DEF Inv, TypeOK
<1>5. SnapsKnown'
  BY DEF Inv, SnapsKnown, TypeOK
<1>6. ManifestsBacked' /\ FilesExist' /\ WritersHaveFiles' /\ ValidatedBacked' /\ QuietUnlessUp'
  BY DEF Inv, ManifestsBacked, FilesExist, WritersHaveFiles, ValidatedBacked, QuietUnlessUp, TypeOK
<1> QED BY <1>1, <1>2, <1>3, <1>4, <1>5, <1>6 DEF Inv

LEMMA SyncFailInv ==
  ASSUME Inv, NEW y \in Syncer, SyncFail(y)
  PROVE  Inv'
<1> USE DEF SyncFail, SyncDone, memory, callers, syncers
<1>1. SnapsKnown'
  BY DEF Inv, SnapsKnown, TypeOK
<1>2. ManifestsBacked' /\ ListedRecoverable' /\ ListKnown' /\ FilesExist'
  BY DEF Inv, ManifestsBacked, ListedRecoverable, ListKnown, Running, FilesExist, TypeOK
<1>3. TypeOK' /\ QuietUnlessUp' /\ WritersHaveFiles' /\ ValidatedBacked'
  BY DEF Inv, TypeOK, QuietUnlessUp, Running, WritersHaveFiles, ValidatedBacked
<1> QED BY <1>1, <1>2, <1>3 DEF Inv

LEMMA CrashInv ==
  ASSUME Inv, Crash
  PROVE  Inv'
<1> USE DEF Crash, Goto, Return, memory, callers, syncers
<1>1. ListKnown' /\ QuietUnlessUp'
  BY DEF Inv, ListKnown, Running, QuietUnlessUp
<1>2. ManifestsBacked' /\ ListedRecoverable' /\ FilesExist' /\ SnapsKnown'
  BY DEF Inv, ManifestsBacked, ListedRecoverable, FilesExist, SnapsKnown, TypeOK
<1>3. TypeOK' /\ WritersHaveFiles' /\ ValidatedBacked'
  BY DEF Inv, TypeOK, WritersHaveFiles, ValidatedBacked
<1> QED BY <1>1, <1>2, <1>3 DEF Inv

LEMMA StartRefusedInv ==
  ASSUME Inv, StartRefused
  PROVE  Inv'
<1> USE DEF StartRefused, Goto, Return, memory, callers, syncers
<1>1. ManifestsBacked' /\ ListedRecoverable' /\ ListKnown' /\ FilesExist' /\ SnapsKnown'
  BY DEF Inv, ManifestsBacked, ListedRecoverable, ListKnown, Running, FilesExist, SnapsKnown, TypeOK
<1>2. TypeOK' /\ QuietUnlessUp' /\ WritersHaveFiles' /\ ValidatedBacked'
  BY DEF Inv, TypeOK, QuietUnlessUp, Running, WritersHaveFiles, ValidatedBacked
<1> QED BY <1>1, <1>2 DEF Inv

\* The filter of NewStore keeps every listed manifest that can be read: its
\* chunk files are there, and a partial one would have made NewStore refuse.
LEMMA LoadButInv ==
  ASSUME Inv, NEW unread \in SUBSET list.front, LoadBut(unread)
  PROVE  Inv'
<1> USE DEF LoadBut, callers, syncers
<1>1. \A c \in LoadedChunks : c \in Chunk /\ file[c] = "complete"
  BY DEF LoadedChunks
<1>2. LoadedManifests \subseteq list.front /\ list.front \subseteq FileId
  BY DEF LoadedManifests, Inv, TypeOK, ListFile
<1>3. TypeOK'
  BY <1>1, <1>2 DEF Inv, TypeOK
<1>4. ManifestsBacked'
  BY DEF ManifestsBacked, LoadedManifests, Blocks
<1>5. FilesExist'
  BY <1>1 DEF FilesExist
<1>6. ListKnown'
  <2> SUFFICES ASSUME NEW f \in list.front PROVE f \in LoadedManifests
    BY DEF ListKnown
  <2>1. \A c \in Blocks(f) : c \in Chunk /\ file[c] \notin {"absent", "partial"}
    BY <1>2, BlocksAreChunks DEF Inv, ListedRecoverable, Corrupt
  <2>2. Blocks(f) \subseteq LoadedChunks
    BY <2>1 DEF LoadedChunks, Inv, TypeOK
  <2> QED BY <2>2 DEF LoadedManifests, Blocks
<1>7. ListedRecoverable' /\ WritersHaveFiles'
  BY DEF Inv, ListedRecoverable, WritersHaveFiles
<1>8. ValidatedBacked' /\ SnapsKnown' /\ QuietUnlessUp'
  BY DEF Inv, ValidatedBacked, SnapsKnown, QuietUnlessUp, Running
<1> QED BY <1>3, <1>4, <1>5, <1>6, <1>7, <1>8 DEF Inv

LEMMA StartTruncateInv ==
  ASSUME Inv, StartTruncate
  PROVE  Inv'
<1> USE DEF StartTruncate, memory, callers, syncers
<1>1. ListedRecoverable' /\ ListKnown'
  BY EmptyFacts DEF Inv, ListedRecoverable, ListKnown, Running
<1>2. TypeOK'
  BY EmptyFacts DEF Inv, TypeOK
<1>3. QuietUnlessUp'
  BY DEF Inv, QuietUnlessUp, Running
<1>4. ManifestsBacked' /\ FilesExist' /\ SnapsKnown'
  BY DEF Inv, ManifestsBacked, FilesExist, SnapsKnown, TypeOK
<1>5. WritersHaveFiles' /\ ValidatedBacked'
  BY DEF Inv, WritersHaveFiles, ValidatedBacked, TypeOK
<1> QED BY <1>1, <1>2, <1>3, <1>4, <1>5 DEF Inv

LEMMA StartWriteInv ==
  ASSUME Inv, StartWrite
  PROVE  Inv'
<1> USE DEF StartWrite, memory, callers, syncers
<1>1. list' \in ListFile /\ list'.front = manifests
  BY WrittenFacts DEF Inv, TypeOK
<1>2. ListedRecoverable' /\ ListKnown'
  BY <1>1 DEF Inv, ListedRecoverable, ManifestsBacked, FilesExist, ListKnown
<1>3. TypeOK'
  BY <1>1 DEF Inv, TypeOK
<1>4. QuietUnlessUp'
  BY DEF Inv, QuietUnlessUp, Running
<1>5. ManifestsBacked' /\ FilesExist' /\ WritersHaveFiles' /\ ValidatedBacked' /\ SnapsKnown'
  BY DEF Inv, ManifestsBacked, FilesExist, WritersHaveFiles, ValidatedBacked, SnapsKnown
<1> QED BY <1>2, <1>3, <1>4, <1>5 DEF Inv

LEMMA StartFailInv ==
  ASSUME Inv, StartFail
  PROVE  Inv'
<1> USE DEF StartFail, callers, syncers
<1>1. ManifestsBacked' /\ FilesExist' /\ ListKnown'
  BY DEF Inv, ManifestsBacked, FilesExist, ListKnown, Running
<1>2. ValidatedBacked' /\ SnapsKnown'
  BY DEF Inv, ValidatedBacked, SnapsKnown, QuietUnlessUp
<1>3. QuietUnlessUp'
  BY DEF Inv, QuietUnlessUp, Running
<1>4. ListedRecoverable'
  BY DEF Inv, ListedRecoverable, TypeOK
<1>5. TypeOK' /\ WritersHaveFiles'
  BY DEF Inv, TypeOK, WritersHaveFiles
<1> QED BY <1>1, <1>2, <1>3, <1>4, <1>5 DEF Inv

\* Every step keeps the invariant.
LEMMA NextInv == Inv /\ [Next]_vars => Inv'
<1> SUFFICES ASSUME Inv, [Next]_vars PROVE Inv'
  OBVIOUS
<1>1. CASE UNCHANGED vars
  BY <1>1 DEF vars, Inv, TypeOK, ManifestsBacked, ListedRecoverable, FilesExist, WritersHaveFiles,
              ValidatedBacked, SnapsKnown, ListKnown, QuietUnlessUp
<1>2. CASE \E p \in Caller, c \in Chunk : PutCheck(p, c)
  BY <1>2, PutCheckInv
<1>3. CASE \E p \in Caller, f \in FileId : AddCheck(p, f)
  BY <1>3, AddCheckInv
<1>4. CASE \E p \in Caller : CallerStep(p)
  BY <1>4, PutTruncateInv, PutWriteInv, PutIndexInv, AddValidateInv, AddInsertInv DEF CallerStep
<1>5. CASE \E y \in Syncer : SyncerStep(y)
  BY <1>5, SyncSnapshotInv, SyncTruncateInv, SyncWriteInv DEF SyncerStep
<1>6. CASE Crash
  BY <1>6, CrashInv
<1>7. CASE Start
  BY <1>7, StartRefusedInv, LoadButInv, StartTruncateInv, StartWriteInv DEF Start, StartLoad
<1>8. CASE DiskFails
  BY <1>8, PutFailInv, SyncFailInv, StartFailInv, LoadButInv DEF DiskFails, StartSkips
<1> QED BY <1>1, <1>2, <1>3, <1>4, <1>5, <1>6, <1>7, <1>8 DEF Next, SoundNext

\* The invariant holds in every reachable state, also while the node is down.
THEOREM InvHolds == Spec => []Inv
<1> QED BY InitInv, NextInv, PTL DEF Spec

\* Types are respected.
THEOREM TypeCorrect == Spec => []TypeOK
<1>1. Inv => TypeOK
  BY DEF Inv
<1> QED BY <1>1, InvHolds, PTL

\* A file the node offers has its manifest and all its chunks indexed.
THEOREM ManifestsBackedHolds == Spec => []ManifestsBacked
<1>1. Inv => ManifestsBacked
  BY DEF Inv
<1> QED BY <1>1, InvHolds, PTL

\* Wherever the process is killed, what manifests.json names can be loaded
\* again (store.go:74-95).
THEOREM ListedRecoverableHolds == Spec => []ListedRecoverable
<1>1. Inv => ListedRecoverable
  BY DEF Inv
<1> QED BY <1>1, InvHolds, PTL

-----------------------------------------------------------------------------
(* Survival of chunks. *)

LEMMA KeptStable ==
  ASSUME NEW c \in Chunk
  PROVE  Inv /\ [Next]_vars /\ Kept(c) => Kept(c)'
<1> SUFFICES ASSUME Inv, [Next]_vars, Kept(c) PROVE Kept(c)'
  OBVIOUS
<1> USE DEF Kept, Running, Goto, Return, SyncDone, memory, callers, syncers
<1>1. CASE UNCHANGED vars
  BY <1>1 DEF vars
<1>2. CASE \E p \in Caller, d \in Chunk : PutCheck(p, d)
  BY <1>2 DEF PutCheck
<1>3. CASE \E p \in Caller, f \in FileId : AddCheck(p, f)
  BY <1>3 DEF AddCheck
<1>4. ASSUME NEW p \in Caller, CallerStep(p) PROVE Kept(c)'
  <2>1. file \in [Chunk -> {"absent", "partial", "complete"}]
    BY DEF Inv, TypeOK
  <2>2. CASE PutTruncate(p) \/ PutWrite(p)
    BY <2>1, <2>2 DEF PutTruncate, PutWrite
  <2>3. CASE PutIndex(p) \/ AddValidate(p) \/ AddInsert(p)
    BY <2>3 DEF PutIndex, AddValidate, AddInsert
  <2> QED BY <1>4, <2>2, <2>3 DEF CallerStep
<1>5. CASE \E y \in Syncer : SyncerStep(y)
  BY <1>5 DEF SyncerStep, SyncSnapshot, SyncTruncate, SyncWrite
<1>6. CASE Crash
  BY <1>6 DEF Crash
<1>7. ASSUME NEW unread \in SUBSET list.front, LoadBut(unread) PROVE Kept(c)'
  <2>1. file[c] = "complete"
    BY <1>7 DEF LoadBut, Corrupt, Inv, TypeOK
  <2> QED BY <1>7, <2>1 DEF LoadBut, LoadedChunks
<1>8. CASE StartRefused \/ StartTruncate \/ StartWrite
  BY <1>8 DEF StartRefused, StartTruncate, StartWrite
<1>9. CASE DiskFails
  BY <1>7, <1>9 DEF DiskFails, PutFail, SyncFail, StartFail, StartSkips
<1> QED BY <1>1, <1>2, <1>3, <1>4, <1>5, <1>6, <1>7, <1>8, <1>9 DEF Next, SoundNext, Start, StartLoad

\* A chunk that was indexed is indexed whenever the node is up again: no
\* sequence of kills, failed writes and concurrent callers loses it without
\* NewStore refusing to start.
THEOREM HeldChunksSurviveHolds == Spec => HeldChunksSurvive
<1> SUFFICES ASSUME NEW c \in Chunk
             PROVE  Spec => [](phase = "up" /\ c \in chunks => [](phase = "up" => c \in chunks))
  BY DEF HeldChunksSurvive
<1>1. Inv => (phase = "up" /\ c \in chunks => Kept(c))
  BY DEF Inv, FilesExist, Kept
<1>2. Kept(c) => (phase = "up" => c \in chunks)
  BY DEF Kept, Running
<1>3. Inv /\ [Next]_vars /\ Kept(c) => Kept(c)'
  BY KeptStable
<1> QED BY <1>1, <1>2, <1>3, InvHolds, PTL DEF Spec

-----------------------------------------------------------------------------
(* Survival of published files. *)

LEMMA SettledIsSafe ==
  ASSUME Inv, NEW f \in FileId, Settled(f)
  PROVE  Safe(f)
BY DEF Inv, Settled, Safe, ListedRecoverable, ListKnown

LEMMA SafeStable ==
  ASSUME NEW f \in FileId
  PROVE  Inv /\ [Next]_vars /\ Safe(f) => Safe(f)'
<1> SUFFICES ASSUME Inv, [Next]_vars, Safe(f) PROVE Safe(f)'
  OBVIOUS
<1> USE DEF Safe, Running, memory, callers, syncers
<1>1. CASE UNCHANGED vars
  BY <1>1 DEF vars
<1>2. CASE \E p \in Caller, d \in Chunk : PutCheck(p, d)
  BY <1>2 DEF PutCheck
<1>3. CASE \E p \in Caller, g \in FileId : AddCheck(p, g)
  BY <1>3 DEF AddCheck
<1>4. ASSUME NEW p \in Caller, CallerStep(p) PROVE Safe(f)'
  <2>1. file \in [Chunk -> {"absent", "partial", "complete"}] /\ Blocks(f) \subseteq Chunk
    BY BlocksAreChunks DEF Inv, TypeOK
  <2>2. CASE PutTruncate(p) \/ PutWrite(p)
    BY <2>1, <2>2 DEF PutTruncate, PutWrite
  <2>3. CASE PutIndex(p) \/ AddValidate(p)
    BY <2>3 DEF PutIndex, AddValidate
  <2>4. CASE AddInsert(p)
    BY <2>4 DEF AddInsert, Inv, TypeOK
  <2> QED BY <1>4, <2>2, <2>3, <2>4 DEF CallerStep
<1>5. ASSUME NEW y \in Syncer, SyncerStep(y) PROVE Safe(f)'
  <2>1. sync \in [Syncer -> {"idle", "start", "open", "write"}] /\ snap \in [Syncer -> SUBSET FileId]
    BY DEF Inv, TypeOK
  <2>2. CASE SyncSnapshot(y)
    <3>1. f \in manifests \cup skipped
      BY <2>2 DEF SyncSnapshot, Inv, QuietUnlessUp
    <3> QED BY <2>1, <2>2, <3>1 DEF SyncSnapshot
  <2>3. CASE SyncTruncate(y)
    BY <2>1, <2>3, EmptyFacts DEF SyncTruncate
  <2>4. CASE SyncWrite(y)
    <3>1. list'.state = "written" /\ list'.front = snap[y]
      BY <2>1, <2>4, WrittenFacts DEF SyncWrite, Inv, TypeOK
    <3> QED BY <2>1, <2>4, <3>1 DEF SyncWrite, SyncDone
  <2> QED BY <1>5, <2>2, <2>3, <2>4 DEF SyncerStep
<1>6. CASE Crash
  BY <1>6 DEF Crash
<1>7. ASSUME NEW unread \in SUBSET list.front, LoadBut(unread) PROVE Safe(f)'
  <2>1. CASE f \in skipped \cup unread
    BY <1>7, <2>1 DEF LoadBut
  <2>2. CASE f \notin skipped \cup unread
    <3>1. list.state = "written" /\ f \in list.front
      BY <1>7, <2>2 DEF LoadBut, Corrupt, Readable
    <3>2. \A c \in Blocks(f) : c \in Chunk /\ file[c] = "complete"
      BY <1>7, <2>2, BlocksAreChunks DEF LoadBut, Corrupt, Inv, TypeOK
    <3>3. f \in LoadedManifests
      BY <3>1, <3>2 DEF LoadedManifests, LoadedChunks, Blocks
    <3> QED BY <1>7, <2>2, <3>3 DEF LoadBut
  <2> QED BY <2>1, <2>2
<1>8. CASE StartTruncate
  BY <1>8, EmptyFacts DEF StartTruncate
<1>9. CASE StartWrite
  <2>1. list'.state = "written" /\ list'.front = manifests
    BY <1>9, WrittenFacts DEF StartWrite, Inv, TypeOK
  <2> QED BY <1>9, <2>1 DEF StartWrite
<1>10. CASE StartRefused
  BY <1>10 DEF StartRefused
<1>11. CASE DiskFails
  <2>1. CASE (\E p \in Caller : PutFail(p)) \/ StartFail
    BY <2>1 DEF PutFail, StartFail
  <2>2. CASE \E y \in Syncer : SyncFail(y)
    BY <2>2 DEF SyncFail, SyncDone, Inv, TypeOK
  <2>3. CASE StartSkips
    BY <1>7, <2>3 DEF StartSkips
  <2> QED BY <1>11, <2>1, <2>2, <2>3 DEF DiskFails
<1> QED BY <1>1, <1>2, <1>3, <1>4, <1>5, <1>6, <1>7, <1>8, <1>9, <1>10, <1>11 DEF Next, SoundNext, Start, StartLoad

\* A published file whose id has settled in manifests.json is offered after
\* every restart that succeeds, whatever is published, killed or failing in
\* the meantime, unless a start could not read its manifest.
THEOREM SettledManifestsSurviveHolds == Spec => SettledManifestsSurvive
<1> SUFFICES ASSUME NEW f \in FileId
             PROVE  Spec => [](Settled(f) => [](phase = "up" => f \in manifests \cup skipped))
  BY DEF SettledManifestsSurvive
<1>1. Inv => (Settled(f) => Safe(f))
  BY SettledIsSafe
<1>2. Safe(f) => (phase = "up" => f \in manifests \cup skipped)
  BY DEF Safe, Running
<1>3. Inv /\ [Next]_vars /\ Safe(f) => Safe(f)'
  BY SafeStable
<1> QED BY <1>1, <1>2, <1>3, InvHolds, PTL DEF Spec

-----------------------------------------------------------------------------
(* Damage without write errors. *)

\* A caller about to index has a complete file, or a second writer has
\* truncated it and is about to complete it.
Rewriting(c) == \E q \in Caller : pc[q] = "put_write" /\ arg[q] = c
IndexReady ==
  \A p \in Caller : pc[p] = "put_index" => file[arg[p]] = "complete" \/ Rewriting(arg[p])
Damage == DamagedOnlyWhileRewritten /\ IndexReady

LEMMA DamageStep ==
  ASSUME Inv, Damage, [SoundNext]_vars
  PROVE  Damage'
<1> USE DEF Damage, IndexReady, DamagedOnlyWhileRewritten, Rewriting, Goto, Return, SyncDone,
            memory, callers, syncers
<1>0. /\ file \in [Chunk -> {"absent", "partial", "complete"}]
      /\ pc \in [Caller -> {"idle", "put_open", "put_write", "put_index", "add_check", "add_insert"}]
      /\ arg \in [Caller -> Chunk \cup {NoChunk}]
      /\ \A p \in Caller : pc[p] # "idle" => arg[p] \in Chunk
      /\ chunks \subseteq Chunk
  BY DEF Inv, TypeOK
<1>1. CASE UNCHANGED vars
  BY <1>1 DEF vars
<1>2. ASSUME NEW p \in Caller, NEW c \in Chunk, PutCheck(p, c) PROVE Damage'
  BY <1>0, <1>2 DEF PutCheck
<1>3. ASSUME NEW p \in Caller, NEW f \in FileId, AddCheck(p, f) PROVE Damage'
  BY <1>0, <1>3 DEF AddCheck
<1>4. ASSUME NEW p \in Caller, CallerStep(p) PROVE Damage'
  <2>1. CASE PutTruncate(p)
    <3>1. pc'[p] = "put_write" /\ arg' = arg /\ \A q \in Caller \ {p} : pc'[q] = pc[q]
      BY <1>0, <2>1 DEF PutTruncate
    <3>2. \A c \in Chunk \ {arg[p]} : file'[c] = file[c]
      BY <1>0, <2>1 DEF PutTruncate
    <3>3. pc[p] = "put_open" /\ chunks' = chunks
      BY <2>1 DEF PutTruncate
    <3>4. \A c \in Chunk : Rewriting(c) \/ c = arg[p] => Rewriting(c)'
      BY <3>1, <3>3
    <3> QED BY <1>0, <3>1, <3>2, <3>3, <3>4
  <2>2. CASE PutWrite(p)
    <3>1. pc[p] = "put_write" /\ pc'[p] = "put_index" /\ arg' = arg /\ chunks' = chunks
      BY <1>0, <2>2 DEF PutWrite
    <3>2. \A q \in Caller \ {p} : pc'[q] = pc[q]
      BY <1>0, <2>2 DEF PutWrite
    <3>3. \A c \in Chunk : file'[c] = IF c = arg[p] THEN "complete" ELSE file[c]
      BY <1>0, <2>2 DEF PutWrite
    <3>4. \A c \in Chunk : Rewriting(c) /\ c # arg[p] => Rewriting(c)'
      BY <3>1, <3>2
    <3> QED BY <1>0, <3>1, <3>2, <3>3, <3>4
  <2>3. CASE PutIndex(p)
    <3>1. pc[p] = "put_index" /\ chunks' = chunks \cup {arg[p]} /\ file' = file
      BY <2>3 DEF PutIndex
    <3>2. \A q \in Caller \ {p} : pc'[q] = pc[q] /\ arg'[q] = arg[q]
      BY <1>0, <2>3 DEF PutIndex
    <3>3. pc'[p] = "idle"
      BY <1>0, <2>3 DEF PutIndex
    <3>4. \A c \in Chunk : Rewriting(c) => Rewriting(c)'
      BY <3>1, <3>2
    <3> QED BY <1>0, <3>1, <3>2, <3>3, <3>4
  <2>4. CASE AddValidate(p) \/ AddInsert(p)
    <3>1. pc[p] \in {"add_check", "add_insert"} /\ pc'[p] \in {"idle", "add_insert"}
          /\ file' = file /\ chunks' = chunks
      BY <1>0, <2>4 DEF AddValidate, AddInsert
    <3>2. \A q \in Caller \ {p} : pc'[q] = pc[q] /\ arg'[q] = arg[q]
      BY <1>0, <2>4 DEF AddValidate, AddInsert
    <3>3. \A c \in Chunk : Rewriting(c) => Rewriting(c)'
      BY <3>1, <3>2
    <3> QED BY <1>0, <3>1, <3>2, <3>3
  <2> QED BY <1>4, <2>1, <2>2, <2>3, <2>4 DEF CallerStep
<1>5. CASE \E y \in Syncer : SyncerStep(y)
  BY <1>5 DEF SyncerStep, SyncSnapshot, SyncTruncate, SyncWrite
<1>6. CASE Crash
  BY <1>6 DEF Crash
<1>7. CASE StartLoad
  BY <1>7 DEF StartLoad, LoadBut, LoadedChunks, Inv, QuietUnlessUp
<1>8. CASE StartRefused \/ StartTruncate \/ StartWrite
  BY <1>8 DEF StartRefused, StartTruncate, StartWrite
<1> QED BY <1>1, <1>2, <1>3, <1>4, <1>5, <1>6, <1>7, <1>8 DEF SoundNext, Start

\* As long as no write fails, an indexed chunk is damaged only inside the
\* window in which another PutChunk rewrites it (store.go:105-119).
THEOREM DamageConfined == SoundSpec => []DamagedOnlyWhileRewritten
<1>1. Init => Inv /\ Damage
  BY InitInv DEF Init, Damage, IndexReady, DamagedOnlyWhileRewritten
<1>2. Inv /\ Damage /\ [SoundNext]_vars => (Inv /\ Damage)'
  BY NextInv, DamageStep DEF Next
<1>3. Damage => DamagedOnlyWhileRewritten
  BY DEF Damage
<1> QED BY <1>1, <1>2, <1>3, PTL DEF SoundSpec

-----------------------------------------------------------------------------
(* The two statements that the runs refute, QuiescentPersisted and         *)
(* Restartable, hold but for the causes that the counterexamples show:     *)
(* overlapping syncManifests goroutines, and kills inside a write.         *)

OneSync == \A y, z \in Syncer : sync[y] # "idle" /\ sync[z] # "idle" => y = z

\* A kill does not hit a file between its truncation and its write.
GentleKill ==
  phase' = "down" =>
    /\ phase # "rewriting"
    /\ \A p \in Caller : pc[p] # "put_write"
    /\ \A y \in Syncer : sync[y] # "write"

\* A syncManifests goroutine that is alone writes the index, into an empty file.
Syncing ==
  /\ \A y \in Syncer : sync[y] \in {"open", "write"} => snap[y] = manifests
  /\ \A y \in Syncer : sync[y] = "write" => list = Empty
  /\ phase = "rewriting" => list = Empty
  /\ QuiescentPersisted

\* The disk is as NewStore wants it, except where somebody is writing.
Intact ==
  /\ \A c \in Chunk : file[c] = "partial" => Rewriting(c)
  /\ \/ list.state = "absent"
     \/ Readable(list)
     \/ phase = "rewriting"
     \/ \E y \in Syncer : sync[y] = "write"
  /\ phase # "refused"

\* A list written into an empty file is the list.
LEMMA WrittenReadable ==
  ASSUME NEW ids \in SUBSET FileId
  PROVE  Readable(Written(Empty, ids)) /\ Written(Empty, ids).front = ids
<1>1. Cardinality(ids) \in Nat
  BY FileIdAssumption, FS_Subset, FS_CardinalityType
<1> QED BY <1>1 DEF Readable, Written, Empty, Larger

LEMMA SyncingStep ==
  ASSUME Inv, Syncing, OneSync, OneSync', [SoundNext]_vars
  PROVE  Syncing'
<1> USE DEF Goto, Return, memory, callers, syncers
<1>0. /\ sync \in [Syncer -> {"idle", "start", "open", "write"}]
      /\ snap \in [Syncer -> SUBSET FileId]
      /\ manifests \in SUBSET FileId
      /\ phase # "up" => \A y \in Syncer : sync[y] = "idle"
  BY DEF Inv, TypeOK, QuietUnlessUp
<1>1. ASSUME UNCHANGED <<phase, list, manifests, sync, snap>>
      PROVE  Syncing'
  BY <1>1 DEF Syncing, QuiescentPersisted, Readable
<1>2. CASE UNCHANGED vars
  BY <1>1, <1>2 DEF vars
<1>3. ASSUME NEW p \in Caller, NEW c \in Chunk, PutCheck(p, c) PROVE Syncing'
  BY <1>1, <1>3 DEF PutCheck
<1>4. ASSUME NEW p \in Caller, NEW f \in FileId, AddCheck(p, f) PROVE Syncing'
  BY <1>1, <1>4 DEF AddCheck
<1>5. ASSUME NEW p \in Caller, PutTruncate(p) \/ PutWrite(p) \/ PutIndex(p) \/ AddValidate(p)
      PROVE  Syncing'
  BY <1>1, <1>5 DEF PutTruncate, PutWrite, PutIndex, AddValidate
<1>6. ASSUME NEW p \in Caller, AddInsert(p) PROVE Syncing'
  <2>1. PICK y \in Syncer : sync[y] = "idle" /\ sync' = [sync EXCEPT ![y] = "start"]
    BY <1>6 DEF AddInsert
  <2>2. sync'[y] = "start" /\ \A z \in Syncer \ {y} : sync'[z] = "idle"
    BY <1>0, <2>1 DEF OneSync
  <2>3. UNCHANGED <<phase, list>>
    BY <1>6 DEF AddInsert
  <2> QED BY <2>2, <2>3 DEF Syncing, QuiescentPersisted
<1>7. ASSUME NEW y \in Syncer, SyncerStep(y) PROVE Syncing'
  <2>1. sync[y] # "idle" /\ phase = "up" /\ \A z \in Syncer \ {y} : sync[z] = "idle" /\ sync'[z] = "idle"
    BY <1>0, <1>7 DEF SyncerStep, SyncSnapshot, SyncTruncate, SyncWrite, SyncDone, OneSync
  <2>2. CASE SyncSnapshot(y)
    <3>1. sync'[y] = "open" /\ snap'[y] = manifests /\ UNCHANGED <<phase, list, manifests>>
      BY <1>0, <2>2 DEF SyncSnapshot
    <3> QED BY <2>1, <3>1 DEF Syncing, QuiescentPersisted
  <2>3. CASE SyncTruncate(y)
    <3>1. sync'[y] = "write" /\ list' = Empty /\ sync[y] = "open" /\ UNCHANGED <<phase, manifests, snap>>
      BY <1>0, <2>3 DEF SyncTruncate
    <3> QED BY <2>1, <3>1 DEF Syncing, QuiescentPersisted
  <2>4. CASE SyncWrite(y)
    <3>1. sync'[y] = "idle" /\ list' = Written(Empty, manifests) /\ UNCHANGED <<phase, manifests>>
      BY <1>0, <2>4 DEF SyncWrite, SyncDone, Syncing
    <3>2. Readable(list') /\ list'.front = manifests
      BY <1>0, <3>1, WrittenReadable
    <3>3. QuiescentPersisted'
      BY <3>1, <3>2 DEF QuiescentPersisted, Readable
    <3> QED BY <2>1, <3>1, <3>3 DEF Syncing
  <2> QED BY <1>7, <2>2, <2>3, <2>4 DEF SyncerStep
<1>8. CASE Crash
  BY <1>8 DEF Crash, Syncing, QuiescentPersisted
<1>9. CASE StartRefused \/ StartLoad
  BY <1>0, <1>9 DEF StartRefused, StartLoad, LoadBut, Syncing, QuiescentPersisted
<1>10. CASE StartTruncate
  BY <1>0, <1>10 DEF StartTruncate, Syncing, QuiescentPersisted
<1>11. CASE StartWrite
  <2>1. list' = Written(Empty, manifests) /\ UNCHANGED <<manifests, sync, snap>> /\ phase' = "up" /\ phase = "rewriting"
    BY <1>11 DEF StartWrite, Syncing
  <2>2. Readable(list') /\ list'.front = manifests
    BY <1>0, <2>1, WrittenReadable
  <2>3. QuiescentPersisted'
    BY <2>1, <2>2 DEF QuiescentPersisted, Readable
  <2> QED BY <1>0, <2>1, <2>3 DEF Syncing
<1> QED BY <1>2, <1>3, <1>4, <1>5, <1>6, <1>7, <1>8, <1>9, <1>10, <1>11
        DEF SoundNext, CallerStep, Start

LEMMA InitSyncing == Init => Syncing
BY DEF Init, Syncing, QuiescentPersisted

\* As long as no two syncManifests goroutines are alive at once and no write
\* fails, the manifests on the disk are those in memory whenever the node has
\* nothing left to do, kills and restarts included: the overlap that
\* AddManifest's "go s.syncManifests()" allows is the only cause of the loss
\* that QuiescentPersisted's run shows (store.go:157, 182-194).
THEOREM PersistedUnlessSyncsOverlap == SoundSpec /\ []OneSync => []QuiescentPersisted
<1>1. Inv /\ Syncing /\ OneSync /\ OneSync' /\ [SoundNext]_vars => (Inv /\ Syncing)'
  BY NextInv, SyncingStep DEF Next
<1>2. Syncing => QuiescentPersisted
  BY DEF Syncing
<1> QED BY <1>1, <1>2, InitInv, InitSyncing, PTL DEF SoundSpec

\* Writers of one chunk complete it, whoever of them is the last.
LEMMA IntactStep ==
  ASSUME Inv, Syncing, Intact, OneSync, [SoundNext]_vars, [GentleKill]_vars
  PROVE  Intact'
<1> USE DEF Goto, Return, memory, callers, syncers
<1>0. /\ file \in [Chunk -> {"absent", "partial", "complete"}]
      /\ pc \in [Caller -> {"idle", "put_open", "put_write", "put_index", "add_check", "add_insert"}]
      /\ arg \in [Caller -> Chunk \cup {NoChunk}]
      /\ \A p \in Caller : pc[p] # "idle" => arg[p] \in Chunk
      /\ sync \in [Syncer -> {"idle", "start", "open", "write"}]
      /\ snap \in [Syncer -> SUBSET FileId] /\ manifests \in SUBSET FileId
  BY DEF Inv, TypeOK
<1>1. /\ \A c \in Chunk : file[c] = "partial" => Rewriting(c)
      /\ list.state = "absent" \/ Readable(list) \/ phase = "rewriting" \/ \E y \in Syncer : sync[y] = "write"
      /\ phase # "refused"
  BY DEF Intact
<1>2. ASSUME UNCHANGED <<phase, list, sync>>, \A c \in Chunk : file'[c] = "partial" => Rewriting(c)'
      PROVE  Intact'
  BY <1>1, <1>2 DEF Intact, Readable
<1>3. ASSUME NEW p \in Caller, pc[p] # "put_write", UNCHANGED file,
             \A q \in Caller \ {p} : pc'[q] = pc[q] /\ arg'[q] = arg[q]
      PROVE  \A c \in Chunk : file'[c] = "partial" => Rewriting(c)'
  BY <1>1, <1>3 DEF Rewriting
<1>4. CASE UNCHANGED vars
  BY <1>1, <1>2, <1>4 DEF vars, Rewriting
<1>5. ASSUME NEW p \in Caller, NEW c \in Chunk, PutCheck(p, c) PROVE Intact'
  <2>1. /\ pc[p] # "put_write" /\ UNCHANGED <<file, phase, list, sync>>
        /\ \A q \in Caller \ {p} : pc'[q] = pc[q] /\ arg'[q] = arg[q]
    BY <1>0, <1>5 DEF PutCheck
  <2> QED BY <1>2, <1>3, <2>1
<1>6. ASSUME NEW p \in Caller, NEW f \in FileId, AddCheck(p, f) PROVE Intact'
  <2>1. /\ pc[p] # "put_write" /\ UNCHANGED <<file, phase, list, sync>>
        /\ \A q \in Caller \ {p} : pc'[q] = pc[q] /\ arg'[q] = arg[q]
    BY <1>0, <1>6 DEF AddCheck
  <2> QED BY <1>2, <1>3, <2>1
<1>7. ASSUME NEW p \in Caller, PutTruncate(p) PROVE Intact'
  <2>1. /\ pc'[p] = "put_write" /\ arg' = arg /\ \A q \in Caller \ {p} : pc'[q] = pc[q]
        /\ pc[p] = "put_open" /\ \A c \in Chunk \ {arg[p]} : file'[c] = file[c]
    BY <1>0, <1>7 DEF PutTruncate
  <2>2. \A c \in Chunk : file'[c] = "partial" => Rewriting(c)'
    BY <1>1, <2>1 DEF Rewriting
  <2> QED BY <1>2, <1>7, <2>2 DEF PutTruncate
<1>8. ASSUME NEW p \in Caller, PutWrite(p) PROVE Intact'
  <2>1. /\ arg' = arg /\ \A q \in Caller \ {p} : pc'[q] = pc[q]
        /\ \A c \in Chunk : file'[c] = IF c = arg[p] THEN "complete" ELSE file[c]
    BY <1>0, <1>8 DEF PutWrite
  <2>2. \A c \in Chunk : file'[c] = "partial" => Rewriting(c)'
    BY <1>1, <2>1 DEF Rewriting
  <2> QED BY <1>2, <1>8, <2>2 DEF PutWrite
<1>9. ASSUME NEW p \in Caller, PutIndex(p) \/ AddValidate(p) PROVE Intact'
  <2>1. /\ pc[p] # "put_write" /\ UNCHANGED <<file, phase, list, sync>>
        /\ \A q \in Caller \ {p} : pc'[q] = pc[q] /\ arg'[q] = arg[q]
    BY <1>0, <1>9 DEF PutIndex, AddValidate
  <2> QED BY <1>2, <1>3, <2>1
<1>10. ASSUME NEW p \in Caller, AddInsert(p) PROVE Intact'
  <2>1. /\ pc[p] # "put_write" /\ UNCHANGED <<file, phase, list>>
        /\ \A q \in Caller \ {p} : pc'[q] = pc[q] /\ arg'[q] = arg[q]
        /\ \A y \in Syncer : sync[y] = "write" => sync'[y] = "write"
    BY <1>0, <1>10 DEF AddInsert
  <2>2. \A c \in Chunk : file'[c] = "partial" => Rewriting(c)'
    BY <1>3, <2>1
  <2> QED BY <1>1, <2>1, <2>2 DEF Intact, Readable
<1>11. ASSUME NEW y \in Syncer, SyncerStep(y) PROVE Intact'
  <2>1. UNCHANGED <<phase, file, pc, arg>>
    BY <1>11 DEF SyncerStep, SyncSnapshot, SyncTruncate, SyncWrite
  <2>2. \A c \in Chunk : file'[c] = "partial" => Rewriting(c)'
    BY <1>1, <2>1 DEF Rewriting
  <2>3. CASE SyncSnapshot(y)
    <3>1. UNCHANGED list /\ \A z \in Syncer : sync[z] = "write" => sync'[z] = "write"
      BY <1>0, <2>3 DEF SyncSnapshot
    <3> QED BY <1>1, <2>1, <2>2, <3>1 DEF Intact, Readable
  <2>4. CASE SyncTruncate(y)
    <3>1. sync'[y] = "write"
      BY <1>0, <2>4 DEF SyncTruncate
    <3> QED BY <1>1, <2>1, <2>2, <3>1 DEF Intact
  <2>5. CASE SyncWrite(y)
    <3>1. list' = Written(Empty, manifests)
      BY <2>5 DEF SyncWrite, Syncing
    <3>2. Readable(list')
      BY <1>0, <3>1, WrittenReadable
    <3> QED BY <1>1, <2>1, <2>2, <3>2 DEF Intact, Readable
  <2> QED BY <1>11, <2>3, <2>4, <2>5 DEF SyncerStep
<1>12. CASE Crash
  <2>1. /\ phase' = "down" /\ UNCHANGED <<file, list>> /\ phase # phase'
    BY <1>12 DEF Crash
  <2>2. GentleKill
    BY <2>1 DEF vars
  <2>3. \A c \in Chunk : file[c] # "partial"
    BY <1>1, <2>1, <2>2 DEF GentleKill, Rewriting
  <2> QED BY <1>1, <2>1, <2>2, <2>3 DEF GentleKill, Intact, Readable
<1>13. ~ StartRefused
  <2> SUFFICES ASSUME phase = "down" PROVE ~ Corrupt
    BY <1>1 DEF StartRefused
  <2>1. /\ \A p \in Caller : pc[p] = "idle"
        /\ \A y \in Syncer : sync[y] = "idle"
    BY DEF Inv, QuietUnlessUp
  <2> QED BY <1>1, <2>1 DEF Corrupt, Rewriting
<1>14. CASE StartLoad
  BY <1>1, <1>14 DEF StartLoad, LoadBut, Intact, Rewriting, Readable
<1>15. CASE StartTruncate
  BY <1>1, <1>15 DEF StartTruncate, Intact, Rewriting
<1>16. CASE StartWrite
  <2>1. list' = Written(Empty, manifests) /\ phase' = "up" /\ UNCHANGED <<file, pc, arg>>
    BY <1>16 DEF StartWrite, Syncing
  <2>2. Readable(list')
    BY <1>0, <2>1, WrittenReadable
  <2> QED BY <1>1, <2>1, <2>2 DEF Intact, Rewriting, Readable
<1> QED BY <1>4, <1>5, <1>6, <1>7, <1>8, <1>9, <1>10, <1>11, <1>12, <1>13, <1>14, <1>15, <1>16
        DEF SoundNext, CallerStep, Start

\* A node starts again after every kill that does not fall between the
\* truncation and the write of a file, as long as its syncManifests goroutines
\* do not overlap: these two windows are all that NewStore's refusal to start
\* can come from (store.go:54-73, 112, 157, 182-194).
THEOREM StartsUnlessTorn == SoundSpec /\ []OneSync /\ [][GentleKill]_vars => [](phase # "refused")
<1>1. Init => Intact
  BY DEF Init, Intact, Absent
<1>2. Inv /\ Syncing /\ Intact /\ OneSync /\ OneSync' /\ [SoundNext]_vars /\ [GentleKill]_vars
        => (Inv /\ Syncing /\ Intact)'
  BY NextInv, SyncingStep, IntactStep DEF Next
<1>3. Intact => phase # "refused"
  BY DEF Intact
<1> QED BY <1>1, <1>2, <1>3, InitInv, InitSyncing, PTL DEF SoundSpec

-----------------------------------------------------------------------------
(* Publish over the store.  PublishAccepted is not inductive: what makes   *)
(* the last check succeed is that every chunk of the file is still to be   *)
(* handed over, or is being put, or is indexed, and that the index never   *)
(* shrinks while the publisher runs.                                       *)

Handed(p, c) ==
  \/ c \in todo[p]
  \/ c \in chunks
  \/ pc[p] \in {"put_open", "put_write", "put_index"} /\ c = arg[p]

PublisherOK(p) ==
  /\ pc[p] # "idle" => job[p] # NoChunk
  /\ job[p] # NoChunk => phase = "up"
  /\ job[p] # NoChunk => \A c \in Blocks(job[p]) : Handed(p, c)
  /\ pc[p] \in {"add_check", "add_insert"} => arg[p] = job[p] /\ todo[p] = {}

PublishInv ==
  /\ job \in [Publisher -> FileId \cup {NoChunk}]
  /\ todo \in [Publisher -> SUBSET Chunk]
  /\ \A p \in Publisher : PublisherOK(p)

LEMMA PublishTyped == PublishInv => PublishTypeOK
BY DEF PublishInv, PublisherOK, PublishTypeOK

LEMMA PublishInvAccepts == PublishInv => PublishAccepted
<1> SUFFICES ASSUME PublishInv, NEW p \in Publisher, pc[p] = "add_check"
             PROVE  AllChunksHeld(arg[p])
  BY DEF PublishAccepted
<1>1. \A c \in Blocks(arg[p]) : c \in chunks
  BY DEF PublishInv, PublisherOK, Handed
<1> QED BY <1>1 DEF AllChunksHeld, Blocks

\* A file is never NoChunk.
LEMMA FileIsNotNone == NoChunk \notin FileId
BY FileIdAssumption, NoChunkAssumption

\* What a publisher does is a call of the store that any caller may make, a
\* step of such a call, or nothing the store sees.
LEMMA PutOneIsCall ==
  ASSUME NEW p \in Publisher, NEW f, NEW cs, cs \subseteq Chunk, PutOne(p, f, cs)
  PROVE  [Next]_vars
BY PublisherAssumption DEF PutOne, Turn, Next, SoundNext

LEMMA PublisherIsCaller ==
  ASSUME PublishInv,
         \/ \E p \in Publisher, f \in FileId : Begin(p, f)
         \/ \E p \in Publisher : PublishStep(p)
  PROVE  [Next]_vars
<1>1. ASSUME NEW p \in Publisher, NEW f \in FileId, Begin(p, f) PROVE [Next]_vars
  BY <1>1, BlocksAreChunks, PutOneIsCall DEF Begin
<1>2. ASSUME NEW p \in Publisher, PublishStep(p) PROVE [Next]_vars
  <2>1. CASE PutNext(p)
    BY <2>1, PutOneIsCall DEF PutNext, PublishInv
  <2>2. CASE ListIt(p)
    <3>1. job[p] \in FileId /\ p \in Caller
      BY <2>2, PublisherAssumption DEF ListIt, Publishing, PublishInv
    <3> QED BY <2>2, <3>1 DEF ListIt, Next, SoundNext
  <2>3. CASE GoOn(p)
    BY <2>3, PublisherAssumption DEF GoOn, Next, SoundNext
  <2>4. CASE ReadFails(p)
    BY <2>4 DEF ReadFails
  <2>5. CASE PublishFails(p)
    BY <2>5, PublisherAssumption DEF PublishFails, Next, DiskFails
  <2> QED BY <1>2, <2>1, <2>2, <2>3, <2>4, <2>5 DEF PublishStep
<1> QED BY <1>1, <1>2

\* Every step of the node is a step of its store, or none of its business.
LEMMA StoreStepOrStutter == PublishInv /\ [NodeNext]_allVars => [Next]_vars
<1> SUFFICES ASSUME PublishInv, [NodeNext]_allVars PROVE [Next]_vars OBVIOUS
<1>1. ASSUME StoreStep PROVE [Next]_vars
  <2>1. ASSUME OtherCalls PROVE Next
    BY <2>1 DEF OtherCalls, Next, SoundNext, DiskFails
  <2>2. ASSUME NEW y \in Syncer, SyncerStep(y) \/ SyncFail(y) PROVE Next
    BY <2>2 DEF Next, SoundNext, DiskFails
  <2>3. ASSUME Start \/ StartFail \/ StartSkips PROVE Next
    BY <2>3 DEF Next, SoundNext, DiskFails
  <2> QED BY <1>1, <2>1, <2>2, <2>3, PublisherIsCaller DEF StoreStep
<1>2. ASSUME IdentStep PROVE UNCHANGED vars
  BY <1>2 DEF IdentStep, IdentReuse, IdentGenerate, CertTruncate, CertWrite, KeyTruncate, KeyWrite
<1>3. ASSUME Kill PROVE Next
  BY <1>3 DEF Kill, Next, SoundNext
<1>4. ASSUME UNCHANGED allVars PROVE UNCHANGED vars
  BY <1>4 DEF allVars
<1> QED BY <1>1, <1>2, <1>3, <1>4 DEF NodeNext

\* A publisher is not disturbed by what others do while the node is up: they
\* only add to the index.
LEMMA OthersHarmless ==
  ASSUME PublishInv, UNCHANGED publishers,
         \A q \in Publisher : pc'[q] = pc[q] /\ arg'[q] = arg[q],
         phase = "up" => phase' = "up" /\ chunks \subseteq chunks'
  PROVE  PublishInv'
BY DEF PublishInv, PublisherOK, Handed, publishers

\* One publisher moves: the others keep what they have.
LEMMA OneMoves ==
  ASSUME PublishInv, NEW p \in Publisher, PublisherOK(p)',
         job' \in [Publisher -> FileId \cup {NoChunk}],
         todo' \in [Publisher -> SUBSET Chunk],
         \A q \in Publisher \ {p} : /\ job'[q] = job[q] /\ todo'[q] = todo[q]
                                    /\ pc'[q] = pc[q] /\ arg'[q] = arg[q],
         phase' = phase, chunks \subseteq chunks'
  PROVE  PublishInv'
<1>1. \A q \in Publisher \ {p} : PublisherOK(q)'
  BY DEF PublishInv, PublisherOK, Handed
<1> QED BY <1>1 DEF PublishInv

\* A step of one caller leaves the others where they are.
LEMMA OneCaller ==
  ASSUME TypeOK, NEW p \in Caller,
         \/ \E c \in Chunk : PutCheck(p, c)
         \/ \E f \in FileId : AddCheck(p, f)
         \/ CallerStep(p) \/ PutFail(p)
  PROVE  /\ \A q \in Caller \ {p} : pc'[q] = pc[q] /\ arg'[q] = arg[q]
         /\ phase' = phase
         /\ chunks \subseteq chunks'
<1> USE DEF TypeOK, Goto, Return, memory
<1>1. CASE \/ \E c \in Chunk : PutCheck(p, c)
           \/ \E f \in FileId : AddCheck(p, f)
  BY <1>1 DEF PutCheck, AddCheck
<1>2. CASE CallerStep(p)
  BY <1>2 DEF CallerStep, PutTruncate, PutWrite, PutIndex, AddValidate, AddInsert
<1>3. CASE PutFail(p)
  BY <1>3 DEF PutFail
<1> QED BY <1>1, <1>2, <1>3

\* Publish returning is fine at any point.
LEMMA LeaveOK ==
  ASSUME PublishInv, NEW p \in Publisher, Leave(p), pc'[p] = "idle"
  PROVE  /\ PublisherOK(p)'
         /\ job' \in [Publisher -> FileId \cup {NoChunk}]
         /\ todo' \in [Publisher -> SUBSET Chunk]
         /\ \A q \in Publisher \ {p} : job'[q] = job[q] /\ todo'[q] = todo[q]
<1>1. job'[p] = NoChunk /\ todo'[p] = {}
  BY DEF Leave, PublishInv
<1> QED BY <1>1 DEF Leave, PublishInv, PublisherOK

\* Handing over one of the chunks that are left.
LEMMA PutOneInv ==
  ASSUME TypeOK, PublishInv, NEW p \in Publisher, NEW f \in FileId,
         NEW cs \in SUBSET Chunk, PutOne(p, f, cs), phase = "up", pc[p] = "idle",
         \A c \in Blocks(f) : c \in cs \/ c \in chunks
  PROVE  PublishInv'
<1> PICK c \in Turn(f, cs) : /\ PutCheck(p, c) \/ (c \in chunks /\ UNCHANGED vars)
                             /\ todo' = [todo EXCEPT ![p] = cs \ {c}]
  BY DEF PutOne
<1>1. c \in Chunk /\ c \in cs
  BY DEF Turn
<1>2. p \in Caller
  BY PublisherAssumption
<1>3. /\ \A q \in Caller \ {p} : pc'[q] = pc[q] /\ arg'[q] = arg[q]
      /\ phase' = phase
      /\ chunks' = chunks
  BY <1>1, <1>2, OneCaller DEF PutCheck, vars, memory
<1>4. \/ pc'[p] = "put_open" /\ arg'[p] = c
      \/ pc'[p] = "idle" /\ c \in chunks
  BY <1>2 DEF PutCheck, vars, Goto, TypeOK
<1>5. job'[p] = f /\ todo'[p] = cs \ {c}
  BY DEF PutOne, PublishInv
<1>6. \A b \in Blocks(f) : Handed(p, b)'
  BY <1>3, <1>4, <1>5 DEF Handed
<1>7. PublisherOK(p)'
  BY <1>3, <1>4, <1>5, <1>6, FileIsNotNone DEF PublisherOK
<1>8. /\ job' \in [Publisher -> FileId \cup {NoChunk}]
      /\ todo' \in [Publisher -> SUBSET Chunk]
      /\ \A q \in Publisher \ {p} : job'[q] = job[q] /\ todo'[q] = todo[q]
  BY DEF PutOne, PublishInv
<1> QED BY <1>3, <1>7, <1>8, OneMoves, PublisherAssumption

LEMMA GoOnInv ==
  ASSUME TypeOK, PublishInv, NEW p \in Publisher, GoOn(p)
  PROVE  PublishInv'
<1>1. p \in Caller
  BY PublisherAssumption
<1>2. /\ \A q \in Caller \ {p} : pc'[q] = pc[q] /\ arg'[q] = arg[q]
      /\ phase' = phase
      /\ chunks \subseteq chunks'
  BY <1>1, OneCaller DEF GoOn
<1>3. CASE pc[p] \in {"add_check", "add_insert"} /\ pc'[p] = "idle"
  BY <1>2, <1>3, LeaveOK, OneMoves, PublisherAssumption DEF GoOn
<1>4. CASE ~ (pc[p] \in {"add_check", "add_insert"} /\ pc'[p] = "idle")
  <2>1. job' = job /\ todo' = todo
    BY <1>4 DEF GoOn, publishers
  <2>2. pc[p] # "idle" /\ PublisherOK(p)
    BY DEF GoOn, CallerStep, PutTruncate, PutWrite, PutIndex, AddValidate, AddInsert, PublishInv
  <2>3. CASE PutTruncate(p) \/ PutWrite(p)
    <3>1. /\ pc[p] \in {"put_open", "put_write"} /\ pc'[p] \in {"put_write", "put_index"}
          /\ arg' = arg /\ chunks' = chunks
      BY <1>1, <2>3 DEF PutTruncate, PutWrite, Goto, memory, TypeOK
    <3>2. PublisherOK(p)'
      BY <1>2, <2>1, <2>2, <3>1 DEF PublisherOK, Handed
    <3> QED BY <1>2, <2>1, <3>1, <3>2, OneMoves, PublisherAssumption DEF PublishInv
  <2>4. CASE PutIndex(p)
    <3>1. pc[p] = "put_index" /\ pc'[p] = "idle" /\ chunks' = chunks \cup {arg[p]}
      BY <1>1, <2>4 DEF PutIndex, Return, TypeOK
    <3>2. PublisherOK(p)'
      BY <1>2, <2>1, <2>2, <3>1 DEF PublisherOK, Handed
    <3> QED BY <1>2, <2>1, <3>2, OneMoves, PublisherAssumption DEF PublishInv
  <2>5. CASE AddValidate(p)
    <3>1. /\ pc[p] = "add_check" /\ pc'[p] = "add_insert"
          /\ arg' = arg /\ chunks' = chunks
      BY <1>1, <1>4, <2>5 DEF AddValidate, Goto, Return, memory, TypeOK
    <3>2. PublisherOK(p)'
      BY <1>2, <2>1, <2>2, <3>1 DEF PublisherOK, Handed
    <3> QED BY <1>2, <2>1, <3>2, OneMoves, PublisherAssumption DEF PublishInv
  <2>6. CASE AddInsert(p)
    <3>1. pc[p] = "add_insert" /\ pc'[p] = "idle"
      BY <1>1, <2>6 DEF AddInsert, Return, TypeOK
    <3> QED BY <1>4, <3>1
  <2> QED BY <2>3, <2>4, <2>5, <2>6 DEF GoOn, CallerStep
<1> QED BY <1>3, <1>4

LEMMA PublishStepInv ==
  ASSUME TypeOK, PublishInv,
         \/ \E p \in Publisher, f \in FileId : Begin(p, f)
         \/ \E p \in Publisher : PublishStep(p)
  PROVE  PublishInv'
<1>1. ASSUME NEW p \in Publisher, NEW f \in FileId, Begin(p, f) PROVE PublishInv'
  <2>1. pc[p] = "idle" /\ phase = "up"
    BY <1>1 DEF Begin, PublishInv, PublisherOK
  <2> QED BY <1>1, <2>1, BlocksAreChunks, PutOneInv DEF Begin
<1>2. ASSUME NEW p \in Publisher, PublishStep(p) PROVE PublishInv'
  <2>0. p \in Caller /\ PublisherOK(p)
    BY PublisherAssumption DEF PublishInv
  <2>1. CASE PutNext(p)
    <3>1. job[p] \in FileId /\ pc[p] = "idle" /\ todo[p] \in SUBSET Chunk
      BY <2>1 DEF PutNext, Publishing, PublishInv
    <3>2. phase = "up" /\ \A c \in Blocks(job[p]) : c \in todo[p] \/ c \in chunks
      BY <2>0, <3>1, FileIsNotNone DEF PublisherOK, Handed
    <3> QED BY <2>1, <3>1, <3>2, PutOneInv DEF PutNext
  <2>2. CASE ListIt(p)
    <3>1. /\ job[p] \in FileId /\ pc[p] = "idle" /\ todo[p] = {} /\ phase = "up"
          /\ \A c \in Blocks(job[p]) : c \in chunks
      BY <2>0, <2>2 DEF ListIt, Publishing, PublishInv, PublisherOK, Handed
    <3>2. CASE AddCheck(p, job[p]) /\ UNCHANGED publishers
      <4>1. \A q \in Caller \ {p} : pc'[q] = pc[q] /\ arg'[q] = arg[q]
        BY <2>0, <3>1, <3>2, OneCaller
      <4>2. /\ pc'[p] = "add_check" /\ arg'[p] = job[p]
            /\ phase' = phase /\ chunks' = chunks /\ job' = job /\ todo' = todo
        BY <2>0, <3>2 DEF AddCheck, Goto, memory, publishers, TypeOK
      <4>3. PublisherOK(p)'
        BY <3>1, <4>2, FileIsNotNone DEF PublisherOK, Handed
      <4> QED BY <4>1, <4>2, <4>3, OneMoves, PublisherAssumption DEF PublishInv
    <3>3. CASE UNCHANGED vars /\ Leave(p)
      BY <3>1, <3>3, LeaveOK, OneMoves DEF vars
    <3> QED BY <2>2, <3>2, <3>3 DEF ListIt
  <2>3. CASE GoOn(p)
    BY <2>3, GoOnInv
  <2>4. CASE ReadFails(p)
    BY <2>4, LeaveOK, OneMoves DEF ReadFails, Publishing, vars
  <2>5. CASE PublishFails(p)
    <3>1. /\ \A q \in Caller \ {p} : pc'[q] = pc[q] /\ arg'[q] = arg[q]
          /\ phase' = phase
          /\ chunks \subseteq chunks'
      BY <2>0, <2>5, OneCaller DEF PublishFails
    <3>2. pc'[p] = "idle"
      BY <2>0, <2>5 DEF PublishFails, PutFail, Return, TypeOK
    <3> QED BY <2>5, <3>1, <3>2, LeaveOK, OneMoves, PublisherAssumption DEF PublishFails
  <2> QED BY <1>2, <2>1, <2>2, <2>3, <2>4, <2>5 DEF PublishStep
<1> QED BY <1>1, <1>2

\* Every step of the node keeps the publishers' invariant.
LEMMA NodeKeepsPublishInv ==
  ASSUME TypeOK, PublishInv, [NodeNext]_allVars
  PROVE  PublishInv'
<1>1. CASE StoreStep
  <2>1. ASSUME OtherCalls, UNCHANGED publishers PROVE PublishInv'
    <3>1. PICK p \in Caller \ Publisher :
            \/ \E c \in Chunk : PutCheck(p, c)
            \/ \E f \in FileId : AddCheck(p, f)
            \/ CallerStep(p) \/ PutFail(p)
      BY <2>1 DEF OtherCalls
    <3>2. /\ \A q \in Caller \ {p} : pc'[q] = pc[q] /\ arg'[q] = arg[q]
          /\ phase' = phase
          /\ chunks \subseteq chunks'
      BY <3>1, OneCaller
    <3> QED BY <2>1, <3>2, OthersHarmless, PublisherAssumption
  <2>2. ASSUME NEW y \in Syncer, SyncerStep(y) \/ SyncFail(y), UNCHANGED publishers
        PROVE  PublishInv'
    <3>1. UNCHANGED <<phase, chunks, pc, arg>>
      BY <2>2 DEF SyncerStep, SyncSnapshot, SyncTruncate, SyncWrite, SyncFail, memory, callers
    <3> QED BY <2>2, <3>1, OthersHarmless
  <2>3. ASSUME Start \/ StartFail \/ StartSkips, UNCHANGED publishers PROVE PublishInv'
    <3>1. phase # "up" /\ UNCHANGED <<pc, arg>>
      BY <2>3 DEF Start, StartRefused, StartLoad, StartSkips, LoadBut, StartTruncate, StartWrite, StartFail, callers
    <3> QED BY <2>3, <3>1, OthersHarmless
  <2> QED BY <1>1, <2>1, <2>2, <2>3, PublishStepInv DEF StoreStep
<1>2. CASE IdentStep /\ UNCHANGED publishers
  <2>1. UNCHANGED vars
    BY <1>2 DEF IdentStep, IdentReuse, IdentGenerate, CertTruncate, CertWrite, KeyTruncate, KeyWrite
  <2> QED BY <1>2, <2>1, OthersHarmless DEF vars
<1>3. CASE Kill
  <2>1. /\ job' = [p \in Publisher |-> NoChunk] /\ todo' = [p \in Publisher |-> {}]
        /\ \A p \in Publisher : pc'[p] = "idle"
    BY <1>3, PublisherAssumption DEF Kill, Crash, Forgotten
  <2> QED BY <2>1 DEF PublishInv, PublisherOK
<1>4. CASE UNCHANGED allVars
  BY <1>4, OthersHarmless DEF allVars, vars
<1> QED BY <1>1, <1>2, <1>3, <1>4 DEF NodeNext

\* The store's invariant and that of the publishers hold of the node.
LEMMA NodeInvHolds == NodeSpec => [](Inv /\ PublishInv)
<1>1. NodeInit => Inv /\ PublishInv
  <2>1. NodeInit => Init BY DEF NodeInit
  <2>2. NodeInit => PublishInv
    BY PublisherAssumption DEF NodeInit, Init, PublishInit, PublishInv, PublisherOK
  <2> QED BY <2>1, <2>2, InitInv
<1>2. Inv /\ PublishInv /\ [NodeNext]_allVars => (Inv /\ PublishInv)'
  BY StoreStepOrStutter, NextInv, NodeKeepsPublishInv DEF Inv
<1> QED BY <1>1, <1>2, PTL DEF NodeSpec

\* A publication that has stored its chunks is never turned away by its last
\* check (node.go:71-115, store.go:138-153).
THEOREM PublishAcceptedHolds == NodeSpec => []PublishAccepted
BY NodeInvHolds, PublishInvAccepts, PTL

-----------------------------------------------------------------------------
(* NodeStart: the node implements its store, and its identity is durable   *)
(* and stable, for any number of key pairs, callers and kills.             *)
(*                                                                         *)
(* IdentityStable is not inductive: what keeps a second identity from      *)
(* being generated is that the first one is on the disk in both files, as  *)
(* long as no start has failed to read them.                               *)

\* While nothing was misread, a pair that has been used is still in the files.
ServedOnDisk == misread \/ \A i \in served : cert = i /\ key = i

\* While the files are being written, no identity is in use.
Writing == step \in {"cert_open", "cert_write", "key_open", "key_write"}

WritesFresh ==
  /\ Writing => new \in Ident /\ (misread \/ served = {})
  /\ step \in {"key_open", "key_write"} => cert = new

IdentInv ==
  /\ IdentTypeOK
  /\ IdentityDurable
  /\ IdentityStable
  /\ ServedOnDisk
  /\ WritesFresh

-----------------------------------------------------------------------------
\* Once the store is loaded, it stays so until the process ends.
LEMMA StaysUp ==
  ASSUME TypeOK, StoreStep, phase = "up"
  PROVE  phase' = "up"
<1>1. ASSUME OtherCalls PROVE phase' = "up"
  BY <1>1, OneCaller DEF OtherCalls
<1>2. ASSUME NEW y \in Syncer, SyncerStep(y) \/ SyncFail(y) PROVE phase' = "up"
  BY <1>2 DEF SyncerStep, SyncSnapshot, SyncTruncate, SyncWrite, SyncFail
<1>3. ASSUME Start \/ StartFail \/ StartSkips PROVE phase' = "up"
  BY <1>3 DEF Start, StartRefused, StartLoad, StartSkips, LoadBut, StartTruncate, StartWrite, StartFail
<1>4. ASSUME NEW p, NEW f, NEW cs, PutOne(p, f, cs) PROVE phase' = "up"
  BY <1>4 DEF PutOne, PutCheck, vars
<1>5. ASSUME NEW p \in Publisher, NEW f \in FileId, Begin(p, f) PROVE phase' = "up"
  BY <1>4, <1>5 DEF Begin
<1>6. ASSUME NEW p \in Publisher, PublishStep(p) PROVE phase' = "up"
  <2>1. CASE PutNext(p) \/ ListIt(p) \/ ReadFails(p)
    BY <1>4, <2>1 DEF PutNext, ListIt, ReadFails, AddCheck, vars
  <2>2. CASE GoOn(p) \/ PublishFails(p)
    BY <2>2, OneCaller, PublisherAssumption DEF GoOn, PublishFails
  <2> QED BY <1>6, <2>1, <2>2 DEF PublishStep
<1> QED BY <1>1, <1>2, <1>3, <1>5, <1>6 DEF StoreStep

\* Steps of the store leave the identity alone.
LEMMA StoreStepInv == TypeOK /\ IdentInv /\ StoreStep /\ UNCHANGED identVars => IdentInv'
<1> SUFFICES ASSUME TypeOK, IdentInv, StoreStep, UNCHANGED identVars PROVE IdentInv' OBVIOUS
<1>1. UNCHANGED <<cert, key, step, new, myid, misread, served>>
  BY DEF identVars, identFiles, identMemory
<1>2. step # "read" => phase' = "up" BY StaysUp DEF IdentInv, IdentTypeOK
<1> QED BY <1>1, <1>2
  DEF IdentInv, IdentTypeOK, IdentityDurable, IdentityStable, ServedOnDisk, WritesFresh, Writing

\* Steps of loadOrCreateIdentity keep the invariant.
LEMMA IdentStepInv == IdentInv /\ IdentStep => IdentInv'
<1> SUFFICES ASSUME IdentInv, IdentStep PROVE IdentInv' OBVIOUS
<1> USE IdentAssumption
    DEF IdentInv, IdentTypeOK, IdentityDurable, IdentityStable, ServedOnDisk, WritesFresh,
        Writing, identFiles, vars
<1>1. ASSUME IdentReuse PROVE IdentInv'
  BY <1>1 DEF IdentReuse, PairOnDisk, Run
<1>2. ASSUME IdentGenerate PROVE IdentInv'
  BY <1>2 DEF IdentGenerate, PairOnDisk
<1>3. ASSUME CertTruncate PROVE IdentInv' BY <1>3 DEF CertTruncate
<1>4. ASSUME CertWrite PROVE IdentInv' BY <1>4 DEF CertWrite
<1>5. ASSUME KeyTruncate PROVE IdentInv' BY <1>5 DEF KeyTruncate
<1>6. ASSUME KeyWrite PROVE IdentInv' BY <1>6 DEF KeyWrite, KeyIsWritten, Run
<1> QED BY <1>1, <1>2, <1>3, <1>4, <1>5, <1>6 DEF IdentStep

\* The end of the process keeps what is on the disk.
LEMMA KillInv == IdentInv /\ Kill => IdentInv'
BY IdentAssumption
   DEF Kill, IdentForgotten, identFiles, IdentInv, IdentTypeOK, IdentityDurable,
       IdentityStable, ServedOnDisk, WritesFresh, Writing

-----------------------------------------------------------------------------
\* Every reachable state satisfies the inductive invariant.
THEOREM IdentInvHolds == NodeSpec => []IdentInv
<1>1. NodeInit => IdentInv
  BY IdentAssumption
     DEF NodeInit, IdentInv, IdentTypeOK, IdentityDurable, IdentityStable, ServedOnDisk,
         WritesFresh, Writing
<1>2. Inv /\ IdentInv /\ [NodeNext]_allVars => IdentInv'
  <2>1. IdentInv /\ UNCHANGED allVars => IdentInv'
    BY DEF allVars, vars, identVars, identFiles, identMemory, IdentInv, IdentTypeOK,
           IdentityDurable, IdentityStable, ServedOnDisk, WritesFresh, Writing
  <2> QED BY <2>1, StoreStepInv, IdentStepInv, KillInv DEF NodeNext, Inv
<1> QED BY <1>1, <1>2, NodeInvHolds, PTL DEF NodeSpec

\* The identity variables keep their types, and a node has an identity only
\* after its store was loaded (node.go:33-41).
THEOREM IdentTypeCorrect == NodeSpec => []IdentTypeOK
<1>1. IdentInv => IdentTypeOK BY DEF IdentInv
<1> QED BY <1>1, IdentInvHolds, PTL

\* A node runs under an identity whose certificate and key are on the disk
\* (transport.go:292-316).
THEOREM IdentityDurableHolds == NodeSpec => []IdentityDurable
<1>1. IdentInv => IdentityDurable BY DEF IdentInv
<1> QED BY <1>1, IdentInvHolds, PTL

\* A node never runs under two identities, unless a start has failed to read
\* what is there (transport.go:46, 292-303).
THEOREM IdentityStableHolds == NodeSpec => []IdentityStable
<1>1. IdentInv => IdentityStable BY DEF IdentInv
<1> QED BY <1>1, IdentInvHolds, PTL

\* The node implements its store: what is proved of Store's specification
\* holds of the node.
THEOREM ImplementsStore == NodeSpec => Spec
<1>1. NodeInit => Init BY DEF NodeInit
<1> QED BY <1>1, StoreStepOrStutter, NodeInvHolds, PTL DEF NodeSpec, Spec

\* So a node that publishes, is killed and comes back offers what it has
\* offered, once it was on the disk (store.go:34-103).
THEOREM NodeKeepsManifests == NodeSpec => SettledManifestsSurvive
BY ImplementsStore, SettledManifestsSurviveHolds
=============================================================================
