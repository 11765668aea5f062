-------------------------------- MODULE Store --------------------------------
(***************************************************************************)
(* The chunk store of internal/node/store.go: content-addressed chunk      *)
(* files, the list manifests.json, and the two in-memory indexes.          *)
(*                                                                         *)
(* Callers (RPC handlers, download workers, the publisher) run PutChunk    *)
(* and AddManifest side by side; the locks cl and ml protect only the      *)
(* indexes, never the files.  os.WriteFile truncates and then writes: two  *)
(* steps between which other callers run and the process may be killed.    *)
(* What a completed system call has written survives a kill (the operating *)
(* system does not crash).  Every AddManifest starts a syncManifests       *)
(* goroutine that nobody waits for.                                        *)
(***************************************************************************)
EXTENDS Naturals, FiniteSets

CONSTANTS
  Chunk,    \* chunk identifiers, manifests included
  FileId,   \* identifiers of manifests: they are chunks too
  Parts,    \* Parts[f]: the chunks the manifest f names
  Caller,   \* goroutines that call the store
  Syncer,   \* bound: syncManifests goroutines alive at once
  NoChunk   \* argument of an idle caller

ASSUME FileIdAssumption == FileId \subseteq Chunk /\ IsFiniteSet(FileId)
ASSUME PartsAssumption == Parts \in [FileId -> SUBSET Chunk]

VARIABLES
  phase,     \* of the process: down, loaded, rewriting, up, refused
  file,      \* file[c]: the file of chunk c is absent, partial or complete
  list,      \* content of manifests.json
  chunks,    \* in-memory index of chunks
  manifests, \* in-memory index of manifests
  skipped,   \* history: listed manifests that some start could not read
  pc,        \* where each caller is
  arg,       \* the chunk or manifest it is working on
  sync,      \* where each syncManifests goroutine is
  snap       \* the manifest list it has read

memory == <<chunks, manifests, skipped>>
callers == <<pc, arg>>
syncers == <<sync, snap>>
vars == <<phase, file, list, chunks, manifests, skipped, pc, arg, sync, snap>>

\* manifests.json: not there; truncated to nothing; or front, the ids of the
\* last write, at the start of a file as long as a list of len ids.
ListFile == [state : {"absent", "empty", "written"}, front : SUBSET FileId, len : Nat]
Absent == [state |-> "absent", front |-> {}, len |-> 0]
Empty == [state |-> "empty", front |-> {}, len |-> 0]

\* A list of ids written over what is there since the truncation: if another
\* goroutine has written a longer list in between, its tail stays behind.
Larger(m, n) == IF m >= n THEN m ELSE n
Written(old, ids) ==
  [state |-> "written", front |-> ids, len |-> Larger(old.len, Cardinality(ids))]

\* json.Unmarshal accepts it: no bytes follow the array.
Readable(l) == l.state = "written" /\ l.len = Cardinality(l.front)

TypeOK ==
  /\ phase \in {"down", "loaded", "rewriting", "up", "refused"}
  /\ file \in [Chunk -> {"absent", "partial", "complete"}]
  /\ list \in ListFile
  /\ chunks \subseteq Chunk
  /\ manifests \subseteq FileId
  /\ skipped \subseteq FileId
  /\ pc \in [Caller -> {"idle", "put_open", "put_write", "put_index", "add_check", "add_insert"}]
  /\ arg \in [Caller -> Chunk \cup {NoChunk}]
  /\ \A p \in Caller :
       /\ pc[p] # "idle" => arg[p] \in Chunk
       /\ pc[p] \in {"add_check", "add_insert"} => arg[p] \in FileId
  /\ sync \in [Syncer -> {"idle", "start", "open", "write"}]
  /\ snap \in [Syncer -> SUBSET FileId]

\* A fresh data directory, node not started.
Init ==
  /\ phase = "down"
  /\ file = [c \in Chunk |-> "absent"]
  /\ list = Absent
  /\ chunks = {}
  /\ manifests = {}
  /\ skipped = {}
  /\ pc = [p \in Caller |-> "idle"]
  /\ arg = [p \in Caller |-> NoChunk]
  /\ sync = [y \in Syncer |-> "idle"]
  /\ snap = [y \in Syncer |-> {}]

-----------------------------------------------------------------------------
(* PutChunk *)

Goto(p, l) == pc' = [pc EXCEPT ![p] = l]
Return(p) ==
  /\ pc' = [pc EXCEPT ![p] = "idle"]
  /\ arg' = [arg EXCEPT ![p] = NoChunk]

\* Names that begin with Mut are deliberate errors: each replaces the
\* definition that follows it to show that a property notices.

\* Under cl.RLock: an indexed chunk is not written again.
MutClaimFirst(p, c) ==
  /\ phase = "up"
  /\ pc[p] = "idle"
  /\ c \notin chunks
  /\ chunks' = chunks \cup {c}
  /\ Goto(p, "put_open")
  /\ arg' = [arg EXCEPT ![p] = c]
  /\ UNCHANGED <<phase, file, list, manifests, skipped, syncers>>
PutCheck(p, c) ==
  /\ phase = "up"
  /\ pc[p] = "idle"
  /\ c \notin chunks
  /\ Goto(p, "put_open")
  /\ arg' = [arg EXCEPT ![p] = c]
  /\ UNCHANGED <<phase, file, list, memory, syncers>>

\* os.WriteFile, first half: open with O_TRUNC.
PutTruncate(p) ==
  /\ pc[p] = "put_open"
  /\ file' = [file EXCEPT ![arg[p]] = "partial"]
  /\ Goto(p, "put_write")
  /\ UNCHANGED <<phase, list, memory, arg, syncers>>

\* Second half: all writers of a chunk write the same bytes at the same offset.
MutRecheckAfterOpen(p) ==
  /\ pc[p] = "put_write"
  /\ file' = [file EXCEPT ![arg[p]] = IF arg[p] \in chunks THEN @ ELSE "complete"]
  /\ Goto(p, "put_index")
  /\ UNCHANGED <<phase, list, memory, arg, syncers>>
PutWrite(p) ==
  /\ pc[p] = "put_write"
  /\ file' = [file EXCEPT ![arg[p]] = "complete"]
  /\ Goto(p, "put_index")
  /\ UNCHANGED <<phase, list, memory, arg, syncers>>

\* The open or the write fails; what is in the file by then stays there.
PutFail(p) ==
  /\ pc[p] \in {"put_open", "put_write"}
  /\ Return(p)
  /\ UNCHANGED <<phase, file, list, memory, syncers>>

\* Under cl.Lock.
PutIndex(p) ==
  /\ pc[p] = "put_index"
  /\ chunks' = chunks \cup {arg[p]}
  /\ Return(p)
  /\ UNCHANGED <<phase, file, list, manifests, skipped, syncers>>

-----------------------------------------------------------------------------
(* AddManifest *)

\* Under ml.RLock.
AddCheck(p, f) ==
  /\ phase = "up"
  /\ pc[p] = "idle"
  /\ f \notin manifests
  /\ Goto(p, "add_check")
  /\ arg' = [arg EXCEPT ![p] = f]
  /\ UNCHANGED <<phase, file, list, memory, syncers>>

MutPartsUnchecked(f) == f \in chunks
AllChunksHeld(f) == {f} \cup Parts[f] \subseteq chunks

\* Under cl.RLock: the manifest and all its chunks have to be indexed.
AddValidate(p) ==
  /\ pc[p] = "add_check"
  /\ IF AllChunksHeld(arg[p])
     THEN Goto(p, "add_insert") /\ UNCHANGED arg
     ELSE Return(p)
  /\ UNCHANGED <<phase, file, list, memory, syncers>>

\* Under ml.Lock, then "go s.syncManifests()".
AddInsert(p) ==
  /\ pc[p] = "add_insert"
  /\ manifests' = manifests \cup {arg[p]}
  /\ \E y \in Syncer :
       /\ sync[y] = "idle"
       /\ sync' = [sync EXCEPT ![y] = "start"]
  /\ Return(p)
  /\ UNCHANGED <<phase, file, list, chunks, skipped, snap>>

-----------------------------------------------------------------------------
(* syncManifests in a goroutine of its own *)

\* Under ml.RLock.
SyncSnapshot(y) ==
  /\ sync[y] = "start"
  /\ snap' = [snap EXCEPT ![y] = manifests]
  /\ sync' = [sync EXCEPT ![y] = "open"]
  /\ UNCHANGED <<phase, file, list, memory, callers>>

SyncTruncate(y) ==
  /\ sync[y] = "open"
  /\ list' = Empty
  /\ sync' = [sync EXCEPT ![y] = "write"]
  /\ UNCHANGED <<phase, file, memory, callers, snap>>

SyncDone(y) ==
  /\ sync' = [sync EXCEPT ![y] = "idle"]
  /\ snap' = [snap EXCEPT ![y] = {}]

SyncWrite(y) ==
  /\ sync[y] = "write"
  /\ list' = Written(list, snap[y])
  /\ SyncDone(y)
  /\ UNCHANGED <<phase, file, memory, callers>>

\* The error is returned to nobody.  A list is shorter than a disk block: a
\* write that fails has written none of it.
SyncFail(y) ==
  /\ sync[y] \in {"open", "write"}
  /\ SyncDone(y)
  /\ UNCHANGED <<phase, file, list, memory, callers>>

-----------------------------------------------------------------------------
(* The process is killed, and started again by NewStore. *)

Crash ==
  /\ phase \in {"loaded", "rewriting", "up"}
  /\ phase' = "down"
  /\ chunks' = {}
  /\ manifests' = {}
  /\ pc' = [p \in Caller |-> "idle"]
  /\ arg' = [p \in Caller |-> NoChunk]
  /\ sync' = [y \in Syncer |-> "idle"]
  /\ snap' = [y \in Syncer |-> {}]
  /\ UNCHANGED <<file, list, skipped>>

\* NewStore gives up on a chunk file whose hash is not its name, and on a
\* list that is not JSON.
MutCorruptIgnored == FALSE
Corrupt ==
  \/ \E c \in Chunk : file[c] = "partial"
  \/ list.state # "absent" /\ ~ Readable(list)

StartRefused ==
  /\ phase \in {"down", "refused"}
  /\ Corrupt
  /\ phase' = "refused"
  /\ UNCHANGED <<file, list, memory, callers, syncers>>

\* The indexes are filled from the directory and from those listed
\* manifests whose chunks are all there.  A manifest whose file cannot be read
\* this time (unread) is passed over: the start goes on, and the list it
\* writes back has lost it for good.  A chunk file that cannot be read in the
\* first pass ends the start before it has changed anything.
MutLoadManifestsOnly == {c \in list.front : file[c] = "complete"}
LoadedChunks == {c \in Chunk : file[c] = "complete"}

MutEveryChunkListed == LoadedChunks
LoadedManifests == {f \in list.front : {f} \cup Parts[f] \subseteq LoadedChunks}

LoadBut(unread) ==
  /\ phase = "down"
  /\ ~ Corrupt
  /\ phase' = "loaded"
  /\ chunks' = LoadedChunks
  /\ manifests' = LoadedManifests \ unread
  /\ skipped' = skipped \cup unread
  /\ UNCHANGED <<file, list, callers, syncers>>

StartLoad == LoadBut({})
StartSkips == \E unread \in SUBSET list.front : unread # {} /\ LoadBut(unread)

\* syncManifests, called by NewStore itself, before anything else runs.
StartTruncate ==
  /\ phase = "loaded"
  /\ phase' = "rewriting"
  /\ list' = Empty
  /\ UNCHANGED <<file, memory, callers, syncers>>

StartWrite ==
  /\ phase = "rewriting"
  /\ phase' = "up"
  /\ list' = Written(list, manifests)
  /\ UNCHANGED <<file, memory, callers, syncers>>

\* An error ends the process.
StartFail ==
  /\ phase \in {"loaded", "rewriting"}
  /\ phase' = "down"
  /\ chunks' = {}
  /\ manifests' = {}
  /\ UNCHANGED <<file, list, skipped, callers, syncers>>

-----------------------------------------------------------------------------
CallerStep(p) ==
  PutTruncate(p) \/ PutWrite(p) \/ PutIndex(p) \/ AddValidate(p) \/ AddInsert(p)

SyncerStep(y) ==
  SyncSnapshot(y) \/ SyncTruncate(y) \/ SyncWrite(y)

Start == StartRefused \/ StartLoad \/ StartTruncate \/ StartWrite

\* Opening, writing or reading a file fails: the disk is full, or the limit
\* on open files is reached.
DiskFails ==
  \/ \E p \in Caller : PutFail(p)
  \/ \E y \in Syncer : SyncFail(y)
  \/ StartFail
  \/ StartSkips

\* The steps of a node whose file operations all succeed.
SoundNext ==
  \/ \E p \in Caller, c \in Chunk : PutCheck(p, c)
  \/ \E p \in Caller, f \in FileId : AddCheck(p, f)
  \/ \E p \in Caller : CallerStep(p)
  \/ \E y \in Syncer : SyncerStep(y)
  \/ Crash
  \/ Start

Next == SoundNext \/ DiskFails

Spec == Init /\ [][Next]_vars
SoundSpec == Init /\ [][SoundNext]_vars

\* A goroutine that is running keeps running: nothing it does waits for
\* another goroutine, apart from short critical sections.
FairSpec ==
  /\ SoundSpec
  /\ \A p \in Caller : WF_vars(CallerStep(p))
  /\ \A y \in Syncer : WF_vars(SyncerStep(y))

-----------------------------------------------------------------------------
(* Properties.  Blocks(f) is everything a download of f needs. *)

Blocks(f) == {f} \cup Parts[f]

\* A file the node offers can be served: the manifest and all its chunks are
\* indexed, although checking and inserting are two critical sections
\* (store.go:138-156) and indexing is a third one elsewhere.
ManifestsBacked == \A f \in manifests : Blocks(f) \subseteq chunks

\* Wherever the process is killed, a manifest named by manifests.json has all
\* its chunk files in the directory: the filter of NewStore (store.go:86-92)
\* never silently drops a file that was listed.
ListedRecoverable ==
  \A f \in list.front : \A c \in Blocks(f) : file[c] # "absent"

\* Without write errors an indexed chunk is damaged only while a second
\* PutChunk of it stands between truncating and writing (store.go:105-119).
DamagedOnlyWhileRewritten ==
  \A c \in chunks : file[c] # "complete" =>
    \E p \in Caller : pc[p] = "put_write" /\ arg[p] = c

\* A chunk once indexed is indexed again after every restart that succeeds.
HeldChunksSurvive ==
  \A c \in Chunk :
    [](phase = "up" /\ c \in chunks => [](phase = "up" => c \in chunks))

\* A published file whose id has reached manifests.json, with no older list
\* on its way there, is offered again after every restart that succeeds,
\* unless a start found its manifest unreadable: store.go:77-80 passes it
\* over, and store.go:98 writes the list back without it.  Nothing else loses
\* it: no kill, no write error, no list on its way, no other start.
Settled(f) ==
  /\ list.state = "written"
  /\ f \in list.front
  /\ \A y \in Syncer : sync[y] \in {"open", "write"} => f \in snap[y]

SettledManifestsSurvive ==
  \A f \in FileId :
    [](Settled(f) => [](phase = "up" => f \in manifests \cup skipped))

\* The damage does not last: the second writer finishes the file.
DamageHeals ==
  \A c \in Chunk :
    (phase = "up" /\ c \in chunks /\ file[c] # "complete") ~>
      (phase # "up" \/ file[c] = "complete")

-----------------------------------------------------------------------------
(* Statements of the repository that the code does not keep. *)

\* docker-compose.yaml:8-10 "kill node3 mid-download, then ... start node3 to
\* bring it back - data survives": NewStore does not refuse to start over the
\* chunk that was being written.
Restartable == phase = "refused" => \A c \in Chunk : file[c] # "partial"

\* docker-compose.yaml:9-10 "data survives (manifests are persisted to the
\* named volume)": with nothing left to do, the list on disk is complete.
QuiescentPersisted ==
  phase = "up" /\ (\A y \in Syncer : sync[y] = "idle") =>
    Readable(list) /\ list.front = manifests
=============================================================================
