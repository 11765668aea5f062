------------------------------ MODULE Download ------------------------------
(***************************************************************************)
(* Node.Download of internal/node/node.go, with getManifest and getChunk.  *)
(*                                                                         *)
(* A download gets the manifest, then a dispatcher goroutine starts one    *)
(* worker per chunk, at most Pool at a time, each of which sends its       *)
(* result to the goroutine of the call.  When all have succeeded the file  *)
(* is assembled under a temporary name and renamed.  Downloads share the   *)
(* store's indexes, the files of its chunks and the output directory.      *)
(* Reads take no lock: a chunk whose file another goroutine has truncated  *)
(* to write it once more reads as empty, without an error.  Whether        *)
(* FindValue finds a chunk is up to the network; kills and restarts are    *)
(* Store's.                                                                *)
(***************************************************************************)
EXTENDS Naturals, Sequences, FiniteSets

CONSTANTS
  Job,      \* callers of Download that run at once
  Chunk,    \* chunk identifiers, manifests included
  FileId,   \* identifiers of manifests
  FileOf,   \* FileOf[j]: the file j asks for, again and again
  Content,  \* Content[f]: the chunks of file f in order (m.Chunks)
  Path,     \* output paths
  PathOf,   \* PathOf[f]: where f is saved: its name, in the one directory used
  None,     \* no file
  Zero,     \* a piece of a file that Truncate or a gap has filled
  Pool      \* concurrency

ASSUME FileIdAssumption == FileId \subseteq Chunk /\ FileId # {}
ASSUME FileOfAssumption == FileOf \in [Job -> FileId]
ASSUME ContentAssumption == Content \in [FileId -> Seq(Chunk)]
ASSUME PathAssumption == PathOf \in [FileId -> Path]
ASSUME NoneAssumption == None \notin Seq(Chunk \cup {Zero})
ASSUME PoolAssumption == Pool \in Nat \ {0}

VARIABLES
  chunks,     \* chunks of the store's index
  manifests,  \* manifests of the store's index
  torn,       \* chunks whose file has been truncated and not written since
  main,       \* where the goroutine of each call is
  gone,       \* has the caller's context ended?
  next,       \* how many chunks the dispatcher is through with
  work,       \* work[j][i]: what the worker of the i-th chunk is at
  sent,       \* results in the channel of the last call: how many of each kind
  taken,      \* results received
  pos,        \* chunks that have been read and written to the temporary file
  off,        \* pieces these writes have come to: its offset
  fd,         \* the file it has open: none, temp, final, or one with no name any more
  temp,       \* temp[p]: content of the file under the temporary name of p
  final,      \* final[p]: content of the file under p
  loose       \* history: two downloads have assembled at p at the same time, or
              \* one that assembled there has read a chunk while it was torn

index == <<chunks, manifests, torn>>
pool == <<next, work, sent, taken>>
open == <<pos, off, fd>>
disk == <<temp, final, loose>>
vars == <<index, main, gone, pool, open, disk>>

Parts(j) == Content[FileOf[j]]
Slots(j) == DOMAIN Parts(j)
Blocks(j) == {FileOf[j]} \cup {Parts(j)[i] : i \in Slots(j)}
GetsManifest(j) == main[j] \in {"manifest", "put manifest", "write manifest"}
Assembling(j) == main[j] \in {"resize", "write"}
Returned(j) == main[j] = "idle"

\* What is in the channel.
Results(j) == sent[j]["ok"] + sent[j]["err"]

TypeOK ==
  /\ chunks \subseteq Chunk
  /\ manifests \subseteq FileId
  /\ torn \subseteq Chunk
  /\ main \in [Job -> {"idle", "manifest", "put manifest", "write manifest", "collect",
                       "create", "resize", "write"}]
  /\ gone \in [Job -> BOOLEAN]
  /\ DOMAIN work = Job
  /\ sent \in [Job -> [{"ok", "err"} -> Nat]]
  /\ {next, taken, pos, off} \subseteq [Job -> Nat]
  /\ fd \in [Job -> {"none", "temp", "final", "nameless"}]
  /\ \A j \in Job :
       /\ work[j] \in [Slots(j) -> {"none", "get", "put", "write"}]
       /\ {next[j], taken[j], pos[j], off[j], Results(j)} \subseteq 0..Len(Parts(j))
       /\ Assembling(j) <=> fd[j] # "none"
  /\ {temp, final} \subseteq [Path -> {None} \cup Seq(Chunk \cup {Zero})]
  /\ loose \in [Path -> BOOLEAN]

NoWork(j) == [i \in Slots(j) |-> "none"]
NoResult == [r \in {"ok", "err"} |-> 0]

Init ==
  /\ chunks = {}
  /\ manifests = {}
  /\ torn = {}
  /\ main = [j \in Job |-> "idle"]
  /\ gone = [j \in Job |-> FALSE]
  /\ next = [j \in Job |-> Len(Parts(j))]
  /\ work = [j \in Job |-> NoWork(j)]
  /\ sent = [j \in Job |-> NoResult]
  /\ taken = [j \in Job |-> 0]
  /\ pos = [j \in Job |-> 0]
  /\ off = [j \in Job |-> 0]
  /\ fd = [j \in Job |-> "none"]
  /\ temp = [p \in Path |-> None]
  /\ final = [p \in Path |-> None]
  /\ loose = [p \in Path |-> FALSE]

-----------------------------------------------------------------------------
Goto(j, l) == main' = [main EXCEPT ![j] = l]

\* Workers that hold a slot of the pool.
Running(j) == {i \in Slots(j) : work[j][i] # "none"}

\* The locals of a call are gone when it returns.  Its channel is not: workers
\* that are left still send to it.
Leave(j, fds) ==
  /\ Goto(j, "idle")
  /\ gone' = [gone EXCEPT ![j] = FALSE]
  /\ taken' = [taken EXCEPT ![j] = 0]
  /\ pos' = [pos EXCEPT ![j] = 0]
  /\ off' = [off EXCEPT ![j] = 0]
  /\ fd' = fds

\* Names that begin with Mut are deliberate errors: each replaces the
\* definition that follows it to show that a property notices.
Return(j) == Leave(j, [fd EXCEPT ![j] = "none"])

\* The dispatcher and the workers of the call have ended.
Quiet(j) == next[j] = Len(Parts(j)) /\ Running(j) = {}

\* cctx is done: the caller has given up, or Download has returned.
Cancelled(j) == gone[j] \/ Returned(j)

\* A new call, with a new channel, when nothing is left of the last one.
Start(j) ==
  /\ Returned(j) /\ Quiet(j)
  /\ Goto(j, "manifest")
  /\ next' = [next EXCEPT ![j] = 0]
  /\ sent' = [sent EXCEPT ![j] = NoResult]
  /\ UNCHANGED <<index, gone, work, taken, open, disk>>

\* The request of the caller ends: it is cancelled, or times out.  Nothing reads
\* the context after the chunks have been collected.
GiveUp(j) ==
  /\ GetsManifest(j) \/ main[j] = "collect"
  /\ ~ gone[j]
  /\ gone' = [gone EXCEPT ![j] = TRUE]
  /\ UNCHANGED <<index, main, pool, open, disk>>

-----------------------------------------------------------------------------
(* PutChunk, for the caller and for its workers: when its test of the      *)
(* index has failed it truncates the file, also if the chunk has been      *)
(* indexed meanwhile, writes it and indexes the chunk.                     *)

Truncates(c) == torn' = torn \cup {c} /\ UNCHANGED <<chunks, manifests>>

MutNotStored(c) == torn' = torn \ {c} /\ UNCHANGED <<chunks, manifests>>
Stores(c) == torn' = torn \ {c} /\ chunks' = chunks \cup {c} /\ UNCHANGED manifests

-----------------------------------------------------------------------------
(* getManifest *)

\* The manifest is in memory or in the store, or is found and in the store by then.
ManifestHeld(j) ==
  /\ main[j] = "manifest"
  /\ FileOf[j] \in manifests \cup chunks
  /\ Goto(j, "collect")
  /\ UNCHANGED <<index, gone, pool, open, disk>>

\* FindValue returns it.
ManifestFound(j) ==
  /\ main[j] = "manifest"
  /\ FileOf[j] \notin chunks
  /\ Goto(j, "put manifest")
  /\ UNCHANGED <<index, gone, pool, open, disk>>

ManifestTruncated(j) ==
  /\ main[j] = "put manifest"
  /\ Truncates(FileOf[j])
  /\ Goto(j, "write manifest")
  /\ UNCHANGED <<gone, pool, open, disk>>

ManifestStored(j) ==
  /\ main[j] = "write manifest"
  /\ Stores(FileOf[j])
  /\ Goto(j, "collect")
  /\ UNCHANGED <<gone, pool, open, disk>>

\* Nobody has it, it cannot be stored, or what is read from its file is no
\* manifest.  No goroutine has been started.
ManifestFails(j) ==
  /\ GetsManifest(j)
  /\ main[j] = "manifest" => FileOf[j] \notin manifests
  /\ Return(j)
  /\ next' = [next EXCEPT ![j] = Len(Parts(j))]
  /\ UNCHANGED <<index, work, sent, disk>>

-----------------------------------------------------------------------------
(* The dispatcher *)

SlotFree(j) == Cardinality(Running(j)) < Pool

\* Also after a cancellation: the select may take either case.
Dispatch(j) ==
  /\ ~ GetsManifest(j)
  /\ next[j] < Len(Parts(j))
  /\ SlotFree(j)
  /\ next' = [next EXCEPT ![j] = @ + 1]
  /\ work' = [work EXCEPT ![j][next[j] + 1] = "get"]
  /\ UNCHANGED <<index, main, gone, sent, taken, open, disk>>

DispatchStops(j) ==
  /\ ~ GetsManifest(j)
  /\ next[j] < Len(Parts(j))
  /\ Cancelled(j)
  /\ next' = [next EXCEPT ![j] = Len(Parts(j))]
  /\ UNCHANGED <<index, main, gone, work, sent, taken, open, disk>>

-----------------------------------------------------------------------------
(* A worker: getChunk, then the result.  It keeps its slot of the pool     *)
(* until the channel has taken the result, maybe long after Download has   *)
(* returned.                                                               *)

MutOneResult(j) == 1
Capacity(j) == Len(Parts(j))

CanSend(j) == Results(j) < Capacity(j)

Result(j, i, r) ==
  /\ CanSend(j)
  /\ work' = [work EXCEPT ![j][i] = "none"]
  /\ sent' = [sent EXCEPT ![j][r] = @ + 1]

Proceeds(j, i, from, to) ==
  /\ work[j][i] = from
  /\ work' = [work EXCEPT ![j][i] = to]
  /\ UNCHANGED sent

\* The chunk is in the index by the time GetChunk or, after a search, PutChunk
\* looks.  What GetChunk reads from the file is not looked at.
ChunkHeld(j, i) ==
  /\ work[j][i] = "get"
  /\ Parts(j)[i] \in chunks
  /\ Result(j, i, "ok")
  /\ UNCHANGED <<index, main, gone, next, taken, open, disk>>

\* FindValue has returned it, and PutChunk does not see it in the index.
ChunkFound(j, i) ==
  /\ Parts(j)[i] \notin chunks
  /\ Proceeds(j, i, "get", "put")
  /\ UNCHANGED <<index, main, gone, next, taken, open, disk>>

ChunkTruncated(j, i) ==
  /\ Proceeds(j, i, "put", "write")
  /\ Truncates(Parts(j)[i])
  /\ UNCHANGED <<main, gone, next, taken, open, disk>>

ChunkStored(j, i) ==
  /\ work[j][i] = "write"
  /\ Stores(Parts(j)[i])
  /\ Result(j, i, "ok")
  /\ UNCHANGED <<main, gone, next, taken, open, disk>>

\* It is not in the index or its file cannot be read, and nobody has it or the
\* context is done; or it cannot be stored.
ChunkFails(j, i) ==
  /\ work[j][i] # "none"
  /\ Result(j, i, "err")
  /\ UNCHANGED <<index, main, gone, next, taken, open, disk>>

-----------------------------------------------------------------------------
(* The loop over the results *)

AllTaken(j) == taken[j] = Len(Parts(j))

Takes(j, r) ==
  /\ main[j] = "collect"
  /\ sent[j][r] > 0
  /\ sent' = [sent EXCEPT ![j][r] = @ - 1]

TakeOk(j) ==
  /\ Takes(j, "ok")
  /\ taken' = [taken EXCEPT ![j] = @ + 1]
  /\ UNCHANGED <<index, main, gone, next, work, open, disk>>

TakeErr(j) ==
  /\ Takes(j, "err")
  /\ Return(j)
  /\ UNCHANGED <<index, next, work, disk>>

TakeCancel(j) ==
  /\ main[j] = "collect"
  /\ gone[j]
  /\ ~ AllTaken(j)
  /\ Return(j)
  /\ UNCHANGED <<index, next, work, sent, disk>>

\* AddManifest, which refuses a file whose chunks are not all indexed.
AddManifest(j) ==
  /\ main[j] = "collect"
  /\ AllTaken(j)
  /\ IF FileOf[j] \in manifests \/ Blocks(j) \subseteq chunks
     THEN /\ manifests' = manifests \cup {FileOf[j]}
          /\ Goto(j, "create")
          /\ UNCHANGED <<gone, taken, open>>
     ELSE Return(j) /\ UNCHANGED manifests
  /\ UNCHANGED <<chunks, torn, next, work, sent, disk>>

-----------------------------------------------------------------------------
(* Assembling the file *)

\* s after a write of c as its i-th piece.
Put(s, i, c) ==
  [l \in 1..(IF i > Len(s) THEN i ELSE Len(s)) |->
    IF l = i THEN c ELSE IF l <= Len(s) THEN s[l] ELSE Zero]

\* s after a truncation to n pieces.
Resized(s, n) == [l \in 1..n |-> IF l <= Len(s) THEN s[l] ELSE Zero]

Target(j) == PathOf[FileOf[j]]

\* os.Create: a file that is there under the temporary name is truncated.
CreateTemp(j) ==
  /\ main[j] = "create"
  /\ temp' = [temp EXCEPT ![Target(j)] = << >>]
  /\ fd' = [fd EXCEPT ![j] = "temp"]
  /\ loose' = [loose EXCEPT ![Target(j)] =
       @ \/ \E l \in Job \ {j} : Assembling(l) /\ Target(l) = Target(j)]
  /\ Goto(j, "resize")
  /\ UNCHANGED <<index, gone, pool, pos, off, final>>

\* The content of the open file of j, and its change, under the name it has by
\* now, if any.
Opened(j) == IF fd[j] = "temp" THEN temp[Target(j)] ELSE IF fd[j] = "final" THEN final[Target(j)] ELSE << >>

Change(j, s) ==
  /\ temp' = IF fd[j] = "temp" THEN [temp EXCEPT ![Target(j)] = s] ELSE temp
  /\ final' = IF fd[j] = "final" THEN [final EXCEPT ![Target(j)] = s] ELSE final

\* f.Truncate(m.Size).
Resize(j) ==
  /\ main[j] = "resize"
  /\ Change(j, Resized(Opened(j), Len(Parts(j))))
  /\ Goto(j, "write")
  /\ UNCHANGED <<index, gone, pool, open, loose>>

MutOverwriteFirst(j) == 1
Offset(j) == off[j] + 1

\* The next chunk to read.
Reads(j) ==
  /\ main[j] = "write"
  /\ pos[j] < Len(Parts(j))
  /\ pos' = [pos EXCEPT ![j] = @ + 1]

WriteChunk(j) ==
  /\ Reads(j)
  /\ Parts(j)[pos[j] + 1] \notin torn
  /\ Change(j, Put(Opened(j), Offset(j), Parts(j)[pos[j] + 1]))
  /\ off' = [off EXCEPT ![j] = @ + 1]
  /\ UNCHANGED <<index, main, gone, pool, fd, loose>>

\* GetChunk returns no data and no error, and the next chunk goes where this one
\* belongs.
ReadTorn(j) ==
  /\ Reads(j)
  /\ Parts(j)[pos[j] + 1] \in torn
  /\ loose' = [loose EXCEPT ![Target(j)] = TRUE]
  /\ UNCHANGED <<index, main, gone, pool, off, fd, temp, final>>

\* The file is closed, and what is under the temporary name by now is renamed:
\* other downloads that have it open keep it, under its new name.
Rename(j) ==
  /\ main[j] = "write"
  /\ pos[j] = Len(Parts(j))
  /\ temp[Target(j)] # None
  /\ final' = [final EXCEPT ![Target(j)] = temp[Target(j)]]
  /\ temp' = [temp EXCEPT ![Target(j)] = None]
  /\ Leave(j, [l \in Job |->
       IF l = j THEN "none"
       ELSE IF Target(l) # Target(j) THEN fd[l]
       ELSE CASE fd[l] = "temp" -> "final" [] fd[l] = "final" -> "nameless" [] OTHER -> fd[l]])
  /\ UNCHANGED <<index, next, work, sent, loose>>

\* Another download has renamed it already.
RenameFails(j) ==
  /\ main[j] = "write"
  /\ pos[j] = Len(Parts(j))
  /\ temp[Target(j)] = None
  /\ Return(j)
  /\ UNCHANGED <<index, next, work, sent, disk>>

MutRemovesOutput(j) == final' = [final EXCEPT ![Target(j)] = None] /\ UNCHANGED <<temp, loose>>
LeaveFiles(j) == UNCHANGED disk

\* A file operation fails; the temporary file stays where it is.
FileFails(j) ==
  /\ main[j] \in {"create", "resize", "write"}
  /\ Return(j)
  /\ LeaveFiles(j)
  /\ UNCHANGED <<index, next, work, sent>>

-----------------------------------------------------------------------------
Dispatcher(j) == Dispatch(j) \/ DispatchStops(j)

Worker(j, i) ==
  \/ ChunkHeld(j, i) \/ ChunkFound(j, i) \/ ChunkTruncated(j, i) \/ ChunkStored(j, i)
  \/ ChunkFails(j, i)

Main(j) ==
  \/ ManifestHeld(j) \/ ManifestFound(j) \/ ManifestTruncated(j) \/ ManifestStored(j)
  \/ ManifestFails(j)
  \/ TakeOk(j) \/ TakeErr(j) \/ TakeCancel(j) \/ AddManifest(j)
  \/ CreateTemp(j) \/ Resize(j) \/ WriteChunk(j) \/ ReadTorn(j)
  \/ Rename(j) \/ RenameFails(j) \/ FileFails(j)

Step(j) == Dispatcher(j) \/ (\E i \in Slots(j) : Worker(j, i)) \/ Main(j)

Next ==
  \E j \in Job :
    \/ Start(j)
    \/ GiveUp(j)
    \/ Step(j)

Spec == Init /\ [][Next]_vars

\* The goroutines of a call go on while one of them can: each has finitely many
\* steps, so it does not matter which.  FindValue returns because every lookup
\* ends (Lookup) and every send returns (ConnPool).
FairSpec == Spec /\ \A j \in Job : WF_vars(Step(j))

-----------------------------------------------------------------------------
(* Properties *)

\* When as many results have come as the file has chunks, the store has all
\* its blocks, from then on until the file stands: counting is enough, and
\* AddManifest never refuses, although chunks may repeat, come in any order,
\* and be fetched by other downloads or leftovers of failed ones (node.go:209-225).
Gathered ==
  \A j \in Job : ~ Returned(j) /\ ~ GetsManifest(j) /\ AllTaken(j) =>
    Blocks(j) \subseteq chunks

\* A download keeps to its number of parallel fetches (node.go:186-199).
PoolBound == \A j \in Job : Cardinality(Running(j)) <= Pool

\* What stands under the output path is a whole file, unless two downloads
\* have assembled there at the same time, or one has read a chunk that another
\* writer had truncated: a failure, or the temporary file it leaves, never shows
\* under the name (node.go:232-256, store.go:112, 128).
SavedWhole ==
  \A p \in Path : final[p] # None /\ ~ loose[p] =>
    \E f \in FileId : PathOf[f] = p /\ final[p] = Content[f]

\* Downloads implement SavesFile: what stands under a name changes only when a
\* call for it returns with success, and then to the whole file it asked for;
\* calls that fail or are cancelled at any point leave it, and they leave the
\* files of others.  The promise ends for a name where two calls have been at
\* work at once, or one has read a torn chunk of its file (node.go:227-258).
Saved == INSTANCE SavesFile WITH
  busy <- {j \in Job : ~ Returned(j)},
  file <- final
ImplementsSavesFile == Saved!Spec

\* Every download returns, and its dispatcher and workers end, whether it has
\* succeeded, failed or been cancelled; nobody needs to take their results
\* (node.go:187-222).
Over(j) == Returned(j) /\ Quiet(j)
DownloadEnds == \A j \in Job : []<>Over(j)

-----------------------------------------------------------------------------
(* A statement of the repository that the code does not keep. *)

\* README.md, File Download: "After all chunks are downloaded, the file is
\* reassembled based on the metadata in the manifest and saved to the specified
\* directory."
ReassembledAsListed ==
  \A p \in Path : final[p] # None =>
    \E f \in FileId : PathOf[f] = p /\ final[p] = Content[f]
=============================================================================
