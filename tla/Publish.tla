------------------------------ MODULE Publish -------------------------------
(***************************************************************************)
(* Node.Publish of internal/node/node.go over the store: the chunks of a   *)
(* file are put one by one, then the manifest, then it is listed.  Other   *)
(* callers of the store, the workers of downloads among them, make any     *)
(* calls in between.  Reading and cutting the file are left out: chunks    *)
(* come in any order, equal ones once.  Announcing is Acquire of Providers. *)
(***************************************************************************)
EXTENDS Store

CONSTANT Publisher   \* the callers that publish

ASSUME PublisherAssumption == Publisher \subseteq Caller
ASSUME NoChunkAssumption == NoChunk \notin Chunk

VARIABLES
  job,    \* job[p]: the file that p publishes
  todo    \* todo[p]: its chunks that have not been handed to PutChunk

publishers == <<job, todo>>

PublishTypeOK ==
  /\ job \in [Publisher -> FileId \cup {NoChunk}]
  /\ todo \in [Publisher -> SUBSET Chunk]
  /\ \A p \in Publisher : pc[p] # "idle" => job[p] # NoChunk
  /\ \A p \in Publisher : job[p] # NoChunk => phase = "up"

PublishInit ==
  /\ job = [p \in Publisher |-> NoChunk]
  /\ todo = [p \in Publisher |-> {}]

Publishing(p) == job[p] # NoChunk /\ pc[p] = "idle"

\* Publish returns.
Leave(p) ==
  /\ job' = [job EXCEPT ![p] = NoChunk]
  /\ todo' = [todo EXCEPT ![p] = {}]

\* The manifest f comes last: it names the other chunks.
Turn(f, cs) == {c \in cs : c = f => cs = {f}}

\* PutChunk is called, and returns at once when the chunk is indexed.
PutOne(p, f, cs) ==
  /\ \E c \in Turn(f, cs) :
       /\ PutCheck(p, c) \/ (c \in chunks /\ UNCHANGED vars)
       /\ todo' = [todo EXCEPT ![p] = cs \ {c}]
  /\ job' = [job EXCEPT ![p] = f]

Begin(p, f) ==
  /\ phase = "up"
  /\ job[p] = NoChunk
  /\ PutOne(p, f, Blocks(f))

PutNext(p) == Publishing(p) /\ PutOne(p, job[p], todo[p])

\* AddManifest is called, and returns at once when the file is listed.
ListIt(p) ==
  /\ Publishing(p)
  /\ todo[p] = {}
  /\ \/ AddCheck(p, job[p]) /\ UNCHANGED publishers
     \/ job[p] \in manifests /\ UNCHANGED vars /\ Leave(p)

\* The call that p is in goes on; that of AddManifest is the last one.
GoOn(p) ==
  /\ CallerStep(p)
  /\ IF pc[p] \in {"add_check", "add_insert"} /\ pc'[p] = "idle"
     THEN Leave(p)
     ELSE UNCHANGED publishers

\* The file cannot be read on.
ReadFails(p) ==
  /\ Publishing(p)
  /\ todo[p] # {}
  /\ Leave(p)
  /\ UNCHANGED vars

\* A chunk cannot be written: Publish returns the error.
MutErrorIgnored(p) == PutFail(p) /\ UNCHANGED publishers
PublishFails(p) == PutFail(p) /\ Leave(p)

\* The process ends, and its goroutines with it.
Forgotten ==
  /\ job' = [p \in Publisher |-> NoChunk]
  /\ todo' = [p \in Publisher |-> {}]

PublishStep(p) == PutNext(p) \/ ListIt(p) \/ GoOn(p) \/ ReadFails(p) \/ PublishFails(p)

-----------------------------------------------------------------------------
(* Property *)

\* A publication that has stored its chunks is not turned away at its last
\* step, "not all chunks of file ... are on the disk", whatever is written,
\* rewritten or failing beside it (node.go:71-115, store.go:138-153).
PublishAccepted ==
  \A p \in Publisher : pc[p] = "add_check" => AllChunksHeld(arg[p])
=============================================================================
