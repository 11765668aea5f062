# p2pshare: models, checks and proofs

p2pshare is a peer-to-peer file sharing daemon in Go: a Kademlia-style DHT over
QUIC finds the nodes that have a chunk, and a node publishes files as chunks
plus a manifest and downloads them chunk by chunk. The repository has no Go
tests. This directory holds TLA+ modules of its concurrent core, TLC
configurations that check them on small instances, and TLAPS proofs for any
size of the instance.

Run a check with `tlc -config NodeStart.cfg MCNodeStart.tla`, and check the proofs of a
module with `tlapm StoreProofs.tla`.

Paths in this file are relative to the repository's root.

## 1. The system

```
   frontend / p2pc                      other nodes
        | JSON-RPC                          | QUIC + mutual TLS
   rpcapi.Server                       transport (serveConn ...)
        |                                   | handler
      Node  --- Store (disk) ------- Kademlia.HandleRPC
        |          ^                        |
        |          | PutChunk, AddManifest  | update
        +---- getChunk, Download      routingTable
        |                                   ^ update after every message, ping
        +---- Kademlia.FindValue, Announce, lookup ---- transport.send
```

Everything runs in one process; every RPC, every incoming stream, every chunk of
a download, every announcement and every ping of the routing table is a
goroutine of its own. They share four pieces of state under four mutexes
(routing table, connection pool, provider records, store indexes), and the data
directory under none.

| component | state it keeps | operations | talks to | hard behaviour |
|---|---|---|---|---|
| routing table `internal/dht/routing.go` | buckets of pointers to entries, a *pinging* mark per entry | update, tryReplace, closest, allContacts | pings through the transport, is told of every message | a goroutine holds an entry by pointer while others move, replace or cut it |
| chunk store `internal/node/store.go` | chunk files, `manifests.json`, two in-memory indexes | NewStore, PutChunk, GetChunk, AddManifest, syncManifests | called by every download worker, publisher and RPC | files are written outside the locks; kills between the steps of a write; a background goroutine nobody waits for |
| transport, client side `internal/dht/transport.go` | pool of connections by address, dials in flight | send, getConn, dial, dropConn | other nodes | shared dials, stale connections, retries, cancelled dialers, nodes that change address |
| transport, server side | listener, the handler | startTransport, serveConn, serveStream | Kademlia.HandleRPC | a goroutine per stream; requests that come before the handler is set |
| iterative lookup `internal/dht/kademlia.go` | shortlist with a state per contact | lookup, pickNodes, push, closest | send, routing table | results of a batch in any order, failures that change the window |
| provider records, Announce, Bootstrap, HandleRPC `internal/dht/kademlia.go` | provider contacts by chunk, with a time | addProvider, localProviders, Announce, Bootstrap, HandleRPC | lookup, store | expiry against republishing, rounds that overlap, nodes that do not take the record, late requests of the dead |
| value search `internal/dht/kademlia.go` | locals of the call | FindValue, findProviders | lookup, send | dispatcher, workers and caller; the first good answer cancels the others |
| file download `internal/node/node.go` | locals of the call, the files being assembled | Download, getChunk, getManifest | store, FindValue, Announce | dispatcher, workers and caller; early returns; two downloads with one output path |
| publishing, republishing `internal/node/node.go` | upload directory, a timer | Publish, SaveUpload, startRepublish | store, Announce | write errors between the chunks; a goroutine per chunk and round |
| node identity `internal/dht/transport.go` | certificate and key files | loadOrCreateIdentity | - | kill between two files, or inside one; any read error counts as absence |
| identifiers `internal/dht/id.go`, framing `internal/dht/message.go` | none | xor, less, leadingZeros, isZero; read and write a message | - | equal distances; size limit of a message |
| JSON-RPC server, daemon, client, frontend, demo containers | presentation only | - | Node | - |

What makes each of them correct:

* **routing table**: a bucket keeps its bound and holds a contact once; a mark
  and the ping that will remove it never come apart; a live peer is not
  evicted without a failed ping of *itself*; a dead peer goes eventually.
* **store**: a file that is offered, or listed on the disk, has all its chunks;
  what was acknowledged survives a restart; the list on the disk catches up.
* **connection pool**: one dial per address; nobody waits for a dial that is
  over; the retry does not get the closed connection again; every send returns.
* **lookup**: ends; asks nobody twice; has no more than the allowed number of
  requests in flight; ends with the closest contacts, all of them queried.
* **download**: assembles only what it has; keeps to its pool; what stands under
  the file's name is whole; leaves no goroutine behind.
* **value search**: reports a chunk missing only when nobody that it knows and
  that can be relied on has it; returns only the chunk; leaves no goroutine
  behind.
* **provider records**: an announced chunk stays findable while its provider
  lives and republishes, and becomes so again after restarts and misses; the
  dead are forgotten.
* **publishing**: a publication that has stored its chunks is accepted, and none
  is accepted without them.
* **identity**: a certificate and key that were used once are used again.
* **routing table over the transport**: a peer that listens at its address all
  along is lost only through a dial that failed (on this host, or somebody else's
  that the ping waited for), or because a first attempt was handed a pooled connection
  to another node or to the process the peer was before.
* **arithmetic**: the chunks of a file cover it, and a manifest fits a message.

The hazards of the code, each at its line and with the properties that would
catch it, are listed in `PROJECT.json` under `hazards`.

## 2. Modules

| module | models | proofs in | run with |
|---|---|---|---|
| `IdSpace` | `id.go`: xor, less, leadingZeros, isZero | `RoutingTableProofs`, `LookupProofs` | by `RoutingTable` and `Lookup` |
| `RoutingTable` | `routing.go`: update, tryReplace | `RoutingTableProofs` | `MCRoutingTable` |
| `PeerCache` | what a routing table promises: the abstract specification of `RoutingTable` and of `PingPool` | | |
| `ConnPool` | `transport.go`: send, getConn, dial, dropConn | `ConnPoolProofs` | by `PingPool` |
| `PingPool` | `ConnPool` under the pings of a bucket: tryReplace with its send | `PingPoolProofs` | `MCPingPool` |
| `Store` | `store.go`: PutChunk, AddManifest, syncManifests, NewStore | `StoreProofs` | `MCStore` |
| `Publish` | `node.go`: Publish, over `Store` | `StoreProofs` | by `NodeStart` |
| `NodeStart` | `node.go`: StartNode; `transport.go`: loadOrCreateIdentity; over `Publish` | `StoreProofs` | `MCNodeStart` |
| `Lookup` | `kademlia.go`: lookup and its shortlist | `LookupProofs` | `MCLookup` |
| `FindsChunk` | what a search for a chunk promises: the abstract specification of `FindValue` | | |
| `FindValue` | `kademlia.go`: FindValue, findProviders | `FindValueProofs` | `MCFindValue` |
| `Providers` | `kademlia.go`: addProvider, localProviders, Announce; `node.go`: startRepublish, republish | `ProvidersProofs` | `MCProviders` |
| `SavesFile` | what a download promises of the files it saves: the abstract specification of `Download` | | |
| `Download` | `node.go`: Download, getChunk, getManifest | `DownloadProofs` | `MCDownload` |

The `MC` modules give the constants their values for TLC and define nothing
else. Names that begin with `Mut` are deliberate errors, each an operator with
the parameters of the one below it; replacing that one by it must make a
property fail (`PROJECT.json`, `mutants`), which shows that the property can fail.

An action is a critical section of the code, or a step the code takes without a
lock and other goroutines can see (a system call on a shared file, a send on a
channel). Where a step is finer than what others can observe, it is merged with
the one before.

### IdSpace

An identifier is a sequence of `Width` bits (256 in the code). `BucketIndex` of
RoutingTable and the sort by distance of Lookup are defined by it.

### RoutingTable

`buckets[b]` is the slice of pointers, `contact[e]` and `pinging[e]` the fields
of entry `e`; keeping the pointer apart from the contact matters because
`tryReplace` overwrites the entry in place. `pings` are the goroutines between
the two critical sections of `tryReplace`. `Update(c)` has one disjunct per
branch of `update` (known, room, head already pinged, ping), `TryReplace(p)` one
per branch of `tryReplace` (answered, candidate already in, replace). `up` is
the environment: a contact that is up may answer; any ping may fail.

`PeerCache` leaves the order, the entries and the goroutines out. It says that a
peer enters while there is room or in exchange for a probed peer that did not
answer, and leaves in no other way. `ImplementsCache` is the refinement, with
the map `peers[b] = Held(b)` and `probing` = the pending pings with the contacts
their entries hold.

### ConnPool and PingPool

One goroutine per `send`, `pc` its place: `get` (getConn's critical section),
`dial`, `wait` (for somebody else's dial), `open` (OpenStreamSync), `exchange`. A
`dialCall` is its dialer together with the waiters whose `call` is not `none`. A
connection that nobody references is free to be used as a new one. The
environment rebinds addresses, closes connections and expires contexts.

`gone` are the connections whose process has ended. Nobody has closed them: a
stream can be opened, the request is written, and nobody answers, so that only
`rpcTimeout` ends the exchange, and `send` does not repeat it. `Rebind` may start
the same node again; it knows nothing of these connections. A dial fails for a
reason of the other side or of its context (`DialFail`), or for one of this host,
at any time (`DialError`: the address does not resolve, the socket fails).
`Sender(k)` is what a response declares; `serveStream` fills in the id of its
process, the one of its certificate, since every node runs this program.

`PingPool` puts one bucket on top: a goroutine of `Pinger` is a `tryReplace`
whose send is ConnPool's, the others are lookups and downloads that use the same
pool. `HearAppend` and `HearPing` are `update`, `Ping` is a step of the send and,
when it returns, the exchange of the peer for the candidate. The bucket is a set
(its order is RoutingTable's), and its promise is `PeerCache` again. `calm` is a
history variable: the pings whose peer has listened at its address all along,
with no working connection to it lost, and whose time was not up, unless it was
spent on a process that is gone. `EvictedForCause` lists what may still cost
such a peer its place. `SoundNext` are the steps on a host whose dials do not fail for
a reason of its own, `HostFails` the others.

### Store, Publish, NodeStart

`file[c]` is absent, partial (opened with `O_TRUNC`, not written) or complete;
`list` is `manifests.json`, with the ids of its last write in front and the
length of the longest write since the truncation, so that a short list written over
a longer one is known to leave a tail. `os.WriteFile` is two steps. A kill
(`Crash`) empties memory and stops all goroutines; what a completed system call
wrote stays (the process dies, the operating system does not). `NewStore` is
`StartRefused` (a corrupt file: the error exits), or `StartLoad` followed by the
rewrite of the list. A chunk that reads as truncated makes its hash differ, which
is what `NewStore` checks. A chunk file that cannot be read ends the start. A
listed manifest that cannot be read when its turn comes is passed over, the
start succeeds, and the list it writes leaves the manifest out (`store.go:77-98`):
`StartSkips` picks the manifests, and the history variable `skipped` remembers
them, because `SettledManifestsSurvive` cannot hold for these. `Spec` has failing
writes (`WriteFails`), `SoundSpec` has none.

`Publish` drives some of the callers: the chunks of a file one by one, the
manifest last, then `AddManifest`; it returns at the first error. The other
callers are RPC handlers and the workers of downloads, which may put any chunk
at any time.

`NodeStart` puts the store after a start: NewStore, then the two files of
loadOrCreateIdentity, each truncated and then written, and calls only when that
is done. `Kill` may come anywhere. `misread` and `served` are history variables.

### Lookup

`state[c]` is the item of contact `c` in the shortlist. `Nearest(n, S)` are the
possible results of sorting by distance and cutting after `n`; there may be more
than one, because a node known under two addresses has two equally distant
contacts and the sort is not stable. `Pick` starts a batch, `Fail` and `Answer`
take one result from the channel, and the next `Pick` needs the channel drained.
Contacts answer with any contacts but their own. Lookups follow one another in
the same behaviour, from any table.

### FindValue

`state[c]` is where provider `c` of the search is: waiting for its turn, asked
by a worker, its result sent, taken, or dropped by a dispatcher that has seen
the cancellation. A new call starts when nothing is left of the last one, so
that what a call leaves behind can be seen. The result channel has room for
`Capacity` results, and a worker sends only when there is room (`CanSend`); what nobody
takes any more stays in it until the next call makes a new one. `steady` is the environment: the
providers that have the chunk and have been able to answer all the time. What
findProviders returns is any set without this node.

`FindsChunk` says the same without goroutines: while one known provider can be
relied on, a search does not end without the chunk unless the caller gives up.
`ImplementsFindsChunk` is the refinement.

### Providers

One chunk, several nodes, a clock. `age[n][p]` is the age of `p`'s record at `n`.
An announcement is a goroutine `due[p][r]` that has recorded its own node and has
yet to reach or to miss every other; rounds overlap, and what a killed process
has sent may still arrive within a tick. `Fire` is the ticker of startRepublish,
`Start` the first republication of a node that starts, `GetProviders` the sweep
of expired records. Time does not pass a ticker that is due: tickers are on
time, which is what the comment of startRepublish needs as well.

### Download

`main[j]` is where call `j` of Download is, `next[j]` how far its dispatcher has
got, `work[j][i]` what the worker of the i-th chunk does, `sent[j]` how many
results of each kind are in the channel. The channel outlives the call: workers
that are left send to it, if there is room, and `Start` makes a new one when nothing
is left of the last call of this caller. What is left of a call overlaps with the
calls of the others. A worker sends its result and gives its slot back in one step
(in the code the slot follows the result; nobody can tell).

A worker searches (`get`), truncates the chunk's file (`put`) and writes and
indexes it (`write`). getChunk up to the test of the index in PutChunk is one
step: a chunk that is indexed by then succeeds, and fails if its file cannot be
read and nobody has it. Whether `FindValue` finds a chunk is the environment's
choice, as `FindsChunk` allows; chunks stay in the index, as
`HeldChunksSurvive` of Store says. `torn` are the chunks whose file is truncated
at the moment. One that two goroutines have fetched can be torn although it is
indexed, since the second one passed the test before (`store.go:105-112`), and
`GetChunk` reads files without the lock (`store.go:128`): the assembly then gets no
data and no error, and writes the next chunk in its place (`ReadTorn`; `pos` counts
the chunks, `off` what they have come to). A read of some of the data is the same
to the properties. Other writers of chunks, the publications, are those of Store.

File contents are sequences of chunks; `temp[p]` and `final[p]` are what is under
the temporary and the final name, and `fd[j]` says under which name the file that
`j` has open is now, because `os.Rename` moves a file that another download still
writes. `loose[p]` is a history variable: two calls have assembled together at
`p`, or one has read a torn chunk there.

`SavesFile` is what a caller may rely on: a call that succeeds puts the whole
file under its name in one step, any other call leaves what is there alone. It
has no goroutines and no temporary files, and of the store only that some
chunks are torn at times. The promise is void for a name that is `loose`; the run
`reassembled` shows that it has to be. `ImplementsSavesFile` is the refinement,
with `busy` = the calls that have not returned, `file` = `final`, and `loose` and
`torn` as they are.

### How they fit together

Lookup, Providers and FindValue rest on sends that return (`EverySendReturns`).
Providers takes a lookup for granted that ends (`Terminates`) and may leave any
node out; FindValue starts from any set of records. Download takes FindValue as
`FindsChunk` describes it and the store as an index that only grows. PingPool
puts ConnPool in the place of the environment of RoutingTable's pings.

## 3. Runs

| run | instance | checks | states |
|---|---|---|---|
| `routing_table` | six contacts: one node with two addresses, two more nodes in its bucket, one in another bucket, this node itself; three bits, buckets of two, three entries | the invariants, the refinement of PeerCache, `DeadPeerEvicted` | 147 712 |
| `store` | two files that share a chunk, a publisher and another caller, two syncManifests goroutines, two key pairs, write and read errors, manifests skipped at a start, kills anywhere | the invariants of Store, Publish and NodeStart, `HeldChunksSurvive`, `SettledManifestsSurvive` | 1 406 946 |
| `store_no_faults` | three callers, two syncers, kills but no write errors | `DamagedOnlyWhileRewritten`, `DamageHeals` | 226 073 |
| `restartable`, `quiescent_persisted` | two callers, two syncers, no write errors | statements of the repository the code does not keep | violated |
| `conn_pool` | a ping and another sender, two nodes, one address, two connections, a bucket of one | `SingleFlight`, `NoLostWaiter`, `RetryUsesFreshConn`, `NeverStuck`, `EvictedForCause`, `EverySendReturns` | 714 048 |
| `kept_if_alive` | the same | a comment the code does not keep | violated |
| `lookup` | five contacts of four nodes and this node, three bits; window of three, which can be cut between the two contacts of one node, two requests in flight | the invariants, `AskedOnce`, `Terminates` | 80 674 |
| `find_value` | four providers and this node's own record, two slots | `OutcomeJustified`, the refinement of FindsChunk, `SearchEnds` | 69 494 |
| `providers` | two nodes that both come to hold the chunk; records live 8 ticks, republication every 2, one may miss, two rounds under way | `RecordKept`, `DeadForgotten`, `RecordReturns` | 55 185 |
| `download` | a file of two chunks and one that has the second of these twice, both with one output path; two callers, one slot each | `Gathered`, `SavedWhole`, the refinement of SavesFile, `DownloadEnds` | 1 147 487 |
| `reassembled` | the same | a statement of the README the code does not keep | violated |

What the properties say and which lines they are about is written above each of
them in its module.

**Bounds.** `Entry` (RoutingTable), `Syncer` (Store), `Conn` (ConnPool) and
`Round` (Providers) bound resources the code allocates freely: three entries are
what the two buckets can hold of these contacts, and one that is cut out is
allocated again; two goroutines suffice for every reordering of two writes; two
connections are enough for every place a send can be in; two rounds are one
that overlaps the next. `Proc`, `Caller` and `Job` bound how many calls overlap,
not how many there are: each starts over when it has returned. K is 2 or 3
instead of 20, 1 in PingPool, and the request limit 2 instead of 10 or 3, with
one contact more than fits, so that the full bucket, the cut window and the full
batch all occur. Three bits are enough for more contacts of one bucket
than fit, another bucket beside it, and a lookup that cuts its window. Two chunks
and one slot make the pool full with a chunk left over; the chunk the files share lets a worker of one download write what the other one assembles, also after its
own call has returned. With more slots two workers of one download could fetch an
equal chunk as well; `DownloadProofs` has no bound. The lifetime of a record is the smallest that
`TtlAssumption` allows, so that one more miss loses it. `Ident` bounds the key
pairs: a third one is needed only after a misread, from where on
`IdentityStable` says nothing; the proofs cover any number.

**Fairness.** RoutingTable: a ping returns, because send gives up after
`rpcTimeout`. Nothing is assumed of peers or of incoming messages;
`DeadPeerEvicted` has them in its premise (pings keep being started in the
bucket, and the peer is down for good). Store: a goroutine that runs goes on, as
nothing in it waits for another one. PingPool: the same, and the timer of a send
fires. Lookup: every send returns, which `EverySendReturns` shows, and the loop
goes on. FindValue: lookups and sends return, and each goroutine of a call goes
on while it can. Providers: time passes, tickers fire, and each announcement
reaches or misses every node it is due at; `RecordReturns` has in its premise
that the two nodes stay up and are missed no more. Download: some goroutine of a
call goes on while one can; this is less than the scheduler gives, and enough,
because each has finitely many steps. That FindValue returns is `SearchEnds`.
Callers need not ever start or give up.

Deadlock is checked in every run. Except in Download the environment can always
do something, so that this check says little; `NoLostWaiter` and the liveness
properties are the ones that show that nobody waits for ever.

## 4. Findings

Each is a run that violates one property; the property states what the
repository says.

* **`reassembled`**: two downloads that save a file of one name in one directory
  share `<name>.temp` (`node.go:233`). The second truncates what the first has
  written, the first one's rename publishes it, and both go on writing into the
  published file. Each can report success with an empty or mixed file saved. And one
  download at a path is enough when another one fetches a chunk of its file:
  its worker passed the test of the index before the chunk was there and now truncates
  the file (`store.go:105-112`), which the assembly reads without a lock and
  without looking at the hash (`node.go:242`, `store.go:128`). It gets no data and
  no error, the chunks after it move forward, and a file with a gap at its end is
  saved as a success; the run shows this one. README
  says that the file is reassembled and saved. Without either, `SavedWhole`
  and `ImplementsSavesFile` hold, and are proved.
* **`restartable`**: a process killed between the truncation and the write of a
  chunk file leaves a file that `NewStore` takes for corruption, and the node does
  not start again (`store.go:57`), while `docker-compose.yaml` presents exactly
  this kill and restart as a demo. `StartsUnlessTorn` proves that, without write
  errors, a start is refused for no other reason than a kill in such a window (of a chunk or of the
  list) or the overlap of the next finding.
* **`quiescent_persisted`**: two `syncManifests` goroutines write their lists
  without a common lock (`store.go:157`): the older list may be written last, or
  a shorter one over a longer one. Nothing repairs it until the next file is
  added. `SettledManifestsSurvive` says which files are safe, and
  `PersistedUnlessSyncsOverlap` proves that the overlap is the only cause: with
  one `syncManifests` at a time nothing is lost, whatever is killed.
* **`kept_if_alive`**: goroutines that need a connection to one address share one
  dial, and it runs under the context and for the contact of the first
  (`transport.go:223`). When that one is given up, as FindValue does with its
  remaining requests, a ping of the routing table that waits for the same dial
  fails and a live peer is evicted (`routing.go:72` says it is kept).
  `EvictedForCause` shows, and `EvictedForCauseHolds` proves, what else can cost
  a peer its place that listens all along: a dial that fails on this host, and a
  pooled connection to the process it was before a restart, or to another node,
  which nobody closed and which is not tried twice.

## 5. Proofs

All theorems hold for every value of the constants that meets the `ASSUME`s of
the module; these say only that the constants have the types the code gives them
(K and the pool positive, identifiers of files among those of chunks, this
node's own contacts among the contacts, and that names for "nothing" name
nothing). `NoneAssumption` of Download says that "no file" is not a content,
`TtlAssumption` of Providers that a record outlives the announcements that may
miss it, which is what the comment of startRepublish asks for.

Each proof module has an inductive invariant `Inv`, one lemma per action (or per
group of actions that change the same things) and the theorems from it.

### Safety and refinement

* **RoutingTableProofs**: `TypeCorrect`, `BucketsBounded`, `PingsAccounted`,
  `NoDuplicatesHolds`, `ImplementsCacheHolds`. That a contact is held once needs
  more than its statement: no queue holds an entry twice, no two entries hold the
  same contact, contacts are in the bucket of their distance, and the candidate
  of a ping belongs to the bucket of the pinged peer and differs from it. The
  refinement follows step by step: `UpdateKnown` and `UpdateDrop` stutter.
  `IndexInRange`: the panic of bucketIndex is not reached. `HigherBucketCloser`:
  the peers of a bucket are all closer to this node than those of the buckets
  before it; more leading zeros of a distance mean that its first one comes
  later (`MoreZerosLess`).
  `PlacementHolds`: what a bucket holds belongs there. `BucketsStayKnown`: a
  bucket that has held a peer is never empty again, and whoever is heard from is
  in its bucket afterwards unless K others are; both by the refinement, whose
  steps take a peer out only in exchange for one that is in.
* **ConnPoolProofs**: `TypeCorrect`, `SingleFlightHolds`,
  `DialFillsEmptySlotHolds`, `NoLostWaiterHolds`, `RetryUsesFreshConnHolds`. The invariant says who is registered in the dialing
  map, that a connection is pooled under the address of those that hold it, and
  that the connection a send failed on is in no slot of the pool.
* **PingPoolProofs**: the composition implements ConnPool (`ImplementsPool`), so
  that all of the above holds of it, and PeerCache (`ImplementsCacheHolds`); the
  bucket keeps its bound (`TableTypeCorrect`). The pings under way are for
  different peers, all of them in the bucket. `EvictedForCauseHolds` adds an
  account of the connection a calm ping holds: it is to its peer and works; or it
  leads to another node or a process that is gone, or was closed before the ping began,
  and then it is that of the first attempt.
* **StoreProofs**: `TypeCorrect`, `ManifestsBackedHolds`,
  `ListedRecoverableHolds`, `HeldChunksSurviveHolds`,
  `SettledManifestsSurviveHolds`, and `DamageConfined` without write errors. The
  key is that indexes only grow while the process lives and that a file, once
  there, never goes; so the check of AddManifest is still true at its insertion,
  whatever ran in between, and a snapshot taken from the index is backed by files.
  `SettledManifestsSurvive` leaves out the manifests a start has skipped, and no
  others: of these the next list knows nothing.
  `PublishAcceptedHolds`: every chunk of the file that is published is still to
  be handed over, or being put, or indexed. `IdentityDurableHolds` and
  `IdentityStableHolds`: a pair that has been used stays in both files as long as
  no start misreads them. `ImplementsStore` and `NodeKeepsManifests` carry
  Store's theorems over to the node that starts, publishes and is killed.
* **StoreProofs, what the findings lack**: `PersistedUnlessSyncsOverlap` says
  of the specification without write errors that QuiescentPersisted holds if
  no two `syncManifests` goroutines are alive at once (`OneSync`): the only one writes
  the index as it is, into an empty file (`Syncing`). `StartsUnlessTorn` adds that kills
  hit nobody between truncating and writing (`GentleKill`), and concludes that
  `NewStore` never refuses: every partial file has its writer alive, and the list is
  readable unless somebody is writing it (`Intact`). The hypotheses restrict the
  schedule and the kills and nothing else; both runs' behaviours, less the
  overlaps and the torn writes, meet them.
* **LookupProofs**: `TypeCorrect`, `ConvergedHolds`, `NobodyLeftOutHolds`,
  `InflightBoundHolds`, `AskedOnceHolds`. An item exists for exactly the contacts
  heard of, and a lookup that is over leaves a window without pending items.
  Of the metric: `EquallyFarSameId`, and that its order is strict
  (`LessTransitive`, `LessIrreflexive`). Of the sort: a prefix of every length
  exists (`NearestExists`), and there is only one when the contacts are of
  different nodes (`NearestDetermined`); the sort, which is not stable, leaves a choice
  only between addresses of one node.
* **LookupProofs, what a lookup finds**: the theorems above hold whatever the
  others answer, and so say only that a lookup makes the best of what it hears.
  Two specifications restrict the answers to the nearest K of a table that knows
  the swarm, and all of Lookup's theorems hold of them (`SwarmNextIsNext`,
  `FullNextIsNext`).
  `LookupFindsClosest`: if everybody who answers knows, in each of its buckets
  with a node of the swarm, some node of the swarm (`Covers`), and fewer than K
  contacts of a table are gone, then the outcome or the node that looks up is
  the nearest node of the swarm, in whatever order results come. The reason is
  `BucketOnOneSide`: seen from a node, all of one bucket are nearer to the target
  than itself or all are farther; so somebody of the bucket of the nearest node
  will do (`TableLeads`). The invariant `SwarmInv` says that of everybody who has
  answered, the shortlist knows somebody nearer unless nobody is; with
  `Converged` that leaves the nearest.
  `LookupFindsNearest`: if nobody is gone and a table leaves out a node only when
  its bucket is full (`FullTables`), the outcome are K nearest nodes of the swarm, the
  one that looks up counted among them: the nodes that Announce tells. Otherwise
  two of the K + 1 were farther than some node left out, and the nearer of the two
  would have named K nodes nearer than itself (`TableNamesNearest`).
  The hypotheses are about the other nodes' tables, which Lookup does not model.
  `BucketsStayKnown` says how far a table meets them: a bucket once heard from is
  not empty again, but its peer may be dead until it is evicted
  (`DeadPeerEvicted`); and a bucket is complete or full until a candidate that has
  found a place of its own leaves one free. With arbitrary answers both conclusions
  fail, also when nobody is gone (TLC, with K of 1 and 2 on the instance of MCLookup).
* **FindValueProofs**: `TypeCorrect`, `PoolBoundHolds`,
  `OutcomeJustifiedHolds`, `ImplementsFindsChunkHolds`. A result in the channel
  is nil or the chunk, and the chunk when its provider can be relied on; who has
  taken a nil from everybody had nobody to rely on.
* **ProvidersProofs**: `TypeCorrect`, `RecordKeptHolds`, `DeadForgottenHolds`.
  `RecordKept` is not inductive: `Fresh` bounds the age of a record by the time
  since the ticker fired plus one period for each announcement that has missed
  the node or has not come to it yet. `Dated` says that a record is at least as
  old as the death of its provider.
* **DownloadProofs**: `TypeCorrect`, `PoolBoundHolds`, `GatheredHolds`,
  `SavedWholeHolds`. The good results in the channel and received are never more
  than the positions that were dispatched, are in nobody's hands and have their
  chunk in the store. A worker that succeeds adds one to both sides, one that
  fails to neither, and chunks others fetch only help. With as many results as
  chunks, every position counts. What is saved is whole because, where nobody
  has overlapped and no chunk was read torn, one call assembles at a path, under
  the temporary name (`Alone`), and has written a prefix of its file (`Written`).
  `ImplementsSavesFileHolds` is the refinement of SavesFile, one lemma per kind
  of step: everything up to the rename is hidden, opening the temporary file
  under another call is `Meet`, reading a torn chunk is `Misread`, and the
  rename is `Save` where neither has happened, because what is renamed is then the
  whole file (`TempWhole`), and `Spoil` where one has.

### Progress

The prover has rules for fairness only as far as temporal logic over given
formulas goes: it cannot expand ENABLED, and it cannot do an induction over a
measure. So each liveness property is split, and what is safety of it is
proved for every instance: nobody who is under way is ever without a step
(`NeverStuckHolds`), and every step uses up some of a finite measure.

* **Lookup**: `NeverStuckHolds` and `LookupBounded`. A window with a pending item
  gives a batch that is not empty, which rests on `NearestExists`; a step of the
  loop moves a contact on from not heard of, pending, in flight, and never back,
  so that a lookup has at most three steps per contact, whatever is answered.
* **FindValue**: `NeverStuckHolds` and `SearchBounded`. Until the call and all it
  has started are over, the caller has a result to take, the dispatcher a slot
  or a cancellation, or a worker its answer. This needs `Abandoned`: while the
  caller waits, providers are left out only if it has been cancelled, so that the
  results it counts on come. And it needs `RoomToSend`: a worker that has its answer never
  finds the channel full, because each provider is in one place only and the
  channel has room for all (`SendersHaveRoom`).
* **Download**: `NeverStuckHolds` and `DownloadBounded`. No worker ever blocks on
  the result channel, also when the call has long returned, and no goroutine of a
  call is left to wait for ever. What is in the channel, taken or still with a
  worker is never more than the chunks of the file, which is the room of the channel.
  While the caller waits this needs `Accounted`: while the caller collects and has not gone, what was
  dispatched is with a worker, in the channel or received. `Left` counts what a
  call has left to dispatch, check, fetch, send, take and write; steps of other calls
  leave it alone.
* **ConnPool**: `SendBounded`: a send has at most seven steps, and no step of
  another goroutine gives it more.
* **RoutingTable**: `DeadComesForwardHolds`. Of a peer that does not answer, every
  step says: it is pinged, and stays so until it is gone; or it is the head, and its
  ping starts; or it keeps its place at least, and comes forward when a ping starts
  in its bucket. So K pings of the bucket and the return of the last of them
  are enough for `DeadPeerEvicted`. `MoveShifts` and `CutShifts` say where the copy
  loops leave the other slots; that the ping of a dead peer ends with it gone, also
  in the place of another entry, rests on `ContactsDistinct` and `CandidatesFit`.
* **Providers**: `RecordApproachesHolds` and `RecordStaysHolds`. While both nodes
  run and announcements do not miss, a ticker that fires sends a request, the request
  stays under way until it has arrived, and what has arrived is handed out from
  then on. Of `RecordReturns` that leaves the fairness that time passes, tickers fire
  and requests come to an end.
* **PingPool**: `EverySendReturnsHolds` goes all the way: under the fairness of
  the run, and if no send is ever stuck, every send returns. Seven steps are few
  enough to be written out (`TakesFewSteps`). Its hypothesis `NeverStuck` is
  about ENABLED; it is an invariant of the run `conn_pool`.

### Only model-checked

The step from these theorems to `Terminates`, `SearchEnds` and `DownloadEnds` themselves
(ENABLED of the fair actions, and induction over the measure), and from
`DeadComesForward` to `DeadPeerEvicted` (induction over the place in the bucket);
`NeverStuck` of PingPool (ENABLED); `DamageHeals`, which needs the fairness of the
one writer that `DamageConfined` finds (ENABLED); and `RecordReturns`, which needs
fairness for clock, ticker and request in turn (ENABLED, and induction over the time
until the ticker fires).

Proved and not run, because the proof says it for every instance:
`IdentTypeOK`, `TableTypeOK`, the `TypeOK`s of ConnPool, Providers and Download,
`DialFillsEmptySlot`, `InflightBound`, the two `PoolBound`s, and `ImplementsCache`
of PingPool.

## 6. Not modelled, and why

* **Contents, hashing, TLS, JSON**: a chunk is its identifier. That content and
  identifier agree is the hash check of the receiver, which is taken to be
  perfect; a certificate names its node.
* **Power loss**: the code never calls `fsync`; the crash model is that of a
  killed process.
* **Server side of the transport, framing**: no state but the listener and the
  handler. That a request is refused because no handler is set yet, or not sent
  because it is too large, is one of the ways a send or an announcement fails.
* **Bootstrap, PING and FIND_NODE**: they change the routing table, through the
  update that RoutingTable models, and otherwise only pass contacts on; Lookup
  and Providers let every answer and every outcome of a lookup happen.
* **Sizes**: how a file is cut into chunks, the limit of a message against the
  size of a manifest, and a file that changes while it is published.
* **SaveUpload**: a scratch directory that nothing else looks at.
* **JSON-RPC server**: it dispatches to the operations above and keeps no state.
* **Command line, frontend, containers**: input, output and presentation. What
  `docker-compose.yaml` promises of a restart is checked on Store.

## 7. Plan

Done, in this order: RoutingTable with PeerCache, Store, ConnPool, Lookup,
Download; then PingPool, NodeStart, FindValue with FindsChunk, Providers,
IdSpace, Publish; then SavesFile; each with its proofs. All invariants but
`NeverStuck`, all action properties and all refinements that the runs check are
proved.

Left:

1. **Chunking**, as functions over small sizes: the chunks of a file, where a
   download writes them, and the size of a manifest against the limit of a
   message.
2. **Server**: the listener before its handler, with Bootstrap, instead of the
   free choice of `Miss` in Providers.
3. **Proofs**: of whatever is added; of what is there, only the liveness that
   section 5 lists is left.
