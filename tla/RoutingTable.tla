---------------------------- MODULE RoutingTable ----------------------------
(***************************************************************************)
(* The k-bucket routing table of internal/dht/routing.go.                  *)
(*                                                                         *)
(* A bucket is a queue of pointers to peer entries, least recently active  *)
(* first.  A full bucket that hears from a new peer pings its head in a    *)
(* goroutine (tryReplace) that holds the entry by pointer while updates    *)
(* and other pings go on; every critical section of rt.mu is one action.   *)
(* The outcome of a ping is the environment's: a peer that is up may       *)
(* answer, and any ping may fail (loss, rpcTimeout).                       *)
(***************************************************************************)
EXTENDS Naturals, Sequences, FiniteSets, IdSpace

CONSTANTS
  Id,          \* the identifiers that can be heard of
  Addr,        \* network addresses
  MyId,        \* the identifier of this node
  NoAddr,      \* the empty address
  Contact,     \* the contacts that can be heard of: [id, addr] records
  NoContact,   \* content of an entry that is not allocated
  K,           \* bucket size
  Entry        \* identities of heap-allocated peerEntry structs

ASSUME IdAssumption == Id \subseteq Identifier /\ MyId \in Identifier
ASSUME ContactAssumption == Contact \subseteq [id : Id, addr : Addr]
ASSUME NoContactAssumption == NoContact \notin Contact
ASSUME KAssumption == K \in Nat \ {0}

\* The bucket of an identifier: the leading zeros of its distance from MyId.
Bucket == 0..(Width - 1)
BucketIndex == [i \in Id \ {MyId} |-> LeadingZeros(Xor(MyId, i))]

VARIABLES
  up,          \* contacts that currently answer (environment)
  buckets,     \* buckets[b]: queue of entries
  contact,     \* contact[e]: contact stored in entry e
  pinging,     \* pinging[e]: is e marked as being pinged
  pings        \* the tryReplace goroutines that wait for a reply

vars == <<up, buckets, contact, pinging, pings>>

\* The entries of bucket b, its contacts, and the contacts of the table.
EntriesOf(b) == {buckets[b][i] : i \in DOMAIN buckets[b]}
Held(b) == {contact[e] : e \in EntriesOf(b)}
AllContacts == UNION {Held(b) : b \in Bucket}

PingCall == [idx : Bucket, oldest : Entry, cand : Contact]

TypeOK ==
  /\ up \subseteq Contact
  /\ buckets \in [Bucket -> Seq(Entry)]
  /\ contact \in [Entry -> Contact \cup {NoContact}]
  /\ pinging \in [Entry -> BOOLEAN]
  /\ pings \subseteq PingCall
  /\ \A b \in Bucket : Held(b) \subseteq Contact

-----------------------------------------------------------------------------
\* Names that begin with Mut are deliberate errors: each replaces the
\* definition that follows it to show that a property notices.

\* update rejects this node itself, the zero id and the empty address.
Acceptable(c) == c.id # MyId /\ c.id # ZeroId /\ c.addr # NoAddr

\* The slots of bucket b that hold contact c, and those that hold entry e.
SlotsOf(b, c) == {i \in DOMAIN buckets[b] : contact[buckets[b][i]] = c}
MutHeadSlot(b, e) == {1}
SlotsOfEntry(b, e) == {i \in DOMAIN buckets[b] : buckets[b][i] = e}

MutRoomOffByOne(b) == Len(buckets[b]) <= K
HasRoom(b) == Len(buckets[b]) < K

MutHeadNeverPinged(b) == FALSE
HeadPinged(b) == pinging[buckets[b][1]]

\* The loop "copy(b[i:], b[i+1:])" followed by "b[len(b)-1] = n".
MutNoMove(s, i) == s
MoveToEnd(s, i) ==
  [j \in 1..Len(s) |-> IF j < i THEN s[j] ELSE IF j < Len(s) THEN s[j + 1] ELSE s[i]]

\* The same copy followed by "b[:len(b)-1]".
MutCutKeepsLength(s, i) == s
Cut(s, i) == [j \in 1..(Len(s) - 1) |-> IF j < i THEN s[j] ELSE s[j + 1]]

Init ==
  /\ up = Contact
  /\ buckets = [b \in Bucket |-> << >>]
  /\ contact = [e \in Entry |-> NoContact]
  /\ pinging = [e \in Entry |-> FALSE]
  /\ pings = {}

-----------------------------------------------------------------------------
(* update(c): called when a message from c has been handled. *)

\* Already held: the entry becomes the most recently active one.
UpdateKnown(c) ==
  LET b == BucketIndex[c.id] IN
  /\ \E i \in SlotsOf(b, c) :
       /\ \A j \in SlotsOf(b, c) : i <= j
       /\ buckets' = [buckets EXCEPT ![b] = MoveToEnd(@, i)]
  /\ UNCHANGED <<up, contact, pinging, pings>>

\* Room left: a new entry is appended.
UpdateAppend(c) ==
  LET b == BucketIndex[c.id] IN
  /\ SlotsOf(b, c) = {}
  /\ HasRoom(b)
  /\ \E e \in Entry :
       /\ contact[e] = NoContact
       /\ buckets' = [buckets EXCEPT ![b] = Append(@, e)]
       /\ contact' = [contact EXCEPT ![e] = c]
       /\ pinging' = [pinging EXCEPT ![e] = FALSE]
  /\ UNCHANGED <<up, pings>>

\* Bucket full, head being pinged: the new peer is dropped.
UpdateDrop(c) ==
  LET b == BucketIndex[c.id] IN
  /\ SlotsOf(b, c) = {}
  /\ ~ HasRoom(b)
  /\ HeadPinged(b)
  /\ UNCHANGED vars

\* Bucket full, head not being pinged: the head is marked, moved to the end
\* at once, and pinged in a goroutine of its own.
UpdatePing(c) ==
  LET b == BucketIndex[c.id]
      oldest == buckets[b][1] IN
  /\ SlotsOf(b, c) = {}
  /\ ~ HasRoom(b)
  /\ ~ HeadPinged(b)
  /\ pinging' = [pinging EXCEPT ![oldest] = TRUE]
  /\ buckets' = [buckets EXCEPT ![b] = MoveToEnd(@, 1)]
  /\ pings' = pings \cup {[idx |-> b, oldest |-> oldest, cand |-> c]}
  /\ UNCHANGED <<up, contact>>

Update(c) ==
  /\ c \in up
  /\ Acceptable(c)
  /\ \/ UpdateKnown(c)
     \/ UpdateAppend(c)
     \/ UpdateDrop(c)
     \/ UpdatePing(c)

-----------------------------------------------------------------------------
(* tryReplace: the ping has returned, with or without a reply. *)

PingAnswered(p) ==
  /\ contact[p.oldest] \in up
  /\ pinging' = [pinging EXCEPT ![p.oldest] = FALSE]
  /\ pings' = pings \ {p}
  /\ UNCHANGED <<up, buckets, contact>>

MutCandNeverExists(p) == FALSE
CandExists(p) == SlotsOf(p.idx, p.cand) # {}

\* No reply, and the candidate got in through another goroutine: the entry
\* is cut out of the bucket and becomes garbage.
PingFailedCut(p) ==
  /\ CandExists(p)
  /\ \E i \in SlotsOfEntry(p.idx, p.oldest) :
       buckets' = [buckets EXCEPT ![p.idx] = Cut(@, i)]
  /\ contact' = [contact EXCEPT ![p.oldest] = NoContact]
  /\ pinging' = [pinging EXCEPT ![p.oldest] = FALSE]
  /\ pings' = pings \ {p}
  /\ UNCHANGED up

\* No reply, candidate not held: it takes over the entry, in place.
PingFailedReplace(p) ==
  /\ ~ CandExists(p)
  /\ contact' = [contact EXCEPT ![p.oldest] = p.cand]
  /\ pinging' = [pinging EXCEPT ![p.oldest] = FALSE]
  /\ pings' = pings \ {p}
  /\ UNCHANGED <<up, buckets>>

TryReplace(p) ==
  \/ PingAnswered(p)
  \/ PingFailedCut(p)
  \/ PingFailedReplace(p)

-----------------------------------------------------------------------------
(* Environment: peers stop and resume answering. *)

Leave(c) ==
  /\ c \in up
  /\ up' = up \ {c}
  /\ UNCHANGED <<buckets, contact, pinging, pings>>

Return(c) ==
  /\ c \notin up
  /\ up' = up \cup {c}
  /\ UNCHANGED <<buckets, contact, pinging, pings>>

Next ==
  \/ \E c \in Contact : Update(c)
  \/ \E p \in pings : TryReplace(p)
  \/ \E c \in Contact : Leave(c) \/ Return(c)

Spec == Init /\ [][Next]_vars

\* send gives up after rpcTimeout, so every goroutine comes to its second
\* critical section; nothing is assumed of peers or of incoming messages.
FairSpec ==
  /\ Spec
  /\ \A e \in Entry : WF_vars(\E p \in pings : p.oldest = e /\ TryReplace(p))

-----------------------------------------------------------------------------
(* Safety *)

\* A bucket never outgrows k: appends and replacements of concurrent
\* goroutines together never make more than k entries (routing.go:55).
BucketBound == \A b \in Bucket : Len(buckets[b]) <= K

\* A contact is held in one slot of the whole table, although two goroutines
\* may carry the same candidate and updates may add it first (routing.go:88-96).
NoDuplicates ==
  \A b1, b2 \in Bucket : \A i \in DOMAIN buckets[b1], j \in DOMAIN buckets[b2] :
    contact[buckets[b1][i]] = contact[buckets[b2][j]] => b1 = b2 /\ i = j

\* The pinging mark of an entry and the goroutine that will clear it come and
\* go together: a mark without a goroutine would pin a dead peer at the head
\* and close the bucket to new peers forever; two goroutines would evict the
\* contact that replaced the first one's (routing.go:61-73).
PingAccounting ==
  /\ \A b \in Bucket : \A e \in EntriesOf(b) :
       pinging[e] <=> \E p \in pings : p.oldest = e
  /\ \A p, q \in pings : p.oldest = q.oldest => p = q
  /\ \A p \in pings : p.oldest \in EntriesOf(p.idx)

\* Parts of the inductive invariant.  No queue holds an entry twice.
QueuesInjective ==
  \A b \in Bucket : \A i, j \in DOMAIN buckets[b] : buckets[b][i] = buckets[b][j] => i = j

\* No two entries hold the same contact.
ContactsDistinct ==
  \A b1, b2 \in Bucket : \A e1 \in EntriesOf(b1), e2 \in EntriesOf(b2) :
    contact[e1] = contact[e2] => e1 = e2

\* Held contacts are acceptable and sit in the bucket of their distance.
Placement ==
  \A b \in Bucket : \A c \in Held(b) : Acceptable(c) /\ BucketIndex[c.id] = b

\* Goroutines hold candidates that belong to their bucket and differ from
\* the pinged peer.
CandidatesFit ==
  \A p \in pings :
    /\ Acceptable(p.cand)
    /\ BucketIndex[p.cand.id] = p.idx
    /\ p.cand # contact[p.oldest]

Inv ==
  /\ TypeOK
  /\ BucketBound
  /\ PingAccounting
  /\ QueuesInjective
  /\ ContactsDistinct
  /\ Placement
  /\ CandidatesFit

\* The table implements the abstract cache: a held peer leaves a bucket only
\* through a failed ping of itself, and only in exchange for the candidate.
Cache == INSTANCE PeerCache WITH
  Peer <- Contact,
  peers <- [b \in Bucket |-> Held(b)],
  probing <- {[idx |-> p.idx, old |-> contact[p.oldest], new |-> p.cand] : p \in pings}

ImplementsCache == Cache!Spec

(* Liveness *)

\* A peer that has stopped answering for good does not stay in a bucket in
\* which pings keep being started: the optimistic move to the end makes the
\* pings go round (routing.go:68-70).
PingStarts(b) == \E c \in up : Acceptable(c) /\ BucketIndex[c.id] = b /\ UpdatePing(c)

DeadPeerEvicted ==
  \A d \in {c \in Contact : Acceptable(c)} :
    ([]<><<PingStarts(BucketIndex[d.id])>>_vars /\ <>[](d \notin up)) => <>[](d \notin AllContacts)

=============================================================================
