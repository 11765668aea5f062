------------------------------ MODULE PeerCache ------------------------------
(***************************************************************************)
(* What a routing table promises to the rest of the node, with the queue   *)
(* order, the heap entries and the goroutines of routing.go left out: per  *)
(* bucket a set of at most K peers.  A peer enters while there is room, or *)
(* in exchange for a peer that was probed and did not answer; no peer      *)
(* leaves in any other way, and at most one probe of a peer is pending.    *)
(***************************************************************************)
EXTENDS Naturals, FiniteSets

CONSTANTS
  Bucket,   \* bucket numbers
  Peer,     \* contacts that may be stored
  K         \* bucket capacity

VARIABLES
  peers,    \* peers[b]: the peers held in bucket b
  probing   \* the pending probes: old is asked, new waits for its place

vars == <<peers, probing>>

Probe == [idx : Bucket, old : Peer, new : Peer]

TypeOK ==
  /\ peers \in [Bucket -> SUBSET Peer]
  /\ probing \subseteq Probe

Init ==
  /\ peers = [b \in Bucket |-> {}]
  /\ probing = {}

\* A peer heard from is added while its bucket has room.
Learn(b, c) ==
  /\ Cardinality(peers[b]) < K
  /\ peers' = [peers EXCEPT ![b] = @ \cup {c}]
  /\ UNCHANGED probing

\* A new peer is heard from while the bucket is full: one held peer that is
\* not being probed already has to prove that it is alive.
StartProbe(b, o, c) ==
  /\ Cardinality(peers[b]) = K
  /\ o \in peers[b]
  /\ c \notin peers[b]
  /\ \A q \in probing : ~ (q.idx = b /\ q.old = o)
  /\ probing' = probing \cup {[idx |-> b, old |-> o, new |-> c]}
  /\ UNCHANGED peers

\* The probed peer answered and keeps its place.
Keep(q) ==
  /\ probing' = probing \ {q}
  /\ UNCHANGED peers

\* The probed peer did not answer: the waiting peer has its place, unless it
\* found one on its own in the meantime.
Replace(q) ==
  /\ q.old \in peers[q.idx]
  /\ peers' = [peers EXCEPT ![q.idx] = (@ \ {q.old}) \cup {q.new}]
  /\ probing' = probing \ {q}

Next ==
  \/ \E b \in Bucket, c \in Peer : Learn(b, c)
  \/ \E b \in Bucket, o, c \in Peer : StartProbe(b, o, c)
  \/ \E q \in probing : Keep(q) \/ Replace(q)

Spec == Init /\ [][Next]_vars
=============================================================================
