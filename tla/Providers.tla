----------------------------- MODULE Providers -----------------------------
(***************************************************************************)
(* Provider records of internal/dht/kademlia.go and the republication that *)
(* keeps them alive (startRepublish of internal/node/node.go), for one     *)
(* chunk: the records of different keys do not touch each other.           *)
(*                                                                         *)
(* A node that holds the chunk announces it when it gets it, when it       *)
(* starts, and every Period ticks.  An announcement is a goroutine that    *)
(* nobody waits for: it records its own node, and then, in any order,      *)
(* reaches or misses every other one, be it that the lookup leaves it out  *)
(* or that the request fails.  Records live in memory, for Ttl ticks.      *)
(* Time passes for all nodes alike, but not beyond a ticker that is due;   *)
(* what a killed process has sent arrives within a tick, or not at all.    *)
(***************************************************************************)
EXTENDS Naturals, FiniteSets

CONSTANTS
  Node,
  Holder,    \* nodes that may come to hold the chunk
  Round,     \* bound: announcements of one node in flight at once
  Ttl,       \* providerTTL
  Period,    \* republishInterval
  Slack      \* how many announcements in a row may miss a node

ASSUME HolderAssumption == Holder \subseteq Node
ASSUME RoundAssumption == IsFiniteSet(Round)
ASSUME PeriodAssumption == Ttl \in Nat /\ Slack \in Nat /\ Period \in Nat \ {0}

\* The comment of startRepublish: Period is significantly smaller than Ttl.
ASSUME TtlAssumption == (Slack + Cardinality(Round) + 1) * Period <= Ttl

VARIABLES
  up,        \* the nodes that run
  holds,     \* the nodes whose store has the chunk
  providers, \* providers[n]: the contacts in n's map for the chunk
  age,       \* age[n][p]: ticks since p's record at n was written, up to Ttl + 1
  timer,     \* ticks since the ticker of a running node has fired
  due,       \* due[p][r]: whom round r of p has neither reached nor missed
  missed,    \* history: announcements of p in a row that have missed n
  silent     \* history: ticks since p has stopped, up to Ttl + 1

maps == <<providers, age>>
history == <<missed, silent>>
vars == <<up, holds, maps, timer, due, history>>

TypeOK ==
  /\ up \subseteq Node
  /\ holds \subseteq Holder
  /\ providers \in [Node -> SUBSET Holder]
  /\ age \in [Node -> [Holder -> 0..(Ttl + 1)]]
  /\ timer \in [Node -> 0..Period]
  /\ due \in [Holder -> [Round -> SUBSET Node]]
  /\ \A p \in Holder, r \in Round : p \notin due[p][r]
  /\ missed \in [Node -> [Holder -> 0..(Slack + 1)]]
  /\ silent \in [Holder -> 0..(Ttl + 1)]

\* No announcement has reached n since one of the two was started.
Unknown == Slack + 1

Init ==
  /\ up = {}
  /\ holds = {}
  /\ providers = [n \in Node |-> {}]
  /\ age = [n \in Node |-> [p \in Holder |-> 0]]
  /\ timer = [n \in Node |-> 0]
  /\ due = [p \in Holder |-> [r \in Round |-> {}]]
  /\ missed = [n \in Node |-> [p \in Holder |-> Unknown]]
  /\ silent = [p \in Holder |-> 0]

-----------------------------------------------------------------------------
(* The maps of a node *)

\* Names that begin with Mut are deliberate errors: each replaces the
\* definition that follows it to show that a property notices.

\* addProvider(p) at n: a record that is there is renewed.
MutFirstExpiryStays(n, p) == IF p \in providers[n] THEN age[n][p] ELSE 0
RenewedAge(n, p) == 0

AddProvider(n, p) ==
  /\ providers' = [providers EXCEPT ![n] = @ \cup {p}]
  /\ age' = [age EXCEPT ![n][p] = RenewedAge(n, p)]
  /\ missed' = [missed EXCEPT ![n][p] = IF p \in up' THEN 0 ELSE Unknown]

\* localProviders: what n hands out when it is asked.
MutNoExpiry(n, p) == TRUE
Valid(n, p) == age[n][p] <= Ttl
Handed(n) == {p \in providers[n] : Valid(n, p)}

\* Expired records are deleted when somebody asks for the chunk.
GetProviders(n) ==
  /\ n \in up
  /\ providers[n] # Handed(n)
  /\ providers' = [providers EXCEPT ![n] = Handed(n)]
  /\ age' = [age EXCEPT ![n] = [p \in Holder |-> IF p \in Handed(n) THEN @[p] ELSE 0]]
  /\ UNCHANGED <<up, holds, timer, due, history>>

-----------------------------------------------------------------------------
(* Announce *)

\* The contacts a lookup can come back with: never this node itself.
Others(p) == Node \ {p}

\* A goroutine starts: its own record, then the lookup.
Announce(p) ==
  /\ AddProvider(p, p)
  /\ \E r \in Round :
       /\ due[p][r] = {}
       /\ due' = [due EXCEPT ![p][r] = Others(p)]

\* ADD_PROVIDER of p is handled by n, whatever becomes of the response.
Reach(p, r, n) ==
  /\ n \in due[p][r]
  /\ n \in up
  /\ UNCHANGED <<up, holds, timer, silent>>
  /\ due' = [due EXCEPT ![p][r] = @ \ {n}]
  /\ AddProvider(n, p)

\* n is not among the closest found, or the request does not get there.
Miss(p, r, n) ==
  /\ n \in due[p][r]
  /\ due' = [due EXCEPT ![p][r] = @ \ {n}]
  /\ missed' = [missed EXCEPT ![n][p] = IF @ = Unknown THEN @ ELSE @ + 1]
  /\ UNCHANGED <<up, holds, maps, timer, silent>>

\* The chunk is stored, by a publication or a download, and announced.
Acquire(p) ==
  /\ p \in up \ holds
  /\ holds' = holds \cup {p}
  /\ UNCHANGED <<up, timer, silent>>
  /\ Announce(p)

\* republish: all chunks of the store are announced.
MutAnnouncedOnce(p) == FALSE
ToAnnounce(p) == p \in holds

Republish(p) ==
  IF ToAnnounce(p) THEN Announce(p) ELSE UNCHANGED <<maps, due, missed>>

\* The ticker fires.
Fire(p) ==
  /\ p \in up
  /\ timer[p] = Period
  /\ timer' = [timer EXCEPT ![p] = 0]
  /\ UNCHANGED <<up, holds, silent>>
  /\ Republish(p)

-----------------------------------------------------------------------------
(* Processes and time *)

\* StartNode: the maps are empty, the store is not; a first republish.
Start(p) ==
  /\ p \notin up
  /\ up' = up \cup {p}
  /\ silent' = IF p \in Holder THEN [silent EXCEPT ![p] = 0] ELSE silent
  /\ IF p \in holds THEN Announce(p) ELSE UNCHANGED <<maps, due, missed>>
  /\ UNCHANGED <<holds, timer>>

\* The process is killed, with its goroutines: what they have sent may arrive
\* all the same.
Stop(p) ==
  /\ p \in up
  /\ up' = up \ {p}
  /\ providers' = [providers EXCEPT ![p] = {}]
  /\ age' = [age EXCEPT ![p] = [q \in Holder |-> 0]]
  /\ timer' = [timer EXCEPT ![p] = 0]
  /\ missed' = [n \in Node |-> [q \in Holder |-> IF p \in {n, q} THEN Unknown ELSE missed[n][q]]]
  /\ UNCHANGED <<holds, due, silent>>

Older(t) == IF t > Ttl THEN t ELSE t + 1

Tick ==
  /\ \A p \in up : timer[p] < Period
  /\ \A p \in Holder \ up, r \in Round : due[p][r] = {}
  /\ timer' = [p \in Node |-> IF p \in up THEN timer[p] + 1 ELSE 0]
  /\ age' = [n \in Node |-> [p \in Holder |-> IF p \in providers[n] THEN Older(age[n][p]) ELSE 0]]
  /\ silent' = [p \in Holder |-> IF p \in up THEN 0 ELSE Older(silent[p])]
  /\ UNCHANGED <<up, holds, providers, due, missed>>

Next ==
  \/ \E n \in Node : GetProviders(n) \/ Start(n) \/ Stop(n) \/ Fire(n)
  \/ \E p \in Holder : Acquire(p)
  \/ \E p \in Holder, r \in Round, n \in Node : Reach(p, r, n) \/ Miss(p, r, n)
  \/ Tick

Spec == Init /\ [][Next]_vars

\* Time goes on, tickers fire, and announcements come to an end: each is a
\* lookup (Lookup's Terminates) and one send per node (EverySendReturns).
FairSpec ==
  /\ Spec
  /\ WF_vars(Tick)
  /\ \A n \in Node : WF_vars(Fire(n))
  /\ \A p \in Holder, r \in Round, n \in Node : WF_vars(Reach(p, r, n) \/ Miss(p, r, n))

-----------------------------------------------------------------------------
(* Properties *)

\* A record does not run out while its provider republishes: a node that was
\* reached once hands the provider out until Slack + 1 announcements in a row
\* have missed it, although announcements overlap, their requests arrive in
\* any order, and expired records are swept away (kademlia.go:98-117, 216-234,
\* node.go:261-283).
RecordKept ==
  \A n \in up, p \in up \cap Holder : missed[n][p] <= Slack => p \in Handed(n)

\* A provider that is gone is forgotten: nobody hands it out when it has not
\* been running for more than Ttl ticks (kademlia.go:111-114).
DeadForgotten ==
  \A n \in Node, p \in Holder : p \in Handed(n) => silent[p] <= Ttl

\* Records are lost when a node restarts, and an announcement can miss it, as
\* the first one of every node does, whose routing table is empty.  A node that
\* stays up and is missed no more gets the record of every provider that stays
\* up, and keeps it (README, "a node will periodically republish all chunks").
Serving(n, p) == {n, p} \subseteq up /\ p \in holds

RecordReturns ==
  \A n \in Node, p \in Holder :
    <>[]Serving(n, p) /\ <>[][\A r \in Round : ~ Miss(p, r, n)]_vars => <>[](p \in Handed(n))
=============================================================================
