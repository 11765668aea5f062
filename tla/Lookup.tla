------------------------------- MODULE Lookup -------------------------------
(***************************************************************************)
(* The iterative lookup of internal/dht/kademlia.go: lookup and its        *)
(* shortlist.                                                              *)
(*                                                                         *)
(* A lookup keeps every contact it hears of, asks a batch of them, waits   *)
(* for all results of the batch in the order in which they come, and ends  *)
(* when the K closest contacts that have not failed have all been queried. *)
(* Which contacts answer and what they answer is up to the environment: a  *)
(* contact is asked once in a lookup, so any answer is that of some        *)
(* network.  What the lookup tells the routing table (rt.update) is left   *)
(* to RoutingTable; here a lookup starts from any table.                   *)
(***************************************************************************)
EXTENDS Naturals, FiniteSets, IdSpace

CONSTANTS
  MyId,         \* the identifier of the node that looks up
  Target,       \* the key or the node it looks for
  Addr,         \* network addresses
  NoAddr,       \* the empty address
  Contact,      \* the contacts that answers can name: [id, addr] records
  K,            \* size of the window, and of an answer
  Concurrency   \* requests in flight

ASSUME IdAssumption == MyId \in Identifier /\ Target \in Identifier
ASSUME ContactAssumption == IsFiniteSet(Contact) /\ Contact \subseteq [id : Identifier, addr : Addr]
ASSUME BoundAssumption == K \in Nat \ {0} /\ Concurrency \in Nat \ {0}

VARIABLES
  running,    \* is a lookup in its loop?
  state,      \* state[c]: of c's item in the shortlist; unseen: there is none
  outcome,    \* lookupOutcome.closest of the last lookup
  heard       \* history: the contacts in the first table and in all answers

vars == <<running, state, outcome, heard>>

\* Contacts the shortlist does not take: this node itself, and broken ones.
Skipped == {c \in Contact : c.id = MyId \/ c.id = ZeroId \/ c.addr = NoAddr}

TypeOK ==
  /\ running \in BOOLEAN
  /\ state \in [Contact -> {"unseen", "pending", "inflight", "queried", "failed"}]
  /\ outcome \in SUBSET Contact
  /\ heard \in SUBSET Contact
  /\ \A c \in Skipped : state[c] = "unseen"

Init ==
  /\ running = FALSE
  /\ state = [c \in Contact |-> "unseen"]
  /\ outcome = {}
  /\ heard = {}

-----------------------------------------------------------------------------
InState(st) == {c \in Contact : state[c] = st}

Distance(c) == Xor(Target, c.id)

\* c does not come after d in a sort by distance.
AsClose(c, d) == ~ Less(Distance(d), Distance(c))

\* The first n elements of S after a sort by distance.  Two contacts of one
\* node are equally far, and the sort may order them either way.
Nearest(n, S) ==
  {W \in SUBSET S :
     /\ Cardinality(W) <= n
     /\ W # S => Cardinality(W) = n
     /\ \A c \in W, d \in S \ W : AsClose(c, d)}

SameNode(c, d) == c.id = d.id

\* A routing table never holds its owner; rt.closest answers with a part of it.
Answers(c) == {R \in SUBSET Contact : Cardinality(R) <= K /\ \A d \in R : ~ SameNode(c, d)}

\* Names that begin with Mut are deliberate errors: each replaces the
\* definition that follows it to show that a property notices.

\* The state of d's item after push(cs) on a shortlist with states st: only
\* contacts of others that have no item get one.
MutPushAgain(st, cs, d) == IF d \in cs \ Skipped THEN "pending" ELSE st[d]
MutPushNothing(st, cs, d) == st[d]
MutPushMine(st, cs, d) == IF d \in cs /\ st[d] = "unseen" THEN "pending" ELSE st[d]
Push(st, cs, d) == IF d \in cs \ Skipped /\ st[d] = "unseen" THEN "pending" ELSE st[d]

\* Contacts that have not failed: the window is cut out of them.
Candidates == InState("pending") \cup InState("inflight") \cup InState("queried")

\* The result channel of the batch is drained before the next batch is picked.
MutNoBarrier == TRUE
BatchOver == InState("inflight") = {}

\* What pickNodes returns when the window is W.
Batches(W) == Nearest(Concurrency, W \cap InState("pending"))

-----------------------------------------------------------------------------
(* Actions *)

\* lookup is called; T is what rt.closest returns.
Start(T) ==
  /\ ~ running
  /\ running' = TRUE
  /\ state' = [c \in Contact |-> IF c \in T \ Skipped THEN "pending" ELSE "unseen"]
  /\ heard' = T
  /\ UNCHANGED outcome

\* The next batch is picked and a goroutine sends to each of its contacts.
Pick ==
  /\ running
  /\ BatchOver
  /\ \E W \in Nearest(K, Candidates) : \E B \in Batches(W) :
       /\ B # {}
       /\ state' = [c \in Contact |-> IF c \in B THEN "inflight" ELSE state[c]]
  /\ UNCHANGED <<running, outcome, heard>>

\* The result of c is an error.
Fail(c) ==
  /\ state[c] = "inflight"
  /\ state' = [state EXCEPT ![c] = "failed"]
  /\ UNCHANGED <<running, outcome, heard>>

\* The result of c is a response with contacts R.
Answer(c, R) ==
  /\ state[c] = "inflight"
  /\ state' = [d \in Contact |-> Push([state EXCEPT ![c] = "queried"], R, d)]
  /\ heard' = heard \cup R
  /\ UNCHANGED <<running, outcome>>

\* pickNodes returns nothing.  closest sorts again, which leaves a sorted
\* list as it is, so the outcome is the same window.
Finish ==
  /\ running
  /\ BatchOver
  /\ \E W \in Nearest(K, Candidates) :
       /\ W \cap InState("pending") = {}
       /\ outcome' = W
  /\ running' = FALSE
  /\ UNCHANGED <<state, heard>>

Result(c) == Fail(c) \/ \E R \in Answers(c) : Answer(c, R)

Next ==
  \/ \E T \in SUBSET Contact : Cardinality(T) <= K /\ T \cap Skipped = {} /\ Start(T)
  \/ Pick \/ Finish
  \/ \E c \in Contact : Result(c)

Spec == Init /\ [][Next]_vars

\* Every send returns (ConnPool's EverySendReturns), and the loop goes on.
FairSpec ==
  /\ Spec
  /\ WF_vars(Pick) /\ WF_vars(Finish)
  /\ \A c \in Contact : WF_vars(Result(c))

-----------------------------------------------------------------------------
(* Properties *)

\* The comment of kademlia.go:153: a lookup ends when the closest K nodes have
\* all been queried.  Whatever else it has heard of failed or is not closer.
Converged ==
  ~ running => \A c \in outcome :
    /\ state[c] = "queried"
    /\ \A d \in heard \ (Skipped \cup outcome) :
         state[d] = "failed" \/ (Cardinality(outcome) = K /\ AsClose(c, d))

\* A lookup that comes back with fewer than K contacts has asked every contact
\* it heard of, and lists those that answered: in a swarm of no more than K
\* contacts Announce leaves out nobody (kademlia.go:153-195, 220-234).
NobodyLeftOut ==
  ~ running /\ Cardinality(outcome) < K =>
    \A c \in heard \ Skipped : state[c] \in {"queried", "failed"} /\ (state[c] = "queried" => c \in outcome)

\* At most Concurrency requests of a lookup are in flight (kademlia.go:347-367).
InflightBound == Cardinality(InState("inflight")) <= Concurrency

\* No contact is asked twice in a lookup: a contact that is told again, by
\* another answer of the same batch or of a later one, keeps its state.
AskedOnce ==
  [][running => \A c \in Contact :
       /\ state[c] \in {"queried", "failed"} => state'[c] = state[c]
       /\ state[c] = "inflight" => state'[c] \in {"inflight", "queried", "failed"}]_vars

\* Every lookup ends.
Terminates == running ~> ~ running
=============================================================================
