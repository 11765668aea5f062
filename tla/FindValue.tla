------------------------------ MODULE FindValue ------------------------------
(***************************************************************************)
(* Kademlia.FindValue of internal/dht/kademlia.go, with findProviders.     *)
(*                                                                         *)
(* A search looks up the providers of a chunk, then a dispatcher goroutine *)
(* starts one worker per provider, at most Connects at a time, and the     *)
(* goroutine of the call takes their results until one is the chunk.  The  *)
(* environment decides which providers are told, which of them answer      *)
(* rightly, and when the caller gives up.  The list is shuffled, so the    *)
(* next provider is any of them; results are taken in any order, too.      *)
(***************************************************************************)
EXTENDS Naturals, FiniteSets

CONSTANTS
  Contact,   \* contacts that provider records name
  Mine,      \* those of this node
  Value,     \* what a response can carry, apart from nothing
  Right,     \* the value whose hash is the key
  NoValue,   \* nil: no value, a wrong one, or an error
  Connects   \* size of the pool

ASSUME ContactAssumption == IsFiniteSet(Contact) /\ Mine \subseteq Contact
ASSUME ValueAssumption == Right \in Value /\ NoValue \notin Value
ASSUME ConnectsAssumption == Connects \in Nat \ {0}

VARIABLES
  main,      \* the goroutine of the call: idle, lookup, collect
  gone,      \* has the caller's context ended?
  state,     \* state[c]: of provider c: unknown, waiting, asked, sent, taken, dropped
  data,      \* data[c]: the result its worker has sent
  outcome,   \* how the last search ended: found, missing, cancelled
  got,       \* the value it returned
  steady     \* environment: providers that have been able to answer all the time

call == <<main, gone>>
pool == <<state, data>>
result == <<outcome, got>>
vars == <<call, pool, result, steady>>

InState(st) == {c \in Contact : state[c] = st}

TypeOK ==
  /\ main \in {"idle", "lookup", "collect"}
  /\ gone \in BOOLEAN
  /\ state \in [Contact -> {"unknown", "waiting", "asked", "sent", "taken", "dropped"}]
  /\ data \in [Contact -> Value \cup {NoValue}]
  /\ outcome \in {"found", "missing", "cancelled"}
  /\ got \in Value \cup {NoValue}
  /\ steady \subseteq Contact /\ \A c \in steady : state[c] # "unknown"
  /\ \A c \in Mine : state[c] = "unknown"

Init ==
  /\ main = "idle"
  /\ gone = FALSE
  /\ state = [c \in Contact |-> "unknown"]
  /\ data = [c \in Contact |-> NoValue]
  /\ outcome = "cancelled"
  /\ got = NoValue
  /\ steady = {}

-----------------------------------------------------------------------------
\* cctx is done: the caller has given up, or FindValue has returned.
Cancelled == gone \/ main = "idle"

\* The dispatcher and the workers of the call have ended.
Quiet == InState("waiting") \cup InState("asked") = {}

Return(o, v) ==
  /\ main' = "idle"
  /\ gone' = FALSE
  /\ outcome' = o
  /\ got' = v

\* A new call, when nothing is left of the last one.
Start ==
  /\ main = "idle" /\ Quiet
  /\ main' = "lookup"
  /\ state' = [c \in Contact |-> "unknown"]
  /\ data' = [c \in Contact |-> NoValue]
  /\ got' = NoValue
  /\ steady' = {}
  /\ UNCHANGED <<gone, outcome>>

GiveUp ==
  /\ main # "idle"
  /\ ~ gone
  /\ gone' = TRUE
  /\ UNCHANGED <<main, pool, result, steady>>

\* Names that begin with Mut are deliberate errors: each replaces the
\* definition that follows it to show that a property notices.

\* findProviders returns: own and told records, without this node itself.
MutOwnToo(S) == S
Providers(S) == S \ Mine

ProvidersFound(S, good) ==
  /\ main = "lookup"
  /\ main' = "collect"
  /\ state' = [c \in Contact |-> IF c \in Providers(S) THEN "waiting" ELSE "unknown"]
  /\ steady' = good \cap Providers(S)
  /\ UNCHANGED <<gone, data, result>>

\* A provider stops serving, or a send to it fails for another reason.
Disturb(c) ==
  /\ steady' = steady \ {c}
  /\ steady' # steady
  /\ UNCHANGED <<call, pool, result>>

-----------------------------------------------------------------------------
(* The dispatcher *)

SlotFree == Cardinality(InState("asked")) < Connects

\* Also after a cancellation: the select may take either case.
Dispatch(c) ==
  /\ state[c] = "waiting"
  /\ SlotFree
  /\ state' = [state EXCEPT ![c] = "asked"]
  /\ UNCHANGED <<call, data, result, steady>>

DispatchStops ==
  /\ Cancelled
  /\ InState("waiting") # {}
  /\ state' = [c \in Contact |-> IF state[c] = "waiting" THEN "dropped" ELSE state[c]]
  /\ UNCHANGED <<call, data, result, steady>>

-----------------------------------------------------------------------------
(* A worker: GET_VALUE, the hash check, the result, the slot *)

MutUnchecked(v) == v
Checked(v) == IF v = Right THEN v ELSE NoValue

\* The channel is made for the providers of the call, and what nobody takes stays
\* in it: workers that are left when the call has returned send to it, too.
MutOneResult == 1
Capacity == Cardinality({c \in Contact : state[c] # "unknown"})

CanSend == Cardinality(InState("sent")) < Capacity

Send(c, v) ==
  /\ state[c] = "asked"
  /\ CanSend
  /\ state' = [state EXCEPT ![c] = "sent"]
  /\ data' = [data EXCEPT ![c] = Checked(v)]

Answered(c, v) ==
  /\ c \in steady => v = Right
  /\ Send(c, v)
  /\ UNCHANGED <<call, result, steady>>

\* No answer in time, or cctx is done: nobody can be relied on then.
Failed(c) ==
  /\ c \notin steady \/ Cancelled
  /\ Send(c, NoValue)
  /\ steady' = steady \ {c}
  /\ UNCHANGED <<call, result>>

-----------------------------------------------------------------------------
(* The loop over the results *)

\* "for range providers" is over when there was a result for each of them.
Owed == {c \in Contact : state[c] \in {"waiting", "asked", "sent", "dropped"}}
MutOneLess == Cardinality(Owed) <= 1
AllTaken == Owed = {}

TakeNil(c) ==
  /\ main = "collect"
  /\ state[c] = "sent"
  /\ data[c] = NoValue
  /\ state' = [state EXCEPT ![c] = "taken"]
  /\ UNCHANGED <<call, data, result, steady>>

TakeValue(c) ==
  /\ main = "collect"
  /\ state[c] = "sent"
  /\ data[c] # NoValue
  /\ Return("found", data[c])
  /\ state' = [state EXCEPT ![c] = "taken"]
  /\ UNCHANGED <<data, steady>>

TakeCancel ==
  /\ main = "collect"
  /\ gone
  /\ ~ AllTaken
  /\ Return("cancelled", NoValue)
  /\ UNCHANGED <<pool, steady>>

NotFound ==
  /\ main = "collect"
  /\ AllTaken
  /\ Return("missing", NoValue)
  /\ UNCHANGED <<pool, steady>>

-----------------------------------------------------------------------------
Main ==
  \/ \E S \in SUBSET Contact, good \in SUBSET Contact : ProvidersFound(S, good)
  \/ \E c \in Contact : TakeNil(c) \/ TakeValue(c)
  \/ TakeCancel \/ NotFound

Dispatcher == DispatchStops \/ \E c \in Contact : Dispatch(c)

Worker(c) == Failed(c) \/ \E v \in Value \cup {NoValue} : Answered(c, v)

Next ==
  \/ Start \/ GiveUp
  \/ Main \/ Dispatcher
  \/ \E c \in Contact : Worker(c) \/ Disturb(c)

Spec == Init /\ [][Next]_vars

\* Lookups end (Lookup's Terminates) and so do sends (EverySendReturns of
\* ConnPool); the goroutines of the call go on while they can.
FairSpec ==
  /\ Spec
  /\ WF_vars(Main) /\ WF_vars(Dispatcher)
  /\ \A c \in Contact : WF_vars(Worker(c))
-----------------------------------------------------------------------------
(* Properties *)

\* The dispatcher takes a slot, the worker gives it back on every path: no
\* more than Connects requests of a search are in flight (kademlia.go:262-286).
PoolBound == Cardinality(InState("asked")) <= Connects

\* A chunk is reported missing only when every provider that was found has
\* been asked and has given no right answer, and what is returned is the chunk,
\* whatever was cancelled or answered late (kademlia.go:278-299).
OutcomeJustified ==
  main = "idle" =>
    /\ outcome = "found" => got = Right
    /\ outcome = "missing" =>
         \A c \in Contact : state[c] \in {"unknown", "taken"} /\ data[c] = NoValue

\* The search implements FindsChunk: while one provider can be relied on, it
\* does not end without the chunk unless the caller gives up.
Chunks == INSTANCE FindsChunk WITH
  status <- IF main = "idle" THEN outcome ELSE "searching",
  reliable <- steady
ImplementsFindsChunk == Chunks!Spec

\* A search ends, and leaves neither its dispatcher nor a worker behind, also
\* when it returns with the first answer while others are still due, which then
\* send results nobody takes (kademlia.go:260-297).
Over == main = "idle" /\ Quiet
SearchEnds == []<>Over
=============================================================================
