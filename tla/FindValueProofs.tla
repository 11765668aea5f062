-------------------------- MODULE FindValueProofs --------------------------
(***************************************************************************)
(* Proofs about FindValue for any finite set of providers, any answers and *)
(* any pool size, and that it implements FindsChunk.                       *)
(*                                                                         *)
(* Inv says what a result in the channel or received can be (Results):     *)
(* only what passed the hash check, nil if it was passed over, and the     *)
(* chunk itself when its provider could be relied on.  A search that has   *)
(* taken a nil from everybody therefore had nobody to rely on.             *)
(*                                                                         *)
(* That a search ends is split in two: somebody always has a step to take  *)
(* (GoesOn), because the channel takes whatever a worker sends             *)
(* (RoomToSend) and only a cancelled dispatcher leaves providers out       *)
(* (Abandoned), and each step shrinks a finite set (Todo).                 *)
(***************************************************************************)
EXTENDS FindValue, FiniteSetTheorems, TLAPS

Results ==
  \A c \in Contact :
    /\ data[c] \in {Right, NoValue}
    /\ state[c] = "taken" /\ main = "collect" => data[c] = NoValue
    /\ state[c] \in {"unknown", "waiting", "asked", "dropped"} => data[c] = NoValue
    /\ c \in steady /\ state[c] \in {"sent", "taken"} => data[c] = Right

\* While the providers are looked up there is nobody to ask.
Fresh ==
  main = "lookup" => \A c \in Contact : state[c] = "unknown"

Inv ==
  /\ TypeOK
  /\ Results
  /\ Fresh
  /\ PoolBound
  /\ OutcomeJustified

-----------------------------------------------------------------------------
\* Subsets of Contact are finite, and a part is not larger than the whole.
LEMMA ContactSubset ==
  ASSUME NEW S \in SUBSET Contact, NEW T \in SUBSET S
  PROVE  /\ IsFiniteSet(S)
         /\ Cardinality(S) \in Nat /\ Cardinality(T) \in Nat
         /\ Cardinality(T) <= Cardinality(S)
<1>1. IsFiniteSet(S)
  BY ContactAssumption, FS_Subset
<1>2. IsFiniteSet(T) /\ Cardinality(T) <= Cardinality(S)
  BY <1>1, FS_Subset
<1> QED BY <1>1, <1>2, FS_CardinalityType

\* The bound survives every step after which no more workers are out.
LEMMA FewerAsked ==
  ASSUME PoolBound, InState("asked")' \subseteq InState("asked")
  PROVE  PoolBound'
<1>1. InState("asked") \in SUBSET Contact
  BY DEF InState
<1>2. /\ Cardinality(InState("asked")) \in Nat
      /\ Cardinality(InState("asked")') \in Nat
      /\ Cardinality(InState("asked")') <= Cardinality(InState("asked"))
  BY <1>1, ContactSubset
<1> QED BY <1>2, ConnectsAssumption DEF PoolBound

LEMMA InitInv == Init => Inv
<1> SUFFICES ASSUME Init PROVE Inv
  OBVIOUS
<1>1. InState("asked") = {}
  BY DEF Init, InState
<1>2. PoolBound
  BY <1>1, FS_EmptySet, ConnectsAssumption DEF PoolBound
<1> QED BY <1>2, ValueAssumption, ContactAssumption
        DEF Init, Inv, TypeOK, Results, Fresh, OutcomeJustified

LEMMA StartInv ==
  ASSUME Inv, Start
  PROVE  Inv'
<1>1. PoolBound'
  BY FewerAsked DEF Inv, Start, InState
<1> QED BY <1>1, ContactAssumption DEF Inv, TypeOK, Results, Fresh, OutcomeJustified, Start, InState

\* The environment: the caller gives up, a provider goes.
LEMMA EnvironmentInv ==
  ASSUME Inv, GiveUp \/ \E c \in Contact : Disturb(c)
  PROVE  Inv'
<1>1. PoolBound'
  BY FewerAsked DEF Inv, GiveUp, Disturb, pool, InState
<1>2. (TypeOK /\ Results /\ Fresh)'
  BY DEF Inv, TypeOK, Results, Fresh, GiveUp, Disturb, call, pool, result, InState
<1>3. OutcomeJustified'
  BY DEF Inv, OutcomeJustified, GiveUp, Disturb, call, pool, result
<1> QED BY <1>1, <1>2, <1>3 DEF Inv

LEMMA ProvidersFoundInv ==
  ASSUME Inv, NEW S \in SUBSET Contact, NEW good \in SUBSET Contact, ProvidersFound(S, good)
  PROVE  Inv'
<1>1. PoolBound'
  BY FewerAsked DEF Inv, TypeOK, ProvidersFound, InState
<1>2. \A c \in Contact : data[c] = NoValue
  BY DEF Inv, Fresh, Results, ProvidersFound
<1>3. TypeOK'
  BY ContactAssumption DEF Inv, TypeOK, ProvidersFound, Providers, result
<1>5. (Results /\ Fresh)'
  BY <1>2 DEF Inv, TypeOK, Results, Fresh, ProvidersFound
<1>4. OutcomeJustified'
  BY DEF OutcomeJustified, ProvidersFound
<1> QED BY <1>1, <1>3, <1>4, <1>5 DEF Inv

\* A dispatch adds one worker while there is a free slot.
LEMMA DispatchInv ==
  ASSUME Inv, NEW c \in Contact, Dispatch(c)
  PROVE  Inv'
<1>1. InState("asked")' = InState("asked") \cup {c}
  BY DEF Dispatch, InState, Inv, TypeOK
<1>2. IsFiniteSet(InState("asked")) /\ Cardinality(InState("asked")) \in Nat
  BY ContactSubset DEF InState
<1>3. Cardinality(InState("asked") \cup {c}) = Cardinality(InState("asked")) + 1
  BY <1>2, FS_AddElement DEF Dispatch, InState
<1>4. PoolBound'
  <2>1. Cardinality(InState("asked")') = Cardinality(InState("asked")) + 1
    BY <1>1, <1>3
  <2>2. Cardinality(InState("asked")) < Connects
    BY DEF Dispatch, SlotFree
  <2> QED BY <1>2, <2>1, <2>2, ConnectsAssumption DEF PoolBound
<1>5. (TypeOK /\ Results /\ Fresh)'
  BY DEF Inv, TypeOK, Results, Fresh, Dispatch, call, result, InState
<1>6. OutcomeJustified'
  BY DEF Inv, OutcomeJustified, Dispatch, call, result
<1> QED BY <1>4, <1>5, <1>6 DEF Inv

LEMMA DispatchStopsInv ==
  ASSUME Inv, DispatchStops
  PROVE  Inv'
<1>1. PoolBound'
  BY FewerAsked DEF Inv, TypeOK, DispatchStops, InState
<1>2. TypeOK'
  BY ContactAssumption DEF Inv, TypeOK, DispatchStops, call, result, InState
<1>4. (Results /\ Fresh)'
  BY DEF Inv, TypeOK, Results, Fresh, DispatchStops, call, result, InState
<1>3. OutcomeJustified'
  BY DEF Inv, OutcomeJustified, DispatchStops, call, result, InState
<1> QED BY <1>1, <1>2, <1>3, <1>4 DEF Inv

\* A worker's result is checked before it is sent.
LEMMA WorkerInv ==
  ASSUME Inv, NEW c \in Contact, Worker(c)
  PROVE  Inv'
<1>1. PICK v \in Value \cup {NoValue} : Send(c, v) /\ (c \in steady' => v = Right)
  BY ValueAssumption DEF Worker, Answered, Failed, TypeOK, Inv
<1>2. steady' \subseteq steady /\ UNCHANGED <<call, result>>
  BY DEF Worker, Answered, Failed
<1>3. PoolBound'
  BY <1>1, FewerAsked DEF Inv, TypeOK, Send, InState
<1>4. (TypeOK /\ Results /\ Fresh)'
  BY <1>1, <1>2, ValueAssumption DEF Inv, TypeOK, Results, Fresh, Send, Checked, call, result, InState
<1>5. OutcomeJustified'
  BY <1>1, <1>2 DEF Inv, OutcomeJustified, Send, call, result
<1> QED BY <1>3, <1>4, <1>5 DEF Inv

LEMMA TakeInv ==
  ASSUME Inv, NEW c \in Contact, TakeNil(c) \/ TakeValue(c)
  PROVE  Inv'
<1>1. PoolBound'
  BY FewerAsked DEF Inv, TypeOK, TakeNil, TakeValue, pool, InState
<1>2. TypeOK'
  BY ContactAssumption DEF Inv, TypeOK, TakeNil, TakeValue, Return, call, pool, result
<1>4. (Results /\ Fresh)'
  BY ValueAssumption DEF Inv, TypeOK, Results, Fresh, TakeNil, TakeValue, Return, call, pool, result
<1>3. OutcomeJustified'
  BY DEF Inv, Results, OutcomeJustified, TakeNil, TakeValue, Return, call, pool, result
<1> QED BY <1>1, <1>2, <1>3, <1>4 DEF Inv

\* "Not found" is reported when no result is owed: every provider was passed over.
LEMMA ReturnInv ==
  ASSUME Inv, TakeCancel \/ NotFound
  PROVE  Inv'
<1>1. PoolBound'
  BY FewerAsked DEF Inv, TakeCancel, NotFound, pool, InState
<1>2. (TypeOK /\ Results /\ Fresh)'
  BY DEF Inv, TypeOK, Results, Fresh, TakeCancel, NotFound, Return, pool, InState
<1>3. OutcomeJustified'
  BY DEF Inv, TypeOK, Results, OutcomeJustified, TakeCancel, NotFound, AllTaken, Owed, Return, pool
<1> QED BY <1>1, <1>2, <1>3 DEF Inv

LEMMA StutterInv ==
  ASSUME Inv, UNCHANGED vars
  PROVE  Inv'
BY DEF Inv, vars, call, pool, result, TypeOK, Results, Fresh, PoolBound, OutcomeJustified, InState

LEMMA NextInv == Inv /\ [Next]_vars => Inv'
<1> SUFFICES ASSUME Inv, [Next]_vars PROVE Inv'
  OBVIOUS
<1> QED BY StartInv, EnvironmentInv, ProvidersFoundInv, DispatchInv, DispatchStopsInv, WorkerInv,
           TakeInv, ReturnInv, StutterInv DEF Next, Main, Dispatcher

-----------------------------------------------------------------------------
\* The inductive invariant holds in every reachable state.
THEOREM InvHolds == Spec => []Inv
BY InitInv, NextInv, PTL DEF Spec

\* Every variable has its type, and a search never asks its own node.
THEOREM TypeCorrect == Spec => []TypeOK
<1>1. Inv => TypeOK
  BY DEF Inv
<1> QED BY <1>1, InvHolds, PTL

\* A search keeps to its number of requests, for any providers and pool
\* (kademlia.go:262-286).
THEOREM PoolBoundHolds == Spec => []PoolBound
<1>1. Inv => PoolBound
  BY DEF Inv
<1> QED BY <1>1, InvHolds, PTL

\* A chunk is reported missing only after everybody was asked in vain, and
\* what is returned has the right hash (kademlia.go:278-299).
THEOREM OutcomeJustifiedHolds == Spec => []OutcomeJustified
<1>1. Inv => OutcomeJustified
  BY DEF Inv
<1> QED BY <1>1, InvHolds, PTL

\* At "not found" nobody can be relied on: a reliable provider's result would
\* have been the chunk.
LEMMA NobodyReliable ==
  ASSUME Inv, NotFound
  PROVE  steady = {}
<1> SUFFICES ASSUME NEW c \in steady PROVE FALSE
  OBVIOUS
<1>1. c \in Contact /\ state[c] = "taken"
  BY DEF Inv, TypeOK, InState, NotFound, AllTaken, Owed
<1> QED BY <1>1, ValueAssumption DEF Inv, Results, NotFound

LEMMA StepRefines == Inv /\ [Next]_vars => [Chunks!Next]_(Chunks!vars)
<1> SUFFICES ASSUME Inv, [Next]_vars PROVE [Chunks!Next]_(Chunks!vars)
  OBVIOUS
<1> USE DEF Chunks!vars
<1>1. CASE Start
  BY <1>1 DEF Start, Chunks!Next, Chunks!Begin, Inv, TypeOK
<1>2. CASE GiveUp
  BY <1>2 DEF GiveUp, result
<1>3. CASE \E c \in Contact : Disturb(c)
  BY <1>3 DEF Disturb, call, result, Chunks!Next, Chunks!Disturb
<1>4. ASSUME NEW S \in SUBSET Contact, NEW good \in SUBSET Contact, ProvidersFound(S, good)
      PROVE  Chunks!Next
  BY <1>4 DEF ProvidersFound, Providers, result, Chunks!Next, Chunks!Learn
<1>5. CASE Dispatcher
  BY <1>5 DEF Dispatcher, Dispatch, DispatchStops, call, result
<1>6. CASE \E c \in Contact : Worker(c)
  <2>1. steady' \subseteq steady /\ UNCHANGED <<call, result>>
    BY <1>6 DEF Worker, Answered, Failed
  <2> QED BY <2>1 DEF call, result, Chunks!Next, Chunks!Disturb
<1>7. ASSUME NEW c \in Contact, TakeNil(c)
      PROVE  UNCHANGED Chunks!vars
  BY <1>7 DEF TakeNil, call, result
<1>8. ASSUME NEW c \in Contact, TakeValue(c)
      PROVE  Chunks!Next
  BY <1>8 DEF TakeValue, Return, Chunks!Next, Chunks!Find
<1>9. CASE TakeCancel
  BY <1>9 DEF TakeCancel, Return, Chunks!Next, Chunks!Cancel
<1>10. CASE NotFound
  BY <1>10, NobodyReliable DEF NotFound, Return, Chunks!Next, Chunks!Miss
<1>11. CASE UNCHANGED vars
  BY <1>11 DEF vars, call, result
<1> QED BY <1>1, <1>2, <1>3, <1>4, <1>5, <1>6, <1>7, <1>8, <1>9, <1>10, <1>11 DEF Next, Main

LEMMA InitRefines == Init => Chunks!Init
BY DEF Init, Chunks!Init

\* While one provider can be relied on, a search ends without the chunk only
\* because its caller gave up (kademlia.go:254-300).
THEOREM ImplementsFindsChunkHolds == Spec => ImplementsFindsChunk
BY InvHolds, InitRefines, StepRefines, PTL DEF Spec, ImplementsFindsChunk, Chunks!Spec

-----------------------------------------------------------------------------
(* Progress *)

\* Providers are given up without a result only when the search is cancelled:
\* while the caller waits for results, nobody else stops the dispatcher.
Abandoned == main = "collect" /\ InState("dropped") # {} => gone

\* A worker that has its result never waits to send it, and so gives its slot
\* back, also when the search has returned with the first good answer and nobody
\* takes what comes after it (kademlia.go:264, 274, 284-295).
RoomToSend == InState("asked") # {} => CanSend

\* No goroutine of a search waits for something that cannot come: a worker can
\* send, a full pool has a worker that will give its slot back, and a result that
\* is owed is in the channel, with a worker, with the dispatcher, or the caller
\* has gone (kademlia.go:262-297).
GoesOn ==
  /\ RoomToSend
  /\ ~ Over =>
       \/ main = "lookup"
       \/ main = "collect" /\ (AllTaken \/ gone \/ InState("sent") # {})
       \/ InState("waiting") # {} /\ (SlotFree \/ Cancelled)
       \/ InState("asked") # {} /\ CanSend

\* What is left to do about a provider: to start its worker, to send its
\* result, to take it.
StepsOf(st) ==
  CASE st = "waiting" -> 3
    [] st = "asked" -> 2
    [] st = "sent" -> 1
    [] OTHER -> 0

Todo == {w \in Contact \X (1..3) : w[2] <= StepsOf(state[w[1]])}

\* Once the providers are known every step of the search uses up some of what
\* is left, ends the call, or is the environment's: there are at most three
\* per provider.
UsesUp ==
  [][main' = main => UNCHANGED pool \/ Cardinality(Todo') < Cardinality(Todo)]_vars

\* No worker waits to send: the results in the channel and the worker that has
\* one more are of different providers of the call.
LEMMA SendersHaveRoom == RoomToSend
<1> SUFFICES ASSUME NEW c \in InState("asked") PROVE CanSend
  BY DEF RoomToSend
<1> DEFINE Known == {d \in Contact : state[d] # "unknown"}
           Sent == InState("sent")
<1>1. c \in Known /\ c \notin Sent /\ Sent \cup {c} \in SUBSET Known /\ Known \in SUBSET Contact
  BY DEF InState
<1>2. IsFiniteSet(Sent) /\ Cardinality(Sent) \in Nat
  BY ContactSubset DEF InState
<1>3. Cardinality(Sent \cup {c}) = Cardinality(Sent) + 1
  BY <1>1, <1>2, FS_AddElement
<1>4. Cardinality(Sent \cup {c}) <= Cardinality(Known) /\ Cardinality(Known) \in Nat
  BY <1>1, ContactSubset
<1> QED BY <1>2, <1>3, <1>4 DEF CanSend, Capacity

LEMMA AbandonedStep == Inv /\ Abandoned /\ [Next]_vars => Abandoned'
<1> SUFFICES ASSUME Inv, Abandoned, [Next]_vars PROVE Abandoned'
  OBVIOUS
<1>1. CASE Start
  BY <1>1 DEF Start, Abandoned
<1>2. CASE GiveUp
  BY <1>2 DEF GiveUp, Abandoned, pool, InState
<1>3. CASE \E c \in Contact : Disturb(c)
  BY <1>3 DEF Disturb, Abandoned, call, pool, InState
<1>4. CASE \E S \in SUBSET Contact, good \in SUBSET Contact : ProvidersFound(S, good)
  BY <1>4 DEF ProvidersFound, Abandoned, InState
<1>5. ASSUME NEW c \in Contact, Dispatch(c)
      PROVE  Abandoned'
  BY <1>5 DEF Dispatch, Abandoned, call, InState, Inv, TypeOK
<1>6. CASE DispatchStops
  BY <1>6 DEF DispatchStops, Cancelled, Abandoned, call
<1>7. ASSUME NEW c \in Contact, Worker(c)
      PROVE  Abandoned'
  <2>1. PICK v : Send(c, v)
    BY <1>7 DEF Worker, Answered, Failed
  <2>2. UNCHANGED call
    BY <1>7 DEF Worker, Answered, Failed
  <2> QED BY <2>1, <2>2 DEF Send, Abandoned, call, InState, Inv, TypeOK
<1>8. CASE \E c \in Contact : TakeNil(c)
  BY <1>8 DEF TakeNil, Abandoned, call, InState, Inv, TypeOK
<1>9. CASE TakeCancel \/ NotFound \/ \E c \in Contact : TakeValue(c)
  BY <1>9 DEF TakeCancel, NotFound, TakeValue, Return, Abandoned
<1>10. CASE UNCHANGED vars
  BY <1>10 DEF vars, call, pool, Abandoned, InState
<1> QED BY <1>1, <1>2, <1>3, <1>4, <1>5, <1>6, <1>7, <1>8, <1>9, <1>10 DEF Next, Main, Dispatcher

\* No search gets stuck, and no worker of one waits to send, for any providers and
\* pool.
THEOREM NeverStuckHolds == Spec => []GoesOn
<1>1. Init => Abandoned
  BY DEF Init, Abandoned
<1>2. Inv /\ Abandoned => GoesOn
  <2> SUFFICES ASSUME Inv, Abandoned, ~ Over, RoomToSend PROVE GoesOn
    BY SendersHaveRoom DEF GoesOn
  <2>1. SlotFree \/ (InState("asked") # {} /\ CanSend)
    <3>1. Cardinality({}) < Connects
      BY FS_EmptySet, ConnectsAssumption
    <3> QED BY <3>1 DEF SlotFree, RoomToSend
  <2>2. CASE main = "idle"
    BY <2>1, <2>2 DEF GoesOn, Over, Quiet, Cancelled, RoomToSend
  <2>3. CASE main = "collect"
    BY <2>1, <2>3 DEF GoesOn, AllTaken, Owed, Abandoned, RoomToSend, InState
  <2> QED BY <2>2, <2>3 DEF GoesOn, Inv, TypeOK
<1> QED BY <1>1, <1>2, InvHolds, AbandonedStep, PTL DEF Spec

\* A provider that moves on leaves less to do, if no other moves back.
LEMMA TodoShrinks ==
  ASSUME NEW c \in Contact, StepsOf(state'[c]) < StepsOf(state[c]),
         \A d \in Contact : StepsOf(state'[d]) <= StepsOf(state[d])
  PROVE  Cardinality(Todo') < Cardinality(Todo)
<1> DEFINE w == <<c, StepsOf(state[c])>>
<1>1. \A d \in Contact : StepsOf(state[d]) \in 0..3 /\ StepsOf(state'[d]) \in 0..3
  BY DEF StepsOf
<1>2. w \in Todo /\ w \notin Todo'
  BY <1>1 DEF Todo
<1>3. Todo' \in SUBSET Todo
  BY <1>1 DEF Todo
<1>4. IsFiniteSet(Todo)
  <2>1. IsFiniteSet(1..3) /\ IsFiniteSet(Contact)
    <3>1. \A n \in Nat : IsFiniteSet(1..n)
      BY FS_Interval
    <3> QED BY <3>1, ContactAssumption
  <2>2. IsFiniteSet(Contact \X (1..3))
    BY <2>1, FS_Product
  <2>3. Todo \in SUBSET (Contact \X (1..3))
    BY DEF Todo
  <2> QED BY <2>2, <2>3, FS_Subset
<1>5. Cardinality(Todo') \in Nat /\ Cardinality(Todo) \in Nat
  BY <1>3, <1>4, FS_Subset, FS_CardinalityType
<1>6. Cardinality(Todo') <= Cardinality(Todo) /\ Cardinality(Todo') # Cardinality(Todo)
  BY <1>2, <1>3, <1>4, FS_Subset
<1> QED BY <1>5, <1>6

\* A step that moves one provider on, and leaves the others alone.
LEMMA OneMoves ==
  ASSUME Inv, NEW c \in Contact, NEW st, state' = [state EXCEPT ![c] = st],
         StepsOf(st) < StepsOf(state[c])
  PROVE  Cardinality(Todo') < Cardinality(Todo)
<1>1. \A d \in Contact : StepsOf(state[d]) \in 0..3
  BY DEF StepsOf
<1>2. state'[c] = st /\ \A d \in Contact \ {c} : state'[d] = state[d]
  BY DEF Inv, TypeOK
<1>3. \A d \in Contact : StepsOf(state'[d]) <= StepsOf(state[d])
  BY <1>1, <1>2 DEF StepsOf
<1> QED BY <1>2, <1>3, TodoShrinks

\* A search takes finitely many steps, for any providers and answers.
THEOREM SearchBounded == Spec => UsesUp
<1>1. ASSUME Inv, Next, main' = main, ~ UNCHANGED pool
      PROVE  Cardinality(Todo') < Cardinality(Todo)
  <2>1. ASSUME NEW c \in Contact, Dispatch(c)
        PROVE  Cardinality(Todo') < Cardinality(Todo)
    <3>1. state' = [state EXCEPT ![c] = "asked"] /\ StepsOf("asked") < StepsOf(state[c])
      BY <2>1 DEF Dispatch, StepsOf
    <3> QED BY <1>1, <3>1, OneMoves
  <2>2. ASSUME NEW c \in Contact, Worker(c)
        PROVE  Cardinality(Todo') < Cardinality(Todo)
    <3>1. state' = [state EXCEPT ![c] = "sent"] /\ StepsOf("sent") < StepsOf(state[c])
      BY <2>2 DEF Worker, Answered, Failed, Send, StepsOf
    <3> QED BY <1>1, <3>1, OneMoves
  <2>3. ASSUME NEW c \in Contact, TakeNil(c)
        PROVE  Cardinality(Todo') < Cardinality(Todo)
    <3>1. state' = [state EXCEPT ![c] = "taken"] /\ StepsOf("taken") < StepsOf(state[c])
      BY <2>3 DEF TakeNil, StepsOf
    <3> QED BY <1>1, <3>1, OneMoves
  <2>4. CASE DispatchStops
    <3>1. PICK c \in Contact : state[c] = "waiting"
      BY <2>4 DEF DispatchStops, InState
    <3>2. \A d \in Contact : state'[d] = IF state[d] = "waiting" THEN "dropped" ELSE state[d]
      BY <2>4 DEF DispatchStops
    <3>3. StepsOf(state'[c]) < StepsOf(state[c])
      BY <3>1, <3>2 DEF StepsOf
    <3>4. \A d \in Contact : StepsOf(state'[d]) <= StepsOf(state[d])
      BY <3>2 DEF StepsOf
    <3> QED BY <3>3, <3>4, TodoShrinks
  <2>5. ~ Start /\ ~ GiveUp /\ \A c \in Contact : ~ Disturb(c) /\ ~ TakeValue(c)
    BY <1>1 DEF Start, GiveUp, Disturb, TakeValue, Return
  <2>6. ~ TakeCancel /\ ~ NotFound /\ \A S, good \in SUBSET Contact : ~ ProvidersFound(S, good)
    BY <1>1 DEF TakeCancel, NotFound, ProvidersFound, Return
  <2> QED BY <1>1, <2>1, <2>2, <2>3, <2>4, <2>5, <2>6 DEF Next, Main, Dispatcher
<1>2. Inv /\ [Next]_vars
        => [main' = main => UNCHANGED pool \/ Cardinality(Todo') < Cardinality(Todo)]_vars
  BY <1>1
<1> QED BY <1>2, InvHolds, PTL DEF Spec, UsesUp
=============================================================================
