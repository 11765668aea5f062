---------------------------- MODULE LookupProofs ----------------------------
(***************************************************************************)
(* Proofs about Lookup for any finite set of contacts, identifiers of any  *)
(* width and any window and batch size.                                    *)
(*                                                                         *)
(* The properties speak of a lookup that is over.  Inv carries what makes  *)
(* them true through the loop: an item exists for exactly the contacts     *)
(* heard of (Known), no result is outstanding after the loop, and the      *)
(* outcome is the window of the last pick, with nothing pending in it      *)
(* (Settled).                                                              *)
(*                                                                         *)
(* That a lookup ends is split in two: it always has a step to take        *)
(* (GoesOn), which needs that a sort by distance has a prefix of every     *)
(* length, and each step shrinks a finite set (Todo).                      *)
(*                                                                         *)
(* What it finds depends on what the others know.  The last two sections   *)
(* restrict the answers to those of routing tables that know the swarm and *)
(* prove that the lookup comes to its nearest node (SwarmInv), or to its K *)
(* nearest nodes when the tables are full (FullInv).                       *)
(***************************************************************************)
EXTENDS Lookup, FiniteSetTheorems, WellFoundedInduction, TLAPS

\* The shortlist has an item for exactly the contacts heard of.
Known == \A c \in Contact : state[c] # "unseen" <=> c \in heard \ Skipped

\* What the last lookup leaves: its outcome is a window without pending items.
Settled ==
  ~ running =>
    /\ InState("inflight") = {}
    /\ outcome \in Nearest(K, Candidates)
    /\ outcome \cap InState("pending") = {}

Inv ==
  /\ TypeOK
  /\ Known
  /\ Settled
  /\ InflightBound

-----------------------------------------------------------------------------
(* The metric *)

\* A set of positions has a first one.
LEMMA FirstPosition ==
  ASSUME NEW D \in SUBSET Nat, D # {}
  PROVE  \E i \in D : \A j \in D : i <= j
<1> DEFINE R == OpToRel(<, Nat)
<1>1. IsWellFoundedOn(R, Nat)
  BY NatLessThanWellFounded
<1>2. \A x, y \in Nat : y < x => <<y, x>> \in R
  BY DEF OpToRel
<1> HIDE DEF R
<1>3. PICK i \in D : \A j \in D : ~ (<<j, i>> \in R)
  BY <1>1, WFMin
<1>4. \A j \in D : i \in Nat /\ j \in Nat /\ ~ (j < i)
  BY <1>2, <1>3
<1> QED BY <1>4

\* Two identifiers that are equally far from a third one are the same: sorting
\* by distance leaves no choice but between the addresses of one node
\* (id.go:53-63).
THEOREM EquallyFarSameId ==
  ASSUME NEW t \in Identifier, NEW a \in Identifier, NEW b \in Identifier,
         ~ Less(Xor(t, a), Xor(t, b)), ~ Less(Xor(t, b), Xor(t, a))
  PROVE  a = b
<1> SUFFICES ASSUME a # b PROVE FALSE
  OBVIOUS
<1> DEFINE D == {i \in Position : a[i] # b[i]}
<1>1. D \in SUBSET Nat /\ D # {}
  BY WidthAssumption DEF Identifier, Position
<1>2. PICK i \in D : \A j \in D : i <= j
  BY <1>1, FirstPosition
<1>3. i \in Position /\ i \in Nat /\ \A j \in 1..(i - 1) : j \in Position /\ a[j] = b[j]
  BY <1>2, WidthAssumption DEF Position
<1>4. \A j \in Position : Xor(t, a)[j] = (IF t[j] = a[j] THEN 0 ELSE 1)
                       /\ Xor(t, b)[j] = (IF t[j] = b[j] THEN 0 ELSE 1)
  BY DEF Xor
<1>5. \A j \in 1..(i - 1) : Xor(t, a)[j] = Xor(t, b)[j]
  BY <1>3, <1>4
<1>6. a[i] # b[i] /\ t[i] \in {0, 1} /\ a[i] \in {0, 1} /\ b[i] \in {0, 1}
  BY <1>2, <1>3 DEF Identifier
<1>7. \/ Xor(t, a)[i] = 0 /\ Xor(t, b)[i] = 1
      \/ Xor(t, a)[i] = 1 /\ Xor(t, b)[i] = 0
  BY <1>3, <1>4, <1>6
<1>8. CASE Xor(t, a)[i] = 0 /\ Xor(t, b)[i] = 1
  <2>1. Xor(t, a)[i] < Xor(t, b)[i] /\ \A j \in 1..(i - 1) : Xor(t, a)[j] = Xor(t, b)[j]
    BY <1>5, <1>8
  <2> HIDE DEF D
  <2> QED BY <1>3, <2>1 DEF Less
<1>9. CASE Xor(t, a)[i] = 1 /\ Xor(t, b)[i] = 0
  <2>1. Xor(t, b)[i] < Xor(t, a)[i] /\ \A j \in 1..(i - 1) : Xor(t, b)[j] = Xor(t, a)[j]
    BY <1>5, <1>9
  <2> QED BY <1>3, <2>1 DEF Less
<1> QED BY <1>7, <1>8, <1>9

\* Whatever comes before b and b before c is before c: the first difference of
\* the three decides.
LEMMA LessTransitive ==
  ASSUME NEW a \in Identifier, NEW b \in Identifier, NEW c \in Identifier,
         Less(a, b), Less(b, c)
  PROVE  Less(a, c)
<1>1. PICK i \in Position : a[i] < b[i] /\ \A k \in 1..(i - 1) : a[k] = b[k]
  BY DEF Less
<1>2. PICK j \in Position : b[j] < c[j] /\ \A k \in 1..(j - 1) : b[k] = c[k]
  BY DEF Less
<1>3. \A k \in Position : a[k] \in {0, 1} /\ b[k] \in {0, 1} /\ c[k] \in {0, 1}
  BY DEF Identifier
<1>4. i \in Nat \ {0} /\ j \in Nat \ {0}
  BY WidthAssumption DEF Position
<1>5. CASE i <= j
  <2>1. \A k \in 1..(i - 1) : k \in 1..(j - 1)
    BY <1>4, <1>5
  <2>2. \A k \in 1..(i - 1) : a[k] = c[k]
    BY <1>1, <1>2, <2>1
  <2>3. a[i] < c[i]
    <3>1. CASE i = j
      BY <1>1, <1>2, <1>3, <3>1
    <3>2. CASE i < j
      <4>1. i \in 1..(j - 1)
        BY <1>4, <3>2
      <4> QED BY <1>1, <1>2, <4>1
    <3> QED BY <1>4, <1>5, <3>1, <3>2
  <2> QED BY <2>2, <2>3 DEF Less
<1>6. CASE j < i
  <2>1. j \in 1..(i - 1) /\ \A k \in 1..(j - 1) : k \in 1..(i - 1)
    BY <1>4, <1>6
  <2>2. \A k \in 1..(j - 1) : a[k] = c[k]
    BY <1>1, <1>2, <2>1
  <2>3. a[j] < c[j]
    BY <1>1, <1>2, <2>1
  <2> QED BY <2>2, <2>3 DEF Less
<1> QED BY <1>4, <1>5, <1>6

\* Nothing comes before itself.
LEMMA LessIrreflexive ==
  ASSUME NEW a \in Identifier, Less(a, a)
  PROVE  FALSE
<1>1. PICK i \in Position : a[i] < a[i]
  BY DEF Less
<1>2. a[i] \in {0, 1}
  BY DEF Identifier
<1> QED BY <1>1, <1>2

\* Distances are identifiers.
LEMMA DistanceType ==
  ASSUME NEW c \in Contact
  PROVE  Distance(c) \in Identifier
BY ContactAssumption, IdAssumption DEF Distance, Xor, Identifier

-----------------------------------------------------------------------------
(* The operators *)

\* Subsets of Contact are finite, and a part is not larger than the whole.
LEMMA ContactSubset ==
  ASSUME NEW S \in SUBSET Contact, NEW T \in SUBSET S
  PROVE  /\ IsFiniteSet(S) /\ IsFiniteSet(T)
         /\ Cardinality(S) \in Nat /\ Cardinality(T) \in Nat
         /\ Cardinality(T) <= Cardinality(S)
<1>1. IsFiniteSet(S)
  BY ContactAssumption, FS_Subset
<1>2. IsFiniteSet(T) /\ Cardinality(T) <= Cardinality(S)
  BY <1>1, FS_Subset
<1> QED BY <1>1, <1>2, FS_CardinalityType

\* Some contact of a nonempty set has no closer one in it: the one with the
\* fewest closer ones.
LEMMA ClosestExists ==
  ASSUME NEW S \in SUBSET Contact, S # {}
  PROVE  \E c \in S : \A d \in S : AsClose(c, d)
<1> DEFINE Closer(c) == {d \in S : Less(Distance(d), Distance(c))}
           Count == {Cardinality(Closer(c)) : c \in S}
<1>1. \A c \in S : Closer(c) \in SUBSET Contact
  OBVIOUS
<1>2. \A c \in S : Cardinality(Closer(c)) \in Nat
  BY <1>1, ContactSubset
<1>3. Count \in SUBSET Nat /\ Count # {}
  BY <1>2
<1>4. PICK n \in Count : \A m \in Count : n <= m
  <2> HIDE DEF Count
  <2> QED BY <1>3, FirstPosition
<1>5. PICK c \in S : n = Cardinality(Closer(c))
  BY <1>4
<1>6. ASSUME NEW d \in S, Less(Distance(d), Distance(c))
      PROVE  FALSE
  <2>1. \A e \in Closer(d) : e \in Closer(c)
    BY <1>6, LessTransitive, DistanceType
  <2>2. d \in Closer(c) /\ d \notin Closer(d)
    BY <1>6, LessIrreflexive, DistanceType
  <2>3. Cardinality(Closer(c)) <= Cardinality(Closer(d))
    BY <1>4, <1>5
  <2>4. IsFiniteSet(Closer(c)) /\ Closer(d) \in SUBSET Closer(c)
    <3>1. Closer(c) \in SUBSET Contact
      BY <1>1
    <3>2. IsFiniteSet(Closer(c))
      BY <3>1, ContactSubset
    <3> QED BY <3>2, <2>1
  <2> HIDE DEF Closer
  <2>5. Cardinality(Closer(d)) <= Cardinality(Closer(c))
    BY <2>4, FS_Subset
  <2>6. Cardinality(Closer(c)) # Cardinality(Closer(d))
    BY <2>2, <2>4, FS_Subset
  <2> QED BY <1>2, <2>3, <2>5, <2>6
<1> QED BY <1>6 DEF AsClose

\* There are n nearest contacts in every set, or all of them: a sort by
\* distance always has a prefix to cut off.
LEMMA NearestExists ==
  ASSUME NEW S \in SUBSET Contact, NEW n \in Nat
  PROVE  Nearest(n, S) # {}
<1> DEFINE Closed == {W \in SUBSET S :
                        /\ Cardinality(W) <= n
                        /\ \A c \in W, d \in S \ W : AsClose(c, d)}
           Room == {n - Cardinality(W) : W \in Closed}
<1>1. \A W \in Closed : IsFiniteSet(W) /\ Cardinality(W) \in Nat /\ Cardinality(W) <= n
  BY ContactSubset
<1>2. {} \in Closed
  BY FS_EmptySet
<1>3. Room \in SUBSET Nat /\ Room # {}
  BY <1>1, <1>2
<1>4. PICK r \in Room : \A q \in Room : r <= q
  <2> HIDE DEF Room
  <2> QED BY <1>3, FirstPosition
<1>5. PICK W \in Closed : r = n - Cardinality(W)
  BY <1>4
<1>6. ASSUME W # S, Cardinality(W) # n
      PROVE  FALSE
  <2>1. PICK c \in S \ W : \A d \in S \ W : AsClose(c, d)
    BY <1>6, ClosestExists
  <2> DEFINE V == W \cup {c}
  <2>2. Cardinality(V) = Cardinality(W) + 1
    BY <1>1, <2>1, FS_AddElement
  <2>3. V \in Closed
    <3>1. V \in SUBSET S /\ \A a \in V, d \in S \ V : AsClose(a, d)
      BY <2>1
    <3>2. Cardinality(V) <= n
      BY <1>1, <1>6, <2>2
    <3> QED BY <3>1, <3>2
  <2>4. n - Cardinality(W) <= n - Cardinality(V)
    BY <1>4, <1>5, <2>3
  <2> QED BY <1>1, <2>2, <2>4
<1>7. W \in Nearest(n, S)
  BY <1>6 DEF Nearest
<1> QED BY <1>7

\* Among contacts of different nodes there is one choice of the n nearest: the
\* sort, which is not stable, can be seen at work only between two addresses
\* of one node (kademlia.go:342-358).
THEOREM NearestDetermined ==
  ASSUME NEW S \in SUBSET Contact, NEW n \in Nat,
         \A c, d \in S : SameNode(c, d) => c = d,
         NEW V \in Nearest(n, S), NEW W \in Nearest(n, S)
  PROVE  V = W
<1>1. /\ V \in SUBSET S /\ W \in SUBSET S
      /\ V # S => Cardinality(V) = n
      /\ W # S => Cardinality(W) = n
      /\ \A c \in V, d \in S \ V : AsClose(c, d)
      /\ \A c \in W, d \in S \ W : AsClose(c, d)
      /\ Cardinality(V) <= n /\ Cardinality(W) <= n
  BY DEF Nearest
<1>2. /\ IsFiniteSet(S) /\ IsFiniteSet(V) /\ IsFiniteSet(W)
      /\ Cardinality(V) \in Nat /\ Cardinality(W) \in Nat
  BY <1>1, ContactSubset
<1>3. ASSUME NEW X \in SUBSET S, NEW Y \in SUBSET S, X \subseteq Y, X # Y,
             X # S => Cardinality(X) = n, Cardinality(Y) <= n
      PROVE  FALSE
  <2>1. Cardinality(X) = n /\ IsFiniteSet(Y) /\ Cardinality(Y) \in Nat
    BY <1>3, ContactSubset
  <2>2. Cardinality(X) <= Cardinality(Y) /\ Cardinality(X) # Cardinality(Y)
    BY <1>3, <2>1, FS_Subset
  <2> QED BY <1>3, <2>1, <2>2
<1>4. ASSUME V # W
      PROVE  FALSE
  <2>1. PICK c \in V : c \notin W
    <3>1. ~ (V \subseteq W)
      BY <1>1, <1>3, <1>4
    <3> QED BY <3>1
  <2>2. PICK d \in W : d \notin V
    <3>1. ~ (W \subseteq V)
      BY <1>1, <1>3, <1>4
    <3> QED BY <3>1
  <2>3. AsClose(c, d) /\ AsClose(d, c) /\ c \in Contact /\ d \in Contact
    BY <1>1, <2>1, <2>2
  <2>4. c.id \in Identifier /\ d.id \in Identifier
    BY <2>3, ContactAssumption
  <2>5. c.id = d.id
    BY <2>3, <2>4, EquallyFarSameId, IdAssumption DEF AsClose, Distance
  <2> QED BY <1>1, <2>1, <2>2, <2>5 DEF SameNode
<1> QED BY <1>4

\* A window with a pending contact gives a batch that is not empty.
LEMMA BatchExists ==
  ASSUME NEW W, W \cap InState("pending") # {}
  PROVE  \E B \in Batches(W) : B # {}
<1> DEFINE S == W \cap InState("pending")
<1>1. S \in SUBSET Contact
  BY DEF InState
<1>2. PICK B : B \in Nearest(Concurrency, S)
  BY <1>1, NearestExists, BoundAssumption
<1>3. B # {}
  BY <1>2, FS_EmptySet, BoundAssumption DEF Nearest
<1> QED BY <1>2, <1>3 DEF Batches

\* A batch is made of pending contacts and keeps to the limit.
LEMMA BatchBound ==
  ASSUME NEW W, NEW B \in Batches(W)
  PROVE  B \subseteq InState("pending") /\ Cardinality(B) <= Concurrency
BY DEF Batches, Nearest

-----------------------------------------------------------------------------
LEMMA InitInv == Init => Inv
<1> SUFFICES ASSUME Init PROVE Inv
  OBVIOUS
<1>1. InState("pending") = {} /\ InState("inflight") = {} /\ Candidates = {}
  BY DEF Init, InState, Candidates
<1>2. Cardinality({}) = 0
  BY FS_EmptySet
<1>3. {} \in Nearest(K, {})
  BY <1>2, BoundAssumption DEF Nearest
<1>4. TypeOK /\ Known
  BY DEF Init, TypeOK, Known, Skipped
<1>5. Settled
  BY <1>1, <1>3 DEF Init, Settled
<1>6. InflightBound
  BY <1>1, <1>2, BoundAssumption DEF InflightBound
<1> QED BY <1>4, <1>5, <1>6 DEF Inv

\* A new lookup begins with an empty shortlist and the nearest table entries.
LEMMA StartInv ==
  ASSUME Inv, NEW T \in SUBSET Contact, T \cap Skipped = {}, Start(T)
  PROVE  Inv'
<1>1. (TypeOK /\ Known)'
  BY DEF Inv, TypeOK, Known, Skipped, Start
<1>2. InState("inflight")' = {}
  BY DEF Start, InState
<1>3. InflightBound'
  BY <1>2, FS_EmptySet, BoundAssumption DEF InflightBound
<1>4. Settled'
  BY DEF Start, Settled
<1> QED BY <1>1, <1>3, <1>4 DEF Inv

\* The contacts in flight after a pick are the batch, because there were none
\* before.
LEMMA PickInv ==
  ASSUME Inv, Pick
  PROVE  Inv'
<1>0. PICK W \in Nearest(K, Candidates) : \E B \in Batches(W) :
        state' = [c \in Contact |-> IF c \in B THEN "inflight" ELSE state[c]]
  BY DEF Pick
<1>1. PICK B \in Batches(W) :
        state' = [c \in Contact |-> IF c \in B THEN "inflight" ELSE state[c]]
  BY <1>0
<1>2. B \subseteq InState("pending") /\ Cardinality(B) <= Concurrency
  BY BatchBound
<1>3. (TypeOK /\ Known)'
  BY <1>1, <1>2 DEF Inv, TypeOK, Known, Skipped, InState, Pick
<1>4. InState("inflight")' = B
  BY <1>1, <1>2 DEF Pick, BatchOver, InState, Inv, TypeOK
<1>5. Settled'
  BY DEF Pick, Settled
<1> QED BY <1>2, <1>3, <1>4, <1>5 DEF Inv, InflightBound

\* A result takes one contact out of flight and can add pending ones.
LEMMA ResultInv ==
  ASSUME Inv, NEW c \in Contact, Result(c)
  PROVE  Inv'
<1>1. c \in InState("inflight") /\ running
  BY DEF Result, Fail, Answer, InState, Inv, Settled
<1>2. (TypeOK /\ Known)'
  <2>1. CASE Fail(c)
    BY <2>1 DEF Fail, Inv, TypeOK, Known
  <2>2. CASE \E R \in Answers(c) : Answer(c, R)
    BY <2>2 DEF Answer, Answers, Push, Inv, TypeOK, Known, Skipped
  <2> QED BY <2>1, <2>2 DEF Result
<1>3. InState("inflight")' \subseteq InState("inflight")
  BY DEF Result, Fail, Answer, Push, InState, Inv, TypeOK
<1>4. InflightBound'
  <2>1. InState("inflight") \in SUBSET Contact
    BY DEF InState
  <2>2. /\ Cardinality(InState("inflight")) \in Nat
        /\ Cardinality(InState("inflight")') \in Nat
        /\ Cardinality(InState("inflight")') <= Cardinality(InState("inflight"))
    BY <1>3, <2>1, ContactSubset
  <2> QED BY <2>2, BoundAssumption DEF InflightBound, Inv
<1>5. Settled'
  BY <1>1 DEF Result, Fail, Answer, Settled
<1> QED BY <1>2, <1>4, <1>5 DEF Inv

\* The loop ends on a window without pending items, and none is in flight.
LEMMA FinishInv ==
  ASSUME Inv, Finish
  PROVE  Inv'
<1>1. UNCHANGED <<state, heard>>
  BY DEF Finish
<1>2. \A st : InState(st)' = InState(st)
  BY <1>1 DEF InState
<1>3. Candidates' = Candidates
  BY <1>1 DEF Candidates, InState
<1>4. PICK W \in Nearest(K, Candidates) : W \cap InState("pending") = {} /\ outcome' = W
  BY DEF Finish
<1>5. Candidates \subseteq Contact
  BY DEF Candidates, InState
<1>6. (TypeOK /\ Known)'
  BY <1>1, <1>4, <1>5 DEF Inv, TypeOK, Known, Finish, Nearest
<1>7. Settled'
  <2>1. Nearest(K, Candidates)' = Nearest(K, Candidates)
    BY <1>3 DEF Nearest
  <2>2. InState("inflight")' = {} /\ InState("pending")' = InState("pending")
    BY <1>1 DEF Finish, BatchOver, InState
  <2> QED BY <1>4, <2>1, <2>2 DEF Settled
<1>8. InflightBound'
  BY <1>1 DEF Inv, InflightBound, InState
<1> QED BY <1>6, <1>7, <1>8 DEF Inv

LEMMA StutterInv ==
  ASSUME Inv, UNCHANGED vars
  PROVE  Inv'
BY DEF Inv, vars, TypeOK, Known, Settled, InflightBound, InState, Candidates, Nearest

LEMMA NextInv == Inv /\ [Next]_vars => Inv'
<1> SUFFICES ASSUME Inv, [Next]_vars PROVE Inv'
  OBVIOUS
<1> QED BY StartInv, PickInv, FinishInv, ResultInv, StutterInv DEF Next

-----------------------------------------------------------------------------
\* The inductive invariant holds in every reachable state.
THEOREM InvHolds == Spec => []Inv
BY InitInv, NextInv, PTL DEF Spec

\* Every variable has its type, and a node never asks itself.
THEOREM TypeCorrect == Spec => []TypeOK
<1>1. Inv => TypeOK
  BY DEF Inv
<1> QED BY <1>1, InvHolds, PTL

\* The convergence comment of lookup (kademlia.go:153), whatever the other
\* nodes answer and whichever of them fail.
THEOREM ConvergedHolds == Spec => []Converged
<1>1. Inv => Converged
  <2> SUFFICES ASSUME Inv, ~ running, NEW c \in outcome
               PROVE  /\ state[c] = "queried"
                      /\ \A d \in heard \ (Skipped \cup outcome) :
                           state[d] = "failed" \/ (Cardinality(outcome) = K /\ AsClose(c, d))
    BY DEF Converged
  <2>1. outcome \in Nearest(K, Candidates)
    BY DEF Inv, Settled
  <2>2. state[c] = "queried"
    BY <2>1 DEF Inv, Settled, Nearest, Candidates, InState
  <2>3. ASSUME NEW d \in heard \ (Skipped \cup outcome), state[d] # "failed"
        PROVE  Cardinality(outcome) = K /\ AsClose(c, d)
    <3>1. d \in Candidates
      BY <2>3 DEF Inv, TypeOK, Known, Candidates, InState
    <3> QED BY <2>1, <3>1 DEF Nearest
  <2> QED BY <2>2, <2>3
<1> QED BY <1>1, InvHolds, PTL

\* A lookup with a short outcome has asked everybody it heard of.
THEOREM NobodyLeftOutHolds == Spec => []NobodyLeftOut
<1>1. Inv => NobodyLeftOut
  <2> SUFFICES ASSUME Inv, ~ running, Cardinality(outcome) < K, NEW c \in heard \ Skipped
               PROVE  /\ state[c] \in {"queried", "failed"}
                      /\ state[c] = "queried" => c \in outcome
    BY DEF NobodyLeftOut
  <2>1. outcome \in Nearest(K, Candidates)
    BY DEF Inv, Settled
  <2>2. outcome = Candidates
    BY <2>1, BoundAssumption DEF Nearest
  <2>3. c \in Contact /\ state[c] # "unseen"
    BY DEF Inv, TypeOK, Known
  <2> QED BY <2>2, <2>3 DEF Inv, TypeOK, Settled, Candidates, InState
<1> QED BY <1>1, InvHolds, PTL

\* The limit on requests in flight (kademlia.go:361-363).
THEOREM InflightBoundHolds == Spec => []InflightBound
<1>1. Inv => InflightBound
  BY DEF Inv
<1> QED BY <1>1, InvHolds, PTL

\* No contact is asked twice in a lookup (the seen map, kademlia.go:333-338).
THEOREM AskedOnceHolds == Spec => AskedOnce
<1> DEFINE Once(c) ==
      /\ state[c] \in {"queried", "failed"} => state'[c] = state[c]
      /\ state[c] = "inflight" => state'[c] \in {"inflight", "queried", "failed"}
<1>1. ASSUME Inv, Next, running, NEW c \in Contact
      PROVE  Once(c)
  <2>1. CASE Pick
    BY <2>1, BatchBound, <1>1 DEF Pick, BatchOver, InState, Inv, TypeOK
  <2>2. CASE Finish
    BY <2>2 DEF Finish
  <2>3. CASE \E d \in Contact : Result(d)
    BY <2>3, <1>1 DEF Result, Fail, Answer, Push, Inv, TypeOK
  <2> QED BY <1>1, <2>1, <2>2, <2>3 DEF Next, Start
<1>2. Inv /\ [Next]_vars => [running => \A c \in Contact : Once(c)]_vars
  BY <1>1
<1> QED BY <1>2, InvHolds, PTL DEF Spec, AskedOnce

-----------------------------------------------------------------------------
(* Progress *)

\* What lookup's loop waits for is always to be had: between two batches the
\* sort cuts off a window, and any window ends the lookup or gives a batch that
\* is not empty; during a batch there is a contact whose result is due
\* (kademlia.go:163-193, 353-367).
GoesOn ==
  running =>
    IF BatchOver
      THEN /\ Nearest(K, Candidates) # {}
           /\ \A W \in Nearest(K, Candidates) :
                \/ W \cap InState("pending") = {}
                \/ \E B \in Batches(W) : B # {}
      ELSE \E c \in Contact : state[c] = "inflight"

\* The steps a contact can still cause in this lookup: to be heard of, to be
\* asked, and to bring a result.
StepsOf(st) ==
  CASE st = "unseen" -> 3
    [] st = "pending" -> 2
    [] st = "inflight" -> 1
    [] OTHER -> 0

Todo == {w \in Contact \X (1..3) : w[2] <= StepsOf(state[w[1]])}

\* Every step of a lookup ends it or uses up some of what is left to do: after
\* 3 * Cardinality(Contact) steps, whatever the other nodes answer, it is over.
UsesUp == [][running /\ running' => Cardinality(Todo') < Cardinality(Todo)]_vars

\* No lookup gets stuck, in any swarm.
THEOREM NeverStuckHolds == Spec => []GoesOn
<1>1. Inv => GoesOn
  <2>1. Candidates \in SUBSET Contact
    BY DEF Candidates, InState
  <2>2. Nearest(K, Candidates) # {}
    BY <2>1, NearestExists, BoundAssumption
  <2> QED BY <2>2, BatchExists DEF GoesOn, BatchOver, InState
<1> QED BY <1>1, InvHolds, PTL

\* A contact that moves on leaves less to do, if no other moves back.
LEMMA TodoShrinks ==
  ASSUME Inv, Inv', NEW c \in Contact, StepsOf(state'[c]) < StepsOf(state[c]),
         \A d \in Contact : StepsOf(state'[d]) <= StepsOf(state[d])
  PROVE  Cardinality(Todo') < Cardinality(Todo)
<1> DEFINE w == <<c, StepsOf(state[c])>>
<1>1. \A d \in Contact : StepsOf(state[d]) \in 0..3 /\ StepsOf(state'[d]) \in 0..3
  BY DEF StepsOf
<1>2. w \in Todo /\ w \notin Todo'
  BY <1>1 DEF Todo
<1>3. Todo' \in SUBSET Todo
  BY <1>1 DEF Todo
<1>4. IsFiniteSet(Todo)
  <2>1. IsFiniteSet(1..3) /\ IsFiniteSet(Contact)
    <3>1. \A n \in Nat : IsFiniteSet(1..n)
      BY FS_Interval
    <3> QED BY <3>1, ContactAssumption
  <2>2. IsFiniteSet(Contact \X (1..3))
    BY <2>1, FS_Product
  <2>3. Todo \in SUBSET (Contact \X (1..3))
    BY DEF Todo
  <2> QED BY <2>2, <2>3, FS_Subset
<1>5. Cardinality(Todo') \in Nat /\ Cardinality(Todo) \in Nat
  BY <1>3, <1>4, FS_Subset, FS_CardinalityType
<1>6. Cardinality(Todo') <= Cardinality(Todo) /\ Cardinality(Todo') # Cardinality(Todo)
  BY <1>2, <1>3, <1>4, FS_Subset
<1> QED BY <1>5, <1>6

\* A lookup takes finitely many steps, in any swarm and whatever is answered.
THEOREM LookupBounded == Spec => UsesUp
<1>1. ASSUME Inv, Next, Inv', running, running'
      PROVE  Cardinality(Todo') < Cardinality(Todo)
  <2>1. CASE Pick
    <3>1. PICK W \in Nearest(K, Candidates) : \E B \in Batches(W) :
            /\ B # {}
            /\ state' = [c \in Contact |-> IF c \in B THEN "inflight" ELSE state[c]]
      BY <2>1 DEF Pick
    <3>2. PICK B \in Batches(W) :
            /\ B # {}
            /\ state' = [c \in Contact |-> IF c \in B THEN "inflight" ELSE state[c]]
      BY <3>1
    <3>3. \A c \in B : c \in Contact /\ state[c] = "pending"
      BY <3>2, BatchBound DEF InState
    <3>4. PICK c \in B : TRUE
      BY <3>2
    <3>5. c \in Contact /\ StepsOf(state'[c]) < StepsOf(state[c])
      BY <3>2, <3>3, <3>4 DEF StepsOf
    <3>6. \A d \in Contact : StepsOf(state'[d]) <= StepsOf(state[d])
      BY <3>2, <3>3 DEF StepsOf
    <3> QED BY <1>1, <3>5, <3>6, TodoShrinks
  <2>2. ASSUME NEW c \in Contact, Result(c)
        PROVE  Cardinality(Todo') < Cardinality(Todo)
    <3>1. state[c] = "inflight" /\ state'[c] \in {"queried", "failed"}
      BY <2>2, <1>1 DEF Result, Fail, Answer, Push, Inv, TypeOK
    <3>2. \A d \in Contact \ {c} :
            state'[d] = state[d] \/ (state[d] = "unseen" /\ state'[d] = "pending")
      BY <2>2, <1>1 DEF Result, Fail, Answer, Push, Inv, TypeOK
    <3>3. StepsOf(state'[c]) < StepsOf(state[c])
      BY <3>1 DEF StepsOf
    <3>4. \A d \in Contact : StepsOf(state'[d]) <= StepsOf(state[d])
      BY <3>1, <3>2 DEF StepsOf
    <3> QED BY <1>1, <3>3, <3>4, TodoShrinks
  <2> QED BY <1>1, <2>1, <2>2 DEF Next, Start, Finish
<1>2. Inv /\ Inv' /\ [Next]_vars
        => [running /\ running' => Cardinality(Todo') < Cardinality(Todo)]_vars
  BY <1>1
<1> QED BY <1>2, InvHolds, PTL DEF Spec, UsesUp
-----------------------------------------------------------------------------
(* What a lookup finds *)

\* Whose distance from the target is smaller.
Nearer(i, j) == Less(Xor(Target, i), Xor(Target, j))

\* Two nodes are in the same bucket of node i (bucketIndex, routing.go:27-33).
SameBucket(i, x, y) == LeadingZeros(Xor(i, x)) = LeadingZeros(Xor(i, y))

\* The table S of node i knows the swarm: it has somebody of every bucket in
\* which there is a node of the swarm.
Covers(S, i, Live) ==
  \A x \in Live : x.id # i =>
    \E y \in S : /\ y.id # i
                 /\ SameBucket(i, x.id, y.id)
                 /\ y \in Live \/ y.id = MyId

\* The contacts of a table that may not answer.
Strangers(S, Live) == {c \in S : c \notin Live /\ c.id # MyId}

\* The routing tables of node i that know the swarm: they cover it, and fewer
\* than K of their contacts are gone.
Tables(i, Live) ==
  {S \in SUBSET Contact :
     /\ \A c \in S : c.id # i /\ c.id # ZeroId /\ c.addr # NoAddr
     /\ Covers(S, i, Live)
     /\ Cardinality(Strangers(S, Live)) < K}

\* Lookups in a swarm whose nodes Live answer, and where everybody who answers
\* knows the swarm at that time.  Others may answer or fail.
SwarmNext(Live) ==
  \/ \E S \in Tables(MyId, Live) : \E T \in Nearest(K, S) : Start(T)
  \/ Pick \/ Finish
  \/ \E c \in Contact \ Live : Fail(c)
  \/ \E c \in Contact : \E S \in Tables(c.id, Live) : \E R \in Nearest(K, S) : Answer(c, R)

SwarmSpec(Live) == Init /\ [][SwarmNext(Live)]_vars

\* Of the node that looks up and those it lists, one is nearest to the target in
\* the whole swarm.
FindsClosest(Live) ==
  ~ running /\ heard # {} =>
    \E i \in {c.id : c \in outcome} \cup {MyId} :
      /\ ~ Nearer(MyId, i)
      /\ \A x \in Live : ~ Nearer(x.id, i)

\* Nearness to the target is a strict order on the nodes.
LEMMA NearerOrder ==
  ASSUME NEW i \in Identifier, NEW j \in Identifier, NEW l \in Identifier
  PROVE  /\ ~ Nearer(i, i)
         /\ Nearer(i, j) /\ Nearer(j, l) => Nearer(i, l)
         /\ Nearer(i, j) /\ ~ Nearer(l, j) => Nearer(i, l)
<1>1. /\ Xor(Target, i) \in Identifier
      /\ Xor(Target, j) \in Identifier
      /\ Xor(Target, l) \in Identifier
  BY DEF Xor, Identifier
<1>2. ~ Nearer(i, i)
  BY <1>1, LessIrreflexive DEF Nearer
<1>3. Nearer(i, j) /\ Nearer(j, l) => Nearer(i, l)
  BY <1>1, LessTransitive DEF Nearer
<1>4. ASSUME Nearer(i, j), ~ Nearer(l, j)
      PROVE  Nearer(i, l)
  <2>1. CASE Nearer(j, l)
    BY <1>3, <1>4, <2>1
  <2>2. CASE ~ Nearer(j, l)
    <3>1. j = l
      BY <1>4, <2>2, EquallyFarSameId, IdAssumption DEF Nearer
    <3> QED BY <1>4, <3>1
  <2> QED BY <2>1, <2>2
<1> QED BY <1>2, <1>3, <1>4

\* A swarm has one node that is nearest to the target: all who look for a key
\* and find the nearest come upon the same node.
LEMMA OneNearest ==
  ASSUME NEW Swarm \in SUBSET Identifier, NEW i \in Swarm, NEW j \in Swarm,
         \A x \in Swarm : ~ Nearer(x, i) /\ ~ Nearer(x, j)
  PROVE  i = j
BY EquallyFarSameId, IdAssumption DEF Nearer

\* An identifier that is not zero has its first one right after its leading
\* zeros (id.go:66-77).
LEMMA FirstOne ==
  ASSUME NEW d \in Identifier, NEW q \in Position, d[q] # 0
  PROVE  /\ LeadingZeros(d) + 1 \in Position
         /\ d[LeadingZeros(d) + 1] = 1
         /\ \A j \in 1..LeadingZeros(d) : d[j] = 0
<1> DEFINE D == {j \in Position : d[j] # 0}
           Z == {x \in Position : \A j \in 1..x : d[j] = 0}
<1>1. PICK p \in D : \A j \in D : p <= j
  <2>1. D \in SUBSET Nat /\ D # {}
    BY WidthAssumption DEF Position
  <2> HIDE DEF D
  <2> QED BY <2>1, FirstPosition
<1>2. p \in Position /\ p \in Nat \ {0} /\ d[p] = 1
  BY <1>1, WidthAssumption DEF Identifier, Position
<1>3. \A j \in 1..(p - 1) : j \in Position /\ d[j] = 0
  BY <1>1, <1>2, WidthAssumption DEF Position
<1>4. Z = 1..(p - 1)
  <2>1. ASSUME NEW x \in Z PROVE x \in 1..(p - 1)
    <3>1. x \in Nat \ {0} /\ ~ (p \in 1..x)
      BY <1>2, <2>1, WidthAssumption DEF Position
    <3> QED BY <1>2, <3>1
  <2>2. ASSUME NEW x \in 1..(p - 1) PROVE x \in Z
    <3>1. \A j \in 1..x : j \in 1..(p - 1)
      BY <1>2
    <3> QED BY <1>3, <3>1
  <2> QED BY <2>1, <2>2
<1>5. Cardinality(1..(p - 1)) = p - 1
  BY <1>2, FS_Interval
<1>6. LeadingZeros(d) = p - 1
  BY <1>4, <1>5 DEF LeadingZeros
<1> QED BY <1>2, <1>3, <1>6

\* From the place of node i, all nodes of a bucket are on the same side: nearer
\* to the target than i, or farther.  The first bit in which they differ from i
\* is the same, and decides.
THEOREM BucketOnOneSide ==
  ASSUME NEW i \in Identifier, NEW x \in Identifier, NEW y \in Identifier,
         x # i, y # i, SameBucket(i, x, y), Nearer(x, i)
  PROVE  Nearer(y, i)
<1> DEFINE p == LeadingZeros(Xor(i, x)) + 1
<1>1. /\ p \in Position /\ x[p] # i[p] /\ y[p] # i[p]
      /\ \A j \in 1..(p - 1) : j \in Position /\ x[j] = i[j] /\ y[j] = i[j]
  <2>1. Xor(i, x) \in Identifier /\ Xor(i, y) \in Identifier
    BY DEF Xor, Identifier
  <2>2. /\ \E q \in Position : Xor(i, x)[q] # 0
        /\ \E q \in Position : Xor(i, y)[q] # 0
    BY DEF Xor, Identifier
  <2>3. /\ p \in Position /\ Xor(i, x)[p] = 1 /\ Xor(i, y)[p] = 1
        /\ \A j \in 1..LeadingZeros(Xor(i, x)) : Xor(i, x)[j] = 0 /\ Xor(i, y)[j] = 0
    BY <2>1, <2>2, FirstOne DEF SameBucket
  <2>4. \A j \in 1..(p - 1) : j \in Position /\ j \in 1..LeadingZeros(Xor(i, x))
    <3>1. LeadingZeros(Xor(i, x)) + 1 \in Position /\ LeadingZeros(Xor(i, x)) \in Int
      <4>1. IsFiniteSet(Position)
        BY FS_Interval, WidthAssumption DEF Position
      <4>2. LeadingZeros(Xor(i, x)) \in Nat
        <5> DEFINE Z == {j \in Position : \A l \in 1..j : Xor(i, x)[l] = 0}
        <5>1. Z \in SUBSET Position
          OBVIOUS
        <5>2. LeadingZeros(Xor(i, x)) = Cardinality(Z)
          BY DEF LeadingZeros
        <5> HIDE DEF Z
        <5> QED BY <4>1, <5>1, <5>2, FS_Subset, FS_CardinalityType
      <4> QED BY <2>3, <4>2
    <3> HIDE DEF p
    <3>2. p \in 1..Width /\ p - 1 = LeadingZeros(Xor(i, x))
      BY <2>3, <3>1 DEF Position, p
    <3> QED BY <3>2, WidthAssumption DEF Position
  <2>5. \A j \in Position : /\ Xor(i, x)[j] = (IF i[j] = x[j] THEN 0 ELSE 1)
                           /\ Xor(i, y)[j] = (IF i[j] = y[j] THEN 0 ELSE 1)
    BY DEF Xor
  <2> HIDE DEF p
  <2>6. x[p] # i[p] /\ y[p] # i[p]
    BY <2>3, <2>5
  <2>7. \A j \in 1..(p - 1) : j \in Position /\ x[j] = i[j] /\ y[j] = i[j]
    BY <2>3, <2>4, <2>5
  <2> QED BY <2>3, <2>6, <2>7
<1> HIDE DEF p
<1>2. Target \in Identifier
  BY IdAssumption
<1>3. PICK q \in Position : /\ Xor(Target, x)[q] < Xor(Target, i)[q]
                            /\ \A j \in 1..(q - 1) : Xor(Target, x)[j] = Xor(Target, i)[j]
  BY DEF Nearer, Less
<1>4. p \in Nat \ {0} /\ q \in Nat \ {0}
  BY <1>1, WidthAssumption DEF Position
<1>5. /\ x[p] \in {0, 1} /\ y[p] \in {0, 1} /\ i[p] \in {0, 1} /\ Target[p] \in {0, 1}
      /\ \A j \in Position : /\ Xor(Target, x)[j] = (IF Target[j] = x[j] THEN 0 ELSE 1)
                             /\ Xor(Target, y)[j] = (IF Target[j] = y[j] THEN 0 ELSE 1)
                             /\ Xor(Target, i)[j] = (IF Target[j] = i[j] THEN 0 ELSE 1)
  BY <1>1, <1>2 DEF Xor, Identifier
<1>6. q = p
  <2>1. ~ (q < p)
    <3> SUFFICES ASSUME q < p PROVE FALSE
      OBVIOUS
    <3>1. q \in 1..(p - 1)
      BY <1>4
    <3> QED BY <1>1, <1>3, <1>5, <3>1
  <2>2. ~ (p < q)
    <3> SUFFICES ASSUME p < q PROVE FALSE
      OBVIOUS
    <3>1. p \in 1..(q - 1)
      BY <1>4
    <3> QED BY <1>1, <1>3, <1>5, <3>1
  <2> QED BY <1>4, <2>1, <2>2
<1>7. x[p] = Target[p] /\ y[p] = Target[p] /\ i[p] # Target[p]
  BY <1>1, <1>3, <1>5, <1>6
<1>8. Xor(Target, y)[p] < Xor(Target, i)[p]
  BY <1>1, <1>5, <1>7
<1>9. \A j \in 1..(p - 1) : Xor(Target, y)[j] = Xor(Target, i)[j]
  BY <1>1, <1>5
<1> QED BY <1>1, <1>8, <1>9 DEF Nearer, Less

\* R leads on from node i: if a node of the swarm is nearer to the target than
\* i, R names one that is, or the node that looks up.
Leads(R, i, Live) ==
  (\E x \in Live : Nearer(x.id, i)) =>
    \E y \in R : (y \in Live \/ y.id = MyId) /\ Nearer(y.id, i)

\* The nearest K of a table that knows the swarm lead on: that is what HandleRPC
\* answers with, and lookup begins with (kademlia.go:67-75, 155).
THEOREM TableLeads ==
  ASSUME NEW Live \in SUBSET (Contact \ Skipped), NEW i \in Identifier,
         NEW S \in Tables(i, Live), NEW R \in Nearest(K, S)
  PROVE  Leads(R, i, Live)
<1> SUFFICES ASSUME NEW x \in Live, Nearer(x.id, i)
             PROVE  \E y \in R : (y \in Live \/ y.id = MyId) /\ Nearer(y.id, i)
  BY DEF Leads
<1>0. S \in SUBSET Contact /\ Covers(S, i, Live) /\ Cardinality(Strangers(S, Live)) < K
  BY DEF Tables
<1>1. \A c \in Contact : c.id \in Identifier
  BY ContactAssumption
<1>2. x.id # i
  BY <1>1, NearerOrder
<1>3. PICK y \in S : y.id # i /\ SameBucket(i, x.id, y.id) /\ (y \in Live \/ y.id = MyId)
  BY <1>0, <1>2 DEF Covers
<1>4. Nearer(y.id, i)
  BY <1>0, <1>1, <1>2, <1>3, BucketOnOneSide
<1>5. CASE y \in R
  BY <1>3, <1>4, <1>5
<1>6. CASE y \notin R
  <2>1. R \in SUBSET S /\ Cardinality(R) = K /\ \A c \in R : AsClose(c, y)
    BY <1>6 DEF Nearest
  <2>2. \A c \in R : Nearer(c.id, i)
    BY <1>0, <1>1, <1>3, <1>4, <2>1, NearerOrder DEF AsClose, Distance, Nearer
  <2>3. ~ (R \subseteq Strangers(S, Live))
    <3>1. Strangers(S, Live) \in SUBSET Contact
      BY <1>0 DEF Strangers
    <3>2. Cardinality(Strangers(S, Live)) \in Nat
      BY <3>1, ContactSubset
    <3>3. R \subseteq Strangers(S, Live) => Cardinality(R) <= Cardinality(Strangers(S, Live))
      BY <3>1, ContactSubset
    <3> QED BY <1>0, <2>1, <3>2, <3>3, BoundAssumption
  <2>4. PICK c \in R : c \in Live \/ c.id = MyId
    BY <2>1, <2>3 DEF Strangers
  <2> QED BY <2>2, <2>4
<1> QED BY <1>5, <1>6

\* The shortlist has come past node i, or has got somebody who is nearer.
Ahead(i, Live) ==
  (\E x \in Live : Nearer(x.id, i)) =>
    \/ Nearer(MyId, i)
    \/ \E y \in Live : state[y] # "unseen" /\ Nearer(y.id, i)

\* What makes the end of a lookup the nearest: nobody who has answered is the
\* nearest the shortlist knows, unless there is nobody nearer.
SwarmInv(Live) ==
  /\ \A c \in Live : state[c] # "failed"
  /\ \A c \in Contact : state[c] = "queried" => Ahead(c.id, Live)
  /\ running \/ heard # {} => Ahead(MyId, Live)

\* A contact that has an item keeps it, so that what is ahead stays ahead.
LEMMA AheadStays ==
  ASSUME NEW Live \in SUBSET Contact, NEW i, Ahead(i, Live),
         \A c \in Live : state[c] # "unseen" => state'[c] # "unseen"
  PROVE  Ahead(i, Live)'
BY DEF Ahead

LEMMA SwarmStartInv ==
  ASSUME NEW Live \in SUBSET (Contact \ Skipped), Inv, SwarmInv(Live),
         NEW T \in SUBSET Contact, Leads(T, MyId, Live), Start(T)
  PROVE  SwarmInv(Live)'
<1>1. \A c \in Contact : state'[c] = IF c \in T \ Skipped THEN "pending" ELSE "unseen"
  BY DEF Start
<1>2. ASSUME \E x \in Live : Nearer(x.id, MyId)
      PROVE  \E y \in Live : state'[y] # "unseen" /\ Nearer(y.id, MyId)
  <2>1. PICK y \in T : (y \in Live \/ y.id = MyId) /\ Nearer(y.id, MyId)
    BY <1>2 DEF Leads
  <2>2. y \in Live
    BY <2>1, NearerOrder, IdAssumption
  <2> QED BY <1>1, <2>1, <2>2
<1>3. Ahead(MyId, Live)'
  BY <1>2 DEF Ahead
<1> QED BY <1>1, <1>3 DEF SwarmInv

LEMMA SwarmAnswerInv ==
  ASSUME NEW Live \in SUBSET (Contact \ Skipped), Inv, SwarmInv(Live),
         NEW c \in Contact, NEW R \in Answers(c), Leads(R, c.id, Live), Answer(c, R)
  PROVE  SwarmInv(Live)'
<1>1. \A d \in Contact :
        state'[d] = IF d = c THEN "queried" ELSE Push(state, R, d)
  BY DEF Answer, Answers, Push, SameNode, Inv, TypeOK
<1>2. \A d \in Contact : state[d] # "unseen" => state'[d] # "unseen"
  BY <1>1 DEF Push
<1>3. Ahead(c.id, Live)'
  <2> SUFFICES ASSUME \E x \in Live : Nearer(x.id, c.id), ~ Nearer(MyId, c.id)
               PROVE  \E y \in Live : state'[y] # "unseen" /\ Nearer(y.id, c.id)
    BY DEF Ahead
  <2>1. PICK y \in R : (y \in Live \/ y.id = MyId) /\ Nearer(y.id, c.id)
    BY DEF Leads
  <2>2. y \in Live
    BY <2>1
  <2>3. state'[y] # "unseen"
    BY <1>1, <2>2 DEF Push
  <2> QED BY <2>1, <2>2, <2>3
<1>4. \A d \in Contact : state'[d] = "queried" => d = c \/ state[d] = "queried"
  BY <1>1 DEF Push
<1>5. \A d \in Contact : state'[d] = "queried" => Ahead(d.id, Live)'
  <2> SUFFICES ASSUME NEW d \in Contact, state'[d] = "queried", d # c
               PROVE  Ahead(d.id, Live)'
    BY <1>3
  <2>1. Ahead(d.id, Live)
    BY <1>4 DEF SwarmInv
  <2> QED BY <1>2, <2>1, AheadStays
<1>6. running
  BY DEF Answer, Inv, Settled, InState
<1>7. Ahead(MyId, Live)'
  <2>1. Ahead(MyId, Live)
    BY <1>6 DEF SwarmInv
  <2> QED BY <1>2, <2>1, AheadStays
<1>8. \A d \in Live : state'[d] # "failed"
  BY <1>1 DEF SwarmInv, Push
<1> QED BY <1>5, <1>7, <1>8 DEF SwarmInv

\* Of a step that hears nothing new, what the shortlist has is not less.
LEMMA SwarmQuietInv ==
  ASSUME NEW Live \in SUBSET (Contact \ Skipped), Inv, SwarmInv(Live),
         Pick \/ Finish \/ (\E c \in Contact \ Live : Fail(c)) \/ UNCHANGED vars
  PROVE  SwarmInv(Live)'
<1>1. /\ \A d \in Contact : state[d] # "unseen" => state'[d] # "unseen"
      /\ \A d \in Contact : state'[d] = "queried" => state[d] = "queried"
      /\ \A d \in Live : state'[d] # "failed"
  <2>1. CASE Pick
    BY <2>1 DEF Pick, SwarmInv
  <2>2. CASE Finish \/ UNCHANGED vars
    BY <2>2 DEF Finish, vars, SwarmInv
  <2>3. CASE \E c \in Contact \ Live : Fail(c)
    BY <2>3 DEF Fail, SwarmInv, Inv, TypeOK
  <2> QED BY <2>1, <2>2, <2>3
<1>2. running' \/ heard' # {} => running \/ heard # {}
  <2>1. CASE \E c \in Contact \ Live : Fail(c)
    BY <2>1 DEF Fail
  <2> QED BY <2>1 DEF Pick, Finish, vars
<1>3. \A d \in Contact : state'[d] = "queried" => Ahead(d.id, Live)'
  BY <1>1, AheadStays DEF SwarmInv
<1>4. running' \/ heard' # {} => Ahead(MyId, Live)'
  BY <1>1, <1>2, AheadStays DEF SwarmInv
<1> QED BY <1>1, <1>3, <1>4 DEF SwarmInv

\* The end of a lookup: the nearest contact of its outcome has answered, so
\* that whoever is nearer would have led to somebody nearer in the outcome.
LEMMA EndIsClosest ==
  ASSUME NEW Live \in SUBSET (Contact \ Skipped), Inv, SwarmInv(Live)
  PROVE  FindsClosest(Live)
<1> SUFFICES ASSUME ~ running, heard # {}, NEW x \in Live, Nearer(x.id, MyId)
             PROVE  \E c \in outcome : /\ ~ Nearer(MyId, c.id)
                                     /\ \A z \in Live : ~ Nearer(z.id, c.id)
  BY NearerOrder, IdAssumption DEF FindsClosest
<1>0. \A c \in Contact : c.id \in Identifier
  BY ContactAssumption
<1> DEFINE Reached == {y \in Live : state[y] # "unseen"}
<1>1. PICK y0 \in Reached : Nearer(y0.id, MyId)
  <2>1. ~ Nearer(MyId, MyId)
    BY NearerOrder, IdAssumption
  <2> QED BY <2>1 DEF SwarmInv, Ahead
<1>2. PICK y \in Reached : \A z \in Reached : AsClose(y, z)
  <2>1. Reached \in SUBSET Contact /\ Reached # {}
    BY <1>1
  <2> HIDE DEF Reached
  <2> QED BY <2>1, ClosestExists
<1>3. outcome \in Nearest(K, Candidates) /\ outcome \cap InState("pending") = {} /\ InState("inflight") = {}
  BY DEF Inv, Settled
<1>4. y \in Candidates
  BY <1>2 DEF SwarmInv, Inv, TypeOK, Candidates, InState
<1>5. outcome # {} /\ outcome \in SUBSET Contact
  BY <1>3, <1>4, FS_EmptySet, BoundAssumption DEF Nearest, Inv, TypeOK
<1>6. PICK c \in outcome : \A d \in outcome : AsClose(c, d)
  BY <1>5, ClosestExists
<1>7. AsClose(c, y)
  BY <1>3, <1>4, <1>6 DEF Nearest
<1>8. c \in Contact /\ state[c] = "queried"
  BY <1>3, <1>5, <1>6 DEF Nearest, Candidates, InState
<1>9. \A z \in Reached : ~ Nearer(z.id, c.id)
  BY <1>0, <1>2, <1>7, <1>8, NearerOrder DEF AsClose, Distance, Nearer
<1>10. ~ Nearer(MyId, c.id)
  <2>1. Nearer(MyId, c.id) => Nearer(y0.id, c.id)
    BY <1>0, <1>1, <1>8, NearerOrder, IdAssumption
  <2> QED BY <1>1, <1>9, <2>1
<1>11. Ahead(c.id, Live)
  BY <1>8 DEF SwarmInv
<1> QED BY <1>6, <1>9, <1>10, <1>11 DEF Ahead

\* The answer of a table that knows the swarm is an answer, and leads on.
LEMMA SwarmAnswer ==
  ASSUME NEW Live \in SUBSET (Contact \ Skipped), NEW c \in Contact,
         NEW S \in Tables(c.id, Live), NEW R \in Nearest(K, S)
  PROVE  R \in Answers(c) /\ Leads(R, c.id, Live)
<1>1. c.id \in Identifier
  BY ContactAssumption
<1>2. R \in Answers(c)
  BY DEF Tables, Nearest, Answers, SameNode
<1> QED BY <1>1, <1>2, TableLeads

\* What the own table gives to begin with.
LEMMA SwarmStart ==
  ASSUME NEW Live \in SUBSET (Contact \ Skipped),
         NEW S \in Tables(MyId, Live), NEW T \in Nearest(K, S)
  PROVE  /\ T \in SUBSET Contact /\ Cardinality(T) <= K /\ T \cap Skipped = {}
         /\ Leads(T, MyId, Live)
<1>1. T \in SUBSET Contact /\ Cardinality(T) <= K /\ T \cap Skipped = {}
  BY DEF Tables, Nearest, Skipped
<1> QED BY <1>1, TableLeads, IdAssumption

\* A swarm is one of the environments of Lookup, so that everything proved of
\* Lookup holds in it.
LEMMA SwarmNextIsNext ==
  ASSUME NEW Live \in SUBSET (Contact \ Skipped), SwarmNext(Live)
  PROVE  Next
<1>1. CASE \E S \in Tables(MyId, Live) : \E T \in Nearest(K, S) : Start(T)
  BY <1>1, SwarmStart DEF Next
<1>2. CASE \E c \in Contact : \E S \in Tables(c.id, Live) : \E R \in Nearest(K, S) : Answer(c, R)
  BY <1>2, SwarmAnswer DEF Next, Result
<1> QED BY <1>1, <1>2 DEF SwarmNext, Next, Result

LEMMA SwarmStep ==
  ASSUME NEW Live \in SUBSET (Contact \ Skipped), Inv, SwarmInv(Live), [SwarmNext(Live)]_vars
  PROVE  Inv' /\ SwarmInv(Live)'
<1>1. Inv'
  BY SwarmNextIsNext, NextInv
<1>2. ASSUME NEW S \in Tables(MyId, Live), NEW T \in Nearest(K, S), Start(T)
      PROVE  SwarmInv(Live)'
  BY <1>2, SwarmStart, SwarmStartInv
<1>3. ASSUME NEW c \in Contact, NEW S \in Tables(c.id, Live), NEW R \in Nearest(K, S), Answer(c, R)
      PROVE  SwarmInv(Live)'
  BY <1>3, SwarmAnswer, SwarmAnswerInv
<1>4. ASSUME Pick \/ Finish \/ (\E c \in Contact \ Live : Fail(c)) \/ UNCHANGED vars
      PROVE  SwarmInv(Live)'
  BY <1>4, SwarmQuietInv
<1> QED BY <1>1, <1>2, <1>3, <1>4 DEF SwarmNext

\* What Kademlia is for: where every node that answers knows somebody in each of
\* its buckets in which there is a node of the swarm, a lookup ends with the node of
\* the swarm that is nearest to the target, or at the node that looks up -- in
\* whatever order the results of a batch come, whatever else is in the
\* answers, and although up to K - 1 contacts of every table may be gone.  There is
\* one such node (OneNearest), so that who announces a key and who looks for it
\* meet there (kademlia.go:153-195).
THEOREM LookupFindsClosest ==
  ASSUME NEW Live \in SUBSET (Contact \ Skipped)
  PROVE  SwarmSpec(Live) => []FindsClosest(Live)
<1>1. Init => Inv /\ SwarmInv(Live)
  <2>1. Init => SwarmInv(Live)
    BY DEF Init, SwarmInv
  <2> QED BY <2>1, InitInv
<1>2. Inv /\ SwarmInv(Live) /\ [SwarmNext(Live)]_vars => Inv' /\ SwarmInv(Live)'
  BY SwarmStep
<1>3. Inv /\ SwarmInv(Live) => FindsClosest(Live)
  BY EndIsClosest
<1> QED BY <1>1, <1>2, <1>3, PTL DEF SwarmSpec
-----------------------------------------------------------------------------
(* What a lookup finds when no contact is gone *)

\* The routing tables of node i, in a swarm of the nodes Live and self, whose
\* buckets leave out a node only when they are full.
FullTables(i, Live, self) ==
  {S \in SUBSET (Live \cup {self}) :
     /\ \A c \in S : c.id # i
     /\ \A x \in Live \ S : x.id # i =>
          \E B \in SUBSET S :
            Cardinality(B) = K /\ \A y \in B : SameBucket(i, x.id, y.id)}

FullNext(Live, self) ==
  \/ \E S \in FullTables(MyId, Live, self) : \E T \in Nearest(K, S) : Start(T)
  \/ Pick \/ Finish
  \/ \E c \in Contact : \E S \in FullTables(c.id, Live, self) : \E R \in Nearest(K, S) : Answer(c, R)

FullSpec(Live, self) == Init /\ [][FullNext(Live, self)]_vars

\* Whoever the lookup does not list, K of those it lists and the node that looks
\* up are as close: they are K nearest nodes of the swarm, or K + 1.
FindsNearest(Live, self) ==
  ~ running /\ heard # {} =>
    \A x \in Live \ outcome : Cardinality({y \in outcome \cup {self} : AsClose(y, x)}) >= K

\* The shortlist has heard what the table of node i says.
Told(i, Live, self) ==
  \E S \in FullTables(i, Live, self) : \E R \in Nearest(K, S) : R \subseteq heard

FullInv(Live, self) ==
  /\ heard \subseteq Live \cup {self}
  /\ \A c \in Contact : state[c] # "failed"
  /\ \A c \in Contact : state[c] = "queried" => Told(c.id, Live, self)
  /\ running \/ heard # {} => Told(MyId, Live, self)

\* Two of a set are not in a part that is smaller by two.
LEMMA TwoOutside ==
  ASSUME NEW V, IsFiniteSet(V), NEW G \in SUBSET V, Cardinality(G) + 1 < Cardinality(V)
  PROVE  \A w \in V \ G : \E v \in V \ G : v # w
<1> SUFFICES ASSUME NEW w \in V \ G, V \ G \subseteq {w}
             PROVE  FALSE
  OBVIOUS
<1>1. V = G \cup {w}
  OBVIOUS
<1>2. IsFiniteSet(G)
  BY FS_Subset
<1>3. Cardinality(V) = Cardinality(G) + 1
  BY <1>1, <1>2, FS_AddElement
<1> QED BY <1>2, <1>3, FS_CardinalityType

\* Without two of its elements a set is smaller by two.
LEMMA TwoLess ==
  ASSUME NEW V, IsFiniteSet(V), NEW v \in V, NEW w \in V, v # w
  PROVE  /\ IsFiniteSet((V \ {v}) \ {w})
         /\ Cardinality((V \ {v}) \ {w}) = Cardinality(V) - 2
<1> DEFINE U == V \ {v}
<1>1. IsFiniteSet(U) /\ Cardinality(U) = Cardinality(V) - 1
  BY FS_RemoveElement
<1>2. w \in U
  OBVIOUS
<1> HIDE DEF U
<1>3. IsFiniteSet(U \ {w}) /\ Cardinality(U \ {w}) = Cardinality(U) - 1
  BY <1>1, <1>2, FS_RemoveElement
<1>4. Cardinality(V) \in Nat
  BY FS_CardinalityType
<1> QED BY <1>1, <1>3, <1>4 DEF U

\* What is told stays told while more is heard.
LEMMA ToldStays ==
  ASSUME NEW i, NEW Live, NEW self, Told(i, Live, self), heard \subseteq heard'
  PROVE  Told(i, Live, self)'
BY DEF Told

LEMMA FullStartInv ==
  ASSUME NEW self \in Contact, self.id = MyId, NEW Live \in SUBSET (Contact \ Skipped),
         Inv, FullInv(Live, self),
         NEW S \in FullTables(MyId, Live, self), NEW T \in Nearest(K, S), Start(T)
  PROVE  FullInv(Live, self)'
<1>1. /\ heard' = T
      /\ \A c \in Contact : state'[c] \in {"pending", "unseen"}
  BY DEF Start
<1>2. T \subseteq Live \cup {self}
  BY DEF FullTables, Nearest
<1>3. Told(MyId, Live, self)'
  BY <1>1 DEF Told
<1> QED BY <1>1, <1>2, <1>3 DEF FullInv

LEMMA FullAnswerInv ==
  ASSUME NEW self \in Contact, self.id = MyId, NEW Live \in SUBSET (Contact \ Skipped),
         Inv, FullInv(Live, self), NEW c \in Contact,
         NEW S \in FullTables(c.id, Live, self), NEW R \in Nearest(K, S), Answer(c, R)
  PROVE  FullInv(Live, self)'
<1>1. /\ heard' = heard \cup R
      /\ running
      /\ \A d \in Contact : state'[d] = Push([state EXCEPT ![c] = "queried"], R, d)
  BY DEF Answer, Inv, Settled, InState
<1>2. R \subseteq Live \cup {self}
  BY DEF FullTables, Nearest
<1>3. \A d \in Contact : state'[d] # "failed" /\ (state'[d] = "queried" => d = c \/ state[d] = "queried")
  BY <1>1 DEF Push, Inv, TypeOK, FullInv
<1>4. Told(c.id, Live, self)'
  BY <1>1 DEF Told
<1>5. \A d \in Contact : state'[d] = "queried" => Told(d.id, Live, self)'
  <2> SUFFICES ASSUME NEW d \in Contact, state'[d] = "queried", d # c
               PROVE  Told(d.id, Live, self)'
    BY <1>4
  <2>1. Told(d.id, Live, self)
    BY <1>3 DEF FullInv
  <2> QED BY <1>1, <2>1, ToldStays
<1>6. Told(MyId, Live, self)'
  <2>1. Told(MyId, Live, self)
    BY <1>1 DEF FullInv
  <2> QED BY <1>1, <2>1, ToldStays
<1> QED BY <1>1, <1>2, <1>3, <1>5, <1>6 DEF FullInv

\* A step that hears nothing.
LEMMA FullQuietInv ==
  ASSUME NEW self \in Contact, NEW Live \in SUBSET (Contact \ Skipped),
         FullInv(Live, self), Pick \/ Finish \/ UNCHANGED vars
  PROVE  FullInv(Live, self)'
<1>1. /\ heard' = heard
      /\ running' => running
      /\ \A c \in Contact : state'[c] \in {state[c], "inflight"}
  <2>1. CASE Pick
    BY <2>1 DEF Pick
  <2>2. CASE Finish \/ UNCHANGED vars
    BY <2>2 DEF Finish, vars
  <2> QED BY <2>1, <2>2
<1>2. \A c \in Contact : state'[c] = "queried" => Told(c.id, Live, self)'
  BY <1>1, ToldStays DEF FullInv
<1>3. running' \/ heard' # {} => Told(MyId, Live, self)'
  BY <1>1, ToldStays DEF FullInv
<1> QED BY <1>1, <1>2, <1>3 DEF FullInv

\* Some contact of a nonempty set has no farther one in it: the one that the
\* others, sorted by distance, come before.
LEMMA FarthestExists ==
  ASSUME NEW S \in SUBSET Contact, S # {}
  PROVE  \E w \in S : \A y \in S : AsClose(y, w)
<1>1. IsFiniteSet(S) /\ Cardinality(S) \in Nat /\ Cardinality(S) # 0
  BY ContactSubset, FS_EmptySet
<1>2. PICK W \in Nearest(Cardinality(S) - 1, S) : TRUE
  BY <1>1, NearestExists
<1>3. W \in SUBSET S /\ Cardinality(W) <= Cardinality(S) - 1 /\ \A c \in W, d \in S \ W : AsClose(c, d)
  BY <1>2 DEF Nearest
<1>4. PICK w \in S : w \notin W
  BY <1>1, <1>3
<1>5. W # S => Cardinality(W) = Cardinality(S) - 1
  BY <1>2 DEF Nearest
<1>6. S = W \cup {w}
  <2>1. IsFiniteSet(W) /\ Cardinality(W \cup {w}) = Cardinality(S)
    BY <1>1, <1>3, <1>4, <1>5, ContactSubset, FS_AddElement
  <2>2. W \cup {w} \in SUBSET S
    BY <1>3, <1>4
  <2> QED BY <1>1, <2>1, <2>2, FS_Subset
<1>7. AsClose(w, w)
  BY <1>4, DistanceType, LessIrreflexive DEF AsClose
<1> QED BY <1>3, <1>4, <1>6, <1>7

\* The nearest K of a full table leave out a node of the swarm only if they are
\* K, and one that is nearer to the target than the owner of the table only if
\* all K are (HandleRPC, kademlia.go:67-75, with rt.closest).
THEOREM TableNamesNearest ==
  ASSUME NEW self \in Contact, NEW Live \in SUBSET Contact, NEW i \in Identifier,
         NEW S \in FullTables(i, Live, self), NEW R \in Nearest(K, S),
         NEW x \in Live \ R, x.id # i
  PROVE  /\ Cardinality(R) = K
         /\ Nearer(x.id, i) => \A r \in R : Nearer(r.id, i)
<1>0. /\ S \in SUBSET Contact /\ R \in SUBSET S
      /\ \A c \in Contact : c.id \in Identifier
      /\ \A c \in S : c.id # i
  BY ContactAssumption DEF FullTables, Nearest
<1>1. ASSUME NEW b \in S \ R
      PROVE  /\ Cardinality(R) = K
             /\ Nearer(b.id, i) => \A r \in R : Nearer(r.id, i)
  <2>1. Cardinality(R) = K /\ \A r \in R : AsClose(r, b)
    BY DEF Nearest
  <2> QED BY <1>0, <2>1, NearerOrder DEF AsClose, Distance, Nearer
<1>2. CASE x \in S
  BY <1>1, <1>2
<1>3. CASE x \notin S
  <2>1. PICK B \in SUBSET S : Cardinality(B) = K /\ \A y \in B : SameBucket(i, x.id, y.id)
    BY <1>3 DEF FullTables
  <2>2. Nearer(x.id, i) => \A y \in B : Nearer(y.id, i)
    BY <1>0, <2>1, BucketOnOneSide
  <2>3. CASE B \subseteq R
    <3>1. /\ IsFiniteSet(R) /\ Cardinality(R) \in Nat /\ Cardinality(B) <= Cardinality(R)
          /\ Cardinality(R) <= K
      BY <1>0, <2>3, ContactSubset DEF Nearest
    <3>2. Cardinality(R) = K
      BY <2>1, <3>1, BoundAssumption
    <3>3. B = R
      BY <2>1, <2>3, <3>1, <3>2, FS_Subset
    <3> QED BY <2>2, <3>2, <3>3
  <2>4. CASE ~ (B \subseteq R)
    <3>1. PICK b \in B : b \notin R
      BY <2>4
    <3> QED BY <1>1, <2>2, <3>1
  <2> QED BY <2>3, <2>4
<1> QED BY <1>2, <1>3

\* The end of a lookup: everything heard is listed or not closer than the list,
\* and everybody listed has told what it knows.
LEMMA EndOfTelling ==
  ASSUME NEW self \in Contact, self.id = MyId, NEW Live \in SUBSET (Contact \ Skipped),
         Inv, FullInv(Live, self), ~ running, heard # {}
  PROVE  /\ outcome \in SUBSET Contact /\ self \notin outcome /\ Cardinality(outcome) <= K
         /\ \A r \in heard : \/ r \in outcome \cup {self}
                             \/ Cardinality(outcome) = K /\ \A w \in outcome : AsClose(w, r)
         /\ \A v \in outcome \cup {self} : Told(v.id, Live, self)
<1>1. outcome \in Nearest(K, Candidates) /\ outcome \cap InState("pending") = {} /\ InState("inflight") = {}
  BY DEF Inv, Settled
<1>2. \A c \in outcome : c \in Contact /\ state[c] = "queried"
  BY <1>1 DEF Nearest, Candidates, InState
<1>3. self \notin outcome
  BY <1>2 DEF Skipped, Inv, TypeOK
<1>4. ASSUME NEW r \in heard, r \notin outcome \cup {self}
      PROVE  Cardinality(outcome) = K /\ \A w \in outcome : AsClose(w, r)
  <2>1. r \in Contact \ Skipped
    BY <1>4 DEF FullInv
  <2>2. state[r] # "unseen" /\ state[r] # "failed"
    BY <1>4, <2>1 DEF FullInv, Inv, Known
  <2>3. r \in Candidates
    BY <2>1, <2>2 DEF Candidates, InState, Inv, TypeOK
  <2> QED BY <1>1, <1>4, <2>3 DEF Nearest
<1>5. \A v \in outcome \cup {self} : Told(v.id, Live, self)
  BY <1>2 DEF FullInv
<1>6. outcome \in SUBSET Contact /\ Cardinality(outcome) <= K
  BY <1>1, <1>2 DEF Nearest
<1> QED BY <1>3, <1>4, <1>5, <1>6

\* Suppose fewer than K of the K + 1 nodes are as close as a node x that is left
\* out.  Then two are farther, and the nearer of these has told K nodes nearer
\* than itself -- more than there are.
LEMMA EndIsNearest ==
  ASSUME NEW self \in Contact, self.id = MyId, NEW Live \in SUBSET (Contact \ Skipped),
         Inv, FullInv(Live, self)
  PROVE  FindsNearest(Live, self)
<1> DEFINE V == outcome \cup {self}
           G(x) == {y \in V : AsClose(y, x)}
<1> SUFFICES ASSUME ~ running, heard # {}, NEW x \in Live \ outcome, ~ (Cardinality(G(x)) >= K)
             PROVE  FALSE
  BY DEF FindsNearest
<1> HIDE DEF V, G
<1>1. /\ outcome \in SUBSET Contact /\ self \notin outcome /\ Cardinality(outcome) <= K
      /\ \A r \in heard : \/ r \in V
                          \/ Cardinality(outcome) = K /\ \A w \in outcome : AsClose(w, r)
      /\ \A v \in V : Told(v.id, Live, self)
  BY EndOfTelling DEF V
<1>2. /\ \A c \in Contact : c.id \in Identifier
      /\ x \in Contact /\ x.id # MyId /\ x # self
      /\ V \in SUBSET Contact /\ G(x) \in SUBSET V
      /\ Live \in SUBSET Contact
  BY <1>1, ContactAssumption DEF Skipped, V, G
<1>3. /\ IsFiniteSet(outcome) /\ Cardinality(outcome) \in Nat
      /\ IsFiniteSet(V) /\ Cardinality(V) = Cardinality(outcome) + 1
      /\ IsFiniteSet(G(x)) /\ Cardinality(G(x)) \in Nat
  BY <1>1, <1>2, ContactSubset, FS_AddElement DEF V
<1>4. CASE Cardinality(outcome) < K
  <2>S. PICK S \in FullTables(MyId, Live, self) : \E R \in Nearest(K, S) : R \subseteq heard
    BY <1>1 DEF Told, V
  <2>1. PICK R \in Nearest(K, S) : R \subseteq heard
    BY <2>S
  <2>2. R \subseteq outcome
    BY <1>1, <1>4, <2>1, BoundAssumption, <1>3 DEF FullTables, Nearest, V
  <2>3. Cardinality(R) = K
    BY <1>2, <2>2, TableNamesNearest, IdAssumption
  <2>4. Cardinality(R) <= Cardinality(outcome)
    BY <1>3, <2>2, FS_Subset
  <2> QED BY <1>3, <1>4, <2>3, <2>4, BoundAssumption
<1>5. CASE Cardinality(outcome) = K
  <2>1. Cardinality(G(x)) + 1 < Cardinality(V)
    BY <1>3, <1>5, BoundAssumption
  <2>2. V \ G(x) # {}
    <3>1. V # G(x)
      BY <1>3, <2>1
    <3> QED BY <1>2, <3>1
  <2>3. PICK w \in V \ G(x) : \A y \in V \ G(x) : AsClose(y, w)
    BY <1>2, <2>2, FarthestExists
  <2>4. PICK v \in V \ G(x) : v # w
    BY <1>2, <1>3, <2>1, <2>3, TwoOutside
  <2>5. /\ v \in Contact /\ w \in Contact /\ Nearer(x.id, v.id) /\ ~ Nearer(w.id, v.id)
    BY <1>2, <2>3, <2>4 DEF G, AsClose, Distance, Nearer
  <2>S. PICK S \in FullTables(v.id, Live, self) : \E R \in Nearest(K, S) : R \subseteq heard
    BY <1>1, <2>4 DEF Told
  <2>6. PICK R \in Nearest(K, S) : R \subseteq heard
    BY <2>S
  <2>7. x \notin heard
    <3>1. ~ \A u \in outcome : AsClose(u, x)
      <4> SUFFICES ASSUME \A u \in outcome : AsClose(u, x) PROVE FALSE
        OBVIOUS
      <4>1. outcome \in SUBSET G(x)
        BY DEF G, V
      <4>2. Cardinality(outcome) <= Cardinality(G(x))
        BY <1>3, <4>1, FS_Subset
      <4> QED BY <1>3, <1>5, <4>2, BoundAssumption
    <3>2. x \notin V
      BY <1>2 DEF V
    <3> QED BY <1>1, <3>1, <3>2
  <2>8. x.id # v.id
    BY <1>2, <2>5, NearerOrder
  <2>9. Cardinality(R) = K /\ \A r \in R : Nearer(r.id, v.id)
    BY <1>2, <2>5, <2>6, <2>7, <2>8, TableNamesNearest
  <2>10. R \subseteq (V \ {v}) \ {w}
    <3> SUFFICES ASSUME NEW r \in R PROVE r \in V /\ r # v /\ r # w
      OBVIOUS
    <3>1. r \in Contact /\ Nearer(r.id, v.id)
      BY <1>2, <2>6, <2>9 DEF FullTables, Nearest
    <3>2. r # v /\ r # w
      BY <1>2, <2>5, <3>1, NearerOrder
    <3>3. Nearer(r.id, w.id)
      BY <1>2, <2>5, <3>1, NearerOrder
    <3>4. r \in V
      <4> SUFFICES ASSUME r \notin V PROVE FALSE
        OBVIOUS
      <4>1. \A u \in outcome : ~ Nearer(r.id, u.id)
        BY <1>1, <2>6 DEF AsClose, Distance, Nearer
      <4>2. v \in outcome \/ w \in outcome
        BY <2>3, <2>4 DEF V
      <4> QED BY <3>1, <3>3, <4>1, <4>2
    <3> QED BY <3>2, <3>4
  <2>11. Cardinality((V \ {v}) \ {w}) = K - 1 /\ IsFiniteSet((V \ {v}) \ {w})
    <3>1. Cardinality(V) - 2 = K - 1
      BY <1>3, <1>5, BoundAssumption
    <3> QED BY <1>3, <2>3, <2>4, <3>1, TwoLess
  <2>12. Cardinality(R) <= Cardinality((V \ {v}) \ {w})
    BY <2>10, <2>11, FS_Subset
  <2> QED BY <2>9, <2>11, <2>12, BoundAssumption
<1> QED BY <1>1, <1>3, <1>4, <1>5, BoundAssumption

\* A swarm whose tables are full is an environment of Lookup.
LEMMA FullNextIsNext ==
  ASSUME NEW self \in Contact, self.id = MyId, NEW Live \in SUBSET (Contact \ Skipped),
         FullNext(Live, self)
  PROVE  Next
<1>1. ASSUME NEW S \in FullTables(MyId, Live, self), NEW T \in Nearest(K, S), Start(T)
      PROVE  Next
  <2>1. T \in SUBSET Contact /\ Cardinality(T) <= K /\ T \cap Skipped = {}
    BY DEF FullTables, Nearest
  <2> QED BY <1>1, <2>1 DEF Next
<1>2. ASSUME NEW c \in Contact, NEW S \in FullTables(c.id, Live, self), NEW R \in Nearest(K, S), Answer(c, R)
      PROVE  Next
  <2>1. R \in Answers(c)
    BY DEF FullTables, Nearest, Answers, SameNode
  <2> QED BY <1>2, <2>1 DEF Next, Result
<1> QED BY <1>1, <1>2 DEF FullNext, Next

\* Where nobody is gone and every bucket holds its nodes or is full, a lookup ends
\* with K nearest nodes of the swarm, the node that looks up counted among them:
\* these are whom Announce tells (kademlia.go:153-195, 220-234).
THEOREM LookupFindsNearest ==
  ASSUME NEW self \in Contact, self.id = MyId, NEW Live \in SUBSET (Contact \ Skipped)
  PROVE  FullSpec(Live, self) => []FindsNearest(Live, self)
<1>1. Init => Inv /\ FullInv(Live, self)
  <2>1. Init => FullInv(Live, self)
    BY DEF Init, FullInv
  <2> QED BY <2>1, InitInv
<1>2. Inv /\ FullInv(Live, self) /\ [FullNext(Live, self)]_vars => Inv' /\ FullInv(Live, self)'
  <2> SUFFICES ASSUME Inv, FullInv(Live, self), [FullNext(Live, self)]_vars
               PROVE  Inv' /\ FullInv(Live, self)'
    OBVIOUS
  <2>1. Inv'
    BY FullNextIsNext, NextInv
  <2>2. ASSUME NEW S \in FullTables(MyId, Live, self), NEW T \in Nearest(K, S), Start(T)
        PROVE  FullInv(Live, self)'
    BY <2>2, FullStartInv
  <2>3. ASSUME NEW c \in Contact, NEW S \in FullTables(c.id, Live, self), NEW R \in Nearest(K, S), Answer(c, R)
        PROVE  FullInv(Live, self)'
    BY <2>3, FullAnswerInv
  <2>4. ASSUME Pick \/ Finish \/ UNCHANGED vars
        PROVE  FullInv(Live, self)'
    BY <2>4, FullQuietInv
  <2> QED BY <2>1, <2>2, <2>3, <2>4 DEF FullNext
<1>3. Inv /\ FullInv(Live, self) => FindsNearest(Live, self)
  BY EndIsNearest
<1> QED BY <1>1, <1>2, <1>3, PTL DEF FullSpec
=============================================================================
