------------------------- MODULE RoutingTableProofs -------------------------
(***************************************************************************)
(* Proofs about RoutingTable for every set of contacts, width of           *)
(* identifiers and bucket size: the metric behind the buckets, the         *)
(* inductive invariant, the safety properties, the refinement of           *)
(* PeerCache, that a bucket once heard from is never empty again, and how  *)
(* a dead peer comes to the head of its bucket.                            *)
(*                                                                         *)
(* The argument sees a bucket as the set of its entries.  A move to the    *)
(* end is a permutation of the queue and leaves that set alone; an append  *)
(* adds a fresh entry; a cut takes out the pinged entry and nothing else.  *)
(* Only the last section looks at the order of the queue.                  *)
(***************************************************************************)
EXTENDS RoutingTable, FiniteSetTheorems, WellFoundedInduction, TLAPS

-----------------------------------------------------------------------------
(* The two slice operations. *)

\* MoveToEnd permutes a queue: same length, same elements, still injective
\* (the copy loops of routing.go:48-50 and 69-70).
LEMMA MoveToEndPermutes ==
  ASSUME NEW S, NEW s \in Seq(S), NEW i \in DOMAIN s
  PROVE  /\ MoveToEnd(s, i) \in Seq(S)
         /\ Len(MoveToEnd(s, i)) = Len(s)
         /\ {MoveToEnd(s, i)[j] : j \in DOMAIN MoveToEnd(s, i)} = {s[j] : j \in DOMAIN s}
         /\ (\A j, k \in DOMAIN s : s[j] = s[k] => j = k) =>
              \A j, k \in DOMAIN MoveToEnd(s, i) :
                MoveToEnd(s, i)[j] = MoveToEnd(s, i)[k] => j = k
<1> DEFINE t == MoveToEnd(s, i)
           n == Len(s)
<1>1. n \in Nat /\ DOMAIN s = 1..n /\ i \in 1..n /\ \A j \in 1..n : s[j] \in S
  OBVIOUS
<1>2. t = [j \in 1..n |-> IF j < i THEN s[j] ELSE IF j < n THEN s[j + 1] ELSE s[i]]
  BY DEF MoveToEnd
<1>3. t \in [1..n -> S]
  BY <1>1, <1>2
<1>4. t \in Seq(S) /\ Len(t) = n /\ DOMAIN t = 1..n
  BY <1>1, <1>3
<1> HIDE DEF t, n
<1>5. {t[j] : j \in 1..n} = {s[j] : j \in 1..n}
  <2>1. ASSUME NEW j \in 1..n PROVE \E k \in 1..n : t[j] = s[k]
    <3>1. CASE j < i BY <1>2, <3>1
    <3>2. CASE ~ (j < i) /\ j < n
      <4>1. j + 1 \in 1..n BY <1>1, <3>2
      <4>2. t[j] = s[j + 1] BY <1>2, <3>2
      <4> QED BY <4>1, <4>2
    <3>3. CASE ~ (j < i) /\ ~ (j < n) BY <1>1, <1>2, <3>3
    <3> QED BY <3>1, <3>2, <3>3
  <2>2. ASSUME NEW k \in 1..n PROVE \E j \in 1..n : t[j] = s[k]
    <3>1. CASE k < i BY <1>2, <3>1
    <3>2. CASE k = i
      <4>1. n \in 1..n /\ ~ (n < i) /\ ~ (n < n) BY <1>1
      <4>2. t[n] = s[i] BY <1>2, <4>1
      <4> QED BY <3>2, <4>1, <4>2
    <3>3. CASE k > i
      <4>1. k - 1 \in 1..n /\ ~ (k - 1 < i) /\ k - 1 < n /\ (k - 1) + 1 = k BY <1>1, <3>3
      <4>2. t[k - 1] = s[k] BY <1>2, <4>1
      <4> QED BY <4>1, <4>2
    <3> QED BY <1>1, <3>1, <3>2, <3>3
  <2>3. \A j \in 1..n : t[j] \in {s[k] : k \in 1..n} BY <2>1
  <2>4. \A k \in 1..n : s[k] \in {t[j] : j \in 1..n} BY <2>2
  <2> QED BY <2>3, <2>4
<1>6. ASSUME \A j, k \in 1..n : s[j] = s[k] => j = k
      PROVE  \A j, k \in 1..n : t[j] = t[k] => j = k
  <2> DEFINE Src(j) == IF j < i THEN j ELSE IF j < n THEN j + 1 ELSE i
  <2>1. \A j \in 1..n : Src(j) \in 1..n /\ t[j] = s[Src(j)]
    BY <1>1, <1>2
  <2>2. \A j \in 1..n : \/ j < i /\ Src(j) = j
                        \/ i <= j /\ j < n /\ Src(j) = j + 1
                        \/ j = n /\ Src(j) = i
    <3> SUFFICES ASSUME NEW j \in 1..n
                 PROVE  \/ j < i /\ Src(j) = j
                        \/ i <= j /\ j < n /\ Src(j) = j + 1
                        \/ j = n /\ Src(j) = i
      OBVIOUS
    <3>1. j \in Int /\ i \in Int /\ n \in Int /\ i <= n /\ j <= n BY <1>1
    <3>2. CASE j < i BY <3>2
    <3>3. CASE i <= j /\ j < n
      <4>1. ~ (j < i) BY <3>1, <3>3
      <4> QED BY <3>3, <4>1
    <3>4. CASE j = n
      <4>1. ~ (j < i) /\ ~ (j < n) BY <3>1, <3>4
      <4> QED BY <3>4, <4>1
    <3>5. j < i \/ (i <= j /\ j < n) \/ j = n BY <3>1
    <3> QED BY <3>2, <3>3, <3>4, <3>5
  <2> HIDE DEF Src
  <2>3. \A j, k \in 1..n : Src(j) = Src(k) => j = k
    BY <1>1, <2>2
  <2> QED BY <1>6, <2>1, <2>3
<1> QED BY <1>1, <1>4, <1>5, <1>6 DEF t, n

\* Cut takes out one slot: of an injective queue it leaves exactly the other
\* elements (routing.go:102-103).
LEMMA CutRemoves ==
  ASSUME NEW S, NEW s \in Seq(S), NEW i \in DOMAIN s,
         \A j, k \in DOMAIN s : s[j] = s[k] => j = k
  PROVE  /\ Cut(s, i) \in Seq(S)
         /\ Len(Cut(s, i)) = Len(s) - 1
         /\ {Cut(s, i)[j] : j \in DOMAIN Cut(s, i)} = {s[j] : j \in DOMAIN s} \ {s[i]}
         /\ \A j, k \in DOMAIN Cut(s, i) : Cut(s, i)[j] = Cut(s, i)[k] => j = k
<1> DEFINE t == Cut(s, i)
           n == Len(s)
           Src(j) == IF j < i THEN j ELSE j + 1
<1>1. n \in Nat \ {0} /\ DOMAIN s = 1..n /\ i \in 1..n /\ \A j \in 1..n : s[j] \in S
  OBVIOUS
<1>2. t = [j \in 1..(n - 1) |-> IF j < i THEN s[j] ELSE s[j + 1]]
  BY DEF Cut
<1>3. \A j \in 1..(n - 1) : Src(j) \in 1..n /\ Src(j) # i /\ t[j] = s[Src(j)]
  BY <1>1, <1>2
<1> HIDE DEF t, n
<1>4. \A j, k \in 1..(n - 1) : Src(j) = Src(k) => j = k
  BY <1>1
<1>5. \A k \in 1..n : k # i => \E j \in 1..(n - 1) : Src(j) = k
  <2> SUFFICES ASSUME NEW k \in 1..n, k # i PROVE \E j \in 1..(n - 1) : Src(j) = k
    OBVIOUS
  <2>1. CASE k < i
    <3>1. k \in 1..(n - 1) /\ Src(k) = k BY <1>1, <2>1
    <3> QED BY <3>1
  <2>2. CASE k > i
    <3>1. k - 1 \in 1..(n - 1) /\ Src(k - 1) = k BY <1>1, <2>2
    <3> QED BY <3>1
  <2> QED BY <1>1, <2>1, <2>2
<1> HIDE DEF Src
<1>6. t \in [1..(n - 1) -> S]
  <2>1. \A j \in 1..(n - 1) : t[j] \in S BY <1>1, <1>3
  <2> QED BY <1>2, <2>1
<1>7. t \in Seq(S) /\ Len(t) = n - 1 /\ DOMAIN t = 1..(n - 1)
  BY <1>1, <1>6
<1>8. {t[j] : j \in 1..(n - 1)} = {s[j] : j \in 1..n} \ {s[i]}
  <2>1. ASSUME NEW j \in 1..(n - 1) PROVE t[j] \in {s[k] : k \in 1..n} \ {s[i]}
    BY <1>1, <1>3
  <2>2. ASSUME NEW k \in 1..n, s[k] # s[i] PROVE \E j \in 1..(n - 1) : t[j] = s[k]
    BY <1>3, <1>5, <2>2
  <2> QED BY <2>1, <2>2
<1>9. \A j, k \in 1..(n - 1) : t[j] = t[k] => j = k
  BY <1>1, <1>3, <1>4
<1> QED BY <1>1, <1>7, <1>8, <1>9 DEF t, n

-----------------------------------------------------------------------------
(* The queues after each kind of change. *)

\* The part of the invariant that is about the queues alone.
Queues ==
  /\ buckets \in [Bucket -> Seq(Entry)]
  /\ BucketBound
  /\ QueuesInjective

\* bucketIndex finds a bucket for every identifier but the owner's: the panic
\* of routing.go:29-31 is not reached.
THEOREM IndexInRange ==
  ASSUME NEW i \in Id \ {MyId}
  PROVE  LeadingZeros(Xor(MyId, i)) \in Bucket
<1> DEFINE d == Xor(MyId, i)
           Z == {x \in Position : \A j \in 1..x : d[j] = 0}
<1>1. IsFiniteSet(Position) /\ Cardinality(Position) = Width
  BY FS_Interval, WidthAssumption DEF Position
<1>2. PICK x \in Position : MyId[x] # i[x]
  BY IdAssumption DEF Identifier
<1>3. x \notin Z
  <2>1. d[x] = 1 /\ x \in 1..x
    BY <1>2, WidthAssumption DEF Xor, Position
  <2> QED BY <2>1
<1>4. Z \in SUBSET Position /\ Z # Position
  BY <1>2, <1>3
<1>5. /\ IsFiniteSet(Z)
      /\ Cardinality(Z) <= Cardinality(Position)
      /\ Cardinality(Z) # Cardinality(Position)
  BY <1>1, <1>4, FS_Subset
<1>6. Cardinality(Z) \in Nat
  BY <1>5, FS_CardinalityType
<1>7. Cardinality(Z) \in 0..(Width - 1)
  BY <1>1, <1>5, <1>6, WidthAssumption
<1>8. LeadingZeros(d) = Cardinality(Z)
  BY DEF LeadingZeros
<1> QED BY <1>7, <1>8 DEF Bucket

\* A set of positions has a first one.
LEMMA FirstPosition ==
  ASSUME NEW D \in SUBSET Nat, D # {}
  PROVE  \E i \in D : \A j \in D : i <= j
<1> DEFINE R == OpToRel(<, Nat)
<1>1. IsWellFoundedOn(R, Nat)
  BY NatLessThanWellFounded
<1>2. \A x, y \in Nat : y < x => <<y, x>> \in R
  BY DEF OpToRel
<1> HIDE DEF R
<1>3. PICK i \in D : \A j \in D : ~ (<<j, i>> \in R)
  BY <1>1, WFMin
<1>4. \A j \in D : i \in Nat /\ j \in Nat /\ ~ (j < i)
  BY <1>2, <1>3
<1> QED BY <1>4

\* The zeros an identifier begins with are counted up to its first one: who
\* has more of them is less (id.go:62-77).
LEMMA MoreZerosLess ==
  ASSUME NEW a \in Identifier, NEW b \in Identifier, LeadingZeros(a) > LeadingZeros(b)
  PROVE  Less(a, b)
<1> DEFINE Z(d) == {x \in Position : \A j \in 1..x : d[j] = 0}
<1>1. LeadingZeros(a) = Cardinality(Z(a)) /\ LeadingZeros(b) = Cardinality(Z(b))
  BY DEF LeadingZeros
<1>2. IsFiniteSet(Z(a)) /\ IsFiniteSet(Z(b))
  <2>1. IsFiniteSet(Position) /\ Z(a) \in SUBSET Position /\ Z(b) \in SUBSET Position
    BY FS_Interval, WidthAssumption DEF Position
  <2> HIDE DEF Z
  <2> QED BY <2>1, FS_Subset
<1>3. PICK x \in Z(a) : x \notin Z(b)
  <2>1. Cardinality(Z(a)) \in Nat /\ Cardinality(Z(b)) \in Nat
    BY <1>2, FS_CardinalityType
  <2>2. ~ (Z(a) \subseteq Z(b))
    <3> HIDE DEF Z
    <3> QED BY <1>1, <1>2, <2>1, FS_Subset
  <2> QED BY <2>2
<1>4. x \in Position /\ \A j \in 1..x : a[j] = 0
  BY <1>3
<1> DEFINE D == {j \in Position : b[j] # 0}
<1>5. PICK y \in D : y <= x
  BY <1>3, <1>4, WidthAssumption DEF Position
<1>6. PICK i \in D : \A j \in D : i <= j
  <2>1. D \in SUBSET Nat /\ D # {}
    BY <1>5, WidthAssumption DEF Position
  <2> HIDE DEF D
  <2> QED BY <2>1, FirstPosition
<1>7. i \in 1..x /\ i \in Position /\ b[i] = 1
  BY <1>4, <1>5, <1>6, WidthAssumption DEF Position, Identifier
<1>8. \A j \in 1..(i - 1) : j \in 1..x /\ j \in Position /\ b[j] = 0
  BY <1>4, <1>6, <1>7, WidthAssumption DEF Position
<1> HIDE DEF D, Z
<1>9. a[i] < b[i] /\ \A j \in 1..(i - 1) : a[j] = b[j]
  BY <1>4, <1>7, <1>8
<1> QED BY <1>7, <1>9 DEF Less

\* The buckets are sorted by distance: every peer of a bucket is closer to
\* this node than every peer of the buckets before it, so that the index of a
\* bucket says how close its peers are (routing.go:27-33, id.go:53-77).
THEOREM HigherBucketCloser ==
  ASSUME NEW i \in Id \ {MyId}, NEW j \in Id \ {MyId}, BucketIndex[i] > BucketIndex[j]
  PROVE  Less(Xor(MyId, i), Xor(MyId, j))
<1>1. Xor(MyId, i) \in Identifier /\ Xor(MyId, j) \in Identifier
  BY DEF Xor, Identifier
<1>2. LeadingZeros(Xor(MyId, i)) > LeadingZeros(Xor(MyId, j))
  BY DEF BucketIndex
<1> QED BY <1>1, <1>2, MoreZerosLess

\* Where update(c) looks is a bucket of the table.
LEMMA IndexInBucket ==
  ASSUME NEW c \in Contact, Acceptable(c)
  PROVE  BucketIndex[c.id] \in Bucket
<1>1. c.id \in Id \ {MyId}
  BY ContactAssumption DEF Acceptable
<1> QED BY <1>1, IndexInRange DEF BucketIndex

\* A move to the end changes no bucket as a set.
LEMMA MoveKeepsQueues ==
  ASSUME Queues, NEW b \in Bucket, NEW i \in DOMAIN buckets[b],
         buckets' = [buckets EXCEPT ![b] = MoveToEnd(@, i)]
  PROVE  Queues' /\ \A x \in Bucket : EntriesOf(x)' = EntriesOf(x)
<1> DEFINE t == MoveToEnd(buckets[b], i)
<1>1. buckets[b] \in Seq(Entry) /\ \A j, k \in DOMAIN buckets[b] : buckets[b][j] = buckets[b][k] => j = k
  BY DEF Queues, QueuesInjective
<1>2. /\ t \in Seq(Entry)
      /\ Len(t) = Len(buckets[b])
      /\ {t[j] : j \in DOMAIN t} = {buckets[b][j] : j \in DOMAIN buckets[b]}
      /\ \A j, k \in DOMAIN t : t[j] = t[k] => j = k
  BY <1>1, MoveToEndPermutes
<1>3. \A x \in Bucket : buckets'[x] = IF x = b THEN t ELSE buckets[x]
  BY DEF Queues
<1>4. buckets' \in [Bucket -> Seq(Entry)]
  BY <1>2, <1>3 DEF Queues
<1> HIDE DEF t
<1>5. BucketBound'
  BY <1>2, <1>3 DEF Queues, BucketBound
<1>6. QueuesInjective'
  BY <1>2, <1>3 DEF Queues, QueuesInjective
<1>7. ASSUME NEW x \in Bucket PROVE EntriesOf(x)' = EntriesOf(x)
  BY <1>2, <1>3 DEF EntriesOf
<1> QED BY <1>4, <1>5, <1>6, <1>7 DEF Queues

\* Appending an entry that no queue holds, where there is room.
LEMMA AppendKeepsQueues ==
  ASSUME Queues, NEW b \in Bucket, NEW e \in Entry, HasRoom(b), e \notin EntriesOf(b),
         buckets' = [buckets EXCEPT ![b] = Append(@, e)]
  PROVE  /\ Queues'
         /\ \A x \in Bucket : EntriesOf(x)' = IF x = b THEN EntriesOf(x) \cup {e} ELSE EntriesOf(x)
<1> DEFINE s == buckets[b]
           t == Append(s, e)
<1>1. s \in Seq(Entry) /\ Len(s) \in Nat /\ DOMAIN s = 1..Len(s)
  BY DEF Queues
<1>2. /\ t \in Seq(Entry)
      /\ Len(t) = Len(s) + 1
      /\ DOMAIN t = 1..(Len(s) + 1)
      /\ \A j \in 1..Len(s) : t[j] = s[j]
      /\ t[Len(s) + 1] = e
  BY <1>1
<1>3. \A x \in Bucket : buckets'[x] = IF x = b THEN t ELSE buckets[x]
  BY DEF Queues
<1>4. buckets' \in [Bucket -> Seq(Entry)]
  BY <1>2, <1>3 DEF Queues
<1>5. \A j \in DOMAIN s : s[j] # e
  BY DEF EntriesOf
<1>6. \A j, k \in DOMAIN s : s[j] = s[k] => j = k
  BY DEF Queues, QueuesInjective
<1>7. Len(s) < K
  BY DEF HasRoom
<1> HIDE DEF t
<1>8. BucketBound'
  BY <1>1, <1>2, <1>3, <1>7, KAssumption DEF Queues, BucketBound
<1>9. \A j, k \in DOMAIN t : t[j] = t[k] => j = k
  <2>1. \A j \in DOMAIN t : j \in 1..Len(s) \/ j = Len(s) + 1
    BY <1>1, <1>2
  <2> QED BY <1>1, <1>2, <1>5, <1>6, <2>1
<1>10. QueuesInjective'
  <2> SUFFICES ASSUME NEW x \in Bucket
               PROVE  \A j, k \in DOMAIN buckets'[x] : buckets'[x][j] = buckets'[x][k] => j = k
    BY DEF QueuesInjective
  <2>1. CASE x = b
    <3>1. buckets'[x] = t BY <1>3, <2>1
    <3> QED BY <1>9, <3>1
  <2>2. CASE x # b BY <1>3, <2>2 DEF Queues, QueuesInjective
  <2> QED BY <2>1, <2>2
<1>11. {t[j] : j \in DOMAIN t} = {s[j] : j \in DOMAIN s} \cup {e}
  <2>1. \A j \in DOMAIN t : t[j] \in {s[k] : k \in DOMAIN s} \cup {e}
    BY <1>1, <1>2
  <2>2. \A k \in DOMAIN s : k \in DOMAIN t /\ s[k] = t[k]
    BY <1>1, <1>2
  <2>3. Len(s) + 1 \in DOMAIN t
    BY <1>1, <1>2
  <2>4. \A k \in DOMAIN s : s[k] \in {t[j] : j \in DOMAIN t}
    BY <2>2
  <2>5. e \in {t[j] : j \in DOMAIN t}
    BY <1>2, <2>3
  <2> QED BY <2>1, <2>4, <2>5
<1>12. ASSUME NEW x \in Bucket
       PROVE  EntriesOf(x)' = IF x = b THEN EntriesOf(x) \cup {e} ELSE EntriesOf(x)
  BY <1>3, <1>11 DEF EntriesOf
<1> QED BY <1>4, <1>8, <1>10, <1>12 DEF Queues

\* Cutting the slot of an entry.
LEMMA CutKeepsQueues ==
  ASSUME Queues, NEW b \in Bucket, NEW i \in DOMAIN buckets[b],
         buckets' = [buckets EXCEPT ![b] = Cut(@, i)]
  PROVE  /\ Queues'
         /\ \A x \in Bucket :
              EntriesOf(x)' = IF x = b THEN EntriesOf(x) \ {buckets[b][i]} ELSE EntriesOf(x)
<1> DEFINE t == Cut(buckets[b], i)
<1>1. buckets[b] \in Seq(Entry) /\ \A j, k \in DOMAIN buckets[b] : buckets[b][j] = buckets[b][k] => j = k
  BY DEF Queues, QueuesInjective
<1>2. /\ t \in Seq(Entry)
      /\ Len(t) = Len(buckets[b]) - 1
      /\ {t[j] : j \in DOMAIN t} = {buckets[b][j] : j \in DOMAIN buckets[b]} \ {buckets[b][i]}
      /\ \A j, k \in DOMAIN t : t[j] = t[k] => j = k
  BY <1>1, CutRemoves
<1>3. \A x \in Bucket : buckets'[x] = IF x = b THEN t ELSE buckets[x]
  BY DEF Queues
<1>4. buckets' \in [Bucket -> Seq(Entry)]
  BY <1>2, <1>3 DEF Queues
<1> HIDE DEF t
<1>5. BucketBound'
  <2>1. Len(buckets[b]) \in Nat BY <1>1
  <2> QED BY <1>2, <1>3, <2>1, KAssumption DEF Queues, BucketBound
<1>6. QueuesInjective'
  <2> SUFFICES ASSUME NEW x \in Bucket
               PROVE  \A j, k \in DOMAIN buckets'[x] : buckets'[x][j] = buckets'[x][k] => j = k
    BY DEF QueuesInjective
  <2>1. CASE x = b BY <1>2, <1>3, <2>1
  <2>2. CASE x # b BY <1>3, <2>2 DEF Queues, QueuesInjective
  <2> QED BY <2>1, <2>2
<1>7. ASSUME NEW x \in Bucket
      PROVE  EntriesOf(x)' = IF x = b THEN EntriesOf(x) \ {buckets[b][i]} ELSE EntriesOf(x)
  BY <1>2, <1>3 DEF EntriesOf
<1> QED BY <1>4, <1>5, <1>6, <1>7 DEF Queues

-----------------------------------------------------------------------------
(* The inductive invariant. *)

LEMMA InitInv == Init => Inv
<1> SUFFICES ASSUME Init PROVE Inv
  OBVIOUS
<1> USE DEF Init
<1>1. \A b \in Bucket : buckets[b] = << >> /\ EntriesOf(b) = {}
  BY DEF EntriesOf
<1>2. \A b \in Bucket : Held(b) = {}
  BY <1>1 DEF Held
<1>3. TypeOK
  BY <1>2 DEF TypeOK
<1>4. BucketBound
  BY <1>1, KAssumption DEF BucketBound
<1>5. PingAccounting /\ ContactsDistinct /\ CandidatesFit
  BY <1>1 DEF PingAccounting, ContactsDistinct, CandidatesFit
<1>6. QueuesInjective
  BY <1>1 DEF QueuesInjective
<1>7. Placement
  BY <1>2 DEF Placement
<1> QED BY <1>3, <1>4, <1>5, <1>6, <1>7 DEF Inv

LEMMA InvQueues == Inv => Queues
BY DEF Inv, Queues, TypeOK

\* A step that leaves every bucket as a set, every contact, mark and
\* goroutine alone.
LEMMA KnownInv ==
  ASSUME Inv, NEW c \in Contact, Acceptable(c), UpdateKnown(c)
  PROVE  Inv'
<1> DEFINE b == BucketIndex[c.id]
<1>1. b \in Bucket
  BY IndexInBucket
<1>2. PICK i \in DOMAIN buckets[b] : buckets' = [buckets EXCEPT ![b] = MoveToEnd(@, i)]
  BY DEF UpdateKnown, SlotsOf
<1>3. UNCHANGED <<up, contact, pinging, pings>>
  BY DEF UpdateKnown
<1>4. Queues' /\ \A x \in Bucket : EntriesOf(x)' = EntriesOf(x)
  BY <1>1, <1>2, MoveKeepsQueues, InvQueues
<1>5. \A x \in Bucket : Held(x)' = Held(x)
  BY <1>3, <1>4 DEF Held
<1>6. TypeOK'
  BY <1>3, <1>4, <1>5 DEF Inv, TypeOK, Queues
<1>7. PingAccounting'
  <2>1. \A p \in pings : p.idx \in Bucket BY DEF Inv, TypeOK, PingCall
  <2> QED BY <1>3, <1>4, <2>1 DEF Inv, PingAccounting
<1>8. ContactsDistinct'
  BY <1>3, <1>4 DEF Inv, ContactsDistinct
<1>9. Placement' /\ CandidatesFit'
  BY <1>3, <1>5 DEF Inv, Placement, CandidatesFit, Acceptable
<1> QED BY <1>4, <1>6, <1>7, <1>8, <1>9 DEF Inv, Queues

LEMMA AppendInv ==
  ASSUME Inv, NEW c \in Contact, Acceptable(c), UpdateAppend(c)
  PROVE  Inv'
<1> DEFINE b == BucketIndex[c.id]
<1>1. b \in Bucket
  BY IndexInBucket
<1>2. PICK e \in Entry :
        /\ contact[e] = NoContact
        /\ buckets' = [buckets EXCEPT ![b] = Append(@, e)]
        /\ contact' = [contact EXCEPT ![e] = c]
        /\ pinging' = [pinging EXCEPT ![e] = FALSE]
  BY DEF UpdateAppend
<1>3. SlotsOf(b, c) = {} /\ HasRoom(b) /\ UNCHANGED <<up, pings>>
  BY DEF UpdateAppend
<1> HIDE DEF b
<1>4. \A x \in Bucket : e \notin EntriesOf(x)
  BY <1>2, NoContactAssumption DEF Inv, TypeOK, Held
<1>5. /\ Queues'
      /\ \A x \in Bucket : EntriesOf(x)' = IF x = b THEN EntriesOf(x) \cup {e} ELSE EntriesOf(x)
  BY <1>1, <1>2, <1>3, <1>4, AppendKeepsQueues, InvQueues
<1>6. contact \in [Entry -> Contact \cup {NoContact}] /\ pinging \in [Entry -> BOOLEAN]
  BY DEF Inv, TypeOK
<1>7. \A x \in Bucket : EntriesOf(x) \subseteq Entry
  BY DEF Inv, TypeOK, EntriesOf
<1>8. contact'[e] = c /\ ~ pinging'[e]
  BY <1>2, <1>6
<1>9. \A x \in Bucket : \A d \in EntriesOf(x) : contact'[d] = contact[d] /\ pinging'[d] = pinging[d]
  BY <1>2, <1>4, <1>6, <1>7
<1>10. \A x \in Bucket : Held(x)' = IF x = b THEN Held(x) \cup {c} ELSE Held(x)
  BY <1>5, <1>8, <1>9 DEF Held
<1>11. TypeOK'
  <2>1. contact' \in [Entry -> Contact \cup {NoContact}] /\ pinging' \in [Entry -> BOOLEAN]
    BY <1>2, <1>6
  <2>2. \A x \in Bucket : Held(x)' \subseteq Contact
    BY <1>10 DEF Inv, TypeOK
  <2> QED BY <1>3, <1>5, <2>1, <2>2 DEF Inv, TypeOK, Queues
<1>12. \A p \in pings : p.idx \in Bucket /\ p.oldest # e
  BY <1>4 DEF Inv, TypeOK, PingCall, PingAccounting
<1>13. PingAccounting'
  <2>1. \A x \in Bucket : \A d \in EntriesOf(x)' : pinging'[d] <=> \E p \in pings' : p.oldest = d
    BY <1>3, <1>5, <1>8, <1>9, <1>12 DEF Inv, PingAccounting
  <2>2. \A p \in pings' : p.oldest \in EntriesOf(p.idx)'
    BY <1>3, <1>5, <1>12 DEF Inv, PingAccounting
  <2> QED BY <1>3, <2>1, <2>2 DEF Inv, PingAccounting
<1>14. \A x \in Bucket : c \notin Held(x)
  <2>1. c \notin Held(b)
    BY <1>3 DEF SlotsOf, Held, EntriesOf
  <2>2. \A x \in Bucket : c \in Held(x) => x = b
    BY DEF Inv, Placement, b
  <2> QED BY <2>1, <2>2
<1>15. ContactsDistinct'
  <2>1. \A x \in Bucket : \A d \in EntriesOf(x) : contact[d] # c
    BY <1>14 DEF Held
  <2> QED BY <1>5, <1>8, <1>9, <2>1 DEF Inv, ContactsDistinct
<1>16. Placement'
  BY <1>10 DEF Inv, Placement, Acceptable, b
<1>17. CandidatesFit'
  <2>1. \A p \in pings : contact'[p.oldest] = contact[p.oldest]
    BY <1>9, <1>12 DEF Inv, PingAccounting
  <2> QED BY <1>3, <2>1 DEF Inv, CandidatesFit, Acceptable
<1> QED BY <1>5, <1>11, <1>13, <1>15, <1>16, <1>17 DEF Inv, Queues

\* The head of a full bucket that is not being pinged is marked and gets a
\* goroutine: mark and goroutine appear in one critical section.
LEMMA PingInv ==
  ASSUME Inv, NEW c \in Contact, Acceptable(c), UpdatePing(c)
  PROVE  Inv'
<1> DEFINE b == BucketIndex[c.id]
           o == buckets[b][1]
           q == [idx |-> b, oldest |-> o, cand |-> c]
<1>1. b \in Bucket
  BY IndexInBucket
<1>2. /\ SlotsOf(b, c) = {}
      /\ ~ HasRoom(b)
      /\ ~ pinging[o]
      /\ pinging' = [pinging EXCEPT ![o] = TRUE]
      /\ buckets' = [buckets EXCEPT ![b] = MoveToEnd(@, 1)]
      /\ pings' = pings \cup {q}
      /\ UNCHANGED <<up, contact>>
  BY DEF UpdatePing, HeadPinged
<1>3. 1 \in DOMAIN buckets[b]
  <2>1. buckets[b] \in Seq(Entry) /\ Len(buckets[b]) \in Nat
    BY <1>1 DEF Inv, TypeOK
  <2>2. ~ (Len(buckets[b]) < K)
    BY <1>2 DEF HasRoom
  <2>3. Len(buckets[b]) >= 1
    BY <2>1, <2>2, KAssumption
  <2> QED BY <2>1, <2>3
<1>4. o \in EntriesOf(b) /\ o \in Entry
  BY <1>1, <1>3 DEF EntriesOf, Inv, TypeOK
<1>5. Queues' /\ \A x \in Bucket : EntriesOf(x)' = EntriesOf(x)
  BY <1>1, <1>2, <1>3, MoveKeepsQueues, InvQueues
<1> HIDE DEF o
<1>6. q \in PingCall /\ q.idx = b /\ q.oldest = o /\ q.cand = c
  BY <1>1, <1>4 DEF PingCall
<1> HIDE DEF b, q
<1>7. \A x \in Bucket : Held(x)' = Held(x)
  BY <1>2, <1>5 DEF Held
<1>8. pinging \in [Entry -> BOOLEAN] /\ \A x \in Bucket : EntriesOf(x) \subseteq Entry
  BY DEF Inv, TypeOK, EntriesOf
<1>9. TypeOK'
  <2>1. pinging' \in [Entry -> BOOLEAN] BY <1>2, <1>8
  <2>2. pings' \subseteq PingCall BY <1>2, <1>6 DEF Inv, TypeOK
  <2> QED BY <1>2, <1>5, <1>7, <2>1, <2>2 DEF Inv, TypeOK, Queues
<1>10. \A p \in pings : p.oldest # o /\ p.idx \in Bucket
  BY <1>1, <1>2, <1>4 DEF Inv, PingAccounting, TypeOK, PingCall
<1>11. PingAccounting'
  <2>1. \A x \in Bucket : \A d \in EntriesOf(x) : pinging'[d] <=> (d = o \/ pinging[d])
    BY <1>2, <1>4, <1>8
  <2>2. \A x \in Bucket : \A d \in EntriesOf(x)' : pinging'[d] <=> \E p \in pings' : p.oldest = d
    BY <1>2, <1>5, <1>6, <2>1 DEF Inv, PingAccounting
  <2>3. \A p1, p2 \in pings' : p1.oldest = p2.oldest => p1 = p2
    BY <1>2, <1>6, <1>10 DEF Inv, PingAccounting
  <2>4. \A p \in pings' : p.oldest \in EntriesOf(p.idx)'
    BY <1>1, <1>2, <1>4, <1>5, <1>6, <1>10 DEF Inv, PingAccounting
  <2> QED BY <2>2, <2>3, <2>4 DEF PingAccounting
<1>12. ContactsDistinct'
  BY <1>2, <1>5 DEF Inv, ContactsDistinct
<1>13. Placement'
  BY <1>7 DEF Inv, Placement, Acceptable
<1>14. CandidatesFit'
  <2>1. c # contact[o]
    BY <1>2, <1>3 DEF SlotsOf, o
  <2>2. Acceptable(q.cand) /\ BucketIndex[q.cand.id] = q.idx /\ q.cand # contact'[q.oldest]
    BY <1>2, <1>6, <2>1 DEF b
  <2> QED BY <1>2, <2>2 DEF Inv, CandidatesFit, Acceptable
<1> QED BY <1>5, <1>9, <1>11, <1>12, <1>13, <1>14 DEF Inv, Queues

\* The goroutine p returns: its mark and it disappear together, and no other
\* goroutine holds its entry.
LEMMA PingFacts ==
  ASSUME Inv, NEW p \in pings
  PROVE  /\ p.idx \in Bucket /\ p.oldest \in Entry /\ p.cand \in Contact
         /\ p.oldest \in EntriesOf(p.idx)
         /\ \A q \in pings \ {p} : q.oldest # p.oldest /\ q.oldest \in Entry /\ q.idx \in Bucket
         /\ \A x \in Bucket : EntriesOf(x) \subseteq Entry
         /\ \A x \in Bucket : p.oldest \in EntriesOf(x) => x = p.idx
<1>1. p \in PingCall /\ \A q \in pings : q \in PingCall
  BY DEF Inv, TypeOK
<1>2. p.oldest \in EntriesOf(p.idx)
  BY DEF Inv, PingAccounting
<1>3. \A q \in pings \ {p} : q.oldest # p.oldest
  BY DEF Inv, PingAccounting
<1>4. \A x \in Bucket : EntriesOf(x) \subseteq Entry
  BY DEF Inv, TypeOK, EntriesOf
<1>5. \A x \in Bucket : p.oldest \in EntriesOf(x) => x = p.idx
  <2>1. \A x \in Bucket : p.oldest \in EntriesOf(x) => BucketIndex[contact[p.oldest].id] = x
    BY DEF Inv, Placement, Held
  <2> QED BY <1>1, <1>2, <2>1 DEF PingCall
<1> QED BY <1>1, <1>2, <1>3, <1>4, <1>5 DEF PingCall

LEMMA AnsweredInv ==
  ASSUME Inv, NEW p \in pings, PingAnswered(p)
  PROVE  Inv'
<1>1. /\ pinging' = [pinging EXCEPT ![p.oldest] = FALSE]
      /\ pings' = pings \ {p}
      /\ UNCHANGED <<up, buckets, contact>>
  BY DEF PingAnswered
<1>2. \A x \in Bucket : EntriesOf(x)' = EntriesOf(x) /\ Held(x)' = Held(x)
  BY <1>1 DEF EntriesOf, Held
<1>3. TypeOK'
  BY <1>1, <1>2, PingFacts DEF Inv, TypeOK
<1>4. PingAccounting'
  <2>1. \A x \in Bucket : \A d \in EntriesOf(x) : pinging'[d] <=> (d # p.oldest /\ pinging[d])
    BY <1>1, PingFacts DEF Inv, TypeOK
  <2>2. \A x \in Bucket : \A d \in EntriesOf(x)' : pinging'[d] <=> \E q \in pings' : q.oldest = d
    BY <1>1, <1>2, <2>1, PingFacts DEF Inv, PingAccounting
  <2>3. \A q \in pings' : q.oldest \in EntriesOf(q.idx)'
    BY <1>1, <1>2, PingFacts DEF Inv, PingAccounting
  <2> QED BY <1>1, <2>2, <2>3 DEF Inv, PingAccounting
<1>5. BucketBound' /\ QueuesInjective' /\ ContactsDistinct'
  BY <1>1, <1>2 DEF Inv, BucketBound, QueuesInjective, ContactsDistinct
<1>6. Placement' /\ CandidatesFit'
  BY <1>1, <1>2 DEF Inv, Placement, CandidatesFit, Acceptable
<1> QED BY <1>3, <1>4, <1>5, <1>6 DEF Inv

LEMMA CutInv ==
  ASSUME Inv, NEW p \in pings, PingFailedCut(p)
  PROVE  Inv'
<1>1. PICK i \in DOMAIN buckets[p.idx] :
        /\ buckets[p.idx][i] = p.oldest
        /\ buckets' = [buckets EXCEPT ![p.idx] = Cut(@, i)]
  BY DEF PingFailedCut, SlotsOfEntry
<1>2. /\ contact' = [contact EXCEPT ![p.oldest] = NoContact]
      /\ pinging' = [pinging EXCEPT ![p.oldest] = FALSE]
      /\ pings' = pings \ {p}
      /\ UNCHANGED up
  BY DEF PingFailedCut
<1>3. /\ Queues'
      /\ \A x \in Bucket :
           EntriesOf(x)' = IF x = p.idx THEN EntriesOf(x) \ {p.oldest} ELSE EntriesOf(x)
  <2>1. Queues /\ p.idx \in Bucket
    BY PingFacts, InvQueues
  <2>2. /\ Queues'
        /\ \A x \in Bucket :
             EntriesOf(x)' = IF x = p.idx THEN EntriesOf(x) \ {buckets[p.idx][i]} ELSE EntriesOf(x)
    BY <1>1, <2>1, CutKeepsQueues
  <2> QED BY <1>1, <2>2
<1>4. contact \in [Entry -> Contact \cup {NoContact}] /\ pinging \in [Entry -> BOOLEAN]
  BY DEF Inv, TypeOK
<1>5. \A x \in Bucket : EntriesOf(x)' = EntriesOf(x) \ {p.oldest}
  BY <1>3, PingFacts
<1>6. \A x \in Bucket : \A d \in EntriesOf(x)' :
        d \in EntriesOf(x) /\ d # p.oldest /\ contact'[d] = contact[d] /\ pinging'[d] = pinging[d]
  <2> SUFFICES ASSUME NEW x \in Bucket, NEW d \in EntriesOf(x)'
               PROVE  /\ d \in EntriesOf(x) /\ d # p.oldest
                      /\ contact'[d] = contact[d] /\ pinging'[d] = pinging[d]
    OBVIOUS
  <2>1. d \in EntriesOf(x) /\ d # p.oldest
    BY <1>5
  <2>2. d \in Entry
    BY <2>1, PingFacts
  <2> QED BY <1>2, <1>4, <2>1, <2>2
<1>7. \A x \in Bucket : Held(x)' \subseteq Held(x)
  BY <1>6 DEF Held
<1>8. TypeOK'
  <2>1. contact' \in [Entry -> Contact \cup {NoContact}] /\ pinging' \in [Entry -> BOOLEAN]
    BY <1>2, <1>4
  <2> QED BY <1>2, <1>3, <1>7, <2>1 DEF Inv, TypeOK, Queues
<1>9. PingAccounting'
  <2>1. \A x \in Bucket : \A d \in EntriesOf(x)' : pinging'[d] <=> \E q \in pings' : q.oldest = d
    <3> SUFFICES ASSUME NEW x \in Bucket, NEW d \in EntriesOf(x)'
                 PROVE  pinging'[d] <=> \E q \in pings' : q.oldest = d
      OBVIOUS
    <3>1. d \in EntriesOf(x) /\ d # p.oldest /\ pinging'[d] = pinging[d]
      BY <1>6
    <3>2. pinging[d] <=> \E q \in pings : q.oldest = d
      BY <3>1 DEF Inv, PingAccounting
    <3> QED BY <1>2, <3>1, <3>2
  <2>2. \A q \in pings' : q.oldest \in EntriesOf(q.idx)'
    BY <1>2, <1>5, PingFacts DEF Inv, PingAccounting
  <2> QED BY <1>2, <2>1, <2>2 DEF Inv, PingAccounting
<1>10. ContactsDistinct'
  BY <1>6 DEF Inv, ContactsDistinct
<1>11. Placement'
  BY <1>7 DEF Inv, Placement, Acceptable
<1>12. CandidatesFit'
  <2>1. \A q \in pings \ {p} : contact'[q.oldest] = contact[q.oldest]
    BY <1>2, <1>4, PingFacts
  <2> QED BY <1>2, <2>1 DEF Inv, CandidatesFit, Acceptable
<1> QED BY <1>3, <1>8, <1>9, <1>10, <1>11, <1>12 DEF Inv, Queues

LEMMA ReplaceInv ==
  ASSUME Inv, NEW p \in pings, PingFailedReplace(p)
  PROVE  Inv'
<1>1. /\ SlotsOf(p.idx, p.cand) = {}
      /\ contact' = [contact EXCEPT ![p.oldest] = p.cand]
      /\ pinging' = [pinging EXCEPT ![p.oldest] = FALSE]
      /\ pings' = pings \ {p}
      /\ UNCHANGED <<up, buckets>>
  BY DEF PingFailedReplace, CandExists
<1>2. \A x \in Bucket : EntriesOf(x)' = EntriesOf(x)
  BY <1>1 DEF EntriesOf
<1>3. contact \in [Entry -> Contact \cup {NoContact}] /\ pinging \in [Entry -> BOOLEAN]
  BY DEF Inv, TypeOK
<1>4. contact'[p.oldest] = p.cand /\ ~ pinging'[p.oldest]
  BY <1>1, <1>3, PingFacts
<1>5. \A x \in Bucket : \A d \in EntriesOf(x) :
        d # p.oldest => contact'[d] = contact[d] /\ pinging'[d] = pinging[d]
  BY <1>1, <1>3, PingFacts
<1>6. \A x \in Bucket : \A c \in Held(x)' : c \in Held(x) \/ (c = p.cand /\ x = p.idx)
  BY <1>2, <1>4, <1>5, PingFacts DEF Held
<1>7. TypeOK'
  <2>1. contact' \in [Entry -> Contact \cup {NoContact}] /\ pinging' \in [Entry -> BOOLEAN]
    BY <1>1, <1>3, PingFacts
  <2>2. \A x \in Bucket : Held(x)' \subseteq Contact
    BY <1>6, PingFacts DEF Inv, TypeOK
  <2> QED BY <1>1, <2>1, <2>2 DEF Inv, TypeOK
<1>8. PingAccounting'
  <2>1. \A x \in Bucket : \A d \in EntriesOf(x)' : pinging'[d] <=> \E q \in pings' : q.oldest = d
    BY <1>1, <1>2, <1>4, <1>5, PingFacts DEF Inv, PingAccounting
  <2>2. \A q \in pings' : q.oldest \in EntriesOf(q.idx)'
    BY <1>1, <1>2, PingFacts DEF Inv, PingAccounting
  <2> QED BY <1>1, <2>1, <2>2 DEF Inv, PingAccounting
<1>9. \A x \in Bucket : p.cand \notin Held(x)
  <2>1. p.cand \notin Held(p.idx)
    BY <1>1 DEF SlotsOf, Held, EntriesOf
  <2>2. \A x \in Bucket : p.cand \in Held(x) => x = p.idx
    BY DEF Inv, Placement, CandidatesFit
  <2> QED BY <2>1, <2>2
<1>10. ContactsDistinct'
  <2>1. \A x \in Bucket : \A d \in EntriesOf(x) : contact[d] # p.cand
    BY <1>9 DEF Held
  <2> QED BY <1>2, <1>4, <1>5, <2>1 DEF Inv, ContactsDistinct
<1>11. Placement'
  BY <1>6 DEF Inv, Placement, CandidatesFit, Acceptable
<1>12. BucketBound' /\ QueuesInjective'
  BY <1>1 DEF Inv, BucketBound, QueuesInjective
<1>13. CandidatesFit'
  <2>1. \A q \in pings \ {p} : contact'[q.oldest] = contact[q.oldest]
    BY <1>1, <1>3, PingFacts
  <2> QED BY <1>1, <2>1 DEF Inv, CandidatesFit, Acceptable
<1> QED BY <1>7, <1>8, <1>10, <1>11, <1>12, <1>13 DEF Inv

\* Every step keeps the invariant.
LEMMA NextInv == Inv /\ [Next]_vars => Inv'
<1> SUFFICES ASSUME Inv, [Next]_vars PROVE Inv'
  OBVIOUS
<1>1. ASSUME UNCHANGED <<buckets, contact, pinging, pings>>, up' \subseteq Contact PROVE Inv'
  BY <1>1 DEF Inv, TypeOK, BucketBound, PingAccounting, QueuesInjective,
              ContactsDistinct, Placement, CandidatesFit, Acceptable, Held, EntriesOf
<1>2. up \subseteq Contact
  BY DEF Inv, TypeOK
<1>3. CASE UNCHANGED vars
  BY <1>1, <1>2, <1>3 DEF vars
<1>4. ASSUME NEW c \in Contact, Update(c) PROVE Inv'
  <2>1. Acceptable(c)
    BY <1>4 DEF Update
  <2>2. CASE UpdateKnown(c) BY <2>1, <2>2, KnownInv
  <2>3. CASE UpdateAppend(c) BY <2>1, <2>3, AppendInv
  <2>4. CASE UpdateDrop(c) BY <1>1, <1>2, <2>4 DEF UpdateDrop, vars
  <2>5. CASE UpdatePing(c) BY <2>1, <2>5, PingInv
  <2> QED BY <1>4, <2>2, <2>3, <2>4, <2>5 DEF Update
<1>5. ASSUME NEW p \in pings, TryReplace(p) PROVE Inv'
  BY <1>5, AnsweredInv, CutInv, ReplaceInv DEF TryReplace
<1>6. ASSUME NEW c \in Contact, Leave(c) \/ Return(c) PROVE Inv'
  BY <1>1, <1>2, <1>6 DEF Leave, Return
<1> QED BY <1>3, <1>4, <1>5, <1>6 DEF Next

\* The table's invariant holds in every reachable state: the step in which
\* update starts a ping and the later step in which tryReplace finishes it
\* leave marks, goroutines, entries and contacts consistent whatever runs in
\* between (routing.go:36-112).
THEOREM InvHolds == Spec => []Inv
<1> QED BY InitInv, NextInv, PTL DEF Spec

\* Types are respected.
THEOREM TypeCorrect == Spec => []TypeOK
<1>1. Inv => TypeOK
  BY DEF Inv
<1> QED BY <1>1, InvHolds, PTL

\* No bucket ever holds more than k peers.
THEOREM BucketsBounded == Spec => []BucketBound
<1>1. Inv => BucketBound
  BY DEF Inv
<1> QED BY <1>1, InvHolds, PTL

\* Ping marks and tryReplace goroutines correspond one to one.
THEOREM PingsAccounted == Spec => []PingAccounting
<1>1. Inv => PingAccounting
  BY DEF Inv
<1> QED BY <1>1, InvHolds, PTL

\* No contact occupies two slots of the table.
LEMMA InvNoDuplicates == Inv => NoDuplicates
<1> SUFFICES ASSUME Inv, NEW b1 \in Bucket, NEW b2 \in Bucket,
                    NEW i \in DOMAIN buckets[b1], NEW j \in DOMAIN buckets[b2],
                    contact[buckets[b1][i]] = contact[buckets[b2][j]]
             PROVE  b1 = b2 /\ i = j
  BY DEF NoDuplicates
<1>1. buckets[b1][i] \in EntriesOf(b1) /\ buckets[b2][j] \in EntriesOf(b2)
  BY DEF EntriesOf
<1>2. buckets[b1][i] = buckets[b2][j]
  BY <1>1 DEF Inv, ContactsDistinct
<1>3. b1 = b2
  BY <1>1 DEF Inv, Placement, Held
<1> QED BY <1>2, <1>3 DEF Inv, QueuesInjective

THEOREM NoDuplicatesHolds == Spec => []NoDuplicates
<1> QED BY InvHolds, InvNoDuplicates, PTL

-----------------------------------------------------------------------------
(* Refinement: the table implements PeerCache. *)

\* The capacity test on the queue is the capacity test on the set of peers.
LEMMA HeldCardinality ==
  ASSUME Inv, NEW b \in Bucket
  PROVE  Cardinality(Held(b)) = Len(buckets[b])
<1> DEFINE n == Len(buckets[b])
           f == [i \in 1..n |-> contact[buckets[b][i]]]
<1>1. n \in Nat /\ DOMAIN buckets[b] = 1..n
  BY DEF Inv, TypeOK
<1>2. IsFiniteSet(1..n) /\ Cardinality(1..n) = n
  BY <1>1, FS_Interval
<1>3. f \in Bijection(1..n, Held(b))
  <2>1. f \in [1..n -> Held(b)]
    BY <1>1 DEF Held, EntriesOf
  <2>2. \A i, j \in 1..n : f[i] = f[j] => i = j
    BY <1>1, InvNoDuplicates DEF NoDuplicates
  <2>3. \A c \in Held(b) : \E i \in 1..n : f[i] = c
    BY <1>1 DEF Held, EntriesOf
  <2> QED BY <2>1, <2>2, <2>3 DEF Bijection, Injection, Surjection, IsInjective
<1> QED BY <1>2, <1>3, FS_Bijection DEF ExistsBijection

LEMMA InitCache == Init => Cache!Init
<1> SUFFICES ASSUME Init PROVE Cache!Init
  OBVIOUS
<1>1. \A b \in Bucket : Held(b) = {}
  BY DEF Init, Held, EntriesOf
<1>2. [b \in Bucket |-> Held(b)] = [b \in Bucket |-> {}]
  BY <1>1
<1> QED BY <1>2 DEF Init, Cache!Init

\* The pending probe of goroutine p, and the two variables of PeerCache.
ProbeOf(p) == [idx |-> p.idx, old |-> contact[p.oldest], new |-> p.cand]
Peers == [b \in Bucket |-> Held(b)]
Probing == {ProbeOf(p) : p \in pings}

LEMMA CacheDefs ==
  /\ Cache!vars = <<Peers, Probing>>
  /\ \A b \in Bucket : \A c : Cache!Learn(b, c) <=>
       /\ Cardinality(Peers[b]) < K
       /\ Peers' = [Peers EXCEPT ![b] = @ \cup {c}]
       /\ Probing' = Probing
  /\ \A b \in Bucket : \A o, c : Cache!StartProbe(b, o, c) <=>
       /\ Cardinality(Peers[b]) = K
       /\ o \in Peers[b]
       /\ c \notin Peers[b]
       /\ \A q \in Probing : ~ (q.idx = b /\ q.old = o)
       /\ Probing' = Probing \cup {[idx |-> b, old |-> o, new |-> c]}
       /\ Peers' = Peers
  /\ \A q : Cache!Keep(q) <=>
       /\ Probing' = Probing \ {q}
       /\ Peers' = Peers
  /\ \A q : Cache!Replace(q) <=>
       /\ q.old \in Peers[q.idx]
       /\ Peers' = [Peers EXCEPT ![q.idx] = (@ \ {q.old}) \cup {q.new}]
       /\ Probing' = Probing \ {q}
  /\ Cache!Next <=>
       \/ \E b \in Bucket, c \in Contact : Cache!Learn(b, c)
       \/ \E b \in Bucket, o, c \in Contact : Cache!StartProbe(b, o, c)
       \/ \E q \in Probing : Cache!Keep(q) \/ Cache!Replace(q)
<1> USE DEF Peers, Probing, ProbeOf
<1>1. Cache!vars = <<Peers, Probing>>
  BY DEF Cache!vars
<1>2. ASSUME NEW b \in Bucket, NEW c
      PROVE Cache!Learn(b, c) <=>
       /\ Cardinality(Peers[b]) < K
       /\ Peers' = [Peers EXCEPT ![b] = @ \cup {c}]
       /\ Probing' = Probing
  BY DEF Cache!Learn, Cache!Cardinality, Cardinality
<1>3. ASSUME NEW b \in Bucket, NEW o, NEW c
      PROVE Cache!StartProbe(b, o, c) <=>
       /\ Cardinality(Peers[b]) = K
       /\ o \in Peers[b]
       /\ c \notin Peers[b]
       /\ \A q \in Probing : ~ (q.idx = b /\ q.old = o)
       /\ Probing' = Probing \cup {[idx |-> b, old |-> o, new |-> c]}
       /\ Peers' = Peers
  BY DEF Cache!StartProbe, Cache!Cardinality, Cardinality
<1>4. ASSUME NEW q
      PROVE Cache!Keep(q) <=> Probing' = Probing \ {q} /\ Peers' = Peers
  BY DEF Cache!Keep
<1>5. ASSUME NEW q
      PROVE Cache!Replace(q) <=>
       /\ q.old \in Peers[q.idx]
       /\ Peers' = [Peers EXCEPT ![q.idx] = (@ \ {q.old}) \cup {q.new}]
       /\ Probing' = Probing \ {q}
  BY DEF Cache!Replace
<1>6. Cache!Next <=>
       \/ \E b \in Bucket, c \in Contact : Cache!Learn(b, c)
       \/ \E b \in Bucket, o, c \in Contact : Cache!StartProbe(b, o, c)
       \/ \E q \in Probing : Cache!Keep(q) \/ Cache!Replace(q)
  BY DEF Cache!Next
<1> QED BY <1>1, <1>2, <1>3, <1>4, <1>5, <1>6

\* What each kind of step does to the abstract variables.
LEMMA KnownStutters ==
  ASSUME Inv, NEW c \in Contact, Acceptable(c), UpdateKnown(c)
  PROVE  UNCHANGED <<Peers, Probing>>
<1> DEFINE b == BucketIndex[c.id]
<1>1. PICK i \in DOMAIN buckets[b] : buckets' = [buckets EXCEPT ![b] = MoveToEnd(@, i)]
  BY DEF UpdateKnown, SlotsOf
<1>2. \A x \in Bucket : EntriesOf(x)' = EntriesOf(x)
  BY <1>1, IndexInBucket, MoveKeepsQueues, InvQueues
<1>3. UNCHANGED <<contact, pings>>
  BY DEF UpdateKnown
<1>4. \A x \in Bucket : Held(x)' = Held(x)
  BY <1>2, <1>3 DEF Held
<1> QED BY <1>3, <1>4 DEF Peers, Probing, ProbeOf

LEMMA AppendLearns ==
  ASSUME Inv, NEW c \in Contact, Acceptable(c), UpdateAppend(c)
  PROVE  Cache!Learn(BucketIndex[c.id], c)
<1> DEFINE b == BucketIndex[c.id]
<1>1. b \in Bucket
  BY IndexInBucket
<1>2. PICK e \in Entry :
        /\ contact[e] = NoContact
        /\ buckets' = [buckets EXCEPT ![b] = Append(@, e)]
        /\ contact' = [contact EXCEPT ![e] = c]
  BY DEF UpdateAppend
<1>3. HasRoom(b) /\ pings' = pings
  BY DEF UpdateAppend
<1> HIDE DEF b
<1>4. \A x \in Bucket : e \notin EntriesOf(x)
  BY <1>2, NoContactAssumption DEF Inv, TypeOK, Held
<1>5. \A x \in Bucket : EntriesOf(x)' = IF x = b THEN EntriesOf(x) \cup {e} ELSE EntriesOf(x)
  BY <1>1, <1>2, <1>3, <1>4, AppendKeepsQueues, InvQueues
<1>6. contact \in [Entry -> Contact \cup {NoContact}] /\ \A x \in Bucket : EntriesOf(x) \subseteq Entry
  BY DEF Inv, TypeOK, EntriesOf
<1>7. contact'[e] = c /\ \A x \in Bucket : \A d \in EntriesOf(x) : contact'[d] = contact[d]
  BY <1>2, <1>4, <1>6
<1>8. \A x \in Bucket : Held(x)' = IF x = b THEN Held(x) \cup {c} ELSE Held(x)
  BY <1>5, <1>7 DEF Held
<1>9. Peers' = [Peers EXCEPT ![b] = @ \cup {c}]
  BY <1>1, <1>8 DEF Peers
<1>10. Probing' = Probing
  <2>1. \A p \in pings : contact'[p.oldest] = contact[p.oldest]
    BY <1>7, PingFacts
  <2> QED BY <1>3, <2>1 DEF Probing, ProbeOf
<1>11. Cardinality(Peers[b]) < K
  BY <1>1, <1>3, HeldCardinality DEF Peers, HasRoom
<1> QED BY <1>1, <1>9, <1>10, <1>11, CacheDefs DEF b

LEMMA PingStartsProbe ==
  ASSUME Inv, NEW c \in Contact, Acceptable(c), UpdatePing(c)
  PROVE  \E o \in Contact : Cache!StartProbe(BucketIndex[c.id], o, c)
<1> DEFINE b == BucketIndex[c.id]
           o == buckets[b][1]
           q == [idx |-> b, oldest |-> o, cand |-> c]
<1>1. b \in Bucket
  BY IndexInBucket
<1>2. /\ SlotsOf(b, c) = {}
      /\ ~ HasRoom(b)
      /\ ~ pinging[o]
      /\ buckets' = [buckets EXCEPT ![b] = MoveToEnd(@, 1)]
      /\ pings' = pings \cup {q}
      /\ contact' = contact
  BY DEF UpdatePing, HeadPinged
<1>3. Len(buckets[b]) \in Nat /\ DOMAIN buckets[b] = 1..Len(buckets[b]) /\ Len(buckets[b]) = K
  BY <1>1, <1>2, KAssumption DEF HasRoom, Inv, TypeOK, BucketBound
<1>4. 1 \in DOMAIN buckets[b]
  BY <1>3, KAssumption
<1>5. o \in EntriesOf(b)
  BY <1>4 DEF EntriesOf
<1>6. \A x \in Bucket : EntriesOf(x)' = EntriesOf(x)
  BY <1>1, <1>2, <1>4, MoveKeepsQueues, InvQueues
<1> HIDE DEF o
<1>7. Peers' = Peers
  BY <1>2, <1>6 DEF Peers, Held
<1>8. q.idx = b /\ q.oldest = o /\ q.cand = c
  OBVIOUS
<1> HIDE DEF b, q
<1>9. ProbeOf(q) = [idx |-> b, old |-> contact[o], new |-> c]
  BY <1>8 DEF ProbeOf
<1>10. Probing' = Probing \cup {[idx |-> b, old |-> contact[o], new |-> c]}
  <2>1. Probing' = {ProbeOf(p) : p \in pings'}
    BY <1>2 DEF Probing, ProbeOf
  <2> QED BY <1>2, <1>9, <2>1 DEF Probing
<1>11. contact[o] \in Peers[b] /\ contact[o] \in Contact
  BY <1>1, <1>5 DEF Peers, Held, Inv, TypeOK
<1>12. c \notin Peers[b]
  BY <1>1, <1>2 DEF Peers, SlotsOf, Held, EntriesOf
<1>13. \A r \in Probing : ~ (r.idx = b /\ r.old = contact[o])
  <2> SUFFICES ASSUME NEW p \in pings, p.idx = b, contact[p.oldest] = contact[o] PROVE FALSE
    BY DEF Probing, ProbeOf
  <2>1. p.oldest = o
    BY <1>1, <1>5, PingFacts DEF Inv, ContactsDistinct
  <2> QED BY <1>1, <1>2, <1>5, <2>1 DEF Inv, PingAccounting
<1>14. Cardinality(Peers[b]) = K
  BY <1>1, <1>3, HeldCardinality DEF Peers
<1>15. Cache!StartProbe(b, contact[o], c)
  BY <1>1, <1>7, <1>10, <1>11, <1>12, <1>13, <1>14, CacheDefs
<1> QED BY <1>11, <1>15 DEF b

\* The probes of the other goroutines are other probes, because an entry is
\* pinged by one goroutine at a time and contacts are held once.
LEMMA ProbingLess ==
  ASSUME Inv, NEW p \in pings, pings' = pings \ {p},
         \A q \in pings \ {p} : contact'[q.oldest] = contact[q.oldest]
  PROVE  Probing' = Probing \ {ProbeOf(p)}
<1>1. Probing' = {ProbeOf(q) : q \in pings \ {p}}
  BY DEF Probing, ProbeOf
<1>2. ASSUME NEW q \in pings \ {p} PROVE ProbeOf(q) # ProbeOf(p)
  <2>1. contact[q.oldest] # contact[p.oldest]
    <3>1. q.oldest \in EntriesOf(q.idx) /\ q.idx \in Bucket /\ q.oldest # p.oldest
      BY PingFacts DEF Inv, PingAccounting
    <3> QED BY <3>1, PingFacts DEF Inv, ContactsDistinct
  <2> QED BY <2>1 DEF ProbeOf
<1> QED BY <1>1, <1>2 DEF Probing

LEMMA TryReplaceRefines ==
  ASSUME Inv, NEW p \in pings, TryReplace(p)
  PROVE  \E r \in Probing : Cache!Keep(r) \/ Cache!Replace(r)
<1>1. contact \in [Entry -> Contact \cup {NoContact}]
  BY DEF Inv, TypeOK
<1>2. \A q \in pings \ {p} : q.oldest # p.oldest /\ q.oldest \in Entry
  BY PingFacts
<1>3. contact[p.oldest] \in Held(p.idx) /\ \A x \in Bucket : contact[p.oldest] \in Held(x) => x = p.idx
  <2>1. \A x \in Bucket : contact[p.oldest] \in Held(x) => BucketIndex[contact[p.oldest].id] = x
    BY DEF Inv, Placement
  <2>2. contact[p.oldest] \in Held(p.idx)
    BY PingFacts DEF Held
  <2> QED BY <2>1, <2>2, PingFacts
<1>4. \A x \in Bucket : \A e \in EntriesOf(x) : contact[e] = contact[p.oldest] => e = p.oldest
  BY PingFacts DEF Inv, ContactsDistinct
<1>5. PICK r \in Probing : r = ProbeOf(p)
  BY DEF Probing
<1> DEFINE old == contact[p.oldest]
<1>6. r.idx = p.idx /\ r.old = old /\ r.new = p.cand
  BY <1>5 DEF ProbeOf
<1> HIDE DEF old
<1>7. CASE PingAnswered(p)
  <2>1. Peers' = Peers
    BY <1>7 DEF PingAnswered, Peers, Held, EntriesOf
  <2>2. Probing' = Probing \ {r}
    BY <1>5, <1>7, ProbingLess DEF PingAnswered
  <2>3. Cache!Keep(r)
    BY <2>1, <2>2, CacheDefs
  <2> QED BY <2>3
<1>8. CASE PingFailedCut(p)
  <2>1. PICK i \in DOMAIN buckets[p.idx] :
          /\ buckets[p.idx][i] = p.oldest
          /\ buckets' = [buckets EXCEPT ![p.idx] = Cut(@, i)]
    BY <1>8 DEF PingFailedCut, SlotsOfEntry
  <2>2. contact' = [contact EXCEPT ![p.oldest] = NoContact] /\ pings' = pings \ {p}
    BY <1>8 DEF PingFailedCut
  <2>3. \A x \in Bucket : EntriesOf(x)' = IF x = p.idx THEN EntriesOf(x) \ {p.oldest} ELSE EntriesOf(x)
    <3>1. Queues /\ p.idx \in Bucket
      BY PingFacts, InvQueues
    <3>2. \A x \in Bucket : EntriesOf(x)' = IF x = p.idx THEN EntriesOf(x) \ {buckets[p.idx][i]} ELSE EntriesOf(x)
      BY <2>1, <3>1, CutKeepsQueues
    <3> QED BY <2>1, <3>2
  <2>4. \A x \in Bucket : \A e \in EntriesOf(x) : e # p.oldest => contact'[e] = contact[e]
    BY <1>1, <2>2, PingFacts
  <2>5. p.cand \in Held(p.idx)
    BY <1>8 DEF PingFailedCut, CandExists, SlotsOf, Held, EntriesOf
  <2>6. p.cand # contact[p.oldest]
    BY DEF Inv, CandidatesFit
  <2>7. \A x \in Bucket : Held(x)' = IF x = p.idx THEN (Held(x) \ {contact[p.oldest]}) \cup {p.cand} ELSE Held(x)
    <3>1. \A e \in EntriesOf(p.idx) : e # p.oldest => contact[e] # contact[p.oldest]
      BY <1>4, PingFacts
    <3>2. Held(p.idx)' = (Held(p.idx) \ {contact[p.oldest]}) \cup {p.cand}
      <4>1. Held(p.idx)' = {contact[e] : e \in EntriesOf(p.idx) \ {p.oldest}}
        BY <2>3, <2>4, PingFacts DEF Held
      <4>2. Held(p.idx)' = Held(p.idx) \ {contact[p.oldest]}
        BY <3>1, <4>1 DEF Held
      <4> QED BY <2>5, <2>6, <4>2
    <3>3. ASSUME NEW x \in Bucket, x # p.idx PROVE Held(x)' = Held(x)
      <4>1. p.oldest \notin EntriesOf(x)
        BY <1>3, <3>3 DEF Held
      <4> QED BY <2>3, <2>4, <3>3, <4>1 DEF Held
    <3> QED BY <3>2, <3>3
  <2>8. Peers' = [Peers EXCEPT ![r.idx] = (@ \ {r.old}) \cup {r.new}]
    BY <1>6, <2>7, PingFacts DEF Peers, old
  <2>9. Probing' = Probing \ {r}
    BY <1>5, <1>1, <1>2, <2>2, ProbingLess
  <2>10. r.old \in Peers[r.idx]
    BY <1>3, <1>6, PingFacts DEF Peers, old
  <2>11. Cache!Replace(r)
    BY <2>8, <2>9, <2>10, CacheDefs
  <2> QED BY <2>11
<1>9. CASE PingFailedReplace(p)
  <2>1. contact' = [contact EXCEPT ![p.oldest] = p.cand] /\ pings' = pings \ {p} /\ buckets' = buckets
    BY <1>9 DEF PingFailedReplace
  <2>2. \A x \in Bucket : EntriesOf(x)' = EntriesOf(x)
    BY <2>1 DEF EntriesOf
  <2>3. contact'[p.oldest] = p.cand /\ \A x \in Bucket : \A e \in EntriesOf(x) : e # p.oldest => contact'[e] = contact[e]
    BY <1>1, <2>1, PingFacts
  <2>4. \A x \in Bucket : Held(x)' = IF x = p.idx THEN (Held(x) \ {contact[p.oldest]}) \cup {p.cand} ELSE Held(x)
    BY <1>3, <1>4, <2>2, <2>3, PingFacts DEF Held
  <2>5. Peers' = [Peers EXCEPT ![r.idx] = (@ \ {r.old}) \cup {r.new}]
    BY <1>6, <2>4, PingFacts DEF Peers, old
  <2>6. Probing' = Probing \ {r}
    BY <1>5, <1>1, <1>2, <2>1, ProbingLess
  <2>7. r.old \in Peers[r.idx]
    BY <1>3, <1>6, PingFacts DEF Peers, old
  <2>8. Cache!Replace(r)
    BY <2>5, <2>6, <2>7, CacheDefs
  <2> QED BY <2>8
<1> QED BY <1>7, <1>8, <1>9 DEF TryReplace

LEMMA StepRefines == Inv /\ [Next]_vars => [Cache!Next]_Cache!vars
<1> SUFFICES ASSUME Inv, [Next]_vars PROVE Cache!Next \/ UNCHANGED <<Peers, Probing>>
  BY DEF Cache!vars, Peers, Probing, ProbeOf
<1>1. ASSUME UNCHANGED <<buckets, contact, pings>> PROVE UNCHANGED <<Peers, Probing>>
  BY <1>1 DEF Peers, Probing, ProbeOf, Held, EntriesOf
<1>2. CASE UNCHANGED vars
  BY <1>1, <1>2 DEF vars
<1>3. ASSUME NEW c \in Contact, Update(c) PROVE Cache!Next \/ UNCHANGED <<Peers, Probing>>
  <2>1. Acceptable(c) /\ BucketIndex[c.id] \in Bucket
    BY <1>3, IndexInBucket DEF Update
  <2>2. PICK b \in Bucket : b = BucketIndex[c.id]
    BY <2>1
  <2>3. CASE UpdateKnown(c) BY <2>1, <2>3, KnownStutters
  <2>4. CASE UpdateAppend(c)
    <3>1. Cache!Learn(b, c) BY <2>1, <2>2, <2>4, AppendLearns
    <3> QED BY <3>1, CacheDefs
  <2>5. CASE UpdateDrop(c) BY <1>1, <2>5 DEF UpdateDrop, vars
  <2>6. CASE UpdatePing(c)
    <3>1. \E o \in Contact : Cache!StartProbe(b, o, c) BY <2>1, <2>2, <2>6, PingStartsProbe
    <3> QED BY <3>1, CacheDefs
  <2> QED BY <1>3, <2>3, <2>4, <2>5, <2>6 DEF Update
<1>4. ASSUME NEW p \in pings, TryReplace(p) PROVE Cache!Next
  BY <1>4, TryReplaceRefines, CacheDefs
<1>5. ASSUME NEW c \in Contact, Leave(c) \/ Return(c) PROVE UNCHANGED <<Peers, Probing>>
  BY <1>1, <1>5 DEF Leave, Return
<1> QED BY <1>2, <1>3, <1>4, <1>5 DEF Next

\* The routing table is a peer cache: whatever the interleaving, a peer leaves
\* a bucket only because a ping of that very peer failed, and in exchange for
\* the peer whose arrival started the ping (routing.go:72-111).
THEOREM ImplementsCacheHolds == Spec => ImplementsCache
<1> QED BY InvHolds, InitCache, StepRefines, PTL DEF Spec, ImplementsCache, Cache!Spec

-----------------------------------------------------------------------------
(* What a node knows of a swarm: somebody of every bucket it has heard from. *)

\* A bucket in which there is a peer is never empty again.
StaysKnown == [][\A b \in Bucket : Held(b) # {} => Held(b)' # {}]_vars

\* After an update with a peer, its bucket holds it or is full.
GetsKnown ==
  [][\A c \in Contact : Update(c) =>
       LET b == BucketIndex[c.id] IN c \in Held(b)' \/ Cardinality(Held(b)') = K]_vars

LEMMA StepStaysKnown ==
  ASSUME Inv, [Next]_vars, NEW b \in Bucket, Held(b) # {}
  PROVE  Held(b)' # {}
<1>1. Cache!Next \/ UNCHANGED <<Peers, Probing>>
  BY StepRefines DEF Cache!vars, Peers, Probing, ProbeOf
<1>2. Peers[b] = Held(b) /\ Peers'[b] = Held(b)' /\ DOMAIN Peers = Bucket
  BY DEF Peers
<1>3. ASSUME NEW x \in Bucket, NEW c \in Contact, Cache!Learn(x, c)
      PROVE  Peers'[b] # {}
  <2>1. Peers' = [Peers EXCEPT ![x] = @ \cup {c}]
    BY <1>3, CacheDefs
  <2> QED BY <1>2, <2>1
<1>4. ASSUME NEW x \in Bucket, NEW o \in Contact, NEW c \in Contact, Cache!StartProbe(x, o, c)
      PROVE  Peers'[b] # {}
  BY <1>2, <1>4, CacheDefs
<1>5. ASSUME NEW q \in Probing, Cache!Keep(q) \/ Cache!Replace(q)
      PROVE  Peers'[b] # {}
  <2>1. Peers' = Peers \/ Peers' = [Peers EXCEPT ![q.idx] = (@ \ {q.old}) \cup {q.new}]
    BY <1>5, CacheDefs
  <2> QED BY <1>2, <2>1
<1>6. Peers'[b] # {}
  BY <1>1, <1>2, <1>3, <1>4, <1>5, CacheDefs
<1> QED BY <1>2, <1>6

LEMMA UpdateGetsKnown ==
  ASSUME Inv, NEW c \in Contact, Update(c)
  PROVE  c \in Held(BucketIndex[c.id])' \/ Cardinality(Held(BucketIndex[c.id])') = K
<1>1. PICK b \in Bucket : b = BucketIndex[c.id]
  BY IndexInBucket DEF Update
<1>2. Acceptable(c) /\ DOMAIN Peers = Bucket /\ Peers[b] = Held(b) /\ Peers'[b] = Held(b)'
  BY DEF Update, Peers
<1>3. ASSUME UpdateKnown(c)
      PROVE  c \in Held(b)'
  <2>1. Held(b)' = Held(b)
    BY <1>2, <1>3, KnownStutters
  <2>2. c \in Held(b)
    BY <1>1, <1>3 DEF UpdateKnown, SlotsOf, Held, EntriesOf
  <2> QED BY <2>1, <2>2
<1>4. ASSUME UpdateAppend(c)
      PROVE  c \in Held(b)'
  <2>1. Peers' = [Peers EXCEPT ![b] = @ \cup {c}]
    BY <1>1, <1>2, <1>4, AppendLearns, CacheDefs
  <2> QED BY <1>2, <2>1
<1>5. ASSUME UpdateDrop(c) \/ UpdatePing(c)
      PROVE  Cardinality(Held(b)') = K
  <2>1. Held(b)' = Held(b)
    <3>1. CASE UpdateDrop(c)
      BY <3>1 DEF UpdateDrop, vars, Held, EntriesOf
    <3>2. CASE UpdatePing(c)
      <4>1. PICK o : Cache!StartProbe(b, o, c)
        BY <1>1, <1>2, <3>2, PingStartsProbe
      <4> QED BY <1>2, <4>1, CacheDefs
    <3> QED BY <1>5, <3>1, <3>2
  <2>2. Len(buckets[b]) \in Nat /\ Len(buckets[b]) >= K /\ Len(buckets[b]) <= K
    BY <1>1, <1>5, KAssumption DEF UpdateDrop, UpdatePing, HasRoom, Inv, TypeOK, BucketBound
  <2>3. Cardinality(Held(b)) = K
    BY <2>2, HeldCardinality, KAssumption
  <2> QED BY <2>1, <2>3
<1> QED BY <1>1, <1>3, <1>4, <1>5 DEF Update

\* Once a node has heard from anybody of a bucket, there is somebody in it for
\* ever, however many peers are evicted: tryReplace only ever cuts an entry out
\* when the candidate is in the bucket.  And whoever it hears from is in the
\* table afterwards, or K others of the bucket are (routing.go:36-111).  These are
\* what the lookups of LookupProofs need of a table: Covers, and FullTables as
\* long as nobody goes.
THEOREM BucketsStayKnown == Spec => StaysKnown /\ GetsKnown
<1>1. Inv /\ [Next]_vars => [\A b \in Bucket : Held(b) # {} => Held(b)' # {}]_vars
  BY StepStaysKnown
<1>2. Inv /\ [Next]_vars =>
        [\A c \in Contact : Update(c) =>
           LET b == BucketIndex[c.id] IN c \in Held(b)' \/ Cardinality(Held(b)') = K]_vars
  BY UpdateGetsKnown
<1> QED BY <1>1, <1>2, InvHolds, PTL DEF Spec, StaysKnown, GetsKnown

\* Held contacts are in the bucket of their distance, and none of them is this
\* node's, the zero identifier or without an address (routing.go:36-40, 96-111).
THEOREM PlacementHolds == Spec => []Placement
<1>1. Inv => Placement
  BY DEF Inv
<1> QED BY <1>1, InvHolds, PTL

-----------------------------------------------------------------------------
(* Progress: how a dead peer goes. *)

\* A slot other than the one that is moved keeps its place if it is in front
\* of that one, and comes one place forward if it is behind it.
LEMMA MoveShifts ==
  ASSUME NEW S, NEW s \in Seq(S), NEW i \in DOMAIN s, NEW k \in DOMAIN s, k # i
  PROVE  \E j \in DOMAIN MoveToEnd(s, i) :
           /\ MoveToEnd(s, i)[j] = s[k]
           /\ j = IF k < i THEN k ELSE k - 1
<1> DEFINE n == Len(s)
<1>1. n \in Nat /\ DOMAIN s = 1..n
  OBVIOUS
<1>2. MoveToEnd(s, i) = [j \in 1..n |-> IF j < i THEN s[j] ELSE IF j < n THEN s[j + 1] ELSE s[i]]
  BY DEF MoveToEnd
<1> HIDE DEF n
<1>3. CASE k < i
  BY <1>1, <1>2, <1>3
<1>4. CASE k > i
  <2>1. k - 1 \in 1..n /\ ~ (k - 1 < i) /\ k - 1 < n /\ (k - 1) + 1 = k /\ ~ (k < i)
    BY <1>1, <1>4
  <2>2. MoveToEnd(s, i)[k - 1] = s[k]
    BY <1>2, <2>1
  <2> QED BY <1>2, <2>1, <2>2
<1> QED BY <1>1, <1>3, <1>4

LEMMA CutShifts ==
  ASSUME NEW S, NEW s \in Seq(S), NEW i \in DOMAIN s, NEW k \in DOMAIN s, k # i
  PROVE  \E j \in DOMAIN Cut(s, i) :
           /\ Cut(s, i)[j] = s[k]
           /\ j = IF k < i THEN k ELSE k - 1
<1> DEFINE n == Len(s)
<1>1. n \in Nat /\ DOMAIN s = 1..n
  OBVIOUS
<1>2. Cut(s, i) = [j \in 1..(n - 1) |-> IF j < i THEN s[j] ELSE s[j + 1]]
  BY DEF Cut
<1> HIDE DEF n
<1>3. CASE k < i
  <2>1. k \in 1..(n - 1)
    BY <1>1, <1>3
  <2> QED BY <1>2, <1>3, <2>1
<1>4. CASE k > i
  <2>1. k - 1 \in 1..(n - 1) /\ ~ (k - 1 < i) /\ (k - 1) + 1 = k /\ ~ (k < i)
    BY <1>1, <1>4
  <2>2. Cut(s, i)[k - 1] = s[k]
    BY <1>2, <2>1
  <2> QED BY <1>2, <2>1, <2>2
<1> QED BY <1>1, <1>3, <1>4

\* The peer of entry e is gone from bucket b, or its ping is still under way.
GoneOrPinged(b, e) ==
  \/ contact[e] \notin Held(b)'
  \/ e \in EntriesOf(b)' /\ contact'[e] = contact[e] /\ pinging'[e]

\* Entry e, which was in slot i of bucket b, is still waiting for its turn, no
\* further behind than before, and further in front if a ping has started.
Waits(b, i, e) ==
  /\ contact'[e] = contact[e]
  /\ ~ pinging'[e]
  /\ \E j \in DOMAIN buckets'[b] :
       buckets'[b][j] = e /\ (IF PingStarts(b) THEN j < i ELSE j <= i)

\* The turn of entry e has come: it was at the head and is being pinged.
IsPinged(b, i, e) ==
  i = 1 /\ e \in EntriesOf(b)' /\ contact'[e] = contact[e] /\ pinging'[e]

\* A peer that does not answer only comes forward in its bucket: one place at
\* least for every ping that is started there, until it is pinged itself; and
\* that ping ends with the peer out of the bucket.  So K pings of a bucket, and
\* the return of the last of them, are enough to get rid of it, whatever the
\* other peers and their messages do meanwhile (routing.go:48-73, 98-111).
DeadComesForward ==
  [][\A b \in Bucket : \A i \in DOMAIN buckets[b] :
       LET e == buckets[b][i] IN
       contact[e] \notin up =>
         IF pinging[e] THEN GoneOrPinged(b, e) ELSE IsPinged(b, i, e) \/ Waits(b, i, e)]_vars

\* What the steps below need to know of slot i of bucket b and its entry e.
LEMMA SlotFacts ==
  ASSUME Inv, NEW b \in Bucket, NEW i \in DOMAIN buckets[b]
  PROVE  /\ buckets[b] \in Seq(Entry)
         /\ buckets[b][i] \in Entry /\ buckets[b][i] \in EntriesOf(b)
         /\ contact[buckets[b][i]] \in Contact
         /\ i \in Nat
         /\ \A x \in Bucket : buckets[b][i] \in EntriesOf(x) => x = b
         /\ \A x \in Bucket : \A d \in EntriesOf(x) :
              contact[d] = contact[buckets[b][i]] => d = buckets[b][i]
         /\ \A k \in DOMAIN buckets[b] : buckets[b][k] = buckets[b][i] => k = i
         /\ pinging[buckets[b][i]] <=> \E p \in pings : p.oldest = buckets[b][i]
<1>1. buckets[b] \in Seq(Entry)
  BY DEF Inv, TypeOK
<1>2. buckets[b][i] \in Entry /\ buckets[b][i] \in EntriesOf(b) /\ i \in Nat
  BY <1>1 DEF EntriesOf
<1>3. contact[buckets[b][i]] \in Contact
  BY <1>2 DEF Inv, TypeOK, Held
<1>4. \A x \in Bucket : buckets[b][i] \in EntriesOf(x) => x = b
  BY <1>2 DEF Inv, Placement, Held
<1> QED BY <1>1, <1>2, <1>3, <1>4 DEF Inv, ContactsDistinct, QueuesInjective, PingAccounting

\* A known peer that sends a message makes room in front of it.
LEMMA KnownForward ==
  ASSUME Inv, NEW c \in Contact, Acceptable(c), UpdateKnown(c), c \in up,
         NEW b \in Bucket, NEW i \in DOMAIN buckets[b], NEW e, e = buckets[b][i], contact[e] \notin up
  PROVE  /\ e \in EntriesOf(b)' /\ contact'[e] = contact[e] /\ pinging'[e] = pinging[e]
         /\ \E j \in DOMAIN buckets'[b] : buckets'[b][j] = e /\ j <= i
<1> DEFINE a == BucketIndex[c.id]
<1>1. a \in Bucket
  BY IndexInBucket
<1>2. PICK k \in DOMAIN buckets[a] :
        contact[buckets[a][k]] = c /\ buckets' = [buckets EXCEPT ![a] = MoveToEnd(@, k)]
  BY DEF UpdateKnown, SlotsOf
<1>3. UNCHANGED <<contact, pinging>>
  BY DEF UpdateKnown
<1> HIDE DEF a
<1>4. buckets'[b] = IF b = a THEN MoveToEnd(buckets[b], k) ELSE buckets[b]
  BY <1>2 DEF Inv, TypeOK
<1>5. \E j \in DOMAIN buckets'[b] : buckets'[b][j] = e /\ j <= i
  <2>1. CASE b # a
    BY <1>4, <2>1, SlotFacts
  <2>2. CASE b = a
    <3>1. k # i
      BY <1>2, <2>2
    <3>2. k \in Nat /\ i \in Nat
      BY <1>2, <2>2, SlotFacts
    <3>3. PICK j \in DOMAIN buckets'[b] :
            buckets'[b][j] = buckets[b][i] /\ j = IF i < k THEN i ELSE i - 1
      BY <1>2, <1>4, <2>2, <3>1, SlotFacts, MoveShifts
    <3> QED BY <3>2, <3>3
  <2> QED BY <2>1, <2>2
<1> QED BY <1>3, <1>5 DEF EntriesOf

\* A new peer comes in at the end.
LEMMA AppendForward ==
  ASSUME Inv, NEW c \in Contact, Acceptable(c), UpdateAppend(c),
         NEW b \in Bucket, NEW i \in DOMAIN buckets[b], NEW e, e = buckets[b][i]
  PROVE  /\ e \in EntriesOf(b)' /\ contact'[e] = contact[e] /\ pinging'[e] = pinging[e]
         /\ \E j \in DOMAIN buckets'[b] : buckets'[b][j] = e /\ j <= i
<1> DEFINE a == BucketIndex[c.id]
<1>1. PICK d \in Entry :
        /\ contact[d] = NoContact
        /\ buckets' = [buckets EXCEPT ![a] = Append(@, d)]
        /\ contact' = [contact EXCEPT ![d] = c]
        /\ pinging' = [pinging EXCEPT ![d] = FALSE]
  BY DEF UpdateAppend
<1> HIDE DEF a
<1>2. d # e
  BY <1>1, SlotFacts, NoContactAssumption
<1>3. contact'[e] = contact[e] /\ pinging'[e] = pinging[e]
  BY <1>1, <1>2, SlotFacts DEF Inv, TypeOK
<1>4. buckets'[b] = IF b = a THEN Append(buckets[b], d) ELSE buckets[b]
  BY <1>1 DEF Inv, TypeOK
<1>5. i \in DOMAIN buckets'[b] /\ buckets'[b][i] = e /\ i <= i
  BY <1>4, SlotFacts
<1> QED BY <1>3, <1>5 DEF EntriesOf

\* A ping that starts in the bucket takes the peer at the head to the end,
\* marked, and everybody else one place forward.
LEMMA PingForward ==
  ASSUME Inv, NEW c \in Contact, Acceptable(c), UpdatePing(c),
         NEW b \in Bucket, NEW i \in DOMAIN buckets[b], NEW e, e = buckets[b][i]
  PROVE  /\ e \in EntriesOf(b)' /\ contact'[e] = contact[e]
         /\ pinging[e] => pinging'[e]
         /\ BucketIndex[c.id] = b /\ i = 1 => pinging'[e]
         /\ BucketIndex[c.id] # b \/ i # 1 =>
              /\ pinging'[e] = pinging[e]
              /\ \E j \in DOMAIN buckets'[b] :
                   buckets'[b][j] = e /\ (IF BucketIndex[c.id] = b THEN j < i ELSE j <= i)
<1> DEFINE a == BucketIndex[c.id]
           o == buckets[a][1]
<1>1. a \in Bucket
  BY IndexInBucket
<1>2. /\ ~ HasRoom(a)
      /\ pinging' = [pinging EXCEPT ![o] = TRUE]
      /\ buckets' = [buckets EXCEPT ![a] = MoveToEnd(@, 1)]
      /\ contact' = contact
  BY DEF UpdatePing
<1>3. 1 \in DOMAIN buckets[a]
  <2>1. buckets[a] \in Seq(Entry) /\ Len(buckets[a]) \in Nat
    BY <1>1 DEF Inv, TypeOK
  <2>2. ~ (Len(buckets[a]) < K)
    BY <1>2 DEF HasRoom
  <2> QED BY <2>1, <2>2, KAssumption
<1>4. o = e <=> a = b /\ i = 1
  BY <1>1, <1>3, SlotFacts
<1>5. pinging'[e] = IF a = b /\ i = 1 THEN TRUE ELSE pinging[e]
  BY <1>2, <1>4, SlotFacts DEF Inv, TypeOK
<1> HIDE DEF o
<1>6. EntriesOf(b)' = EntriesOf(b)
  BY <1>1, <1>2, <1>3, MoveKeepsQueues, InvQueues
<1> HIDE DEF a
<1>7. buckets'[b] = IF b = a THEN MoveToEnd(buckets[b], 1) ELSE buckets[b]
  BY <1>2 DEF Inv, TypeOK
<1>8. ASSUME a # b \/ i # 1
      PROVE  \E j \in DOMAIN buckets'[b] :
               buckets'[b][j] = e /\ (IF a = b THEN j < i ELSE j <= i)
  <2>1. CASE a # b
    BY <1>7, <2>1, SlotFacts
  <2>2. CASE a = b
    <3>1. i \in Nat /\ ~ (i < 1)
      BY SlotFacts
    <3>2. PICK j \in DOMAIN buckets'[b] :
            buckets'[b][j] = buckets[b][i] /\ j = IF i < 1 THEN i ELSE i - 1
      BY <1>3, <1>7, <1>8, <2>2, SlotFacts, MoveShifts
    <3> QED BY <2>2, <3>1, <3>2
  <2> QED BY <2>1, <2>2
<1>9. e \in EntriesOf(b)' /\ contact'[e] = contact[e]
  BY <1>2, <1>6, SlotFacts
<1> QED BY <1>5, <1>8, <1>9 DEF a

\* The return of a ping: of the peer itself, which is gone then, or of another
\* one, which may leave its slot to those behind it.
LEMMA ReturnForward ==
  ASSUME Inv, NEW p \in pings, TryReplace(p),
         NEW b \in Bucket, NEW i \in DOMAIN buckets[b], NEW e, e = buckets[b][i], contact[e] \notin up
  PROVE  IF p.oldest = e THEN contact[e] \notin Held(b)'
         ELSE /\ e \in EntriesOf(b)' /\ contact'[e] = contact[e] /\ pinging'[e] = pinging[e]
              /\ \E j \in DOMAIN buckets'[b] : buckets'[b][j] = e /\ j <= i
<1>1. /\ contact \in [Entry -> Contact \cup {NoContact}]
      /\ pinging \in [Entry -> BOOLEAN]
      /\ buckets \in [Bucket -> Seq(Entry)]
  BY DEF Inv, TypeOK
<1>2. e \in Entry /\ e \in EntriesOf(b) /\ \A d \in EntriesOf(b) : contact[d] = contact[e] => d = e
  BY SlotFacts
<1>3. \A d \in EntriesOf(b) : d \in Entry
  BY PingFacts
<1>4. p.oldest = e => p.idx = b
  BY <1>2, PingFacts
<1>5. i \in DOMAIN buckets[b] /\ buckets[b][i] = e /\ i <= i
  BY SlotFacts
<1>6. CASE PingAnswered(p)
  <2>1. p.oldest # e /\ pinging' = [pinging EXCEPT ![p.oldest] = FALSE] /\ buckets' = buckets /\ contact' = contact
    BY <1>6 DEF PingAnswered
  <2>2. pinging'[e] = pinging[e]
    BY <1>1, <1>2, <2>1
  <2> QED BY <1>5, <2>1, <2>2 DEF EntriesOf
<1>7. CASE PingFailedCut(p)
  <2>1. PICK k \in DOMAIN buckets[p.idx] :
          /\ buckets[p.idx][k] = p.oldest
          /\ buckets' = [buckets EXCEPT ![p.idx] = Cut(@, k)]
    BY <1>7 DEF PingFailedCut, SlotsOfEntry
  <2>2. /\ contact' = [contact EXCEPT ![p.oldest] = NoContact]
        /\ pinging' = [pinging EXCEPT ![p.oldest] = FALSE]
    BY <1>7 DEF PingFailedCut
  <2>3. \A d \in Entry : d # p.oldest => contact'[d] = contact[d] /\ pinging'[d] = pinging[d]
    BY <1>1, <2>2
  <2>4. \A x \in Bucket : EntriesOf(x)' = IF x = p.idx THEN EntriesOf(x) \ {p.oldest} ELSE EntriesOf(x)
    <3>1. Queues /\ p.idx \in Bucket
      BY PingFacts, InvQueues
    <3>2. \A x \in Bucket : EntriesOf(x)' = IF x = p.idx THEN EntriesOf(x) \ {buckets[p.idx][k]} ELSE EntriesOf(x)
      BY <2>1, <3>1, CutKeepsQueues
    <3> QED BY <2>1, <3>2
  <2>5. CASE p.oldest = e
    <3>1. EntriesOf(b)' = EntriesOf(b) \ {e}
      BY <1>4, <2>4, <2>5
    <3>2. \A d \in EntriesOf(b) \ {e} : contact'[d] # contact[e]
      BY <1>2, <1>3, <2>3, <2>5
    <3> QED BY <2>5, <3>1, <3>2 DEF Held
  <2>6. CASE p.oldest # e
    <3>1. e \in EntriesOf(b)' /\ contact'[e] = contact[e] /\ pinging'[e] = pinging[e]
      BY <1>2, <2>3, <2>4, <2>6
    <3>2. buckets'[b] = IF b = p.idx THEN Cut(buckets[b], k) ELSE buckets[b]
      BY <1>1, <2>1
    <3>3. \E j \in DOMAIN buckets'[b] : buckets'[b][j] = e /\ j <= i
      <4>1. CASE b # p.idx
        BY <1>5, <3>2, <4>1
      <4>2. CASE b = p.idx
        <5>1. k # i /\ k \in DOMAIN buckets[b]
          BY <2>1, <2>6, <4>2
        <5>2. buckets[b] \in Seq(Entry) /\ k \in Nat /\ i \in Nat
          BY <5>1, SlotFacts
        <5>3. PICK j \in DOMAIN buckets'[b] :
                buckets'[b][j] = buckets[b][i] /\ j = IF i < k THEN i ELSE i - 1
          BY <3>2, <4>2, <5>1, <5>2, CutShifts
        <5> QED BY <5>2, <5>3
      <4> QED BY <4>1, <4>2
    <3> QED BY <2>6, <3>1, <3>3
  <2> QED BY <2>5, <2>6
<1>8. CASE PingFailedReplace(p)
  <2>1. /\ contact' = [contact EXCEPT ![p.oldest] = p.cand]
        /\ pinging' = [pinging EXCEPT ![p.oldest] = FALSE]
        /\ buckets' = buckets
    BY <1>8 DEF PingFailedReplace
  <2>2. /\ \A d \in Entry : d # p.oldest => contact'[d] = contact[d] /\ pinging'[d] = pinging[d]
        /\ contact'[p.oldest] = p.cand
    BY <1>1, <2>1, PingFacts
  <2>3. p.cand # contact[p.oldest]
    BY DEF Inv, CandidatesFit
  <2>4. EntriesOf(b)' = EntriesOf(b)
    BY <2>1 DEF EntriesOf
  <2>5. CASE p.oldest = e
    <3>1. \A d \in EntriesOf(b) : contact'[d] # contact[e]
      BY <1>2, <1>3, <2>2, <2>3, <2>5
    <3> QED BY <2>4, <2>5, <3>1 DEF Held
  <2>6. CASE p.oldest # e
    BY <1>2, <1>5, <2>1, <2>2, <2>4, <2>6
  <2> QED BY <2>5, <2>6
<1> QED BY <1>6, <1>7, <1>8 DEF TryReplace

\* One step, seen from slot i of bucket b and the dead peer in it.
LEMMA ComesForward ==
  ASSUME Inv, Next, NEW b \in Bucket, NEW i \in DOMAIN buckets[b],
         NEW e, e = buckets[b][i], contact[e] \notin up
  PROVE  IF pinging[e] THEN GoneOrPinged(b, e) ELSE IsPinged(b, i, e) \/ Waits(b, i, e)
<1> DEFINE Stays == /\ e \in EntriesOf(b)' /\ contact'[e] = contact[e] /\ pinging'[e] = pinging[e]
                    /\ \E j \in DOMAIN buckets'[b] : buckets'[b][j] = e /\ j <= i
<1>1. ASSUME NEW c \in up, Acceptable(c), UpdatePing(c), BucketIndex[c.id] = b
      PROVE  IF pinging[e] THEN GoneOrPinged(b, e) ELSE IsPinged(b, i, e) \/ Waits(b, i, e)
  <2>1. c \in Contact
    BY DEF Inv, TypeOK
  <2>2. /\ e \in EntriesOf(b)' /\ contact'[e] = contact[e]
        /\ pinging[e] => pinging'[e]
        /\ i = 1 => pinging'[e]
        /\ i # 1 => pinging'[e] = pinging[e] /\ \E j \in DOMAIN buckets'[b] : buckets'[b][j] = e /\ j < i
    BY <1>1, <2>1, PingForward
  <2>3. i \in Nat
    BY SlotFacts
  <2>4. i # 1 /\ ~ pinging[e] => Waits(b, i, e)
    <3>1. PingStarts(b)
      BY <1>1 DEF PingStarts
    <3> QED BY <2>2, <3>1 DEF Waits
  <2> QED BY <2>2, <2>4 DEF GoneOrPinged, IsPinged
<1>2. ASSUME Stays, ~ PingStarts(b)
      PROVE  IF pinging[e] THEN GoneOrPinged(b, e) ELSE IsPinged(b, i, e) \/ Waits(b, i, e)
  BY <1>2 DEF GoneOrPinged, Waits
<1>3. CASE PingStarts(b)
  BY <1>1, <1>3 DEF PingStarts
<1>4. ASSUME ~ PingStarts(b), NEW c \in Contact, Update(c)
      PROVE  Stays
  <2>1. c \in up /\ Acceptable(c)
    BY <1>4 DEF Update
  <2>2. CASE UpdateKnown(c)
    BY <2>1, <2>2, KnownForward
  <2>3. CASE UpdateAppend(c)
    BY <2>1, <2>3, AppendForward
  <2>4. CASE UpdateDrop(c)
    BY <2>4, SlotFacts DEF UpdateDrop, vars, EntriesOf
  <2>5. CASE UpdatePing(c)
    <3>1. BucketIndex[c.id] # b
      BY <1>4, <2>1, <2>5 DEF PingStarts
    <3> QED BY <2>1, <2>5, <3>1, PingForward
  <2> QED BY <1>4, <2>2, <2>3, <2>4, <2>5 DEF Update
<1>5. ASSUME NEW p \in pings, TryReplace(p)
      PROVE  IF p.oldest = e THEN contact[e] \notin Held(b)' ELSE Stays
  BY <1>5, ReturnForward
<1>6. ASSUME NEW p \in pings, TryReplace(p), p.oldest = e
      PROVE  pinging[e]
  BY <1>6, SlotFacts
<1>7. ASSUME NEW c \in Contact, Leave(c) \/ Return(c)
      PROVE  Stays
  BY <1>7, SlotFacts DEF Leave, Return, EntriesOf
<1> HIDE DEF Stays
<1>8. CASE ~ PingStarts(b)
  <2>1. ASSUME NEW p \in pings, TryReplace(p)
        PROVE  IF pinging[e] THEN GoneOrPinged(b, e) ELSE IsPinged(b, i, e) \/ Waits(b, i, e)
    <3>1. CASE p.oldest = e
      BY <1>5, <1>6, <2>1, <3>1 DEF GoneOrPinged
    <3>2. CASE p.oldest # e
      BY <1>2, <1>5, <1>8, <2>1, <3>2
    <3> QED BY <3>1, <3>2
  <2> QED BY <1>2, <1>4, <1>7, <1>8, <2>1 DEF Next
<1> QED BY <1>3, <1>8

\* A peer that does not answer comes forward with every ping of its bucket
\* until it is pinged itself, and its ping takes it out of the bucket: the
\* rotation of update brings every dead peer to the head after at most K - 1
\* pings, and no message of another peer undoes it (routing.go:48-73, 98-111).
THEOREM DeadComesForwardHolds == Spec => DeadComesForward
<1>1. Inv /\ [Next]_vars =>
        [\A b \in Bucket : \A i \in DOMAIN buckets[b] :
           LET e == buckets[b][i] IN
           contact[e] \notin up =>
             IF pinging[e] THEN GoneOrPinged(b, e) ELSE IsPinged(b, i, e) \/ Waits(b, i, e)]_vars
  BY ComesForward
<1> QED BY <1>1, InvHolds, PTL DEF Spec, DeadComesForward
=============================================================================
