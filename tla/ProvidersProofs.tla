--------------------------- MODULE ProvidersProofs --------------------------
(***************************************************************************)
(* Proofs about Providers: types, RecordKept and DeadForgotten, and how a  *)
(* record comes back, for every set of nodes, lifetime and period.         *)
(*                                                                         *)
(* RecordKept is not inductive: that a record is young enough now does not *)
(* say that it is when the ticker fires.  Fresh bounds its age by what has *)
(* passed since the ticker fired and by one period for each announcement   *)
(* that has missed the node, or has not come to it yet.                    *)
(***************************************************************************)
EXTENDS Providers, FiniteSetTheorems, TLAPS

\* The announcements of p that have not come to n yet.
Pending(n, p) == {r \in Round : n \in due[p][r]}
Owed(n, p) == missed[n][p] + Cardinality(Pending(n, p))

Fresh(n, p) ==
  missed[n][p] <= Slack =>
    /\ n \in up /\ p \in up /\ p \in holds
    /\ p \in providers[n]
    /\ age[n][p] <= timer[p] + Owed(n, p) * Period

\* Only who has the chunk announces it; what the dead have sent arrives at once.
Sent(p, r) == due[p][r] # {} => p \in holds /\ (p \notin up => silent[p] = 0)

\* A record is at least as old as the death of its provider.
Dated(n, p) == p \in providers[n] => age[n][p] >= silent[p]

Inv ==
  /\ TypeOK
  /\ \A n \in Node, p \in Holder : Fresh(n, p) /\ Dated(n, p)
  /\ \A p \in Holder : p \in up => silent[p] = 0
  /\ \A p \in Holder, r \in Round : Sent(p, r)

-----------------------------------------------------------------------------
(* Arithmetic and counting *)

\* Products grow with their factor.
LEMMA Products ==
  ASSUME NEW a \in Nat, NEW b \in Nat, a <= b
  PROVE  a * Period <= b * Period /\ a * Period \in Nat /\ (a + 1) * Period = a * Period + Period
<1>1. Period \in Nat BY PeriodAssumption
<1>2. PICK d \in Nat : b = a + d
  <2>1. b - a \in Nat /\ b = a + (b - a) OBVIOUS
  <2> QED BY <2>1
<1>3. b * Period = a * Period + d * Period BY <1>1, <1>2, SMT
<1>4. a * Period \in Nat /\ d * Period \in Nat BY <1>1, SMT
<1>5. (a + 1) * Period = a * Period + Period BY <1>1, SMT
<1> QED BY <1>3, <1>4, <1>5

\* Announcements under way are finitely many, no more than Round allows.
LEMMA PendingIsFinite ==
  ASSUME NEW n \in Node, NEW p \in Holder
  PROVE  /\ IsFiniteSet(Pending(n, p))
         /\ Cardinality(Pending(n, p)) \in Nat
         /\ Cardinality(Pending(n, p)) <= Cardinality(Round)
<1>1. Pending(n, p) \subseteq Round BY DEF Pending
<1> QED BY <1>1, RoundAssumption, FS_Subset, FS_CardinalityType

\* A node that has not been missed more than Slack times has a valid record.
LEMMA FreshIsValid ==
  ASSUME Inv, NEW n \in Node, NEW p \in Holder, missed[n][p] <= Slack
  PROVE  p \in Handed(n)
<1> DEFINE c == Cardinality(Pending(n, p))
           w == Cardinality(Round)
<1>1. c \in Nat /\ w \in Nat /\ c <= w BY PendingIsFinite, RoundAssumption, FS_CardinalityType
<1>2. /\ missed[n][p] \in Nat /\ timer[p] \in 0..Period /\ age[n][p] \in Nat
  BY HolderAssumption, PeriodAssumption DEF Inv, TypeOK
<1>3. p \in providers[n] /\ age[n][p] <= timer[p] + Owed(n, p) * Period BY DEF Inv, Fresh
<1> DEFINE o == missed[n][p] + c
<1>4. Owed(n, p) = o BY DEF Owed
<1>5. o \in Nat /\ Slack + w \in Nat /\ o <= Slack + w BY <1>1, <1>2, PeriodAssumption
<1> HIDE DEF o, c, w
<1>6. /\ o * Period <= (Slack + w) * Period /\ o * Period \in Nat
  BY <1>5, Products
<1>7. (Slack + w + 1) * Period = (Slack + w) * Period + Period
  BY <1>5, Products
<1>7a. (Slack + w) * Period \in Nat BY <1>5, Products
<1>8. (Slack + w + 1) * Period <= Ttl BY TtlAssumption DEF w
<1>9. age[n][p] <= timer[p] + o * Period BY <1>3, <1>4
<1>10. age[n][p] <= Ttl
  <2> DEFINE x == o * Period
             y == (Slack + w) * Period
  <2>1. x \in Nat /\ y \in Nat /\ x <= y /\ y + Period <= Ttl /\ age[n][p] <= timer[p] + x
    BY <1>6, <1>7, <1>7a, <1>8, <1>9
  <2> HIDE DEF x, y
  <2> QED BY <2>1, <1>2, PeriodAssumption
<1> QED BY <1>3, <1>10 DEF Handed, Valid

-----------------------------------------------------------------------------
(* The types *)

\* Announcing keeps the types: a round of p never has p itself to reach.
LEMMA AnnounceTypes ==
  ASSUME TypeOK, NEW p \in Holder, Announce(p)
  PROVE  /\ providers' \in [Node -> SUBSET Holder]
         /\ age' \in [Node -> [Holder -> 0..(Ttl + 1)]]
         /\ due' \in [Holder -> [Round -> SUBSET Node]]
         /\ \A q \in Holder, r \in Round : q \notin due'[q][r]
         /\ missed' \in [Node -> [Holder -> 0..(Slack + 1)]]
<1>1. p \in Node /\ 0 \in 0..(Ttl + 1) /\ 0 \in 0..(Slack + 1) /\ Slack + 1 \in 0..(Slack + 1)
  BY HolderAssumption, PeriodAssumption
<1> QED BY <1>1 DEF TypeOK, Announce, AddProvider, RenewedAge, Others, Unknown

\* Every step keeps the types.
LEMMA TypeStep == TypeOK /\ [Next]_vars => TypeOK'
<1> SUFFICES ASSUME TypeOK, [Next]_vars PROVE TypeOK' OBVIOUS
<1> USE HolderAssumption, PeriodAssumption
<1>0. 0 \in 0..(Ttl + 1) /\ 0 \in 0..(Slack + 1) /\ Slack + 1 \in 0..(Slack + 1) /\ 0 \in 0..Period
  OBVIOUS
<1>1. ASSUME NEW n \in Node, GetProviders(n) PROVE TypeOK'
  BY <1>0, <1>1 DEF TypeOK, GetProviders, Handed, history
<1>2. ASSUME NEW p \in Node, Start(p) PROVE TypeOK'
  <2>1. CASE p \in holds
    <3>1. p \in Holder BY <2>1 DEF TypeOK
    <3>2. Announce(p) BY <1>2, <2>1 DEF Start
    <3> QED BY <1>0, <1>2, <2>1, <3>1, <3>2, AnnounceTypes DEF TypeOK, Start
  <2>2. CASE p \notin holds BY <1>0, <1>2, <2>2 DEF TypeOK, Start, maps
  <2> QED BY <2>1, <2>2
<1>3. ASSUME NEW p \in Node, Stop(p) PROVE TypeOK'
  BY <1>0, <1>3 DEF TypeOK, Stop, Unknown
<1>4. ASSUME NEW p \in Node, Fire(p) PROVE TypeOK'
  <2>1. CASE p \in holds
    <3>1. p \in Holder BY <2>1 DEF TypeOK
    <3>2. Announce(p) BY <1>4, <2>1 DEF Fire, Republish, ToAnnounce
    <3> QED BY <1>0, <1>4, <3>1, <3>2, AnnounceTypes DEF TypeOK, Fire
  <2>2. CASE p \notin holds
    BY <1>0, <1>4, <2>2 DEF TypeOK, Fire, Republish, ToAnnounce, maps
  <2> QED BY <2>1, <2>2
<1>5. ASSUME NEW p \in Holder, Acquire(p) PROVE TypeOK'
  <2>1. Announce(p) BY <1>5 DEF Acquire
  <2> QED BY <1>5, <2>1, AnnounceTypes DEF TypeOK, Acquire
<1>6. ASSUME NEW p \in Holder, NEW r \in Round, NEW n \in Node, Reach(p, r, n) PROVE TypeOK'
  BY <1>0, <1>6 DEF TypeOK, Reach, AddProvider, RenewedAge, Unknown
<1>7. ASSUME NEW p \in Holder, NEW r \in Round, NEW n \in Node, Miss(p, r, n) PROVE TypeOK'
  <2>1. missed[n][p] \in 0..(Slack + 1) BY DEF TypeOK
  <2>2. (IF missed[n][p] = Unknown THEN missed[n][p] ELSE missed[n][p] + 1) \in 0..(Slack + 1)
    BY <2>1 DEF Unknown
  <2> QED BY <1>7, <2>2 DEF TypeOK, Miss, maps
<1>8. ASSUME Tick PROVE TypeOK'
  <2>1. \A t \in 0..(Ttl + 1) : Older(t) \in 0..(Ttl + 1) BY DEF Older
  <2>2. \A n \in Node, p \in Holder : Older(age[n][p]) \in 0..(Ttl + 1) BY <2>1 DEF TypeOK
  <2>3. \A p \in Holder : Older(silent[p]) \in 0..(Ttl + 1) BY <2>1 DEF TypeOK
  <2>4. \A p \in up : timer[p] + 1 \in 0..Period BY <1>8 DEF TypeOK, Tick
  <2> HIDE DEF Older
  <2> QED BY <1>0, <1>8, <2>2, <2>3, <2>4 DEF TypeOK, Tick
<1>9. CASE UNCHANGED vars BY <1>9 DEF TypeOK, vars, maps, history
<1> QED BY <1>1, <1>2, <1>3, <1>4, <1>5, <1>6, <1>7, <1>8, <1>9 DEF Next

-----------------------------------------------------------------------------
(* How a record stays fresh *)

\* A record that is written is fresh.
LEMMA FreshWritten ==
  ASSUME TypeOK', NEW n \in Node, NEW p \in Holder,
         n \in up', p \in up', p \in holds', p \in providers'[n], age'[n][p] = 0
  PROVE  Fresh(n, p)'
<1>1. p \in Node BY HolderAssumption
<1>2. timer'[p] \in Nat /\ missed'[n][p] \in Nat BY <1>1, PeriodAssumption DEF TypeOK
<1>3. (Pending(n, p))' \subseteq Round BY DEF Pending
<1>4. Cardinality((Pending(n, p))') \in Nat
  BY <1>3, RoundAssumption, FS_Subset, FS_CardinalityType
<1>5. Owed(n, p)' \in Nat BY <1>2, <1>4 DEF Owed
<1>6. Owed(n, p)' * Period \in Nat BY <1>5, Products
<1>7. age'[n][p] <= timer'[p] + Owed(n, p)' * Period
  <2> DEFINE x == Owed(n, p)' * Period
  <2>1. x \in Nat BY <1>6
  <2> HIDE DEF x
  <2>2. age'[n][p] <= timer'[p] + x BY <2>1, <1>2
  <2> QED BY <2>2 DEF x
<1> QED BY <1>7 DEF Fresh

\* A record stays fresh that ages no faster than the ticker advances.
LEMMA FreshStays ==
  ASSUME TypeOK, TypeOK', NEW n \in Node, NEW p \in Holder, Fresh(n, p),
         missed[n][p] <= Slack,
         n \in up', p \in up', p \in holds', p \in providers'[n],
         Owed(n, p)' = Owed(n, p),
         age'[n][p] - timer'[p] <= age[n][p] - timer[p]
  PROVE  Fresh(n, p)'
<1>1. p \in Node BY HolderAssumption
<1>2. /\ timer'[p] \in Nat /\ age'[n][p] \in Nat
      /\ timer[p] \in Nat /\ age[n][p] \in Nat /\ missed[n][p] \in Nat
  BY <1>1, PeriodAssumption DEF TypeOK
<1>3. age[n][p] <= timer[p] + Owed(n, p) * Period BY DEF Fresh
<1>4. Owed(n, p) * Period \in Nat
  <2>1. Owed(n, p) \in Nat BY <1>2, PendingIsFinite DEF Owed
  <2> QED BY <2>1, Products
<1>5. age'[n][p] <= timer'[p] + Owed(n, p) * Period
  <2> DEFINE x == Owed(n, p) * Period
  <2>1. x \in Nat /\ age[n][p] <= timer[p] + x BY <1>3, <1>4
  <2> HIDE DEF x
  <2>2. age'[n][p] <= timer'[p] + x BY <2>1, <1>2
  <2> QED BY <2>2 DEF x
<1> QED BY <1>5 DEF Fresh

\* It stays fresh when the ticker fires and one more announcement is under way.
LEMMA FreshAnnounced ==
  ASSUME TypeOK, TypeOK', NEW n \in Node, NEW p \in Holder, Fresh(n, p),
         missed[n][p] <= Slack,
         n \in up', p \in up', p \in holds', p \in providers'[n],
         Owed(n, p)' = Owed(n, p) + 1,
         age'[n][p] = age[n][p]
  PROVE  Fresh(n, p)'
<1>1. p \in Node BY HolderAssumption
<1>2. /\ timer'[p] \in Nat /\ timer[p] \in Nat /\ timer[p] <= Period /\ Period \in Nat
      /\ age[n][p] \in Nat /\ missed[n][p] \in Nat
  BY <1>1, PeriodAssumption DEF TypeOK
<1>3. age[n][p] <= timer[p] + Owed(n, p) * Period BY DEF Fresh
<1>4. /\ Owed(n, p) * Period \in Nat
      /\ (Owed(n, p) + 1) * Period = Owed(n, p) * Period + Period
  <2>1. Owed(n, p) \in Nat BY <1>2, PendingIsFinite DEF Owed
  <2> QED BY <2>1, Products
<1>5. age'[n][p] <= timer'[p] + (Owed(n, p) + 1) * Period
  <2> DEFINE x == Owed(n, p) * Period
             y == (Owed(n, p) + 1) * Period
  <2>1. x \in Nat /\ y = x + Period /\ age[n][p] <= timer[p] + x BY <1>3, <1>4
  <2> HIDE DEF x, y
  <2>2. age'[n][p] <= timer'[p] + y BY <2>1, <1>2
  <2> QED BY <2>2 DEF y
<1> QED BY <1>5 DEF Fresh

\* What an announcement of p does to the records, and to what is owed.
LEMMA AnnounceFacts ==
  ASSUME TypeOK, NEW p \in Holder, Announce(p)
  PROVE  /\ age'[p][p] = 0 /\ p \in providers'[p]
         /\ p \in up' => missed'[p][p] = 0
         /\ \A n \in Node, q \in Holder : ~ (n = p /\ q = p) =>
              /\ missed'[n][q] = missed[n][q] /\ age'[n][q] = age[n][q]
              /\ q \in providers'[n] <=> q \in providers[n]
         /\ \A q \in Holder \ {p} : due'[q] = due[q]
         /\ \A n \in Node \ {p} : Owed(n, p)' = Owed(n, p) + 1
         /\ \A n \in Node, q \in Holder \ {p} : Owed(n, q)' = Owed(n, q)
<1>1. p \in Node BY HolderAssumption
<1>2. /\ age'[p][p] = 0 /\ p \in providers'[p]
      /\ p \in up' => missed'[p][p] = 0
  BY <1>1 DEF TypeOK, Announce, AddProvider, RenewedAge
<1>3. \A n \in Node, q \in Holder : ~ (n = p /\ q = p) =>
              /\ missed'[n][q] = missed[n][q] /\ age'[n][q] = age[n][q]
              /\ q \in providers'[n] <=> q \in providers[n]
  BY <1>1 DEF TypeOK, Announce, AddProvider
<1>4. PICK r \in Round : due[p][r] = {} /\ due' = [due EXCEPT ![p][r] = Others(p)]
  BY DEF Announce
<1>5. \A q \in Holder \ {p} : due'[q] = due[q] BY <1>4 DEF TypeOK
<1>6. ASSUME NEW n \in Node \ {p} PROVE Owed(n, p)' = Owed(n, p) + 1
  <2>1. r \notin Pending(n, p) /\ Pending(n, p)' = Pending(n, p) \cup {r}
    BY <1>4 DEF TypeOK, Pending, Others
  <2>2. Cardinality(Pending(n, p)') = Cardinality(Pending(n, p)) + 1
    BY <2>1, PendingIsFinite, FS_AddElement
  <2>3. missed'[n][p] = missed[n][p] /\ missed[n][p] \in Nat
    BY <1>3, PeriodAssumption DEF TypeOK
  <2> QED BY <2>2, <2>3, PendingIsFinite DEF Owed
<1>7. ASSUME NEW n \in Node, NEW q \in Holder \ {p} PROVE Owed(n, q)' = Owed(n, q)
  <2>1. Pending(n, q)' = Pending(n, q) BY <1>5 DEF Pending
  <2> QED BY <2>1, <1>3 DEF Owed
<1> QED BY <1>2, <1>3, <1>5, <1>6, <1>7

-----------------------------------------------------------------------------
(* The steps *)

\* A step that announces keeps every record fresh: its own was just written,
\* and one it has announced before has been so for at most one period more.
LEMMA FreshAfterAnnounce ==
  ASSUME Inv, TypeOK', NEW p \in Holder, Announce(p),
         up \subseteq up', holds \subseteq holds', p \in up', p \in holds',
         \A q \in Holder \ {p} : timer'[q] = timer[q],
         NEW n \in Node, NEW q \in Holder
  PROVE  Fresh(n, q)'
<1>1. TypeOK /\ Fresh(n, q) BY DEF Inv
<1>2. SUFFICES ASSUME missed'[n][q] <= Slack PROVE Fresh(n, q)'
  BY DEF Fresh
<1>3. CASE n = p /\ q = p
  BY <1>3, AnnounceFacts, <1>1, FreshWritten
<1>4. CASE ~ (n = p /\ q = p)
  <2>1. /\ missed[n][q] <= Slack /\ age'[n][q] = age[n][q]
        /\ q \in providers'[n] <=> q \in providers[n]
    BY <1>1, <1>2, <1>4, AnnounceFacts
  <2>2. n \in up' /\ q \in up' /\ q \in holds' /\ q \in providers'[n]
    BY <1>1, <2>1 DEF Fresh
  <2>3. CASE q = p
    <3>1. Owed(n, q)' = Owed(n, q) + 1 BY <1>1, <1>4, <2>3, AnnounceFacts
    <3> QED BY <1>1, <2>1, <2>2, <3>1, FreshAnnounced
  <2>4. CASE q # p
    <3>1. Owed(n, q)' = Owed(n, q) /\ timer'[q] = timer[q] BY <1>1, <2>4, AnnounceFacts
    <3>2. age'[n][q] - timer'[q] <= age[n][q] - timer[q]
      <4>1. age[n][q] \in Nat /\ timer[q] \in Nat
        BY <1>1, HolderAssumption, PeriodAssumption DEF TypeOK
      <4> QED BY <2>1, <3>1, <4>1
    <3> QED BY <1>1, <2>1, <2>2, <3>1, <3>2, FreshStays
  <2> QED BY <2>3, <2>4
<1> QED BY <1>3, <1>4

\* Records stay fresh in every step.
LEMMA FreshStep ==
  ASSUME Inv, [Next]_vars, NEW n \in Node, NEW q \in Holder
  PROVE  Fresh(n, q)'
<1>0. TypeOK /\ TypeOK' /\ Fresh(n, q) BY TypeStep DEF Inv
<1>a. SUFFICES ASSUME missed'[n][q] <= Slack PROVE Fresh(n, q)'
  BY DEF Fresh
<1>b. /\ q \in Node /\ missed[n][q] \in Nat /\ age[n][q] \in Nat /\ timer[q] \in Nat
      /\ Slack \in Nat /\ Period \in Nat
  BY <1>0, HolderAssumption, PeriodAssumption DEF TypeOK
<1>1. ASSUME NEW m \in Node, GetProviders(m) PROVE Fresh(n, q)'
  <2>1. /\ UNCHANGED <<up, holds, timer, due, missed>> BY <1>1 DEF GetProviders, history
  <2>2. q \in Handed(n) BY <1>a, <2>1, FreshIsValid
  <2>3. q \in providers'[n] /\ age'[n][q] = age[n][q]
    BY <1>0, <1>1, <2>2 DEF GetProviders, Handed, TypeOK
  <2>4. Owed(n, q)' = Owed(n, q) BY <2>1 DEF Owed, Pending
  <2> QED BY <1>0, <1>a, <2>1, <2>3, <2>4 DEF Fresh
<1>2. ASSUME NEW p \in Node, Start(p) PROVE Fresh(n, q)'
  <2>1. CASE p \in holds
    <3>1. p \in Holder /\ Announce(p) BY <1>0, <1>2, <2>1 DEF TypeOK, Start
    <3> QED BY <1>0, <1>2, <2>1, <3>1, FreshAfterAnnounce DEF Start
  <2>2. CASE p \notin holds
    <3>1. UNCHANGED <<holds, timer, providers, age, due, missed>> /\ up \subseteq up'
      BY <1>2, <2>2 DEF Start, maps
    <3>2. Owed(n, q)' = Owed(n, q) BY <3>1 DEF Owed, Pending
    <3> QED BY <1>0, <1>a, <3>1, <3>2 DEF Fresh
  <2> QED BY <2>1, <2>2
<1>3. ASSUME NEW p \in Node, Stop(p) PROVE Fresh(n, q)'
  <2>1. p # n /\ p # q
    BY <1>0, <1>3, <1>a, <1>b DEF Stop, Unknown, TypeOK
  <2>2. /\ missed'[n][q] = missed[n][q] /\ age'[n][q] = age[n][q] /\ timer'[q] = timer[q]
        /\ providers'[n] = providers[n] /\ UNCHANGED <<holds, due>> /\ up' = up \ {p}
    BY <1>0, <1>3, <1>b, <2>1 DEF Stop, TypeOK
  <2>3. Owed(n, q)' = Owed(n, q) BY <2>2 DEF Owed, Pending
  <2> QED BY <1>0, <1>a, <2>1, <2>2, <2>3 DEF Fresh
<1>4. ASSUME NEW p \in Node, Fire(p) PROVE Fresh(n, q)'
  <2>1. CASE p \in holds
    <3>1. p \in Holder /\ Announce(p)
      BY <1>0, <1>4, <2>1 DEF TypeOK, Fire, Republish, ToAnnounce
    <3>2. \A o \in Holder \ {p} : timer'[o] = timer[o]
      BY <1>0, <1>4, HolderAssumption DEF Fire, TypeOK
    <3>3. p \in up' /\ p \in holds' /\ UNCHANGED <<up, holds>> BY <1>4, <2>1 DEF Fire
    <3> QED BY <1>0, <3>1, <3>2, <3>3, FreshAfterAnnounce
  <2>2. CASE p \notin holds
    <3>1. UNCHANGED <<up, holds, providers, age, due, missed>>
      BY <1>4, <2>2 DEF Fire, Republish, ToAnnounce, maps
    <3>2. p # q BY <1>0, <1>a, <2>2, <3>1 DEF Fresh
    <3>3. timer'[q] = timer[q] BY <1>0, <1>4, <1>b, <3>2 DEF Fire, TypeOK
    <3>4. Owed(n, q)' = Owed(n, q) BY <3>1 DEF Owed, Pending
    <3> QED BY <1>0, <1>a, <3>1, <3>3, <3>4 DEF Fresh
  <2> QED BY <2>1, <2>2
<1>5. ASSUME NEW p \in Holder, Acquire(p) PROVE Fresh(n, q)'
  <2>1. Announce(p) /\ p \in up' /\ p \in holds' /\ UNCHANGED <<up, timer>> /\ holds \subseteq holds'
    BY <1>5 DEF Acquire
  <2> QED BY <1>0, <2>1, FreshAfterAnnounce
<1>6. ASSUME NEW p \in Holder, NEW r \in Round, NEW m \in Node, Reach(p, r, m) PROVE Fresh(n, q)'
  <2>1. /\ UNCHANGED <<up, holds, timer>> /\ m \in up /\ m \in due[p][r]
        /\ due' = [due EXCEPT ![p][r] = @ \ {m}]
    BY <1>6 DEF Reach
  <2>2. CASE n = m /\ q = p
    <3>1. age'[n][q] = 0 /\ q \in providers'[n]
      BY <1>0, <1>6, <1>b, <2>2 DEF Reach, AddProvider, RenewedAge, TypeOK
    <3>2. missed'[n][q] = IF q \in up THEN 0 ELSE Slack + 1
      BY <1>0, <1>6, <1>b, <2>1, <2>2 DEF Reach, AddProvider, Unknown, TypeOK
    <3>3. q \in up BY <1>a, <1>b, <3>2
    <3>4. q \in holds BY <2>1, <2>2 DEF Inv, Sent
    <3> QED BY <1>0, <2>1, <2>2, <3>1, <3>3, <3>4, FreshWritten
  <2>3. CASE ~ (n = m /\ q = p)
    <3>1. /\ missed'[n][q] = missed[n][q] /\ age'[n][q] = age[n][q]
          /\ q \in providers'[n] <=> q \in providers[n]
      BY <1>0, <1>6, <2>3 DEF Reach, AddProvider, TypeOK
    <3>2. Pending(n, q)' = Pending(n, q) BY <1>0, <2>1, <2>3 DEF Pending, TypeOK
    <3>3. Owed(n, q)' = Owed(n, q) BY <3>1, <3>2 DEF Owed
    <3> QED BY <1>0, <1>a, <2>1, <3>1, <3>3 DEF Fresh
  <2> QED BY <2>2, <2>3
<1>7. ASSUME NEW p \in Holder, NEW r \in Round, NEW m \in Node, Miss(p, r, m) PROVE Fresh(n, q)'
  <2>1. /\ UNCHANGED <<up, holds, timer, providers, age>> /\ m \in due[p][r]
        /\ due' = [due EXCEPT ![p][r] = @ \ {m}]
    BY <1>7 DEF Miss, maps
  <2>2. CASE n = m /\ q = p
    <3>1. missed'[n][q] = (IF missed[n][q] = Slack + 1 THEN missed[n][q] ELSE missed[n][q] + 1)
      BY <1>0, <1>7, <2>2 DEF Miss, Unknown, TypeOK
    <3>2. missed'[n][q] = missed[n][q] + 1 /\ missed[n][q] <= Slack BY <1>a, <1>b, <3>1
    <3>3. r \in Pending(n, q) /\ Pending(n, q)' = Pending(n, q) \ {r}
      BY <1>0, <2>1, <2>2 DEF Pending, TypeOK
    <3>4. Cardinality(Pending(n, q)') = Cardinality(Pending(n, q)) - 1
      BY <3>3, PendingIsFinite, FS_RemoveElement
    <3>5. Owed(n, q)' = Owed(n, q) BY <1>b, <3>2, <3>4, PendingIsFinite DEF Owed
    <3> QED BY <1>0, <2>1, <3>2, <3>5 DEF Fresh
  <2>3. CASE ~ (n = m /\ q = p)
    <3>1. missed'[n][q] = missed[n][q] BY <1>0, <1>7, <2>3 DEF Miss, TypeOK
    <3>2. Pending(n, q)' = Pending(n, q) BY <1>0, <2>1, <2>3 DEF Pending, TypeOK
    <3>3. Owed(n, q)' = Owed(n, q) BY <3>1, <3>2 DEF Owed
    <3> QED BY <1>0, <1>a, <2>1, <3>1, <3>3 DEF Fresh
  <2> QED BY <2>2, <2>3
<1>8. ASSUME Tick PROVE Fresh(n, q)'
  <2>1. UNCHANGED <<up, holds, providers, due, missed>> BY <1>8 DEF Tick
  <2>2. n \in up /\ q \in up /\ q \in holds /\ q \in providers[n] BY <1>0, <1>a, <2>1 DEF Fresh
  <2>3. timer'[q] = timer[q] + 1 BY <1>8, <1>b, <2>2 DEF Tick
  <2>4. age'[n][q] = Older(age[n][q]) BY <1>8, <2>2 DEF Tick
  <2>5. age'[n][q] - timer'[q] <= age[n][q] - timer[q]
    BY <1>b, <2>3, <2>4 DEF Older
  <2>6. Owed(n, q)' = Owed(n, q) BY <2>1 DEF Owed, Pending
  <2> QED BY <1>0, <1>a, <2>1, <2>2, <2>5, <2>6, FreshStays
<1>9. CASE UNCHANGED vars
  <2>1. UNCHANGED <<up, holds, timer, providers, age, due, missed>> BY <1>9 DEF vars, maps, history
  <2>2. Owed(n, q)' = Owed(n, q) BY <2>1 DEF Owed, Pending
  <2> QED BY <1>0, <2>1, <2>2 DEF Fresh
<1> QED BY <1>1, <1>2, <1>3, <1>4, <1>5, <1>6, <1>7, <1>8, <1>9 DEF Next

\* Who runs has not been gone, and only who has the chunk announces it.
LEMMA SentStep ==
  ASSUME Inv, [Next]_vars, NEW q \in Holder
  PROVE  /\ q \in up' => silent'[q] = 0
         /\ \A o \in Round : Sent(q, o)'
<1>0. TypeOK /\ TypeOK' /\ (q \in up => silent[q] = 0) /\ \A o \in Round : Sent(q, o)
  BY TypeStep DEF Inv
<1>a. q \in Node BY HolderAssumption
<1> DEFINE Goal == (q \in up' => silent'[q] = 0) /\ \A o \in Round : Sent(q, o)'
<1>b. ASSUME NEW p \in Holder, Announce(p) PROVE \A o \in Round : q # p => due'[q][o] = due[q][o]
  BY <1>b DEF Announce, TypeOK
<1>1. ASSUME NEW m \in Node, GetProviders(m) PROVE Goal
  BY <1>0, <1>1 DEF GetProviders, history, Sent
<1>2. ASSUME NEW p \in Node, Start(p) PROVE Goal
  <2>1. up' = up \cup {p} /\ UNCHANGED holds BY <1>2 DEF Start
  <2>2. silent'[q] = IF q = p THEN 0 ELSE silent[q] BY <1>0, <1>2 DEF Start, TypeOK
  <2>3. q \in up' => silent'[q] = 0 BY <1>0, <2>1, <2>2
  <2>4. ASSUME NEW o \in Round PROVE Sent(q, o)'
    <3>1. CASE p = q /\ q \notin holds
      <4>1. due' = due BY <1>2, <3>1 DEF Start
      <4> QED BY <1>0, <2>1, <3>1, <4>1 DEF Sent
    <3>2. CASE p = q /\ q \in holds BY <2>1, <3>2 DEF Sent
    <3>3. CASE p # q
      <4>1. due'[q][o] = due[q][o]
        <5>1. CASE p \in holds
          <6>1. p \in Holder /\ Announce(p) BY <1>0, <1>2, <5>1 DEF Start, TypeOK
          <6> QED BY <1>b, <3>3, <6>1
        <5>2. CASE p \notin holds BY <1>2, <5>2 DEF Start
        <5> QED BY <5>1, <5>2
      <4> QED BY <1>0, <2>1, <2>2, <3>3, <4>1 DEF Sent
    <3> QED BY <3>1, <3>2, <3>3
  <2> QED BY <2>3, <2>4
<1>3. ASSUME NEW p \in Node, Stop(p) PROVE Goal
  <2>1. UNCHANGED <<holds, due, silent>> /\ up' \subseteq up /\ up \ {p} \subseteq up' BY <1>3 DEF Stop
  <2>2. p \in up BY <1>3 DEF Stop
  <2> QED BY <1>0, <2>1, <2>2 DEF Sent
<1>4. ASSUME NEW p \in Node, Fire(p) PROVE Goal
  <2>1. UNCHANGED <<up, holds, silent>> /\ p \in up BY <1>4 DEF Fire
  <2>2. ASSUME NEW o \in Round PROVE Sent(q, o)'
    <3>1. CASE p \notin holds
      <4>1. due' = due BY <1>4, <3>1 DEF Fire, Republish, ToAnnounce
      <4> QED BY <1>0, <2>1, <4>1 DEF Sent
    <3>2. CASE p \in holds /\ p = q BY <2>1, <3>2 DEF Sent
    <3>3. CASE p \in holds /\ p # q
      <4>1. p \in Holder /\ Announce(p)
        BY <1>0, <1>4, <3>3 DEF TypeOK, Fire, Republish, ToAnnounce
      <4> QED BY <1>0, <1>b, <2>1, <3>3, <4>1 DEF Sent
    <3> QED BY <3>1, <3>2, <3>3
  <2> QED BY <1>0, <2>1, <2>2
<1>5. ASSUME NEW p \in Holder, Acquire(p) PROVE Goal
  <2>1. UNCHANGED <<up, silent>> /\ holds' = holds \cup {p} /\ p \in up /\ Announce(p)
    BY <1>5 DEF Acquire
  <2>2. ASSUME NEW o \in Round PROVE Sent(q, o)'
    BY <1>0, <1>b, <2>1 DEF Sent
  <2> QED BY <1>0, <2>1, <2>2
<1>6. ASSUME NEW p \in Holder, NEW r \in Round, NEW m \in Node, Reach(p, r, m) PROVE Goal
  <2>1. UNCHANGED <<up, holds, silent>> BY <1>6 DEF Reach
  <2>2. \A o \in Round : due'[q][o] \subseteq due[q][o] BY <1>0, <1>6 DEF Reach, TypeOK
  <2> QED BY <1>0, <2>1, <2>2 DEF Sent
<1>7. ASSUME NEW p \in Holder, NEW r \in Round, NEW m \in Node, Miss(p, r, m) PROVE Goal
  <2>1. UNCHANGED <<up, holds, silent>> BY <1>7 DEF Miss
  <2>2. \A o \in Round : due'[q][o] \subseteq due[q][o] BY <1>0, <1>7 DEF Miss, TypeOK
  <2> QED BY <1>0, <2>1, <2>2 DEF Sent
<1>8. ASSUME Tick PROVE Goal
  <2>1. UNCHANGED <<up, holds, due>> /\ (q \in up => silent'[q] = 0) BY <1>8 DEF Tick
  <2>2. q \notin up => \A o \in Round : due[q][o] = {} BY <1>8 DEF Tick
  <2> QED BY <1>0, <2>1, <2>2 DEF Sent
<1>9. CASE UNCHANGED vars BY <1>0, <1>9 DEF vars, maps, history, Sent
<1> QED BY <1>1, <1>2, <1>3, <1>4, <1>5, <1>6, <1>7, <1>8, <1>9 DEF Next

\* No record is younger than the death of its provider.
LEMMA DatedStep ==
  ASSUME Inv, [Next]_vars, NEW n \in Node, NEW q \in Holder
  PROVE  Dated(n, q)'
<1>0. TypeOK /\ TypeOK' /\ Dated(n, q) /\ (q \in up => silent[q] = 0) BY TypeStep DEF Inv
<1>a. SUFFICES ASSUME q \in providers'[n] PROVE age'[n][q] >= silent'[q] BY DEF Dated
<1>b. /\ q \in Node /\ age[n][q] \in Nat /\ silent[q] \in Nat /\ age'[n][q] \in Nat
      /\ Ttl \in Nat
  BY <1>0, HolderAssumption, PeriodAssumption DEF TypeOK
<1>c. ASSUME NEW p \in Holder, Announce(p)
      PROVE  (age'[n][q] = age[n][q] /\ q \in providers[n]) \/ (n = p /\ q = p /\ age'[n][q] = 0)
  BY <1>0, <1>a, <1>c, AnnounceFacts
<1>1. ASSUME NEW m \in Node, GetProviders(m) PROVE age'[n][q] >= silent'[q]
  <2>1. age'[n][q] = age[n][q] /\ q \in providers[n] /\ silent' = silent
    BY <1>0, <1>a, <1>1 DEF GetProviders, Handed, history, TypeOK
  <2> QED BY <1>0, <2>1 DEF Dated
<1>2. ASSUME NEW p \in Node, Start(p) PROVE age'[n][q] >= silent'[q]
  <2>1. CASE p = q
    <3>1. silent'[q] = 0 BY <1>0, <1>2, <2>1 DEF Start, TypeOK
    <3> QED BY <1>b, <3>1
  <2>2. CASE p # q
    <3>1. silent'[q] = silent[q] BY <1>0, <1>2, <2>2 DEF Start, TypeOK
    <3>2. age'[n][q] = age[n][q] /\ q \in providers[n]
      <4>1. CASE p \in holds
        <5>1. p \in Holder /\ Announce(p) BY <1>0, <1>2, <4>1 DEF TypeOK, Start
        <5> QED BY <1>c, <2>2, <5>1
      <4>2. CASE p \notin holds BY <1>2, <1>a, <4>2 DEF Start, maps
      <4> QED BY <4>1, <4>2
    <3> QED BY <1>0, <3>1, <3>2 DEF Dated
  <2> QED BY <2>1, <2>2
<1>3. ASSUME NEW p \in Node, Stop(p) PROVE age'[n][q] >= silent'[q]
  <2>1. p # n BY <1>0, <1>a, <1>3 DEF Stop, TypeOK
  <2>2. age'[n][q] = age[n][q] /\ q \in providers[n] /\ silent' = silent
    BY <1>0, <1>a, <1>3, <2>1 DEF Stop, TypeOK
  <2> QED BY <1>0, <2>2 DEF Dated
<1>4. ASSUME NEW p \in Node, Fire(p) PROVE age'[n][q] >= silent'[q]
  <2>1. silent' = silent /\ p \in up BY <1>4 DEF Fire
  <2>2. CASE p \in holds
    <3>1. p \in Holder /\ Announce(p)
      BY <1>0, <1>4, <2>2 DEF TypeOK, Fire, Republish, ToAnnounce
    <3> QED BY <1>0, <1>b, <1>c, <2>1, <3>1 DEF Dated
  <2>3. CASE p \notin holds
    <3>1. UNCHANGED <<providers, age>> BY <1>4, <2>3 DEF Fire, Republish, ToAnnounce, maps
    <3> QED BY <1>0, <1>a, <2>1, <3>1 DEF Dated
  <2> QED BY <2>2, <2>3
<1>5. ASSUME NEW p \in Holder, Acquire(p) PROVE age'[n][q] >= silent'[q]
  <2>1. silent' = silent /\ p \in up /\ Announce(p) BY <1>5 DEF Acquire
  <2> QED BY <1>0, <1>b, <1>c, <2>1 DEF Dated
<1>6. ASSUME NEW p \in Holder, NEW r \in Round, NEW m \in Node, Reach(p, r, m)
      PROVE age'[n][q] >= silent'[q]
  <2>1. silent' = silent /\ m \in due[p][r] BY <1>6 DEF Reach
  <2>2. CASE n = m /\ q = p
    <3>1. silent[q] = 0 BY <1>0, <2>1, <2>2 DEF Inv, Sent
    <3> QED BY <1>b, <2>1, <3>1
  <2>3. CASE ~ (n = m /\ q = p)
    <3>1. age'[n][q] = age[n][q] /\ q \in providers[n]
      BY <1>0, <1>6, <1>a, <2>3 DEF Reach, AddProvider, TypeOK
    <3> QED BY <1>0, <2>1, <3>1 DEF Dated
  <2> QED BY <2>2, <2>3
<1>7. ASSUME NEW p \in Holder, NEW r \in Round, NEW m \in Node, Miss(p, r, m)
      PROVE age'[n][q] >= silent'[q]
  BY <1>0, <1>7, <1>a DEF Miss, maps, Dated
<1>8. ASSUME Tick PROVE age'[n][q] >= silent'[q]
  <2>1. q \in providers[n] /\ age'[n][q] = Older(age[n][q]) BY <1>8, <1>a DEF Tick
  <2>2. silent'[q] = (IF q \in up THEN 0 ELSE Older(silent[q])) BY <1>8 DEF Tick
  <2>3. age[n][q] >= silent[q] BY <1>0, <2>1 DEF Dated
  <2>4. age[n][q] \in 0..(Ttl + 1) /\ silent[q] \in 0..(Ttl + 1) BY <1>0 DEF TypeOK
  <2> QED BY <1>b, <2>1, <2>2, <2>3, <2>4 DEF Older
<1>9. CASE UNCHANGED vars BY <1>0, <1>9, <1>a DEF vars, maps, history, Dated
<1> QED BY <1>1, <1>2, <1>3, <1>4, <1>5, <1>6, <1>7, <1>8, <1>9 DEF Next

-----------------------------------------------------------------------------
(* The theorems *)

\* Every reachable state satisfies the inductive invariant.
THEOREM InvHolds == Spec => []Inv
<1>1. Init => Inv
  <2> SUFFICES ASSUME Init PROVE Inv OBVIOUS
  <2>1. TypeOK
    <3>1. Slack + 1 \in 0..(Slack + 1) /\ 0 \in 0..(Ttl + 1) /\ 0 \in 0..Period
      BY PeriodAssumption
    <3> QED BY <3>1 DEF Init, TypeOK, Unknown
  <2>2. \A n \in Node, p \in Holder : Fresh(n, p) /\ Dated(n, p)
    BY PeriodAssumption DEF Init, Fresh, Dated, Unknown
  <2>3. \A p \in Holder : p \in up => silent[p] = 0 BY DEF Init
  <2>4. \A p \in Holder, r \in Round : Sent(p, r) BY DEF Init, Sent
  <2> QED BY <2>1, <2>2, <2>3, <2>4 DEF Inv
<1>2. Inv /\ [Next]_vars => Inv'
  <2> SUFFICES ASSUME Inv, [Next]_vars PROVE Inv' OBVIOUS
  <2>1. TypeOK' BY TypeStep DEF Inv
  <2>2. \A n \in Node, p \in Holder : Fresh(n, p)' /\ Dated(n, p)' BY FreshStep, DatedStep
  <2>3. \A p \in Holder : (p \in up' => silent'[p] = 0) /\ \A r \in Round : Sent(p, r)'
    BY SentStep
  <2> QED BY <2>1, <2>2, <2>3 DEF Inv
<1> QED BY <1>1, <1>2, PTL DEF Spec

\* The variables keep their types, and no announcement of a node has the node
\* itself to reach (kademlia.go:330).
THEOREM TypeCorrect == Spec => []TypeOK
<1>1. Inv => TypeOK BY DEF Inv
<1> QED BY <1>1, InvHolds, PTL

\* A record does not run out while its provider republishes (node.go:261-283,
\* kademlia.go:98-117).
THEOREM RecordKeptHolds == Spec => []RecordKept
<1>1. Inv => RecordKept
  <2> SUFFICES ASSUME Inv, NEW n \in up, NEW p \in up \cap Holder, missed[n][p] <= Slack
               PROVE  p \in Handed(n)
    BY DEF RecordKept
  <2>1. n \in Node BY DEF Inv, TypeOK
  <2> QED BY <2>1, FreshIsValid
<1> QED BY <1>1, InvHolds, PTL

\* Nobody hands out a provider that has been gone for longer than a record
\* lives (kademlia.go:111-114).
THEOREM DeadForgottenHolds == Spec => []DeadForgotten
<1>1. Inv => DeadForgotten
  <2> SUFFICES ASSUME Inv, NEW n \in Node, NEW p \in Holder, p \in Handed(n)
               PROVE  silent[p] <= Ttl
    BY DEF DeadForgotten
  <2>1. age[n][p] <= Ttl /\ p \in providers[n] BY DEF Handed, Valid
  <2>2. age[n][p] >= silent[p] BY <2>1 DEF Inv, Dated
  <2>3. age[n][p] \in Nat /\ silent[p] \in Nat /\ Ttl \in Nat
    BY PeriodAssumption DEF Inv, TypeOK
  <2> QED BY <2>1, <2>2, <2>3
<1> QED BY <1>1, InvHolds, PTL

-----------------------------------------------------------------------------
(* Progress: how a record comes back. *)

\* A step in which no announcement of p misses n.
Unmissed(n, p) == \A r \in Round : ~ Miss(p, r, n)

\* While n and p both run, p has the chunk and n is not missed, every step
\* brings the record nearer to n: what has been reached stays reached, whatever
\* late requests, sweeps and restarts of others do; a request on its way to n
\* stays on its way until it has arrived; and the ticker of p sends a new one
\* (kademlia.go:216-234, node.go:261-283).
RecordApproaches ==
  [][\A n \in Node, p \in Holder :
       Serving(n, p) /\ Serving(n, p)' /\ Unmissed(n, p) =>
         /\ missed[n][p] = 0 => missed'[n][p] = 0
         /\ \A r \in Round : n \in due[p][r] => n \in due'[p][r] \/ missed'[n][p] = 0
         /\ Fire(p) => missed'[n][p] = 0 \/ \E r \in Round : n \in due'[p][r]]_vars

\* Once reached, n hands p out for as long as this goes on.
RecordStays ==
  \A n \in Node, p \in Holder :
    [](missed[n][p] = 0 /\ []Serving(n, p) /\ [][Unmissed(n, p)]_vars => [](p \in Handed(n)))

\* Announcing q's chunk takes nothing from n that it has of p.
LEMMA AnnounceApproaches ==
  ASSUME TypeOK, NEW q \in Holder, Announce(q), NEW n \in Node, NEW p \in Holder, p \in up'
  PROVE  /\ missed[n][p] = 0 => missed'[n][p] = 0
         /\ \A r \in Round : n \in due[p][r] => n \in due'[p][r]
         /\ p = q => missed'[n][p] = 0 \/ \E r \in Round : n \in due'[p][r]
<1>1. q \in Node /\ p \in Node
  BY HolderAssumption
<1>2. missed' = [missed EXCEPT ![q][q] = IF q \in up' THEN 0 ELSE Unknown]
  BY DEF Announce, AddProvider
<1>3. PICK o \in Round : due[q][o] = {} /\ due' = [due EXCEPT ![q][o] = Others(q)]
  BY DEF Announce
<1>4. missed'[n][p] = IF n = q /\ p = q THEN 0 ELSE missed[n][p]
  BY <1>1, <1>2 DEF TypeOK
<1>5. \A r \in Round : due'[p][r] = IF p = q /\ r = o THEN Others(q) ELSE due[p][r]
  BY <1>3 DEF TypeOK
<1>6. p = q => missed'[n][p] = 0 \/ n \in due'[p][o]
  BY <1>4, <1>5 DEF Others
<1> QED BY <1>3, <1>4, <1>5, <1>6

\* One step, seen from n and p.
LEMMA Approaches ==
  ASSUME TypeOK, [Next]_vars, NEW n \in Node, NEW p \in Holder,
         Serving(n, p), Serving(n, p)', Unmissed(n, p)
  PROVE  /\ missed[n][p] = 0 => missed'[n][p] = 0
         /\ \A r \in Round : n \in due[p][r] => n \in due'[p][r] \/ missed'[n][p] = 0
<1> DEFINE Goal == /\ missed[n][p] = 0 => missed'[n][p] = 0
                   /\ \A r \in Round : n \in due[p][r] => n \in due'[p][r] \/ missed'[n][p] = 0
<1>1. n \in up /\ p \in up /\ p \in holds /\ n \in up' /\ p \in up' /\ p \in Node
  BY HolderAssumption DEF Serving
<1>2. ASSUME UNCHANGED <<missed, due>> PROVE Goal
  BY <1>2
<1>3. ASSUME NEW q \in Holder, Announce(q) PROVE Goal
  BY <1>1, <1>3, AnnounceApproaches
<1>4. ASSUME NEW m \in Node, GetProviders(m) PROVE Goal
  BY <1>2, <1>4 DEF GetProviders, history
<1>5. ASSUME NEW m \in Node, Start(m) PROVE Goal
  <2>1. CASE m \in holds
    BY <1>3, <1>5, <2>1 DEF Start, TypeOK
  <2>2. CASE m \notin holds
    BY <1>2, <1>5, <2>2 DEF Start
  <2> QED BY <2>1, <2>2
<1>6. ASSUME NEW m \in Node, Stop(m) PROVE Goal
  <2>1. m # n /\ m # p
    BY <1>1, <1>6 DEF Stop
  <2>2. missed'[n][p] = missed[n][p] /\ due' = due
    BY <1>1, <1>6, <2>1 DEF Stop
  <2> QED BY <2>2
<1>7. ASSUME NEW m \in Node, Fire(m) PROVE Goal
  <2>1. CASE m \in holds
    BY <1>3, <1>7, <2>1 DEF Fire, Republish, ToAnnounce, TypeOK
  <2>2. CASE m \notin holds
    BY <1>2, <1>7, <2>2 DEF Fire, Republish, ToAnnounce
  <2> QED BY <2>1, <2>2
<1>8. ASSUME NEW q \in Holder, Acquire(q) PROVE Goal
  BY <1>3, <1>8 DEF Acquire
<1>9. ASSUME NEW q \in Holder, NEW r \in Round, NEW m \in Node, Reach(q, r, m) PROVE Goal
  <2>1. /\ due' = [due EXCEPT ![q][r] = @ \ {m}]
        /\ missed' = [missed EXCEPT ![m][q] = IF q \in up' THEN 0 ELSE Unknown]
    BY <1>9 DEF Reach, AddProvider
  <2>2. missed'[n][p] = IF m = n /\ q = p THEN 0 ELSE missed[n][p]
    BY <1>1, <2>1 DEF TypeOK
  <2>3. \A o \in Round : due'[p][o] = IF q = p /\ o = r THEN due[p][o] \ {m} ELSE due[p][o]
    BY <2>1 DEF TypeOK
  <2> QED BY <2>2, <2>3
<1>10. ASSUME NEW q \in Holder, NEW r \in Round, NEW m \in Node, Miss(q, r, m) PROVE Goal
  <2>1. m # n \/ q # p
    BY <1>10 DEF Unmissed
  <2>2. missed'[n][p] = missed[n][p] /\ due' = [due EXCEPT ![q][r] = @ \ {m}]
    BY <1>10, <2>1 DEF Miss, TypeOK
  <2>3. \A o \in Round : due'[p][o] = IF q = p /\ o = r THEN due[p][o] \ {m} ELSE due[p][o]
    BY <2>2 DEF TypeOK
  <2> QED BY <2>1, <2>2, <2>3
<1>11. ASSUME Tick PROVE Goal
  BY <1>2, <1>11 DEF Tick
<1>12. ASSUME UNCHANGED vars PROVE Goal
  BY <1>2, <1>12 DEF vars, history
<1> HIDE DEF Goal
<1>13. Goal
  BY <1>4, <1>5, <1>6, <1>7, <1>8, <1>9, <1>10, <1>11, <1>12 DEF Next
<1> QED BY <1>13 DEF Goal

\* The record of a provider that keeps republishing comes nearer with every
\* step: it is not lost again once it is there, and nothing but its arrival
\* ends the request that brings it (node.go:261-283, kademlia.go:216-234).
THEOREM RecordApproachesHolds == Spec => RecordApproaches
<1>1. ASSUME TypeOK, [Next]_vars, NEW n \in Node, NEW p \in Holder,
             Serving(n, p), Serving(n, p)', Fire(p)
      PROVE  missed'[n][p] = 0 \/ \E r \in Round : n \in due'[p][r]
  <2>1. Announce(p) /\ p \in up'
    BY <1>1 DEF Serving, Fire, Republish, ToAnnounce
  <2> QED BY <1>1, <2>1, AnnounceApproaches
<1>2. TypeOK /\ [Next]_vars =>
        [\A n \in Node, p \in Holder :
           Serving(n, p) /\ Serving(n, p)' /\ Unmissed(n, p) =>
             /\ missed[n][p] = 0 => missed'[n][p] = 0
             /\ \A r \in Round : n \in due[p][r] => n \in due'[p][r] \/ missed'[n][p] = 0
             /\ Fire(p) => missed'[n][p] = 0 \/ \E r \in Round : n \in due'[p][r]]_vars
  BY <1>1, Approaches
<1> QED BY <1>2, TypeCorrect, PTL DEF Spec, RecordApproaches

\* A node that has been reached hands the provider out for as long as both run
\* and it is missed no more: of RecordReturns, all but the first arrival
\* (kademlia.go:98-117, node.go:261-283).
THEOREM RecordStaysHolds == Spec => RecordStays
<1> SUFFICES ASSUME NEW n \in Node, NEW p \in Holder
             PROVE  Spec => [](missed[n][p] = 0 /\ []Serving(n, p) /\ [][Unmissed(n, p)]_vars => [](p \in Handed(n)))
  BY DEF RecordStays
<1> DEFINE Reached == missed[n][p] = 0
           Kept == p \in Handed(n)
<1>1. Inv /\ Reached /\ Serving(n, p) /\ Serving(n, p)' /\ [Next]_vars /\ [Unmissed(n, p)]_vars => Reached'
  <2>1. ASSUME UNCHANGED vars, Reached PROVE Reached'
    BY <2>1 DEF vars, history
  <2> QED BY <2>1, Approaches DEF Inv
<1>2. Inv /\ Reached => Kept
  BY PeriodAssumption, FreshIsValid
<1> HIDE DEF Reached, Kept
<1>3. Spec => [](Reached /\ []Serving(n, p) /\ [][Unmissed(n, p)]_vars => []Kept)
  BY <1>1, <1>2, InvHolds, PTL DEF Spec
<1> QED BY <1>3 DEF Reached, Kept
=============================================================================
