--------------------------- MODULE PingPoolProofs ---------------------------
(***************************************************************************)
(* Proofs about PingPool: the composition keeps the specification of the   *)
(* connection pool, and its table implements the abstract peer cache,      *)
(* for any number of pings, contacts and other senders.                    *)
(***************************************************************************)
EXTENDS PingPool, ConnPoolProofs, FiniteSetTheorems

\* The probes of the cache are the pings under way.
ProbeOf(p) == [idx |-> 0, old |-> want[p], new |-> cand[p]]
Probes == {ProbeOf(p) : p \in Pinging}

\* The pings under way are for different peers of the bucket.
TableInv ==
  /\ TableTypeOK
  /\ IsFiniteSet(held)
  /\ \A p \in Pinging : want[p] \in held /\ cand[p] \in Contact
  /\ \A p, q \in Pinging : want[p] = want[q] => p = q

-----------------------------------------------------------------------------
(* What a step does to the goroutines *)

\* A step of a send changes the place of no other, and no contact.
LEMMA StepFrame ==
  ASSUME TypeOK, NEW p \in Proc, Step(p) \/ DialError(p)
  PROVE  /\ want' = want
         /\ pc[p] # "idle"
         /\ \A q \in Proc \ {p} : pc'[q] = pc[q]
BY DEF Step, DialError, Tries, GetPooled, GetWait, GetDial, DialOk, DialFail, GiveUpDial, WaitDone, WaitFail,
       OpenOk, OpenFailFirst, OpenFailAgain, ReplyOk, ReplyInvalid, ReplyLost, Return, TypeOK

\* So does the start of one, apart from its own.
LEMMA SendFrame ==
  ASSUME TypeOK, NEW p \in Proc, NEW c \in Contact, Send(p, c)
  PROVE  /\ pc[p] = "idle" /\ pc'[p] = "get" /\ want'[p] = c
         /\ \A q \in Proc \ {p} : pc'[q] = pc[q] /\ want'[q] = want[q]
BY DEF Send, TypeOK

\* The environment leaves them where they are.
LEMMA EnvironmentFrame == Environment => UNCHANGED <<pc, want>>
BY DEF Environment, Expire, CloseConn, Rebind

-----------------------------------------------------------------------------
(* The steps of the composition *)

\* A step is one of the pool, or none of its business.
LEMMA PoolStepOrStutter == TableInv /\ [TableNext]_allVars => [Next]_vars
<1> SUFFICES ASSUME TableInv, [TableNext]_allVars PROVE [Next]_vars OBVIOUS
<1>1. ASSUME NEW p \in Proc, Advance(p) PROVE Next
  BY <1>1 DEF Advance, Step, Next
<1>2. ASSUME NEW c \in Contact, HearAppend(c) PROVE UNCHANGED vars
  BY <1>2 DEF HearAppend
<1>3. ASSUME NEW p \in Proc, NEW c \in Contact, Send(p, c) PROVE Next
  BY <1>3 DEF Next
<1>4. ASSUME Environment PROVE Next BY <1>4 DEF Environment, Next
<1>5. ASSUME UNCHANGED allVars PROVE UNCHANGED vars BY <1>5 DEF allVars
<1>6. ASSUME NEW p \in Pinger, NEW c \in Contact, HearPing(p, c) PROVE Next
  <2>1. PICK oldest \in held : Send(p, oldest) BY <1>6 DEF HearPing
  <2>2. p \in Proc /\ oldest \in Contact BY PingerAssumption DEF TableInv, TableTypeOK
  <2> QED BY <2>1, <2>2 DEF Next
<1>7. ASSUME HostFails PROVE Next BY <1>7 DEF HostFails, Next
<1> QED BY <1>1, <1>2, <1>3, <1>4, <1>5, <1>6, <1>7 DEF TableNext, SoundNext

\* How the bucket and the pings change: not at all, by a peer that fills a
\* free place, by a ping that starts, or by one that ends.
Ended(p) ==
  /\ p \in Pinging /\ Pinging' = Pinging \ {p} /\ want' = want
  /\ cand' = [cand EXCEPT ![p] = NoCand]

LEMMA TableSteps ==
  ASSUME TypeOK, TableInv, [TableNext]_allVars
  PROVE  \/ /\ UNCHANGED <<held, cand>> /\ Pinging' = Pinging
            /\ \A q \in Pinging : want'[q] = want[q]
         \/ /\ HasRoom /\ UNCHANGED <<cand, pc, want>>
            /\ \E c \in Contact \ held : held' = held \cup {c}
         \/ \E p \in Pinger \ Pinging, old \in held, c \in Contact \ held :
              /\ ~ HasRoom /\ Unpinged(old)
              /\ held' = held /\ cand' = [cand EXCEPT ![p] = c]
              /\ Pinging' = Pinging \cup {p} /\ want'[p] = old
              /\ \A q \in Pinging : want'[q] = want[q]
         \/ \E p \in Pinging : Ended(p) /\ (held' = held \/ held' = Replaced(p))
<1> DEFINE Quiet == /\ UNCHANGED <<held, cand>> /\ Pinging' = Pinging
                    /\ \A q \in Pinging : want'[q] = want[q]
           Filled == /\ HasRoom /\ UNCHANGED <<cand, pc, want>>
                     /\ \E c \in Contact \ held : held' = held \cup {c}
           Started == \E p \in Pinger \ Pinging, old \in held, c \in Contact \ held :
              /\ ~ HasRoom /\ Unpinged(old)
              /\ held' = held /\ cand' = [cand EXCEPT ![p] = c]
              /\ Pinging' = Pinging \cup {p} /\ want'[p] = old
              /\ \A q \in Pinging : want'[q] = want[q]
           Over == \E p \in Pinging : Ended(p) /\ (held' = held \/ held' = Replaced(p))
<1> USE PingerAssumption
<1>1. ASSUME NEW c \in Contact, HearAppend(c) PROVE Filled
  BY <1>1 DEF HearAppend, vars
<1>2. ASSUME NEW p \in Pinger, NEW c \in Contact, HearPing(p, c) PROVE Started
  <2>1. PICK old \in held : Unpinged(old) /\ Send(p, old) BY <1>2 DEF HearPing
  <2>2. p \in Proc /\ old \in Contact BY DEF TableInv, TableTypeOK
  <2>3. /\ pc[p] = "idle" /\ pc'[p] = "get" /\ want'[p] = old
        /\ \A q \in Proc \ {p} : pc'[q] = pc[q] /\ want'[q] = want[q]
    BY <2>1, <2>2, SendFrame
  <2>4. p \notin Pinging /\ Pinging' = Pinging \cup {p} BY <2>3 DEF Pinging
  <2>5. \A q \in Pinging : want'[q] = want[q] BY <2>3, <2>4 DEF Pinging
  <2> QED BY <1>2, <2>1, <2>3, <2>4, <2>5 DEF HearPing
<1>3. ASSUME NEW p \in Proc \ Pinger, NEW c \in Contact, Send(p, c), UNCHANGED <<held, cand>>
      PROVE  Quiet
  <2>1. \A q \in Proc \ {p} : pc'[q] = pc[q] /\ want'[q] = want[q] BY <1>3, SendFrame
  <2> QED BY <1>3, <2>1 DEF Pinging
<1>4. ASSUME NEW p \in Proc, Step(p) \/ DialError(p), NEW ok \in BOOLEAN, TryReplace(p, ok)
      PROVE  Quiet \/ Over
  <2>1. /\ want' = want /\ pc[p] # "idle"
        /\ \A q \in Proc \ {p} : pc'[q] = pc[q]
    BY <1>4, StepFrame
  <2>2. CASE p \in Pinger /\ pc'[p] = "idle"
    <3>1. p \in Pinging /\ Pinging' = Pinging \ {p} BY <2>1, <2>2 DEF Pinging
    <3>2. cand' = [cand EXCEPT ![p] = NoCand] /\ (held' = held \/ held' = Replaced(p))
      BY <1>4, <2>2 DEF TryReplace
    <3> QED BY <2>1, <3>1, <3>2 DEF Ended
  <2>3. CASE ~ (p \in Pinger /\ pc'[p] = "idle")
    <3>1. UNCHANGED <<held, cand>> BY <1>4, <2>3 DEF TryReplace
    <3>2. Pinging' = Pinging BY <2>1, <2>3 DEF Pinging
    <3> QED BY <2>1, <3>1, <3>2
  <2> QED BY <2>2, <2>3
<1>5. ASSUME Environment, UNCHANGED <<held, cand>> PROVE Quiet
  BY <1>5, EnvironmentFrame DEF Pinging
<1>6. ASSUME UNCHANGED allVars PROVE Quiet
  BY <1>6 DEF allVars, tableVars, vars, Pinging
<1>7. ASSUME NEW p \in Proc, Advance(p) PROVE Quiet \/ Over
  BY <1>4, <1>7 DEF Advance, Step
<1>8. ASSUME HostFails PROVE Quiet \/ Over
  BY <1>4, <1>8 DEF HostFails
<1> QED BY <1>1, <1>2, <1>3, <1>5, <1>6, <1>7, <1>8 DEF TableNext, SoundNext

\* A replacement does not make the bucket larger.
LEMMA ReplacedSize ==
  ASSUME TableInv, NEW p \in Pinging
  PROVE  /\ Replaced(p) \subseteq Contact /\ IsFiniteSet(Replaced(p))
         /\ Cardinality(Replaced(p)) <= K
<1>1. want[p] \in held /\ cand[p] \in Contact /\ held \subseteq Contact /\ IsFiniteSet(held)
  BY DEF TableInv, TableTypeOK
<1> DEFINE rest == held \ {want[p]}
<1>2. IsFiniteSet(rest) /\ Cardinality(rest) = Cardinality(held) - 1
  BY <1>1, FS_RemoveElement
<1>3. /\ IsFiniteSet(rest \cup {cand[p]})
      /\ Cardinality(rest \cup {cand[p]}) = Cardinality(rest)
         \/ Cardinality(rest \cup {cand[p]}) = Cardinality(rest) + 1
  BY <1>2, FS_AddElement
<1>4. Cardinality(held) \in Nat /\ Cardinality(rest) \in Nat
  BY <1>1, <1>2, FS_CardinalityType
<1>5. Cardinality(held) <= K BY DEF TableInv, TableTypeOK
<1> HIDE DEF rest
<1>6. Cardinality(rest \cup {cand[p]}) <= K BY <1>2, <1>3, <1>4, <1>5, KAssumption
<1> QED BY <1>1, <1>3, <1>6 DEF Replaced, rest

\* The steps keep the bound of the bucket and the pings apart.
LEMMA TableInvStep ==
  ASSUME TypeOK, TableInv, [TableNext]_allVars
  PROVE  TableInv'
<1> USE PingerAssumption
<1>0. calm' \subseteq Pinger
  BY DEF TableInv, TableTypeOK, TableNext, SoundNext, HostFails, Observe, allVars, tableVars
<1>1. CASE UNCHANGED <<held, cand>> /\ Pinging' = Pinging /\ \A q \in Pinging : want'[q] = want[q]
  BY <1>0, <1>1 DEF TableInv, TableTypeOK
<1>2. ASSUME HasRoom, UNCHANGED <<cand, pc, want>>,
             NEW c \in Contact \ held, held' = held \cup {c}
      PROVE  TableInv'
  <2>1. IsFiniteSet(held') /\ Cardinality(held') = Cardinality(held) + 1
    BY <1>2, FS_AddElement DEF TableInv
  <2>2. Cardinality(held') <= K
    BY <1>2, <2>1, KAssumption, FS_CardinalityType DEF HasRoom, TableInv
  <2>3. held' \subseteq Contact BY <1>2 DEF TableInv, TableTypeOK
  <2>4. Pinging' = Pinging BY <1>2 DEF Pinging
  <2> QED BY <1>0, <1>2, <2>1, <2>2, <2>3, <2>4 DEF TableInv, TableTypeOK
<1>3. ASSUME NEW p \in Pinger \ Pinging, NEW old \in held, NEW c \in Contact \ held,
             Unpinged(old), held' = held, cand' = [cand EXCEPT ![p] = c],
             Pinging' = Pinging \cup {p}, want'[p] = old,
             \A q \in Pinging : want'[q] = want[q]
      PROVE  TableInv'
  <2>1. \A q \in Pinging : want[q] # old BY <1>3 DEF Unpinged
  <2>2. \A q \in Pinging : q # p /\ q \in Pinger BY DEF Pinging
  <2>3. \A q \in Pinging' : want'[q] \in held' /\ cand'[q] \in Contact
    BY <1>3, <2>2 DEF TableInv, TableTypeOK
  <2>4. \A q, r \in Pinging' : want'[q] = want'[r] => q = r
    BY <1>3, <2>1 DEF TableInv
  <2> QED BY <1>0, <1>3, <2>3, <2>4 DEF TableInv, TableTypeOK
<1>4. ASSUME NEW p \in Pinging, Ended(p), held' = held \/ held' = Replaced(p) PROVE TableInv'
  <2>1. p \in Pinger /\ \A q \in Pinging' : q \in Pinging /\ q # p
    BY <1>4 DEF Ended, Pinging
  <2>2. \A q \in Pinging' : want'[q] = want[q] /\ want[q] # want[p] /\ cand'[q] = cand[q]
    BY <1>4, <2>1 DEF Ended, TableInv, TableTypeOK
  <2>3. \A q \in Pinging' : want'[q] \in held' /\ cand'[q] \in Contact
    BY <1>4, <2>1, <2>2 DEF TableInv, Replaced
  <2>4. \A q, r \in Pinging' : want'[q] = want'[r] => q = r
    BY <2>1, <2>2 DEF TableInv
  <2>5. held' \subseteq Contact /\ IsFiniteSet(held') /\ Cardinality(held') <= K
    BY <1>4, ReplacedSize DEF TableInv, TableTypeOK
  <2>6. cand' \in [Pinger -> Contact \cup {NoCand}]
    BY <1>4 DEF Ended, TableInv, TableTypeOK
  <2> QED BY <1>0, <2>3, <2>4, <2>5, <2>6 DEF TableInv, TableTypeOK
<1> QED BY <1>1, <1>2, <1>3, <1>4, TableSteps

\* Every step is a step of the abstract cache, or changes nothing it shows.
LEMMA CacheStep ==
  ASSUME TypeOK, TableInv, [TableNext]_allVars
  PROVE  [Cache!Next]_(Cache!vars)
<1> DEFINE Peers == [b \in {0} |-> held]
<1> USE PingerAssumption
<1>1. CASE UNCHANGED <<held, cand>> /\ Pinging' = Pinging /\ \A q \in Pinging : want'[q] = want[q]
  <2>1. Peers' = Peers BY <1>1
  <2>2. {[idx |-> 0, old |-> want[p], new |-> cand[p]] : p \in Pinging}'
          = {[idx |-> 0, old |-> want[p], new |-> cand[p]] : p \in Pinging}
    BY <1>1
  <2> QED BY <2>1, <2>2 DEF Cache!vars
<1>2. ASSUME HasRoom, UNCHANGED <<cand, pc, want>>,
             NEW c \in Contact \ held, held' = held \cup {c}
      PROVE  Cache!Next
  <2>1. Pinging' = Pinging BY <1>2 DEF Pinging
  <2>2. {[idx |-> 0, old |-> want[p], new |-> cand[p]] : p \in Pinging}'
          = {[idx |-> 0, old |-> want[p], new |-> cand[p]] : p \in Pinging}
    BY <1>2, <2>1
  <2>3. Cache!Cardinality(Peers[0]) < K BY <1>2 DEF HasRoom, Cardinality, Cache!Cardinality
  <2>4. Peers' = [Peers EXCEPT ![0] = @ \cup {c}] BY <1>2
  <2>5. Cache!Learn(0, c) BY <2>2, <2>3, <2>4 DEF Cache!Learn
  <2> QED BY <2>5 DEF Cache!Next
<1>3. ASSUME NEW p \in Pinger \ Pinging, NEW old \in held, NEW c \in Contact \ held,
             ~ HasRoom, Unpinged(old), held' = held, cand' = [cand EXCEPT ![p] = c],
             Pinging' = Pinging \cup {p}, want'[p] = old,
             \A q \in Pinging : want'[q] = want[q]
      PROVE  Cache!Next
  <2>0. Cardinality(held) = K
    BY <1>3, KAssumption, FS_CardinalityType DEF HasRoom, TableInv, TableTypeOK
  <2>1. Cache!Cardinality(Peers[0]) = K
    BY <2>0 DEF Cardinality, Cache!Cardinality
  <2>2. cand'[p] = c /\ \A q \in Pinging : cand'[q] = cand[q]
    BY <1>3 DEF TableInv, TableTypeOK, Pinging
  <2>3. Probes' = Probes \cup {[idx |-> 0, old |-> old, new |-> c]}
    BY <1>3, <2>2 DEF Probes, ProbeOf
  <2>4. \A q \in Probes : ~ (q.idx = 0 /\ q.old = old)
    BY <1>3 DEF Probes, ProbeOf, Unpinged
  <2>5. Peers' = Peers BY <1>3
  <2>6. old \in Contact BY DEF TableInv, TableTypeOK
  <2>7. Cache!StartProbe(0, old, c)
    BY <2>1, <2>3, <2>4, <2>5 DEF Cache!StartProbe, Probes, ProbeOf
  <2> QED BY <2>6, <2>7 DEF Cache!Next
<1>5. ASSUME NEW q, q \in Probes, Cache!Keep(q) \/ Cache!Replace(q) PROVE Cache!Next
  <2>1. \E o \in Probes : Cache!Keep(o) \/ Cache!Replace(o) BY <1>5
  <2>2. Probes = {[idx |-> 0, old |-> want[o], new |-> cand[o]] : o \in Pinging}
    BY DEF Probes, ProbeOf
  <2> QED BY <2>1, <2>2 DEF Cache!Next
<1>4. ASSUME NEW p \in Pinging, Ended(p), held' = held \/ held' = Replaced(p) PROVE Cache!Next
  <2>1. p \in Pinger /\ \A q \in Pinging' : q \in Pinging /\ q # p
    BY <1>4 DEF Ended, Pinging
  <2>2. \A q \in Pinging' : want'[q] = want[q] /\ want[q] # want[p] /\ cand'[q] = cand[q]
    BY <1>4, <2>1 DEF Ended, TableInv, TableTypeOK
  <2>3. PICK r \in Probes : r = ProbeOf(p) BY DEF Probes
  <2>4. Probes' = Probes \ {ProbeOf(p)}
    <3>1. Pinging' = Pinging \ {p} BY <1>4 DEF Ended
    <3>2. \A q \in Pinging \ {p} : ProbeOf(q)' = ProbeOf(q) /\ ProbeOf(q) # ProbeOf(p)
      BY <2>2, <3>1 DEF ProbeOf
    <3> QED BY <3>1, <3>2 DEF Probes
  <2>5. CASE held' = held
    <3>1. Peers' = Peers BY <2>5
    <3>2. Cache!Keep(r) BY <2>3, <2>4, <3>1 DEF Cache!Keep, Probes, ProbeOf
    <3> QED BY <1>5, <2>3, <3>2
  <2>6. CASE held' = Replaced(p)
    <3>1. want[p] \in held BY DEF TableInv
    <3>2. Peers' = [Peers EXCEPT ![0] = (@ \ {want[p]}) \cup {cand[p]}] BY <2>6 DEF Replaced
    <3>3. Cache!Replace(r) BY <2>3, <2>4, <3>1, <3>2 DEF Cache!Replace, Probes, ProbeOf
    <3> QED BY <1>5, <2>3, <3>3
  <2> QED BY <1>4, <2>5, <2>6
<1> QED BY <1>1, <1>2, <1>3, <1>4, TableSteps

-----------------------------------------------------------------------------
(* What a calm ping can meet *)

\* The peer of a calm ping listens at its address, and a connection to it works
\* if the ping has one.  Once the ping has dropped a connection, only the process
\* that is the peer now can be at the other end of another one at its address.
CalmPing(p) ==
  /\ p \in Pinging
  /\ at[AddrOf(p)] = want[p].id
  /\ expired[p] => pc[p] = "exchange" /\ conn[p] \in gone
  /\ conn[p] # NoConn => alive[conn[p]] \/ Stale(p)
  /\ first[p] # NoConn =>
       /\ pool[AddrOf(p)] # NoConn /\ alive[pool[AddrOf(p)]] =>
            peer[pool[AddrOf(p)]] = want[p].id /\ pool[AddrOf(p)] \notin gone
       /\ conn[p] # NoConn => ~ Stale(p)

CalmInv == \A p \in calm : CalmPing(p)

\* A ping is calm from its start only: it has no connection yet.
LEMMA CalmStart ==
  ASSUME Inv, NEW p \in Pinger \ Pinging, StillCalm(p), [Next]_vars
  PROVE  CalmPing(p)'
<1> USE PingerAssumption
<1>1. pc[p] = "idle" /\ pc'[p] # "idle" BY DEF Pinging, StillCalm
<1>2. conn[p] = NoConn /\ first[p] = NoConn BY <1>1 DEF Inv, ConnHeld
<1>3. ASSUME NEW q \in Proc PROVE ~ Step(q) /\ ~ DialError(q) BY <1>1, StepFrame DEF Inv
<1>4. UNCHANGED <<conn, first>>
  BY <1>1, <1>3 DEF Next, Send, Expire, CloseConn, Rebind, vars
<1> QED BY <1>1, <1>2, <1>4 DEF CalmPing, StillCalm, Unheard, Pinging, AddrOf

\* What a step of the pool does to a ping that stays calm.
LEMMA CalmContinues ==
  ASSUME Inv, NEW p \in Pinger, CalmPing(p), StillCalm(p), [Next]_vars
  PROVE  CalmPing(p)'
<1> USE PingerAssumption, ConnAssumption
<1> DEFINE id == want[p].id
           a == AddrOf(p)
           Fresh(k) == peer[k] = id /\ k \notin gone
           FreshNow(k) == peer'[k] = id /\ k \notin gone'
           Waits == pc[p] = "exchange" /\ conn[p] \in gone
           After == /\ Waits => pc'[p] = "exchange" /\ conn'[p] \in gone'
                    /\ conn'[p] # NoConn => alive'[conn'[p]] \/ ~ FreshNow(conn'[p])
                    /\ first'[p] # NoConn =>
                         /\ pool'[a] # NoConn /\ alive'[pool'[a]] => FreshNow(pool'[a])
                         /\ conn'[p] # NoConn => FreshNow(conn'[p])
<1>1. /\ p \in Proc /\ a \in Addr /\ id \in Id /\ pc[p] # "idle"
      /\ TypeOK /\ at[a] = id
  BY DEF CalmPing, Pinging, Inv, TypeOK, Contact, AddrOf
<1>2. want'[p] = want[p]
  <2>1. ASSUME NEW q \in Proc, NEW c \in Contact, Send(q, c) PROVE want'[p] = want[p]
    BY <1>1, <2>1 DEF Send, TypeOK
  <2>2. ASSUME NEW q \in Proc, Step(q) \/ DialError(q) PROVE want'[p] = want[p]
    BY <1>1, <2>2, StepFrame
  <2> QED BY <2>1, <2>2 DEF Next, Expire, CloseConn, Rebind, vars
<1>3. /\ p \in Pinging' /\ AddrOf(p)' = a /\ at'[a] = id /\ pc'[p] # "idle"
      /\ expired'[p] => Waits
      /\ \A k \in Conn : alive[k] /\ Fresh(k) => alive'[k] /\ k \notin gone'
  BY <1>2 DEF StillCalm, Lost, Unheard, Pinging, AddrOf
<1>4. SUFFICES After
  BY <1>2, <1>3 DEF CalmPing, Stale
<1>5. /\ conn[p] # NoConn => alive[conn[p]] \/ ~ Fresh(conn[p])
      /\ first[p] # NoConn =>
           /\ pool[a] # NoConn /\ alive[pool[a]] => Fresh(pool[a])
           /\ conn[p] # NoConn => Fresh(conn[p])
  BY DEF CalmPing, Stale
<1>a. a = want[p].addr BY DEF AddrOf
<1>b. \A q \in Proc : AddrOf(q) \in Addr BY <1>1 DEF TypeOK, Contact, AddrOf
<1>c. conn[p] \in Conn \cup {NoConn} /\ pool[a] \in Conn \cup {NoConn} BY <1>1 DEF TypeOK
<1> HIDE DEF id, a
\* A step that gives p no connection and pools none at its address.
<1>6. CASE /\ UNCHANGED <<alive, peer, gone>> /\ conn'[p] = conn[p] /\ first'[p] = first[p]
           /\ pool'[a] \in {pool[a], NoConn} /\ (pc[p] = "exchange" => pc'[p] = pc[p])
  BY <1>5, <1>6
<1>7. ASSUME NEW q \in Proc, NEW c \in Contact, Send(q, c) PROVE After
  BY <1>1, <1>6, <1>7 DEF Send, network, TypeOK
<1>8. ASSUME NEW q \in Proc, Step(q) \/ DialError(q) PROVE After
  <2>0. q # p => pc'[p] = pc[p] BY <1>1, <1>8, StepFrame
  <2>1. CASE GetWait(q) \/ GetDial(q) \/ WaitDone(q) \/ OpenOk(q)
    BY <1>1, <1>b, <1>6, <2>0, <2>1
       DEF GetWait, GetDial, WaitDone, OpenOk, Evict, network, TypeOK
  \* A pooled connection is alive when it is taken.
  <2>2. CASE GetPooled(q)
    <3>1. /\ UNCHANGED <<alive, peer, gone, pool, first>> /\ pc[q] = "get"
          /\ conn' = [conn EXCEPT ![q] = pool[AddrOf(q)]]
          /\ pool[AddrOf(q)] # NoConn /\ alive[pool[AddrOf(q)]]
      BY <2>2 DEF GetPooled, Usable, network
    <3>2. q = p => AddrOf(q) = a BY <1>a DEF AddrOf
    <3>3. conn'[p] = IF q = p THEN pool[a] ELSE conn[p] BY <1>1, <3>1, <3>2 DEF TypeOK
    <3>4. Waits => q # p BY <3>1
    <3> QED BY <1>5, <2>0, <3>1, <3>2, <3>3, <3>4
  \* A dial at the address of p reaches the process that is its peer now; the
  \* connections in use are others.
  <2>3. CASE DialOk(q)
    <3>1. PICK k \in Conn :
            /\ Unreferenced(k)
            /\ alive' = [alive EXCEPT ![k] = TRUE]
            /\ peer' = [peer EXCEPT ![k] = want[q].id]
            /\ gone' = gone \ {k}
            /\ pool' = [pool EXCEPT ![AddrOf(q)] = k]
            /\ conn' = [r \in Proc |-> IF r \in Receivers(q) THEN k ELSE conn[r]]
      BY <2>3 DEF DialOk
    <3>2. at[AddrOf(q)] = want[q].id /\ first' = first /\ pc[q] = "dial" BY <2>3 DEF DialOk
    <3>3. alive'[k] /\ peer'[k] = want[q].id /\ k \notin gone' BY <1>1, <3>1 DEF TypeOK
    <3>4. \A l \in Conn \ {k} : alive'[l] = alive[l] /\ peer'[l] = peer[l] /\ (l \in gone' <=> l \in gone)
      BY <1>1, <3>1 DEF TypeOK
    <3>5. AddrOf(q) = a => want[q].id = id BY <1>1, <3>2
    <3>6. p \in Receivers(q) => AddrOf(q) = a BY <1>a DEF Receivers, Waiters, AddrOf
    <3>7. conn'[p] = IF p \in Receivers(q) THEN k ELSE conn[p] BY <1>1, <3>1
    <3>8. pool'[a] = IF AddrOf(q) = a THEN k ELSE pool[a] BY <1>1, <3>1 DEF TypeOK
    <3>9. conn[p] # k /\ pool[a] # k BY <1>1, <3>1 DEF Unreferenced
    <3>10. Waits => p \notin Receivers(q) /\ q # p BY <3>2 DEF Receivers, Waiters
    <3>11. conn'[p] # NoConn => alive'[conn'[p]] \/ ~ FreshNow(conn'[p])
      BY <1>5, <1>c, <3>3, <3>4, <3>7, <3>9
    <3>12. first[p] # NoConn /\ pool'[a] # NoConn /\ alive'[pool'[a]] => FreshNow(pool'[a])
      BY <1>5, <1>c, <3>3, <3>4, <3>5, <3>8, <3>9
    <3>13. first[p] # NoConn /\ conn'[p] # NoConn => FreshNow(conn'[p])
      BY <1>5, <1>c, <3>3, <3>4, <3>5, <3>6, <3>7, <3>9
    <3>14. Waits => pc'[p] = "exchange" /\ conn'[p] \in gone'
      BY <2>0, <3>1, <3>7, <3>9, <3>10
    <3> QED BY <3>2, <3>11, <3>12, <3>13, <3>14
  \* The first attempt has failed: nothing is pooled at the address any more.
  <2>4. CASE OpenFailFirst(q)
    <3>1. /\ UNCHANGED <<alive, peer, gone>> /\ pc[q] = "open"
          /\ pool' = [pool EXCEPT ![AddrOf(q)] = NoConn]
          /\ conn' = [conn EXCEPT ![q] = NoConn]
          /\ first' = [first EXCEPT ![q] = conn[q]]
      BY <2>4 DEF OpenFailFirst, DropConn, network
    <3>2. q = p => AddrOf(q) = a BY <1>a DEF AddrOf
    <3>3. /\ pool'[a] \in {pool[a], NoConn}
          /\ q = p => pool'[a] = NoConn /\ conn'[p] = NoConn /\ ~ Waits
          /\ q # p => conn'[p] = conn[p] /\ first'[p] = first[p]
      BY <1>1, <3>1, <3>2 DEF TypeOK
    <3> QED BY <1>5, <2>0, <3>1, <3>3
  \* A send that returns is another one, and lets go of its connections.
  <2>5. CASE \/ DialFail(q) \/ DialError(q) \/ WaitFail(q) \/ OpenFailAgain(q)
             \/ ReplyOk(q) \/ ReplyInvalid(q) \/ ReplyLost(q)
    <3>1. /\ UNCHANGED <<alive, peer, gone>> /\ pc' = [pc EXCEPT ![q] = "idle"]
          /\ conn' = [conn EXCEPT ![q] = NoConn]
          /\ first' = [first EXCEPT ![q] = NoConn]
          /\ pool' = pool \/ pool' = [pool EXCEPT ![AddrOf(q)] = NoConn]
      BY <2>5 DEF DialFail, DialError, GiveUpDial, WaitFail, OpenFailAgain, ReplyOk, ReplyInvalid,
                  ReplyLost, DropConn, Return, network
    <3>2. q # p BY <1>1, <1>3, <3>1 DEF TypeOK
    <3>3. /\ pool'[a] \in {pool[a], NoConn}
          /\ conn'[p] = conn[p] /\ first'[p] = first[p]
      BY <1>1, <3>1, <3>2 DEF TypeOK
    <3> QED BY <1>6, <2>0, <3>1, <3>2, <3>3
  <2> QED BY <1>8, <2>1, <2>2, <2>3, <2>4, <2>5 DEF Step, Tries
<1>9. ASSUME NEW k \in Conn, CloseConn(k) PROVE After
  <2>1. UNCHANGED <<pool, peer, gone, pc, conn, first>> /\ \A l \in Conn : alive'[l] => alive[l]
    BY <1>1, <1>9 DEF CloseConn, TypeOK
  <2>2. conn[p] # NoConn => alive'[conn[p]] \/ ~ Fresh(conn[p]) BY <1>3, <1>5, <1>c
  <2> QED BY <1>5, <1>c, <2>1, <2>2
<1>10. ASSUME NEW b \in Addr, NEW i \in Id \cup {Nobody}, Rebind(b, i) PROVE After
  <2>1. UNCHANGED <<pool, alive, peer, pc, conn, first>> /\ gone \subseteq gone'
    BY <1>10 DEF Rebind
  <2>2. \A l \in Conn : alive[l] /\ Fresh(l) => FreshNow(l) BY <1>3, <2>1
  <2>3. Waits => conn[p] \in gone' BY <2>1
  <2> QED BY <1>5, <1>c, <2>1, <2>2, <2>3
<1>11. CASE (\E q \in Proc : Expire(q)) \/ UNCHANGED vars
  BY <1>6, <1>11 DEF Expire, vars, network
<1> QED BY <1>7, <1>8, <1>9, <1>10, <1>11 DEF Next

LEMMA CalmStep == Inv /\ TableInv /\ CalmInv /\ [TableNext]_allVars => CalmInv'
<1> SUFFICES ASSUME Inv, TableInv, CalmInv, [TableNext]_allVars, NEW p \in calm'
             PROVE  CalmPing(p)'
  BY DEF CalmInv
<1>1. [Next]_vars BY PoolStepOrStutter
<1>2. CASE UNCHANGED allVars
  <2>1. p \in calm /\ CalmPing(p) BY <1>2 DEF CalmInv, allVars, tableVars
  <2> QED BY <1>2, <2>1
        DEF CalmPing, Stale, Pinging, AddrOf, allVars, vars
<1>3. CASE Observe
  <2>1. p \in Pinger /\ StillCalm(p) BY <1>3 DEF Observe
  <2>2. CASE p \notin Pinging BY <1>1, <2>1, <2>2, CalmStart
  <2>3. CASE p \in calm BY <1>1, <2>1, <2>3, CalmContinues DEF CalmInv
  <2> QED BY <2>1, <2>2, <2>3 DEF StillCalm
<1> QED BY <1>2, <1>3 DEF TableNext, SoundNext, HostFails

\* What a calm ping that is given up has met: a dial that failed, or a first
\* attempt that shared a connection which does not lead to its peer any more.
LEMMA CalmEviction ==
  ASSUME TypeOK, TableInv, CalmInv, [TableNext]_allVars,
         NEW p \in Pinger, p \in calm, Evicted(p)
  PROVE  \/ pc[p] = "wait" /\ call[p] = "failed"
         \/ pc[p] = "dial"
         \/ pc[p] = "exchange" /\ first[p] = NoConn /\ Stale(p)
<1> USE PingerAssumption
<1>1. p \in Pinging /\ want[p] \in held /\ want[p] \notin held' BY DEF Evicted
\* Nobody else pings the same peer, so p itself has replaced it.
<1>2. pc'[p] = "idle" /\ (Tries(p) \/ DialError(p))
  <2>1. ASSUME NEW q \in Proc, NEW ok \in BOOLEAN, Step(q) \/ DialError(q), TryReplace(q, ok),
               held' # held
        PROVE  q = p /\ pc'[p] = "idle" /\ ok = FALSE
    <3>1. q \in Pinger /\ pc'[q] = "idle" /\ ok = FALSE /\ held' = Replaced(q)
      BY <2>1 DEF TryReplace
    <3>2. q \in Pinging BY <2>1, <3>1, StepFrame DEF Pinging
    <3>3. want[q] = want[p] BY <1>1, <3>1 DEF Replaced
    <3>4. q = p BY <1>1, <3>2, <3>3 DEF TableInv
    <3> QED BY <3>1, <3>4
  <2>2. (\E q \in Proc : Advance(q)) \/ HostFails
    BY <1>1 DEF TableNext, SoundNext, HearAppend, HearPing, allVars, tableVars
  <2>3. ASSUME NEW q \in Proc, Advance(q) PROVE pc'[p] = "idle" /\ Tries(p)
    <3>1. CASE ReplyOk(q) /\ TryReplace(q, TRUE) BY <1>1, <2>1, <3>1 DEF Step
    <3>2. CASE Tries(q) /\ TryReplace(q, FALSE) BY <1>1, <2>1, <3>2 DEF Step
    <3> QED BY <2>3, <3>1, <3>2 DEF Advance
  <2>4. ASSUME HostFails PROVE pc'[p] = "idle" /\ DialError(p)
    BY <1>1, <2>1, <2>4 DEF HostFails
  <2> QED BY <2>2, <2>3, <2>4
<1>3. CalmPing(p) BY DEF CalmInv
<1>4. /\ at[AddrOf(p)] = want[p].id
      /\ expired[p] => pc[p] = "exchange" /\ conn[p] \in gone
      /\ conn[p] # NoConn => alive[conn[p]] \/ Stale(p)
      /\ first[p] # NoConn /\ conn[p] # NoConn => ~ Stale(p)
  BY <1>3 DEF CalmPing
<1>5. p \in Proc /\ pc[p] \in {"open", "exchange"} => conn[p] # NoConn
  BY ConnAssumption DEF TypeOK
<1>6. DialFail(p) \/ DialError(p) \/ WaitFail(p) \/ OpenFailAgain(p) \/ ReplyInvalid(p) \/ ReplyLost(p)
  BY <1>2 DEF Tries, GetPooled, GetWait, GetDial, DialOk, WaitDone, OpenOk, OpenFailFirst, TypeOK
<1>7. DialFail(p) \/ DialError(p) => pc[p] = "dial" BY DEF DialFail, DialError, GiveUpDial
<1>8. WaitFail(p) => pc[p] = "wait" /\ call[p] = "failed" BY <1>4 DEF WaitFail, WaitEnds
<1>9. ~ OpenFailAgain(p) BY <1>4, <1>5 DEF OpenFailAgain, MayRetry
<1>10. ReplyInvalid(p) => pc[p] = "exchange" /\ Stale(p)
  BY DEF ReplyInvalid, SenderMatches, Sender, Stale
<1>11. ReplyLost(p) => pc[p] = "exchange" /\ Stale(p)
  BY <1>4, <1>5 DEF ReplyLost, Stale
<1>12. pc[p] = "exchange" /\ Stale(p) => first[p] = NoConn BY <1>4, <1>5
<1> QED BY <1>6, <1>7, <1>8, <1>9, <1>10, <1>11, <1>12

-----------------------------------------------------------------------------
(* The theorems *)

LEMMA TableInitInv == TableInit => Inv /\ TableInv
<1> SUFFICES ASSUME TableInit PROVE Inv /\ TableInv OBVIOUS
<1>1. Inv BY InitInv DEF TableInit
<1>2. Pinging = {} BY PingerAssumption DEF TableInit, Init, Pinging
<1>3. IsFiniteSet({}) /\ Cardinality({}) = 0 BY FS_EmptySet
<1>4. TableInv BY <1>2, <1>3, KAssumption DEF TableInit, TableInv, TableTypeOK
<1> QED BY <1>1, <1>4

LEMMA JointStep == Inv /\ TableInv /\ [TableNext]_allVars => Inv' /\ TableInv'
<1>1. Inv => TypeOK BY DEF Inv
<1> QED BY <1>1, PoolStepOrStutter, NextInv, TableInvStep

\* Every reachable state of the composition satisfies both invariants.
THEOREM TableInvHolds == TableSpec => [](Inv /\ TableInv)
BY TableInitInv, JointStep, PTL DEF TableSpec

\* The bucket keeps to its size (routing.go:55, 88-111).
THEOREM TableTypeCorrect == TableSpec => []TableTypeOK
<1>1. TableInv => TableTypeOK BY DEF TableInv
<1> QED BY <1>1, TableInvHolds, PTL

\* The composition keeps the specification of the pool: what is proved of
\* ConnPool's specification holds of it.
THEOREM ImplementsPool == TableSpec => Spec
<1>1. TableInit => Init BY DEF TableInit
<1> QED BY <1>1, PoolStepOrStutter, TableInvHolds, PTL DEF TableSpec, Spec

\* The table over the real pool implements the abstract cache: a peer leaves
\* only through a ping of its own that ended without an answer
\* (routing.go:76-112).
THEOREM ImplementsCacheHolds == TableSpec => ImplementsCache
<1>1. TableInit => Cache!Init
  BY PingerAssumption DEF TableInit, Init, Pinging, Cache!Init
<1>2. Inv => TypeOK BY DEF Inv
<1> QED BY <1>1, <1>2, CacheStep, TableInvHolds, PTL DEF TableSpec, ImplementsCache, Cache!Spec

\* Why a peer that listens at its address can be lost, whatever the number of
\* sends that share the pool: a dial failed, or the first attempt of its ping
\* shared a connection to another process.  A connection that was closed never
\* costs it its place, and no second attempt does (transport.go:148-163,
\* 195-237).
THEOREM EvictedForCauseHolds == TableSpec => EvictedForCause
<1> DEFINE NoOther ==
      \A p \in Pinger : p \in calm /\ Evicted(p) =>
        \/ pc[p] = "wait" /\ call[p] = "failed"
        \/ pc[p] = "dial"
        \/ pc[p] = "exchange" /\ first[p] = NoConn /\ Stale(p)
<1>1. TableInit => CalmInv BY DEF TableInit, CalmInv
<1>2. Inv => TypeOK BY DEF Inv
<1>3. TypeOK /\ TableInv /\ CalmInv /\ [TableNext]_allVars => NoOther BY CalmEviction
<1>4. TypeOK /\ TableInv /\ CalmInv /\ [TableNext]_allVars => [NoOther]_allVars BY <1>3
<1> QED BY <1>1, <1>2, <1>4, CalmStep, TableInvHolds, PTL DEF TableSpec, EvictedForCause

-----------------------------------------------------------------------------
(* Every send returns.  The provers know nothing of ENABLED: that the fair   *)
(* actions are enabled (NeverStuck) is a hypothesis here and checked by TLC. *)

Returned(p) == pc[p] = "idle"

\* The moves that are left at most: the steps of the send and its timer.
Moved(p) == Rank(p) + (IF expired[p] THEN 0 ELSE 1)

\* It has not returned, and has at most n moves left.
Due(p, n) == pc[p] # "idle" /\ Moved(p) <= n

LEMMA DueStep ==
  ASSUME Inv, TableInv, NEW p \in Proc, NEW n \in 1..8, Due(p, n)
  PROVE  /\ [TableNext]_allVars => Due(p, n)' \/ Returned(p)'
         /\ <<Moves(p)>>_allVars => Due(p, n - 1)' \/ Returned(p)'
<1>0. /\ TypeOK /\ Rank(p) \in 0..7 /\ pc[p] # "idle" /\ expired[p] \in BOOLEAN
      /\ Rank(p) + (IF expired[p] THEN 0 ELSE 1) <= n
  BY RankType DEF Inv, TypeOK, Due, Moved
<1>1. ASSUME [TableNext]_allVars
      PROVE  /\ Rank(p)' \in 0..7 /\ expired'[p] \in BOOLEAN
             /\ Rank(p)' <= Rank(p) /\ (expired[p] => expired'[p] \/ pc'[p] = "idle")
  <2>1. Inv' /\ [Next]_vars BY <1>1, JointStep, PoolStepOrStutter
  <2>2. Rank(p)' \in 0..7 /\ expired'[p] \in BOOLEAN BY <2>1 DEF Inv, TypeOK, Rank
  <2> QED BY <1>0, <2>1, <2>2, RankFrame
<1>2. ASSUME [TableNext]_allVars PROVE Due(p, n)' \/ Returned(p)'
  BY <1>0, <1>1, <1>2 DEF Due, Moved, Returned
<1>3. ASSUME <<Moves(p)>>_allVars PROVE Due(p, n - 1)' \/ Returned(p)'
  <2>1. TableNext BY <1>3 DEF Moves, GoesOn, TimeUp, TableNext, SoundNext, Environment
  <2>2. CASE GoesOn(p)
    <3>1. Step(p) BY <2>2 DEF GoesOn, Advance, Step
    <3>2. Rank(p)' < Rank(p) BY <1>0, <3>1, StepRank
    <3> QED BY <1>0, <1>1, <2>1, <3>2 DEF Due, Moved, Returned
  <2>3. CASE TimeUp(p)
    <3>1. ~ expired[p] /\ expired'[p] BY <1>0, <2>3 DEF TimeUp, Expire, TypeOK
    <3> QED BY <1>0, <1>1, <2>1, <3>1 DEF Due, Moved, Returned
  <2> QED BY <1>3, <2>2, <2>3 DEF Moves
<1> QED BY <1>2, <1>3

LEMMA SendReturns ==
  ASSUME NEW p \in Proc
  PROVE  TableSpec /\ Fair(p) /\ []NeverStuck => (pc[p] # "idle" ~> pc[p] = "idle")
<1>1. Inv /\ TableInv /\ Due(p, 1) =>
       /\ [TableNext]_allVars => Due(p, 1)' \/ Returned(p)'
       /\ <<Moves(p)>>_allVars => Due(p, 0)' \/ Returned(p)'
  BY DueStep
<1>2. Inv /\ TableInv /\ Due(p, 2) =>
       /\ [TableNext]_allVars => Due(p, 2)' \/ Returned(p)'
       /\ <<Moves(p)>>_allVars => Due(p, 1)' \/ Returned(p)'
  BY DueStep
<1>3. Inv /\ TableInv /\ Due(p, 3) =>
       /\ [TableNext]_allVars => Due(p, 3)' \/ Returned(p)'
       /\ <<Moves(p)>>_allVars => Due(p, 2)' \/ Returned(p)'
  BY DueStep
<1>4. Inv /\ TableInv /\ Due(p, 4) =>
       /\ [TableNext]_allVars => Due(p, 4)' \/ Returned(p)'
       /\ <<Moves(p)>>_allVars => Due(p, 3)' \/ Returned(p)'
  BY DueStep
<1>5. Inv /\ TableInv /\ Due(p, 5) =>
       /\ [TableNext]_allVars => Due(p, 5)' \/ Returned(p)'
       /\ <<Moves(p)>>_allVars => Due(p, 4)' \/ Returned(p)'
  BY DueStep
<1>6. Inv /\ TableInv /\ Due(p, 6) =>
       /\ [TableNext]_allVars => Due(p, 6)' \/ Returned(p)'
       /\ <<Moves(p)>>_allVars => Due(p, 5)' \/ Returned(p)'
  BY DueStep
<1>7. Inv /\ TableInv /\ Due(p, 7) =>
       /\ [TableNext]_allVars => Due(p, 7)' \/ Returned(p)'
       /\ <<Moves(p)>>_allVars => Due(p, 6)' \/ Returned(p)'
  BY DueStep
<1>8. Inv /\ TableInv /\ Due(p, 8) =>
       /\ [TableNext]_allVars => Due(p, 8)' \/ Returned(p)'
       /\ <<Moves(p)>>_allVars => Due(p, 7)' \/ Returned(p)'
  BY DueStep
<1>9. Inv => ~ Due(p, 0)
  BY RankType DEF Inv, TypeOK, Due, Moved
<1>10. Inv /\ ~ Returned(p) => Due(p, 8)
  BY RankType DEF Inv, TypeOK, Due, Moved, Returned
<1>11. NeverStuck => (~ Returned(p) => ENABLED <<Moves(p)>>_allVars)
  BY DEF NeverStuck, Returned
<1>12. Returned(p) <=> pc[p] = "idle" BY DEF Returned
<1> QED
  BY <1>1, <1>2, <1>3, <1>4, <1>5, <1>6, <1>7, <1>8, <1>9, <1>10, <1>11, <1>12,
     TableInvHolds, PTL DEF TableSpec, Fair

\* Every send returns, of a ping or of anybody else and whatever the others do:
\* after seven steps and its timeout at the latest (transport.go:142-237).
THEOREM EverySendReturnsHolds == TableFairSpec /\ []NeverStuck => EverySendReturns
<1>1. \A p \in Proc :
        TableSpec /\ Fair(p) /\ []NeverStuck => (pc[p] # "idle" ~> pc[p] = "idle")
  BY SendReturns
<1> QED BY <1>1 DEF EverySendReturns, TableFairSpec
=============================================================================
