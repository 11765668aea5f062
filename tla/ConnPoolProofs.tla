--------------------------- MODULE ConnPoolProofs ---------------------------
(***************************************************************************)
(* Proofs about ConnPool for any number of goroutines, addresses, nodes    *)
(* and connections.                                                        *)
(*                                                                         *)
(* Inv says who is registered in the dialing map (Registered), that a      *)
(* connection is pooled under the address it was dialed for                *)
(* (PooledByAddress), and that the connection a send has failed on is in   *)
(* nobody's pool slot again (FirstForgotten).                              *)
(***************************************************************************)
EXTENDS ConnPool, TLAPS

\* The dialing map names exactly the goroutines that dial.
Registered ==
  /\ \A p \in Proc : pc[p] = "dial" => dialing[AddrOf(p)] = p
  /\ \A a \in Addr, p \in Proc : dialing[a] = p => pc[p] = "dial" /\ AddrOf(p) = a

\* Goroutines hold a connection between getConn and return only, and a
\* delivered call brought one.
ConnHeld ==
  \A p \in Proc :
    /\ pc[p] \in {"get", "dial"} => conn[p] = NoConn
    /\ pc[p] = "idle" => conn[p] = NoConn /\ first[p] = NoConn
    /\ pc[p] = "wait" => (call[p] = "done" <=> conn[p] # NoConn) /\ call[p] # "none"

\* A connection somebody uses is pooled under that goroutine's address or not
\* at all, and under one address.
PooledByAddress ==
  /\ \A p \in Proc, a \in Addr : conn[p] # NoConn /\ pool[a] = conn[p] => a = AddrOf(p)
  /\ \A a, b \in Addr : pool[a] # NoConn /\ pool[a] = pool[b] => a = b

\* A connection that failed a send is not pooled again and not used again by it.
FirstForgotten ==
  \A p \in Proc : first[p] # NoConn =>
    /\ \A a \in Addr : pool[a] # first[p]
    /\ conn[p] # first[p]

Inv ==
  /\ TypeOK
  /\ Registered
  /\ DialFillsEmptySlot
  /\ NoLostWaiter
  /\ ConnHeld
  /\ PooledByAddress
  /\ FirstForgotten

-----------------------------------------------------------------------------
LEMMA InitInv == Init => Inv
BY ConnAssumption, ProcAssumption
   DEF Init, Inv, TypeOK, Registered, DialFillsEmptySlot, NoLostWaiter, ConnHeld, PooledByAddress,
       FirstForgotten

LEMMA SendInv ==
  ASSUME Inv, NEW p \in Proc, NEW c \in Contact, Send(p, c)
  PROVE  Inv'
<1> USE ConnAssumption, ProcAssumption DEF Send, network
<1>1. \A q \in Proc : AddrOf(q) \in Addr /\ (q # p => AddrOf(q)' = AddrOf(q) /\ want'[q] = want[q])
  BY DEF Inv, TypeOK, Contact, AddrOf
<1>2. TypeOK'
  BY <1>1 DEF Inv, TypeOK
<1>3. (Registered /\ DialFillsEmptySlot /\ NoLostWaiter /\ ConnHeld /\ PooledByAddress /\ FirstForgotten)'
  BY <1>1 DEF Inv, TypeOK, Registered, DialFillsEmptySlot, NoLostWaiter, ConnHeld, PooledByAddress, FirstForgotten
<1> QED BY <1>2, <1>3 DEF Inv

LEMMA GetPooledInv ==
  ASSUME Inv, NEW p \in Proc, GetPooled(p)
  PROVE  Inv'
<1> USE ConnAssumption, ProcAssumption DEF GetPooled, Usable, network
<1>1. \A q \in Proc : AddrOf(q) \in Addr /\ AddrOf(q)' = AddrOf(q)
  BY DEF Inv, TypeOK, Contact, AddrOf
<1>2. TypeOK'
  BY <1>1 DEF Inv, TypeOK
<1>3. PooledByAddress'
  BY <1>1 DEF Inv, TypeOK, PooledByAddress
<1>4. FirstForgotten'
  BY <1>1 DEF Inv, TypeOK, FirstForgotten
<1>5. (Registered /\ DialFillsEmptySlot /\ NoLostWaiter /\ ConnHeld)'
  BY <1>1 DEF Inv, TypeOK, Registered, DialFillsEmptySlot, NoLostWaiter, ConnHeld
<1> QED BY <1>2, <1>3, <1>4, <1>5 DEF Inv

LEMMA GetWaitInv ==
  ASSUME Inv, NEW p \in Proc, GetWait(p)
  PROVE  Inv'
<1> USE ConnAssumption, ProcAssumption DEF GetWait, Evict, DialInProgress, network
<1>1. \A q \in Proc : AddrOf(q) \in Addr /\ AddrOf(q)' = AddrOf(q)
  BY DEF Inv, TypeOK, Contact, AddrOf
<1>2. TypeOK'
  BY <1>1 DEF Inv, TypeOK
<1>3. NoLostWaiter'
  BY <1>1 DEF Inv, TypeOK, NoLostWaiter, Registered
<1>4. (Registered /\ DialFillsEmptySlot /\ ConnHeld /\ PooledByAddress /\ FirstForgotten)'
  BY <1>1 DEF Inv, TypeOK, Registered, DialFillsEmptySlot, ConnHeld, PooledByAddress, FirstForgotten
<1> QED BY <1>2, <1>3, <1>4 DEF Inv

LEMMA GetDialInv ==
  ASSUME Inv, NEW p \in Proc, GetDial(p)
  PROVE  Inv'
<1> USE ConnAssumption, ProcAssumption DEF GetDial, Evict, DialInProgress, network
<1>1. \A q \in Proc : AddrOf(q) \in Addr /\ AddrOf(q)' = AddrOf(q)
  BY DEF Inv, TypeOK, Contact, AddrOf
<1>2. TypeOK'
  BY <1>1 DEF Inv, TypeOK
<1>3. Registered'
  BY <1>1 DEF Inv, TypeOK, Registered
<1>4. DialFillsEmptySlot'
  BY <1>1 DEF Inv, TypeOK, DialFillsEmptySlot, Registered
<1>5. (NoLostWaiter /\ ConnHeld /\ PooledByAddress /\ FirstForgotten)'
  BY <1>1 DEF Inv, TypeOK, NoLostWaiter, ConnHeld, PooledByAddress, FirstForgotten
<1> QED BY <1>2, <1>3, <1>4, <1>5 DEF Inv

LEMMA DialOkInv ==
  ASSUME Inv, NEW p \in Proc, DialOk(p)
  PROVE  Inv'
<1> USE ConnAssumption, ProcAssumption DEF DialOk, Receivers, Waiters, Unreferenced, network
<1>1. \A q \in Proc : AddrOf(q) \in Addr /\ AddrOf(q)' = AddrOf(q)
  BY DEF Inv, TypeOK, Contact, AddrOf
<1>2. TypeOK'
  <2>1. PICK k \in Conn : /\ alive' = [alive EXCEPT ![k] = TRUE]
                         /\ peer' = [peer EXCEPT ![k] = want[p].id]
                         /\ pool' = [pool EXCEPT ![AddrOf(p)] = k]
                         /\ conn' = [q \in Proc |-> IF q \in Receivers(p) THEN k ELSE conn[q]]
    OBVIOUS
  <2>2. peer' \in [Conn -> Id] /\ want[p].id \in Id
    BY <2>1 DEF Inv, TypeOK, Contact
  <2>3. conn' \in [Proc -> Conn \cup {NoConn}] /\ call' \in [Proc -> {"none", "pending", "failed", "done"}]
    BY <2>1 DEF Inv, TypeOK
  <2>4. \A q \in Proc : pc'[q] \in {"open", "exchange"} => conn'[q] \in Conn
    BY <2>1 DEF Inv, TypeOK
  <2> QED BY <1>1, <2>1, <2>2, <2>3, <2>4 DEF Inv, TypeOK
<1>3. Registered'
  BY <1>1 DEF Inv, TypeOK, Registered, ConnHeld
<1>4. DialFillsEmptySlot'
  BY <1>1 DEF Inv, TypeOK, DialFillsEmptySlot, Registered, ConnHeld
<1>5. NoLostWaiter'
  BY <1>1 DEF Inv, TypeOK, NoLostWaiter, Registered, ConnHeld
<1>6. ConnHeld'
  BY <1>1 DEF Inv, TypeOK, ConnHeld, Registered
<1>7. PooledByAddress'
  BY <1>1 DEF Inv, TypeOK, PooledByAddress, Registered, ConnHeld
<1>8. FirstForgotten'
  BY <1>1 DEF Inv, TypeOK, FirstForgotten, Registered, ConnHeld
<1> QED BY <1>2, <1>3, <1>4, <1>5, <1>6, <1>7, <1>8 DEF Inv

LEMMA GiveUpDialInv ==
  ASSUME Inv, NEW p \in Proc, GiveUpDial(p)
  PROVE  Inv'
<1> USE ConnAssumption, ProcAssumption DEF GiveUpDial, FailWaiters, Waiters, network
<1>1. \A q \in Proc : AddrOf(q) \in Addr /\ AddrOf(q)' = AddrOf(q)
  BY DEF Inv, TypeOK, Contact, AddrOf
<1>2. TypeOK'
  BY <1>1 DEF Inv, TypeOK
<1>3. NoLostWaiter'
  BY <1>1 DEF Inv, TypeOK, NoLostWaiter, Registered
<1>4. ConnHeld'
  BY <1>1 DEF Inv, TypeOK, ConnHeld
<1>5. (Registered /\ DialFillsEmptySlot /\ PooledByAddress /\ FirstForgotten)'
  BY <1>1 DEF Inv, TypeOK, Registered, DialFillsEmptySlot, PooledByAddress, FirstForgotten, ConnHeld
<1> QED BY <1>2, <1>3, <1>4, <1>5 DEF Inv

LEMMA WaitDoneInv ==
  ASSUME Inv, NEW p \in Proc, WaitDone(p)
  PROVE  Inv'
<1> USE ConnAssumption, ProcAssumption DEF WaitDone, network
<1>1. \A q \in Proc : AddrOf(q) \in Addr /\ AddrOf(q)' = AddrOf(q)
  BY DEF Inv, TypeOK, Contact, AddrOf
<1>2. TypeOK'
  BY <1>1 DEF Inv, TypeOK, ConnHeld
<1>3. (Registered /\ DialFillsEmptySlot /\ NoLostWaiter /\ ConnHeld /\ PooledByAddress /\ FirstForgotten)'
  BY <1>1 DEF Inv, TypeOK, Registered, DialFillsEmptySlot, NoLostWaiter, ConnHeld, PooledByAddress, FirstForgotten
<1> QED BY <1>2, <1>3 DEF Inv

LEMMA WaitFailInv ==
  ASSUME Inv, NEW p \in Proc, WaitFail(p)
  PROVE  Inv'
<1> USE ConnAssumption, ProcAssumption DEF WaitFail, Return, network
<1>1. \A q \in Proc : AddrOf(q) \in Addr /\ AddrOf(q)' = AddrOf(q)
  BY DEF Inv, TypeOK, Contact, AddrOf
<1>2. TypeOK'
  BY <1>1 DEF Inv, TypeOK
<1>3. (Registered /\ DialFillsEmptySlot /\ NoLostWaiter /\ ConnHeld /\ PooledByAddress /\ FirstForgotten)'
  BY <1>1 DEF Inv, TypeOK, Registered, DialFillsEmptySlot, NoLostWaiter, ConnHeld, PooledByAddress, FirstForgotten
<1> QED BY <1>2, <1>3 DEF Inv

LEMMA OpenOkInv ==
  ASSUME Inv, NEW p \in Proc, OpenOk(p)
  PROVE  Inv'
<1> USE ConnAssumption, ProcAssumption DEF OpenOk, network
<1>1. \A q \in Proc : AddrOf(q) \in Addr /\ AddrOf(q)' = AddrOf(q)
  BY DEF Inv, TypeOK, Contact, AddrOf
<1>2. TypeOK'
  BY <1>1 DEF Inv, TypeOK
<1>3. (Registered /\ DialFillsEmptySlot /\ NoLostWaiter /\ ConnHeld /\ PooledByAddress /\ FirstForgotten)'
  BY <1>1 DEF Inv, TypeOK, Registered, DialFillsEmptySlot, NoLostWaiter, ConnHeld, PooledByAddress, FirstForgotten
<1> QED BY <1>2, <1>3 DEF Inv

LEMMA OpenFailFirstInv ==
  ASSUME Inv, NEW p \in Proc, OpenFailFirst(p)
  PROVE  Inv'
<1> USE ConnAssumption, ProcAssumption DEF OpenFailFirst, DropConn, network
<1>1. \A q \in Proc : AddrOf(q) \in Addr /\ AddrOf(q)' = AddrOf(q)
  BY DEF Inv, TypeOK, Contact, AddrOf
<1>2. TypeOK'
  BY <1>1 DEF Inv, TypeOK
<1>3. FirstForgotten'
  BY <1>1 DEF Inv, TypeOK, FirstForgotten, PooledByAddress
<1>4. (Registered /\ DialFillsEmptySlot /\ NoLostWaiter /\ ConnHeld /\ PooledByAddress)'
  BY <1>1 DEF Inv, TypeOK, Registered, DialFillsEmptySlot, NoLostWaiter, ConnHeld, PooledByAddress
<1> QED BY <1>2, <1>3, <1>4 DEF Inv

LEMMA OpenFailAgainInv ==
  ASSUME Inv, NEW p \in Proc, OpenFailAgain(p)
  PROVE  Inv'
<1> USE ConnAssumption, ProcAssumption DEF OpenFailAgain, DropConn, Return, network
<1>1. \A q \in Proc : AddrOf(q) \in Addr /\ AddrOf(q)' = AddrOf(q)
  BY DEF Inv, TypeOK, Contact, AddrOf
<1>2. TypeOK'
  BY <1>1 DEF Inv, TypeOK
<1>3. (Registered /\ DialFillsEmptySlot /\ NoLostWaiter /\ ConnHeld /\ PooledByAddress /\ FirstForgotten)'
  BY <1>1 DEF Inv, TypeOK, Registered, DialFillsEmptySlot, NoLostWaiter, ConnHeld, PooledByAddress, FirstForgotten
<1> QED BY <1>2, <1>3 DEF Inv

LEMMA ReplyOkInv ==
  ASSUME Inv, NEW p \in Proc, ReplyOk(p)
  PROVE  Inv'
<1> USE ConnAssumption, ProcAssumption DEF ReplyOk, Return, network
<1>1. \A q \in Proc : AddrOf(q) \in Addr /\ AddrOf(q)' = AddrOf(q)
  BY DEF Inv, TypeOK, Contact, AddrOf
<1>2. TypeOK'
  BY <1>1 DEF Inv, TypeOK
<1>3. (Registered /\ DialFillsEmptySlot /\ NoLostWaiter /\ ConnHeld /\ PooledByAddress /\ FirstForgotten)'
  BY <1>1 DEF Inv, TypeOK, Registered, DialFillsEmptySlot, NoLostWaiter, ConnHeld, PooledByAddress, FirstForgotten
<1> QED BY <1>2, <1>3 DEF Inv

LEMMA ReplyInvalidInv ==
  ASSUME Inv, NEW p \in Proc, ReplyInvalid(p)
  PROVE  Inv'
<1> USE ConnAssumption, ProcAssumption DEF ReplyInvalid, DropConn, Return, network
<1>1. \A q \in Proc : AddrOf(q) \in Addr /\ AddrOf(q)' = AddrOf(q)
  BY DEF Inv, TypeOK, Contact, AddrOf
<1>2. TypeOK'
  BY <1>1 DEF Inv, TypeOK
<1>3. (Registered /\ DialFillsEmptySlot /\ NoLostWaiter /\ ConnHeld /\ PooledByAddress /\ FirstForgotten)'
  BY <1>1 DEF Inv, TypeOK, Registered, DialFillsEmptySlot, NoLostWaiter, ConnHeld, PooledByAddress, FirstForgotten
<1> QED BY <1>2, <1>3 DEF Inv

LEMMA ReplyLostInv ==
  ASSUME Inv, NEW p \in Proc, ReplyLost(p)
  PROVE  Inv'
<1> USE ConnAssumption, ProcAssumption DEF ReplyLost, Return, network
<1>1. \A q \in Proc : AddrOf(q) \in Addr /\ AddrOf(q)' = AddrOf(q)
  BY DEF Inv, TypeOK, Contact, AddrOf
<1>2. TypeOK'
  BY <1>1 DEF Inv, TypeOK
<1>3. (Registered /\ DialFillsEmptySlot /\ NoLostWaiter /\ ConnHeld /\ PooledByAddress /\ FirstForgotten)'
  BY <1>1 DEF Inv, TypeOK, Registered, DialFillsEmptySlot, NoLostWaiter, ConnHeld, PooledByAddress, FirstForgotten
<1> QED BY <1>2, <1>3 DEF Inv

-----------------------------------------------------------------------------
\* The environment and stuttering.  Nothing of Inv speaks of at, alive,
\* gone or expired but their types.
LEMMA EnvironmentInv ==
  ASSUME Inv,
         \/ \E p \in Proc : Expire(p)
         \/ \E k \in Conn : CloseConn(k)
         \/ \E a \in Addr, i \in Id \cup {Nobody} : Rebind(a, i)
         \/ UNCHANGED vars
  PROVE  Inv'
<1> USE DEF Expire, CloseConn, Rebind, vars, network
<1>1. UNCHANGED <<pool, dialing, peer, pc, want, conn, first, call>>
  OBVIOUS
<1>2. \A q \in Proc : AddrOf(q)' = AddrOf(q)
  BY <1>1 DEF AddrOf
<1>3. TypeOK'
  BY DEF Inv, TypeOK, ConnsTo
<1>4. (Registered /\ DialFillsEmptySlot /\ NoLostWaiter)'
  BY <1>1, <1>2 DEF Inv, Registered, DialFillsEmptySlot, NoLostWaiter
<1>5. (ConnHeld /\ PooledByAddress /\ FirstForgotten)'
  BY <1>1, <1>2 DEF Inv, ConnHeld, PooledByAddress, FirstForgotten
<1> QED BY <1>3, <1>4, <1>5 DEF Inv

LEMMA StepInv ==
  ASSUME Inv, NEW p \in Proc, Step(p)
  PROVE  Inv'
BY GetPooledInv, GetWaitInv, GetDialInv, DialOkInv, GiveUpDialInv, WaitDoneInv, WaitFailInv,
   OpenOkInv, OpenFailFirstInv, OpenFailAgainInv, ReplyOkInv, ReplyInvalidInv, ReplyLostInv
   DEF Step, Tries, DialFail

LEMMA NextInv == Inv /\ [Next]_vars => Inv'
<1> SUFFICES ASSUME Inv, [Next]_vars PROVE Inv'
  OBVIOUS
<1>1. CASE \E p \in Proc, c \in Contact : Send(p, c)
  BY <1>1, SendInv
<1>2. CASE \E p \in Proc : Step(p) \/ DialError(p)
  BY <1>2, StepInv, GiveUpDialInv DEF DialError
<1>3. CASE \/ \E p \in Proc : Expire(p)
           \/ \E k \in Conn : CloseConn(k)
           \/ \E a \in Addr, i \in Id \cup {Nobody} : Rebind(a, i)
           \/ UNCHANGED vars
  BY <1>3, EnvironmentInv
<1> QED BY <1>1, <1>2, <1>3 DEF Next

\* The inductive invariant holds in every reachable state.
THEOREM InvHolds == Spec => []Inv
BY InitInv, NextInv, PTL DEF Spec

\* Every variable has its type, and a goroutine that uses a connection has one.
THEOREM TypeCorrect == Spec => []TypeOK
<1>1. Inv => TypeOK
  BY DEF Inv
<1> QED BY <1>1, InvHolds, PTL

\* One dial per address at a time, whatever the number of goroutines
\* (getConn, transport.go:207-221).
THEOREM SingleFlightHolds == Spec => []SingleFlight
<1>1. Inv => SingleFlight
  BY DEF Inv, Registered, SingleFlight
<1> QED BY <1>1, InvHolds, PTL

\* getConn never overwrites a pooled connection with the one it dialed
\* (transport.go:225-231).
THEOREM DialFillsEmptySlotHolds == Spec => []DialFillsEmptySlot
<1>1. Inv => DialFillsEmptySlot
  BY DEF Inv
<1> QED BY <1>1, InvHolds, PTL

\* Every pending waiter has a goroutine that is going to close its channel
\* (transport.go:207-216, 225-234).
THEOREM NoLostWaiterHolds == Spec => []NoLostWaiter
<1>1. Inv => NoLostWaiter
  BY DEF Inv
<1> QED BY <1>1, InvHolds, PTL

\* The retry of send never meets the connection its first attempt failed on
\* (transport.go:157-165).
THEOREM RetryUsesFreshConnHolds == Spec => []RetryUsesFreshConn
<1>1. Inv => RetryUsesFreshConn
  BY ConnAssumption DEF Inv, TypeOK, FirstForgotten, RetryUsesFreshConn
<1> QED BY <1>1, InvHolds, PTL

-----------------------------------------------------------------------------
(* How long a send takes *)

\* The steps that are left at most: two connections, one exchange.
Rank(p) ==
  LET stage == CASE pc[p] = "idle" -> 0
                 [] pc[p] = "exchange" -> 1
                 [] pc[p] = "open" -> 2
                 [] pc[p] \in {"wait", "dial"} -> 3
                 [] pc[p] = "get" -> 4
  IN  IF first[p] = NoConn /\ pc[p] \in {"get", "wait", "dial", "open"} THEN stage + 3 ELSE stage

LEMMA RankType ==
  ASSUME TypeOK, NEW p \in Proc
  PROVE  Rank(p) \in 0..7 /\ (Rank(p) = 0 <=> pc[p] = "idle")
BY DEF TypeOK, Rank

\* A step of a send brings its own end nearer and no other one further away.
LEMMA StepRank ==
  ASSUME TypeOK, NEW p \in Proc, NEW q \in Proc, Step(q)
  PROVE  IF q = p THEN Rank(p)' < Rank(p) ELSE Rank(p)' = Rank(p)
<1>1. CASE q # p
  <2>1. pc'[p] = pc[p] /\ first'[p] = first[p]
    BY <1>1 DEF Step, Tries, GetPooled, GetWait, GetDial, DialOk, DialFail, GiveUpDial, WaitDone,
         WaitFail, OpenOk, OpenFailFirst, OpenFailAgain, ReplyOk, ReplyInvalid, ReplyLost, Return, TypeOK
  <2> QED BY <1>1, <2>1 DEF Rank
<1>2. CASE q = p
  <2>1. CASE GetPooled(p) \/ GetWait(p) \/ GetDial(p)
    BY <1>2, <2>1 DEF GetPooled, GetWait, GetDial, TypeOK, Rank
  <2>2. CASE DialOk(p) \/ WaitDone(p) \/ OpenOk(p)
    BY <1>2, <2>2 DEF DialOk, WaitDone, OpenOk, TypeOK, Rank
  <2>3. CASE OpenFailFirst(p)
    <3>1. first[p] = NoConn /\ pc[p] = "open" /\ pc'[p] = "get" /\ first'[p] = conn[p]
      BY <2>3 DEF OpenFailFirst, MayRetry, TypeOK
    <3>2. conn[p] # NoConn BY <3>1, ConnAssumption DEF TypeOK
    <3> QED BY <1>2, <3>1, <3>2 DEF Rank
  <2>4. CASE \/ DialFail(p) \/ WaitFail(p) \/ OpenFailAgain(p)
             \/ ReplyOk(p) \/ ReplyInvalid(p) \/ ReplyLost(p)
    <3>1. pc'[p] = "idle" /\ pc[p] # "idle"
      BY <2>4 DEF DialFail, GiveUpDial, WaitFail, OpenFailAgain, ReplyOk, ReplyInvalid, ReplyLost,
                  Return, TypeOK
    <3>2. Rank(p)' = 0 BY <3>1 DEF Rank
    <3>3. Rank(p) > 0 BY <3>1, RankType
    <3> QED BY <1>2, <3>2, <3>3
  <2> QED BY <1>2, <2>1, <2>2, <2>3, <2>4 DEF Step, Tries
<1> QED BY <1>1, <1>2

\* Nothing that others do, nor the environment, gives a send more to do, and
\* its time, once it is up, stays up until it returns.
LEMMA RankFrame ==
  ASSUME Inv, [Next]_vars, NEW p \in Proc, pc[p] # "idle"
  PROVE  /\ Rank(p)' <= Rank(p)
         /\ expired[p] => expired'[p] \/ pc'[p] = "idle"
<1> DEFINE Goal == /\ Rank(p)' <= Rank(p)
                   /\ expired[p] => expired'[p] \/ pc'[p] = "idle"
<1>0. TypeOK BY DEF Inv
<1>1. Rank(p) \in 0..7 BY <1>0, RankType
<1>2. Rank(p)' \in 0..7
  <2>1. TypeOK' BY NextInv DEF Inv
  <2> QED BY <2>1 DEF TypeOK, Rank
<1>3. CASE pc'[p] = pc[p] /\ first'[p] = first[p] /\ (expired[p] => expired'[p])
  <2>1. Rank(p)' = Rank(p) BY <1>3 DEF Rank
  <2> QED BY <1>1, <1>3, <2>1
<1>4. ASSUME NEW q \in Proc, NEW c \in Contact, Send(q, c) PROVE Goal
  <2>1. pc'[p] = pc[p] /\ first'[p] = first[p] /\ expired' = expired
    BY <1>0, <1>4 DEF Send, TypeOK
  <2> QED BY <1>3, <2>1
<1>5. ASSUME NEW q \in Proc, Step(q) PROVE Goal
  <2>1. expired[p] => expired'[p] \/ pc'[p] = "idle"
    BY <1>0, <1>5 DEF Step, Tries, GetPooled, GetWait, GetDial, DialOk, DialFail, GiveUpDial,
         WaitDone, WaitFail, OpenOk, OpenFailFirst, OpenFailAgain, ReplyOk, ReplyInvalid, ReplyLost,
         Return, TypeOK
  <2>2. Rank(p)' < Rank(p) \/ Rank(p)' = Rank(p) BY <1>0, <1>5, StepRank
  <2> QED BY <1>1, <1>2, <2>1, <2>2
<1>6. ASSUME \/ \E q \in Proc : Expire(q)
             \/ \E k \in Conn : CloseConn(k)
             \/ \E a \in Addr, i \in Id \cup {Nobody} : Rebind(a, i)
             \/ UNCHANGED vars
      PROVE  Goal
  <2>1. pc'[p] = pc[p] /\ first'[p] = first[p] /\ (expired[p] => expired'[p])
    BY <1>0, <1>6 DEF Expire, CloseConn, Rebind, vars, TypeOK
  <2> QED BY <1>3, <2>1
<1>7. ASSUME NEW q \in Proc, GiveUpDial(q) PROVE Goal
  <2>1. CASE q # p
    <3>1. pc'[p] = pc[p] /\ first'[p] = first[p] /\ expired'[p] = expired[p]
      BY <1>0, <1>7, <2>1 DEF GiveUpDial, TypeOK
    <3> QED BY <1>3, <3>1
  <2>2. CASE q = p
    <3>1. pc'[p] = "idle" BY <1>0, <1>7, <2>2 DEF GiveUpDial, TypeOK
    <3>2. Rank(p)' = 0 BY <3>1 DEF Rank
    <3> QED BY <1>1, <3>1, <3>2
  <2> QED BY <2>1, <2>2
<1> QED BY <1>4, <1>5, <1>6, <1>7 DEF Next, DialError

\* However the sends interleave and whatever happens to the connections, a
\* send takes at most seven steps: it gets a connection at most twice and
\* makes one exchange (send and getConn, transport.go:142-237).
TakesFewSteps ==
  [][\A p \in Proc : pc[p] # "idle" =>
       Rank(p)' <= Rank(p) /\ (Step(p) => Rank(p)' < Rank(p))]_vars

THEOREM SendBounded == Spec => [](\A p \in Proc : Rank(p) \in 0..7) /\ TakesFewSteps
<1> DEFINE Few == \A p \in Proc : pc[p] # "idle" =>
                    Rank(p)' <= Rank(p) /\ (Step(p) => Rank(p)' < Rank(p))
<1>1. Inv => \A p \in Proc : Rank(p) \in 0..7 BY RankType DEF Inv
<1>2. ASSUME Inv, [Next]_vars PROVE Few
  <2>1. TypeOK BY <1>2 DEF Inv
  <2> QED BY <1>2, <2>1, RankFrame, StepRank
<1>3. Inv /\ [Next]_vars => [Few]_vars BY <1>2
<1> QED BY <1>1, <1>3, InvHolds, PTL DEF Spec, TakesFewSteps
=============================================================================
