------------------------------ MODULE ConnPool ------------------------------
(***************************************************************************)
(* The client side of internal/dht/transport.go: send, getConn, dropConn.  *)
(*                                                                         *)
(* Goroutines that send to the same address share one pooled connection,   *)
(* and one dial when there is none.  The pool is keyed by the address, the *)
(* certificate is checked for the contact that dialed.  Every critical     *)
(* section of t.mu and every blocking call is one action.  The environment *)
(* decides which process listens at an address, when it is replaced or     *)
(* restarted, when a connection is closed, when the context of a send      *)
(* expires, and when a dial fails on this host.                            *)
(***************************************************************************)
EXTENDS Naturals, FiniteSets

CONSTANTS
  Proc,     \* goroutines that call send
  Addr,     \* addresses
  Id,       \* node identifiers
  Nobody,   \* nothing listens at an address
  Conn,     \* bound: connection objects that are referenced at once
  NoConn,   \* nil
  NoProc    \* nobody is dialing

ASSUME ConnAssumption == NoConn \notin Conn
ASSUME ProcAssumption == NoProc \notin Proc
ASSUME IdAssumption == Nobody \notin Id

Contact == [id : Id, addr : Addr]

VARIABLES
  at,       \* at[a]: the node that listens at address a (environment)
  pool,     \* t.conns
  dialing,  \* t.dialing: the goroutine whose dialCall is registered
  alive,    \* is connection k not known to be closed?
  peer,     \* the node at the other end of k, from its certificate
  gone,     \* connections whose other end was a process that has ended since
  pc,       \* where each send is
  want,     \* the contact it sends to
  conn,     \* the connection it has got
  first,    \* the connection of its first attempt, once that has failed
  call,     \* what it waits for: pending, failed, done (then conn is set)
  expired   \* has its context expired?

network == <<at, alive, peer, gone>>
vars == <<at, pool, dialing, alive, peer, gone, pc, want, conn, first, call, expired>>

TypeOK ==
  /\ at \in [Addr -> Id \cup {Nobody}]
  /\ pool \in [Addr -> Conn \cup {NoConn}]
  /\ dialing \in [Addr -> Proc \cup {NoProc}]
  /\ alive \in [Conn -> BOOLEAN]
  /\ peer \in [Conn -> Id]
  /\ gone \subseteq Conn
  /\ pc \in [Proc -> {"idle", "get", "wait", "dial", "open", "exchange"}]
  /\ want \in [Proc -> Contact]
  /\ conn \in [Proc -> Conn \cup {NoConn}]
  /\ first \in [Proc -> Conn \cup {NoConn}]
  /\ call \in [Proc -> {"none", "pending", "failed", "done"}]
  /\ expired \in [Proc -> BOOLEAN]
  /\ \A p \in Proc : pc[p] \in {"open", "exchange"} => conn[p] \in Conn

Init ==
  /\ at \in [Addr -> Id \cup {Nobody}]
  /\ pool = [a \in Addr |-> NoConn]
  /\ dialing = [a \in Addr |-> NoProc]
  /\ alive = [k \in Conn |-> FALSE]
  /\ peer \in [Conn -> Id] /\ \A k, l \in Conn : peer[k] = peer[l]
  /\ gone = {}
  /\ pc = [p \in Proc |-> "idle"]
  /\ want \in [Proc -> Contact] /\ \A p, q \in Proc : want[p] = want[q]
  /\ conn = [p \in Proc |-> NoConn]
  /\ first = [p \in Proc |-> NoConn]
  /\ call = [p \in Proc |-> "none"]
  /\ expired = [p \in Proc |-> FALSE]

-----------------------------------------------------------------------------
AddrOf(p) == want[p].addr

\* A pooled connection that is not known to be closed.
Usable(a) == pool[a] # NoConn /\ alive[pool[a]]

\* Nobody holds a reference to k: its memory can be used again.
Unreferenced(k) ==
  /\ \A a \in Addr : pool[a] # k
  /\ \A p \in Proc : conn[p] # k /\ first[p] # k

\* send returns: with the answer (ReplyOk), or with an error.
Return(p) ==
  /\ pc' = [pc EXCEPT ![p] = "idle"]
  /\ conn' = [conn EXCEPT ![p] = NoConn]
  /\ first' = [first EXCEPT ![p] = NoConn]
  /\ call' = [call EXCEPT ![p] = "none"]
  /\ expired' = [expired EXCEPT ![p] = FALSE]

Send(p, c) ==
  /\ pc[p] = "idle"
  /\ pc' = [pc EXCEPT ![p] = "get"]
  /\ want' = [want EXCEPT ![p] = c]
  /\ UNCHANGED <<network, pool, dialing, conn, first, call, expired>>

-----------------------------------------------------------------------------
(* getConn *)

GetPooled(p) ==
  /\ pc[p] = "get"
  /\ Usable(AddrOf(p))
  /\ conn' = [conn EXCEPT ![p] = pool[AddrOf(p)]]
  /\ pc' = [pc EXCEPT ![p] = "open"]
  /\ UNCHANGED <<network, pool, dialing, want, first, call, expired>>

\* A closed connection is taken out of the pool on the way.
Evict(a) == pool' = [pool EXCEPT ![a] = NoConn]

\* Names that begin with Mut are deliberate errors: each replaces the
\* definition that follows it to show that a property notices.
MutCallIgnored(a) == FALSE
DialInProgress(a) == dialing[a] # NoProc

GetWait(p) ==
  /\ pc[p] = "get"
  /\ ~ Usable(AddrOf(p))
  /\ DialInProgress(AddrOf(p))
  /\ Evict(AddrOf(p))
  /\ call' = [call EXCEPT ![p] = "pending"]
  /\ pc' = [pc EXCEPT ![p] = "wait"]
  /\ UNCHANGED <<network, dialing, want, conn, first, expired>>

GetDial(p) ==
  /\ pc[p] = "get"
  /\ ~ Usable(AddrOf(p))
  /\ ~ DialInProgress(AddrOf(p))
  /\ Evict(AddrOf(p))
  /\ dialing' = [dialing EXCEPT ![AddrOf(p)] = p]
  /\ pc' = [pc EXCEPT ![p] = "dial"]
  /\ UNCHANGED <<network, want, conn, first, call, expired>>

\* The goroutines that hold the dialCall registered for address a.
Waiters(a) == {q \in Proc : pc[q] = "wait" /\ call[q] = "pending" /\ AddrOf(q) = a}

\* Those who go on with the connection of p's dial.
Receivers(p) == {p} \cup Waiters(AddrOf(p))

\* The handshake succeeds: the node at the address has the identity asked
\* for.  The result is pooled and handed to the waiters in one critical
\* section, and p goes on with it.
DialOk(p) ==
  LET a == AddrOf(p) IN
  /\ pc[p] = "dial"
  /\ at[a] = want[p].id
  /\ \E k \in Conn :
       /\ Unreferenced(k)
       /\ alive' = [alive EXCEPT ![k] = TRUE]
       /\ peer' = [peer EXCEPT ![k] = want[p].id]
       /\ gone' = gone \ {k}
       /\ pool' = [pool EXCEPT ![a] = k]
       /\ conn' = [q \in Proc |-> IF q \in Receivers(p) THEN k ELSE conn[q]]
  /\ call' = [q \in Proc |-> IF q \in Waiters(a) THEN "done" ELSE call[q]]
  /\ dialing' = [dialing EXCEPT ![a] = NoProc]
  /\ pc' = [pc EXCEPT ![p] = "open"]
  /\ UNCHANGED <<at, want, first, expired>>

\* The dial itself ends without a connection: another node answers at the
\* address, or the context of the dialing send expires.
MutDialWaitsForever(p) == at[AddrOf(p)] \notin {want[p].id, Nobody}
DialCanFail(p) == at[AddrOf(p)] \notin {want[p].id, Nobody} \/ expired[p]

MutNobodyNotified(a) == call
FailWaiters(a) == [q \in Proc |-> IF q \in Waiters(a) THEN "failed" ELSE call[q]]

GiveUpDial(p) ==
  /\ pc[p] = "dial"
  /\ dialing' = [dialing EXCEPT ![AddrOf(p)] = NoProc]
  /\ call' = FailWaiters(AddrOf(p))
  /\ pc' = [pc EXCEPT ![p] = "idle"]
  /\ conn' = [conn EXCEPT ![p] = NoConn]
  /\ first' = [first EXCEPT ![p] = NoConn]
  /\ expired' = [expired EXCEPT ![p] = FALSE]
  /\ UNCHANGED <<network, pool, want>>

DialFail(p) == DialCanFail(p) /\ GiveUpDial(p)

\* Any other error of resolving the address or of the library: the name does
\* not resolve, the socket fails, the handshake runs into its own timeout.  It
\* may happen to any dial, and nothing says that it will.
DialError(p) == GiveUpDial(p)

\* A waiter takes what the dialing goroutine got.
WaitDone(p) ==
  /\ pc[p] = "wait"
  /\ call[p] = "done"
  /\ pc' = [pc EXCEPT ![p] = "open"]
  /\ call' = [call EXCEPT ![p] = "none"]
  /\ UNCHANGED <<network, pool, dialing, want, conn, first, expired>>

\* The dial it waits for has failed, or its own time is up.
MutWaitsForDial(p) == call[p] = "failed"
WaitEnds(p) == call[p] = "failed" \/ expired[p]

WaitFail(p) ==
  /\ pc[p] = "wait"
  /\ WaitEnds(p)
  /\ Return(p)
  /\ UNCHANGED <<network, pool, dialing, want>>

-----------------------------------------------------------------------------
(* The stream and the exchange of messages *)

OpenOk(p) ==
  /\ pc[p] = "open"
  /\ alive[conn[p]]
  /\ pc' = [pc EXCEPT ![p] = "exchange"]
  /\ UNCHANGED <<network, pool, dialing, want, conn, first, call, expired>>

\* dropConn: whatever is pooled for the address by now is forgotten.
MutKeepPooled(a) == UNCHANGED pool
DropConn(a) == pool' = [pool EXCEPT ![a] = NoConn]

\* The first time only.
MutNoRetry(p) == FALSE
MayRetry(p) == first[p] = NoConn

\* OpenStreamSync fails on a closed connection or an expired context; the
\* first time send drops the pooled connection and asks for another one.
OpenFailFirst(p) ==
  /\ pc[p] = "open"
  /\ ~ alive[conn[p]] \/ expired[p]
  /\ MayRetry(p)
  /\ DropConn(AddrOf(p))
  /\ pc' = [pc EXCEPT ![p] = "get"]
  /\ first' = [first EXCEPT ![p] = conn[p]]
  /\ conn' = [conn EXCEPT ![p] = NoConn]
  /\ UNCHANGED <<network, dialing, want, call, expired>>

OpenFailAgain(p) ==
  /\ pc[p] = "open"
  /\ ~ alive[conn[p]] \/ expired[p]
  /\ ~ MayRetry(p)
  /\ DropConn(AddrOf(p))
  /\ Return(p)
  /\ UNCHANGED <<network, dialing, want>>

\* The process that accepted the connection answers as long as it lives.  The
\* next one at its address, under whatever identity, knows nothing of the
\* connection: a stream can still be opened and written to, but nobody answers.
Responds(p) == alive[conn[p]] /\ conn[p] \notin gone

\* The sender a response declares.  serveStream fills in the id of its process,
\* which is that of its certificate: every node runs this program.
Sender(k) == peer[k]
SenderMatches(p) == Sender(conn[p]) = want[p].id

ReplyOk(p) ==
  /\ pc[p] = "exchange"
  /\ Responds(p)
  /\ SenderMatches(p)
  /\ Return(p)
  /\ UNCHANGED <<network, pool, dialing, want>>

ReplyInvalid(p) ==
  /\ pc[p] = "exchange"
  /\ Responds(p)
  /\ ~ SenderMatches(p)
  /\ DropConn(AddrOf(p))
  /\ Return(p)
  /\ UNCHANGED <<network, dialing, want>>

\* Writing or reading fails.
ReplyLost(p) ==
  /\ pc[p] = "exchange"
  /\ ~ alive[conn[p]] \/ expired[p]
  /\ Return(p)
  /\ UNCHANGED <<network, pool, dialing, want>>

-----------------------------------------------------------------------------
(* Environment *)

\* rpcTimeout, or the caller cancels.  getConn does not look at the context
\* while it holds t.mu: an expiry at "get" is one right after it.
Expire(p) ==
  /\ pc[p] \notin {"idle", "get"}
  /\ ~ expired[p]
  /\ expired' = [expired EXCEPT ![p] = TRUE]
  /\ UNCHANGED <<network, pool, dialing, pc, want, conn, first, call>>

\* Idle timeout, reset, or closed by the peer.
CloseConn(k) ==
  /\ alive[k]
  /\ alive' = [alive EXCEPT ![k] = FALSE]
  /\ UNCHANGED <<at, pool, dialing, peer, gone, pc, want, conn, first, call, expired>>

\* The connections in use that lead to address a.
ConnsTo(a) == {k \in Conn : pool[a] = k \/ \E p \in Proc : conn[p] = k /\ AddrOf(p) = a}

\* The process at an address ends.  Another one may start there: a restart of
\* the same node (i as before), or another node.  Nobody closes connections.
Rebind(a, i) ==
  /\ at' = [at EXCEPT ![a] = i]
  /\ gone' = gone \cup ConnsTo(a)
  /\ UNCHANGED <<pool, dialing, alive, peer, pc, want, conn, first, call, expired>>

\* A step of a send other than that it gets its answer.
Tries(p) ==
  \/ GetPooled(p) \/ GetWait(p) \/ GetDial(p)
  \/ DialOk(p) \/ DialFail(p)
  \/ WaitDone(p) \/ WaitFail(p)
  \/ OpenOk(p) \/ OpenFailFirst(p) \/ OpenFailAgain(p)
  \/ ReplyInvalid(p) \/ ReplyLost(p)

Step(p) == Tries(p) \/ ReplyOk(p)

Next ==
  \/ \E p \in Proc, c \in Contact : Send(p, c)
  \/ \E p \in Proc : Step(p) \/ DialError(p) \/ Expire(p)
  \/ \E k \in Conn : CloseConn(k)
  \/ \E a \in Addr, i \in Id \cup {Nobody} : Rebind(a, i)

Spec == Init /\ [][Next]_vars

-----------------------------------------------------------------------------
(* Properties *)

\* At most one goroutine dials an address, and it is the registered one: a
\* burst of lookups to one peer makes one handshake (transport.go:207-221).
SingleFlight ==
  \A p \in Proc : pc[p] = "dial" => dialing[AddrOf(p)] = p

\* A finished dial never overwrites a pooled connection: none is put there
\* while the dial runs, although getConn and dropConn of other goroutines
\* work on the same address meanwhile (transport.go:225-231).
DialFillsEmptySlot ==
  \A p \in Proc : pc[p] = "dial" => pool[AddrOf(p)] = NoConn

\* Nobody waits for a dial that is over: every pending waiter has a goroutine
\* that is dialing its address and will close the channel.
NoLostWaiter ==
  \A p \in Proc : pc[p] = "wait" /\ call[p] = "pending" =>
    \E q \in Proc : q # p /\ pc[q] = "dial" /\ dialing[AddrOf(p)] = q /\ AddrOf(q) = AddrOf(p)

\* The second attempt never gets the connection the first one failed on.
RetryUsesFreshConn ==
  \A p \in Proc : pc[p] \in {"open", "exchange"} => conn[p] # first[p]

\* Every send returns.
EverySendReturns == \A p \in Proc : pc[p] # "idle" ~> pc[p] = "idle"
=============================================================================
