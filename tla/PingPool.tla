------------------------------ MODULE PingPool ------------------------------
(***************************************************************************)
(* The routing table and the transport together: tryReplace of             *)
(* internal/dht/routing.go pings through the connection pool of            *)
(* internal/dht/transport.go, where its send shares connections and dials  *)
(* with the sends of everybody else.                                       *)
(*                                                                         *)
(* RoutingTable leaves the outcome of a ping to the environment.  Here it  *)
(* is what send returns.  The table is one bucket, a set of peers without  *)
(* its order; PeerCache says what it promises.                             *)
(***************************************************************************)
EXTENDS ConnPool

CONSTANTS
  Pinger,   \* the goroutines of tryReplace; the others look up and download
  NoCand,   \* no ping is under way
  K         \* bucket size

ASSUME PingerAssumption == Pinger \subseteq Proc
ASSUME KAssumption == K \in Nat \ {0}

VARIABLES
  held,     \* the contacts in the bucket
  cand,     \* cand[p]: who gets the place if the ping of p fails
  calm      \* history: the pings whose peer has been reachable all along

tableVars == <<held, cand, calm>>
allVars == <<vars, tableVars>>

TableTypeOK ==
  /\ held \subseteq Contact
  /\ Cardinality(held) <= K
  /\ cand \in [Pinger -> Contact \cup {NoCand}]
  /\ calm \subseteq Pinger

TableInit ==
  /\ Init
  /\ held = {}
  /\ cand = [p \in Pinger |-> NoCand]
  /\ calm = {}

\* The pings under way.
Pinging == {p \in Pinger : pc[p] # "idle"}

\* Connection k works no more: it is closed, or the process at its end ends.
Lost(k) == alive[k] /\ k \notin gone /\ ~ (alive'[k] /\ k \notin gone')

\* Waiting for an answer from a process that is gone.
Unheard(p) == pc[p] = "exchange" /\ conn[p] \in gone

\* A ping is calm as long as its peer listens at its address, no connection to
\* it that works is lost, and time enough is left, unless it is spent waiting
\* for somebody who is gone.
StillCalm(p) ==
  /\ pc'[p] # "idle"
  /\ p \in calm \/ p \notin Pinging
  /\ at'[want'[p].addr] = want'[p].id
  /\ expired'[p] => Unheard(p)
  /\ \A k \in Conn : Lost(k) => peer[k] # want'[p].id

-----------------------------------------------------------------------------
(* update: a message from c is handled; c may have moved since it was sent. *)

HasRoom == Cardinality(held) < K

HearAppend(c) ==
  /\ c \notin held
  /\ HasRoom
  /\ held' = held \cup {c}
  /\ UNCHANGED <<vars, cand>>

\* Bucket full: a peer that is not being pinged already is pinged.
Unpinged(c) == \A p \in Pinging : want[p] # c

HearPing(p, c) ==
  /\ c \notin held
  /\ ~ HasRoom
  /\ \E oldest \in held : Unpinged(oldest) /\ Send(p, oldest)
  /\ cand' = [cand EXCEPT ![p] = c]
  /\ UNCHANGED held

-----------------------------------------------------------------------------
(* tryReplace *)

\* The candidate takes the place, unless it has got one by itself: then the
\* place is free.
Replaced(p) == (held \ {want[p]}) \cup {cand[p]}

\* The send of a ping has ended: without an answer the peer is replaced.
TryReplace(p, answered) ==
  IF p \in Pinger /\ pc'[p] = "idle"
  THEN /\ held' = IF answered THEN held ELSE Replaced(p)
       /\ cand' = [cand EXCEPT ![p] = NoCand]
  ELSE UNCHANGED <<held, cand>>

\* A step of a send, which is that of a ping or another one.
Advance(p) ==
  \/ ReplyOk(p) /\ TryReplace(p, TRUE)
  \/ Tries(p) /\ TryReplace(p, FALSE)

Environment ==
  \/ \E p \in Proc : Expire(p)
  \/ \E k \in Conn : CloseConn(k)
  \/ \E a \in Addr, i \in Id \cup {Nobody} : Rebind(a, i)

Observe == calm' = {p \in Pinger : StillCalm(p)}

\* The steps on a host whose dials fail for no reason of its own.
SoundNext ==
  \/ \E c \in Contact : HearAppend(c) /\ Observe
  \/ \E p \in Pinger, c \in Contact : HearPing(p, c) /\ Observe
  \/ \E p \in Proc \ Pinger, c \in Contact : Send(p, c) /\ UNCHANGED <<held, cand>> /\ Observe
  \/ \E p \in Proc : Advance(p) /\ Observe
  \/ Environment /\ UNCHANGED <<held, cand>> /\ Observe

HostFails == \E p \in Proc : DialError(p) /\ TryReplace(p, FALSE) /\ Observe

TableNext == SoundNext \/ HostFails

TableSpec == TableInit /\ [][TableNext]_allVars
SoundSpec == TableInit /\ [][SoundNext]_allVars

\* A send takes its next step, or its timer fires.
GoesOn(p) == Advance(p) /\ Observe
TimeUp(p) == Expire(p) /\ UNCHANGED <<held, cand>> /\ Observe
Moves(p) == GoesOn(p) \/ TimeUp(p)

\* One of the two happens: the scheduler runs a goroutine that can go on, and
\* one that waits is woken by what it waits for or by its timer.
Fair(p) == WF_allVars(Moves(p))
TableFairSpec == TableSpec /\ \A p \in Proc : Fair(p)

-----------------------------------------------------------------------------
(* Properties *)

\* The table over the real pool keeps the promise of the abstract cache: a
\* peer leaves only through a ping of its own that has ended without an
\* answer, and only in exchange for the candidate (routing.go:76-112).
Cache == INSTANCE PeerCache WITH
  Bucket <- {0},
  Peer <- Contact,
  peers <- [b \in {0} |-> held],
  probing <- {[idx |-> 0, old |-> want[p], new |-> cand[p]] : p \in Pinging}

ImplementsCache == Cache!Spec

Evicted(p) == p \in Pinging /\ want[p] \in held /\ want[p] \notin held'

\* A pooled connection to another node, or to a process that is gone.
Stale(p) == peer[conn[p]] # want[p].id \/ conn[p] \in gone

\* Why a peer that listens at its address all along can be lost: the dial of
\* somebody else, which the ping waited for, has failed; its own dial fails on
\* this host; or its first attempt was handed a pooled connection that leads
\* elsewhere, or to the process the peer was before it restarted, and then the
\* exchange is not repeated.  Connections that were closed before never make a
\* ping fail, and neither does what a second attempt gets: no connection that
\* other goroutines drop, dial and pool meanwhile is stale by then
\* (transport.go:148-163, 181-191, 195-237).
EvictedForCause ==
  [][\A p \in Pinger : p \in calm /\ Evicted(p) =>
       \/ pc[p] = "wait" /\ call[p] = "failed"
       \/ pc[p] = "dial"
       \/ pc[p] = "exchange" /\ first[p] = NoConn /\ Stale(p)]_allVars

\* No send is ever stuck: its time can run out, and once it has, whatever the
\* send waits for -- its own dial, somebody else's, a stream, an answer -- it can
\* give up (transport.go:142-235).
NeverStuck == \A p \in Proc : pc[p] # "idle" => ENABLED <<Moves(p)>>_allVars

\* What the comment at routing.go:72 says: "Ping the oldest peer, keep it if
\* alive, otherwise replace it with the new peer", where the ping has not spent
\* its time on a stale connection.
KeptIfAlive ==
  [][\A p \in Pinger : p \in calm /\ Evicted(p) => pc[p] = "exchange" /\ Stale(p)]_allVars
=============================================================================
