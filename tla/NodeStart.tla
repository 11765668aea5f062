----------------------------- MODULE NodeStart ------------------------------
(***************************************************************************)
(* The start of a node (StartNode of internal/node/node.go): the store is  *)
(* loaded, then the identity (loadOrCreateIdentity of                      *)
(* internal/dht/transport.go), and only then does anybody call the store.  *)
(* An error in between ends the process, as a kill does anywhere.          *)
(*                                                                         *)
(* The identity is two files.  Each is written by os.WriteFile, which      *)
(* truncates and then writes, so a kill can leave any mixture of old, new  *)
(* and empty.  A file that cannot be read counts as missing.               *)
(***************************************************************************)
EXTENDS Publish

CONSTANTS
  Ident,   \* key pairs, named by the node id they give
  NoIdent  \* none: no file, nothing in it, or no identity yet

ASSUME IdentAssumption == NoIdent \notin Ident

VARIABLES
  cert,    \* the pair whose certificate is in node_cert.pem
  key,     \* the pair whose private key is in node_key.pem
  step,    \* where loadOrCreateIdentity is
  new,     \* the pair it has generated
  myid,    \* the identity of the running process
  misread, \* history: has a start failed to read files that are there?
  served   \* history: the identities the node has run under

identFiles == <<cert, key>>
identMemory == <<step, new, myid>>
identVars == <<identFiles, identMemory, misread, served>>
allVars == <<vars, publishers, identVars>>

IdentTypeOK ==
  /\ {cert, key, new, myid} \subseteq Ident \cup {NoIdent}
  /\ step \in {"read", "cert_open", "cert_write", "key_open", "key_write", "done"}
  /\ misread \in BOOLEAN
  /\ served \subseteq Ident
  /\ step # "read" => phase = "up"
  /\ myid # NoIdent <=> step = "done"

NodeInit ==
  /\ Init /\ PublishInit
  /\ cert = NoIdent /\ key = NoIdent
  /\ step = "read" /\ new = NoIdent /\ myid = NoIdent
  /\ misread = FALSE
  /\ served = {}

\* Names that begin with Mut are deliberate errors: each replaces the
\* definition that follows it to show that a property notices.

\* The node runs under identity i.
Run(i) ==
  /\ step' = "done"
  /\ myid' = i
  /\ served' = served \cup {i}

-----------------------------------------------------------------------------
(* loadOrCreateIdentity, after NewStore *)

\* tls.X509KeyPair accepts what is in the two files.
MutCertOnly == cert # NoIdent
PairOnDisk == cert # NoIdent /\ key = cert

IdentReuse ==
  /\ phase = "up" /\ step = "read"
  /\ PairOnDisk
  /\ Run(cert)
  /\ UNCHANGED <<vars, identFiles, new, misread>>

\* Files that are missing, that do not match or that cannot be read, whatever
\* is in them: another pair is generated, different from every one used or left
\* before.  (The certificate is overwritten before anything else: it need not
\* be told apart.)
IdentGenerate ==
  /\ phase = "up" /\ step = "read"
  /\ misread' = (misread \/ PairOnDisk)
  /\ new' \in Ident \ (served \cup {key})
  /\ step' = "cert_open"
  /\ UNCHANGED <<vars, identFiles, myid, served>>

\* os.WriteFile of one file, in two steps.
CertTruncate ==
  /\ step = "cert_open"
  /\ cert' = NoIdent
  /\ step' = "cert_write"
  /\ UNCHANGED <<vars, key, new, myid, misread, served>>

CertWrite ==
  /\ step = "cert_write"
  /\ cert' = new
  /\ step' = "key_open"
  /\ UNCHANGED <<vars, key, new, myid, misread, served>>

KeyTruncate ==
  /\ step = "key_open"
  /\ key' = NoIdent
  /\ step' = "key_write"
  /\ UNCHANGED <<vars, cert, new, myid, misread, served>>

MutKeyNotWritten == UNCHANGED key
KeyIsWritten == key' = new

KeyWrite ==
  /\ step = "key_write"
  /\ KeyIsWritten
  /\ Run(new)
  /\ UNCHANGED <<vars, cert, new, misread>>

\* The process is killed, or ends because a file cannot be written or the
\* address cannot be listened at.
IdentForgotten ==
  /\ step' = "read" /\ new' = NoIdent /\ myid' = NoIdent
  /\ UNCHANGED <<identFiles, misread, served>>

Kill == Crash /\ Forgotten /\ IdentForgotten

IdentStep ==
  \/ IdentReuse \/ IdentGenerate
  \/ CertTruncate \/ CertWrite
  \/ KeyTruncate \/ KeyWrite

-----------------------------------------------------------------------------
\* Publishers and the workers of downloads come with the node.
OtherCalls ==
  \/ step = "done" /\ \E p \in Caller \ Publisher, c \in Chunk : PutCheck(p, c)
  \/ step = "done" /\ \E p \in Caller \ Publisher, f \in FileId : AddCheck(p, f)
  \/ \E p \in Caller \ Publisher : CallerStep(p) \/ PutFail(p)

StoreStep ==
  \/ step = "done" /\ \E p \in Publisher, f \in FileId : Begin(p, f)
  \/ \E p \in Publisher : PublishStep(p)
  \/ OtherCalls /\ UNCHANGED publishers
  \/ (\E y \in Syncer : SyncerStep(y) \/ SyncFail(y)) /\ UNCHANGED publishers
  \/ (Start \/ StartFail \/ StartSkips) /\ UNCHANGED publishers

NodeNext ==
  \/ StoreStep /\ UNCHANGED identVars
  \/ IdentStep /\ UNCHANGED publishers
  \/ Kill

NodeSpec == NodeInit /\ [][NodeNext]_allVars

-----------------------------------------------------------------------------
(* Properties *)

\* A node runs under an identity that is on the disk, certificate and key,
\* wherever earlier starts were killed: what it is known by now can be loaded
\* again, and it can prove what it claims (transport.go:292-316).
IdentityDurable == myid # NoIdent => cert = myid /\ key = myid

\* The identity "remains stable after reboot" (transport.go:46): however often
\* starts are killed, a node never runs under two identities, unless a start
\* has failed to read what is there.
IdentityStable == \A i, j \in served : i = j \/ misread
=============================================================================
