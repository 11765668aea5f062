--------------------------- MODULE DownloadProofs ---------------------------
(***************************************************************************)
(* Proofs about Download for any number of callers, any files and any size *)
(* of the pool.                                                            *)
(*                                                                         *)
(* Gathered follows by counting: no more good results are in the channel   *)
(* and received together than there are positions of the file that have    *)
(* been dispatched, are in no worker's hands and have their chunk in the   *)
(* store (Counted).  When all have been received, that is every position.  *)
(*                                                                         *)
(* The refinement of SavesFile hides the goroutines and the temporary      *)
(* files.  That a download ends is split in two: somebody always has a     *)
(* step to take (GoesOn), by counting what is with the workers, in the     *)
(* channel and received (Accounted), and each step lessens what is left    *)
(* (Left).                                                                 *)
(***************************************************************************)
EXTENDS Download, FiniteSetTheorems, TLAPS

\* The positions up to n that are in no worker's hands and have their chunk.
HomeOf(ws, n, ps, cs) == {i \in 1..n : ws[i] = "none" /\ ps[i] \in cs}
Home(j) == HomeOf(work[j], next[j], Parts(j), chunks)

\* No more good results than chunks at home, and no worker before its turn.
Counted(j) ==
  /\ sent[j]["ok"] + taken[j] <= Cardinality(Home(j))
  /\ \A i \in Running(j) : i <= next[j]

\* A call that is not collecting yet has no results and no workers, and one that
\* is past its first phase has its manifest.
Phases(j) ==
  /\ Returned(j) \/ GetsManifest(j) => taken[j] = 0 /\ pos[j] = 0
  /\ GetsManifest(j) => sent[j] = NoResult /\ next[j] = 0
  /\ ~ Returned(j) /\ ~ GetsManifest(j) => FileOf[j] \in manifests \cup chunks

\* Where the goroutine of a call can be.
Place ==
  {"idle", "manifest", "put manifest", "write manifest", "collect", "create", "resize", "write"}

\* What concerns one call.
LocalType(j) ==
  /\ work[j] \in [Slots(j) -> {"none", "get", "put", "write"}]
  /\ {next[j], taken[j], pos[j], off[j], Results(j)} \subseteq 0..Len(Parts(j))
  /\ off[j] <= pos[j]
  /\ Assembling(j) <=> fd[j] # "none"

Local(j) ==
  /\ LocalType(j)
  /\ Counted(j)
  /\ Phases(j)
  /\ Cardinality(Running(j)) <= Pool

\* What the calls share.
GlobalType ==
  /\ chunks \subseteq Chunk
  /\ manifests \subseteq FileId
  /\ torn \subseteq Chunk
  /\ main \in [Job -> Place]
  /\ gone \in [Job -> BOOLEAN]
  /\ DOMAIN work = Job
  /\ sent \in [Job -> [{"ok", "err"} -> Nat]]
  /\ {next, taken, pos, off} \subseteq [Job -> Nat]
  /\ fd \in [Job -> {"none", "temp", "final", "nameless"}]
  /\ {temp, final} \subseteq [Path -> {None} \cup Seq(Chunk \cup {Zero})]
  /\ loose \in [Path -> BOOLEAN]

\* A manifest is indexed with all its chunks.
Backed == \A f \in manifests : {f} \cup {Content[f][i] : i \in DOMAIN Content[f]} \subseteq chunks

\* An open file with a name is there.
OpenNamed ==
  \A j \in Job :
    /\ fd[j] = "temp" => temp[Target(j)] # None
    /\ fd[j] = "final" => final[Target(j)] # None

Inv ==
  /\ GlobalType
  /\ Backed
  /\ OpenNamed
  /\ \A j \in Job : Local(j)

-----------------------------------------------------------------------------
(* Files and positions *)

LEMMA PartsType ==
  ASSUME NEW j \in Job
  PROVE  /\ FileOf[j] \in FileId /\ FileOf[j] \in Chunk
         /\ Parts(j) \in Seq(Chunk)
         /\ Len(Parts(j)) \in Nat
         /\ Slots(j) = 1..Len(Parts(j))
         /\ Target(j) \in Path
BY FileIdAssumption, FileOfAssumption, ContentAssumption, PathAssumption DEF Parts, Slots, Target

\* Positions are finite sets; there are at most n at home.
LEMMA HomeSize ==
  ASSUME NEW n \in Nat, NEW ws, NEW ps, NEW cs
  PROVE  /\ IsFiniteSet(HomeOf(ws, n, ps, cs))
         /\ Cardinality(HomeOf(ws, n, ps, cs)) \in Nat
         /\ Cardinality(HomeOf(ws, n, ps, cs)) <= n
         /\ Cardinality(HomeOf(ws, n, ps, cs)) = n => HomeOf(ws, n, ps, cs) = 1..n
<1>1. IsFiniteSet(1..n) /\ Cardinality(1..n) = n
  BY FS_Interval
<1>2. HomeOf(ws, n, ps, cs) \in SUBSET (1..n)
  BY DEF HomeOf
<1> QED BY <1>1, <1>2, FS_Subset, FS_CardinalityType

\* Chunks that come and workers that end do not take positions away.
LEMMA HomeGrows ==
  ASSUME NEW n \in Nat, NEW m \in Nat, n <= m, NEW ws, NEW vs, NEW ps, NEW cs, NEW ds,
         cs \subseteq ds, \A i \in 1..n : ws[i] = "none" => vs[i] = "none"
  PROVE  Cardinality(HomeOf(ws, n, ps, cs)) <= Cardinality(HomeOf(vs, m, ps, ds))
<1>1. HomeOf(ws, n, ps, cs) \in SUBSET HomeOf(vs, m, ps, ds)
  BY DEF HomeOf
<1> QED BY <1>1, HomeSize, FS_Subset

\* A worker that ends with its chunk in the store brings one home.
LEMMA HomeGains ==
  ASSUME NEW n \in Nat, NEW i \in 1..n, NEW ws, NEW vs, NEW ps, NEW cs, NEW ds,
         cs \subseteq ds, ws[i] # "none", vs[i] = "none", ps[i] \in ds,
         \A k \in 1..n : ws[k] = "none" => vs[k] = "none"
  PROVE  Cardinality(HomeOf(ws, n, ps, cs)) + 1 <= Cardinality(HomeOf(vs, n, ps, ds))
<1> DEFINE H == HomeOf(ws, n, ps, cs)
           G == HomeOf(vs, n, ps, ds)
<1>1. i \notin H /\ H \cup {i} \in SUBSET G
  BY DEF HomeOf
<1>2. IsFiniteSet(H) /\ IsFiniteSet(G) /\ Cardinality(H) \in Nat /\ Cardinality(G) \in Nat
  BY HomeSize
<1>3. Cardinality(H \cup {i}) = Cardinality(H) + 1
  BY <1>1, <1>2, FS_AddElement
<1>4. Cardinality(H \cup {i}) <= Cardinality(G)
  BY <1>1, <1>2, FS_Subset
<1> QED BY <1>2, <1>3, <1>4

\* A call with fewer busy workers keeps to the bound; one more counts one more.
LEMMA RunningSize ==
  ASSUME NEW n \in Nat, NEW S \in SUBSET (1..n), NEW T \in SUBSET S, NEW x
  PROVE  /\ Cardinality(S) \in Nat /\ Cardinality(T) \in Nat
         /\ Cardinality(T) <= Cardinality(S)
         /\ Cardinality(S \cup {x}) <= Cardinality(S) + 1
         /\ Cardinality(S \cup {x}) \in Nat
<1>1. IsFiniteSet(1..n)
  BY FS_Interval
<1>2. IsFiniteSet(S)
  BY <1>1, FS_Subset
<1>3. IsFiniteSet(T) /\ Cardinality(T) <= Cardinality(S)
  BY <1>2, FS_Subset
<1>4. IsFiniteSet(S \cup {x}) /\ Cardinality(S \cup {x}) = IF x \in S THEN Cardinality(S) ELSE Cardinality(S) + 1
  BY <1>2, FS_AddElement
<1> QED BY <1>2, <1>3, <1>4, FS_CardinalityType

\* Writing and truncating make contents of contents.
LEMMA PutType ==
  ASSUME NEW S, NEW s \in Seq(S), NEW i \in Nat \ {0}, NEW c \in S, Zero \in S
  PROVE  Put(s, i, c) \in Seq(S)
<1> DEFINE n == IF i > Len(s) THEN i ELSE Len(s)
<1>1. n \in Nat
  OBVIOUS
<1>2. \A l \in 1..n : (IF l = i THEN c ELSE IF l <= Len(s) THEN s[l] ELSE Zero) \in S
  OBVIOUS
<1>3. Put(s, i, c) = [l \in 1..n |-> IF l = i THEN c ELSE IF l <= Len(s) THEN s[l] ELSE Zero]
  BY DEF Put
<1> HIDE DEF n
<1> QED BY <1>1, <1>2, <1>3

LEMMA ResizedType ==
  ASSUME NEW S, NEW s \in Seq(S), NEW n \in Nat, Zero \in S
  PROVE  Resized(s, n) \in Seq(S)
<1>1. \A l \in 1..n : (IF l <= Len(s) THEN s[l] ELSE Zero) \in S
  OBVIOUS
<1> QED BY <1>1 DEF Resized

-----------------------------------------------------------------------------
(* Steps of other calls *)

\* What a step of another call leaves of call l.
Same(l) ==
  /\ main'[l] = main[l] /\ next'[l] = next[l] /\ work'[l] = work[l]
  /\ sent'[l] = sent[l] /\ taken'[l] = taken[l] /\ pos'[l] = pos[l] /\ off'[l] = off[l]
  /\ fd'[l] = "none" <=> fd[l] = "none"
  /\ chunks \subseteq chunks' /\ manifests \subseteq manifests'

LEMMA LocalSame ==
  ASSUME GlobalType, NEW l \in Job, Local(l), Same(l)
  PROVE  Local(l)'
<1> USE PartsType
<1>1. LocalType(l)'
  BY DEF Local, LocalType, Same, Assembling, Slots, Parts, Results
<1>2. Cardinality(Home(l)) <= Cardinality(Home(l)')
  <2>1. next[l] \in Nat
    BY DEF Local, LocalType
  <2>2. Home(l)' = HomeOf(work[l], next[l], Parts(l), chunks')
    BY DEF Home, Same, Parts, HomeOf
  <2> QED BY <2>1, <2>2, HomeGrows DEF Same, Home
<1>3. Counted(l)'
  <2>1. sent'[l]["ok"] + taken'[l] = sent[l]["ok"] + taken[l]
    BY DEF Same
  <2>2. next[l] \in Nat /\ next'[l] \in Nat /\ sent[l]["ok"] \in Nat /\ taken[l] \in Nat
    BY DEF GlobalType, Same
  <2>3. Cardinality(Home(l)') \in Nat /\ Cardinality(Home(l)) \in Nat
    BY <2>2, HomeSize DEF Home
  <2>4. sent[l]["ok"] + taken[l] <= Cardinality(Home(l))
    BY DEF Local, Counted
  <2>5. (sent[l]["ok"] + taken[l] <= Cardinality(Home(l)))'
    BY <1>2, <2>1, <2>2, <2>3, <2>4
  <2>6. \A i \in Running(l)' : i <= next'[l]
    BY DEF Local, Counted, Running, Slots, Parts, Same
  <2> QED BY <2>5, <2>6 DEF Counted
<1>4. Phases(l)'
  BY DEF Local, Phases, Same, Returned, GetsManifest
<1>5. Cardinality(Running(l)') <= Pool
  <2>1. Running(l)' = Running(l)
    BY DEF Running, Slots, Parts, Same
  <2> QED BY <2>1 DEF Local
<1> QED BY <1>1, <1>3, <1>4, <1>5 DEF Local

LEMMA InitInv == Init => Inv
<1> SUFFICES ASSUME Init PROVE Inv
  OBVIOUS
<1> USE PartsType DEF Init
<1>1. GlobalType
  BY DEF GlobalType, NoResult, Place
<1>2. Backed /\ OpenNamed
  BY DEF Backed, OpenNamed
<1>3. ASSUME NEW j \in Job PROVE Local(j)
  <2>1. LocalType(j)
    BY DEF LocalType, NoWork, NoResult, Assembling, Results
  <2>2. Running(j) = {}
    BY DEF Running, NoWork
  <2>3. Cardinality(Home(j)) \in Nat
    BY HomeSize DEF Home
  <2>4. Counted(j)
    BY <2>2, <2>3 DEF Counted, NoResult
  <2>5. Phases(j)
    BY DEF Phases, GetsManifest, Returned
  <2>6. Cardinality(Running(j)) <= Pool
    BY <2>2, FS_EmptySet, PoolAssumption
  <2> QED BY <2>1, <2>4, <2>5, <2>6 DEF Local
<1> QED BY <1>1, <1>2, <1>3 DEF Inv

\* A step of call j keeps Inv when it keeps what is loose and what is j's.
LEMMA StepOf ==
  ASSUME Inv, NEW j \in Job, GlobalType', Backed', OpenNamed', Local(j)',
         \A l \in Job \ {j} : Same(l)
  PROVE  Inv'
<1>1. ASSUME NEW l \in Job PROVE Local(l)'
  BY LocalSame DEF Inv
<1> QED BY <1>1 DEF Inv

\* The counts of a call are numbers.
LEMMA Numbers ==
  ASSUME GlobalType, NEW j \in Job
  PROVE  /\ next[j] \in Nat /\ taken[j] \in Nat /\ pos[j] \in Nat /\ off[j] \in Nat
         /\ sent[j]["ok"] \in Nat /\ sent[j]["err"] \in Nat /\ Results(j) \in Nat
         /\ Cardinality(Home(j)) \in Nat /\ Cardinality(Home(j)) <= next[j]
<1>1. next[j] \in Nat
  BY DEF GlobalType
<1> QED BY <1>1, HomeSize DEF GlobalType, Home, Results

\* Return, which may have taken a bad result, and may have no dispatcher to stop.
LEMMA ReturnInv ==
  ASSUME Inv, NEW j \in Job, Return(j), UNCHANGED <<index, work, disk>>,
         \/ UNCHANGED sent
         \/ sent[j]["err"] > 0 /\ sent' = [sent EXCEPT ![j]["err"] = @ - 1],
         \/ UNCHANGED next
         \/ next' = [next EXCEPT ![j] = Len(Parts(j))]
  PROVE  Inv'
<1>0. sent' \in [Job -> [{"ok", "err"} -> Nat]]
  <2>1. sent \in [Job -> [{"ok", "err"} -> Nat]]
    BY DEF Inv, GlobalType
  <2>2. CASE sent[j]["err"] > 0 /\ sent' = [sent EXCEPT ![j]["err"] = @ - 1]
    BY <2>1, <2>2
  <2> QED BY <2>1, <2>2
<1> USE PartsType, Numbers DEF Return, Leave, Goto, index, disk
<1>1. GlobalType'
  <2> USE DEF Inv, GlobalType
  <2>1. {next, taken, pos, off}' \subseteq [Job -> Nat]
    <3>1. Len(Parts(j)) \in Nat /\ next \in [Job -> Nat]
      OBVIOUS
    <3>2. next' \in [Job -> Nat]
      BY <3>1
    <3>3. taken' \in [Job -> Nat] /\ pos' \in [Job -> Nat] /\ off' \in [Job -> Nat]
      OBVIOUS
    <3> QED BY <3>2, <3>3
  <2>2. /\ main' \in [Job -> Place]
        /\ gone' \in [Job -> BOOLEAN]
        /\ fd' \in [Job -> {"none", "temp", "final", "nameless"}]
    BY DEF Place
  <2> QED BY <1>0, <2>1, <2>2
<1>2. Backed'
  BY DEF Inv, Backed
<1>3. OpenNamed'
  BY DEF Inv, GlobalType, OpenNamed, Target
<1>4. next'[j] \in Nat /\ next[j] <= next'[j] /\ next'[j] <= Len(Parts(j))
  BY DEF Inv, GlobalType, Local, LocalType
<1>5. main'[j] = "idle" /\ taken'[j] = 0 /\ pos'[j] = 0 /\ off'[j] = 0 /\ fd'[j] = "none"
  BY DEF Inv, GlobalType
<1>5a. sent'[j]["ok"] = sent[j]["ok"] /\ sent'[j]["err"] \in Nat /\ sent'[j]["err"] <= sent[j]["err"]
  BY DEF Inv, GlobalType
<1>6. LocalType(j)'
  <2>1. Results(j)' \in 0..Len(Parts(j))
    BY <1>5a DEF Inv, Local, LocalType, Results
  <2>2. {next'[j], taken'[j], pos'[j], off'[j], Results(j)'} \subseteq 0..Len(Parts(j))
    BY <1>4, <1>5, <2>1
  <2> QED BY <1>5, <2>2 DEF Inv, Local, LocalType, Assembling, Slots, Parts
<1>7. Counted(j)'
  <2>1. Cardinality(Home(j)') \in Nat /\ Cardinality(Home(j)) <= Cardinality(Home(j)')
    <3>1. Home(j)' = HomeOf(work[j], next'[j], Parts(j), chunks)
      BY DEF Home, HomeOf, Parts
    <3>2. next[j] \in Nat
      BY DEF Inv
    <3> QED BY <1>4, <3>1, <3>2, HomeSize, HomeGrows DEF Home
  <2>2. sent[j]["ok"] + taken[j] <= Cardinality(Home(j)) /\ taken[j] \in Nat /\ sent[j]["ok"] \in Nat
        /\ Cardinality(Home(j)) \in Nat
    BY DEF Inv, Local, Counted
  <2>3. sent'[j]["ok"] + taken'[j] <= Cardinality(Home(j)')
    BY <1>5, <1>5a, <2>1, <2>2
  <2>4. \A i \in Running(j)' : i <= next'[j]
    <3>1. Running(j)' = Running(j) /\ Running(j) \subseteq 1..Len(Parts(j))
      BY DEF Running, Slots, Parts
    <3> QED BY <1>4, <3>1 DEF Inv, GlobalType, Local, Counted
  <2> QED BY <2>3, <2>4 DEF Counted
<1>8. Phases(j)'
  BY <1>5 DEF Phases, Returned, GetsManifest
<1>9. Cardinality(Running(j)') <= Pool
  BY DEF Inv, Local, Running, Slots, Parts
<1>10. \A l \in Job \ {j} : Same(l)
  BY DEF Inv, GlobalType, Same
<1> QED BY <1>1, <1>2, <1>3, <1>6, <1>7, <1>8, <1>9, <1>10, StepOf DEF Local

LEMMA StartInv ==
  ASSUME Inv, NEW j \in Job, Start(j)
  PROVE  Inv'
<1>0. /\ main' \in [Job -> Place] /\ next' \in [Job -> Nat]
      /\ sent' \in [Job -> [{"ok", "err"} -> Nat]]
  BY DEF Inv, GlobalType, NoResult, Place, Start, Goto
<1>1. GlobalType'
  <2>1. UNCHANGED <<chunks, manifests, torn, gone, work, taken, pos, off, fd, temp, final, loose>>
    BY DEF Start, index, open, disk
  <2> QED BY <1>0, <2>1 DEF Inv, GlobalType
<1> USE PartsType, Numbers DEF Start, Goto, index, open, disk, Returned, Quiet
<1>2. Backed' /\ OpenNamed'
  BY DEF Inv, Backed, OpenNamed, Target
<1>3. /\ main'[j] = "manifest" /\ next'[j] = 0 /\ sent'[j] = NoResult
      /\ taken[j] = 0 /\ pos[j] = 0
  BY DEF Inv, GlobalType, Local, Phases
<1>3a. Results(j)' = 0 /\ sent'[j]["ok"] = 0
  BY <1>3 DEF NoResult, Results
<1>4. LocalType(j)'
  BY <1>3, <1>3a DEF Inv, Local, LocalType, Assembling, Slots, Parts
<1>5. Running(j)' = {}
  BY DEF Running, Slots, Parts
<1>6. Counted(j)'
  <2>1. Cardinality(Home(j)') \in Nat
    BY <1>3, HomeSize DEF Home
  <2>2. sent'[j]["ok"] + taken'[j] = 0
    BY <1>3, <1>3a
  <2> QED BY <1>5, <2>1, <2>2 DEF Counted
<1>7. Phases(j)'
  BY <1>3 DEF Phases, GetsManifest
<1>8. Cardinality(Running(j)') <= Pool
  BY <1>5, FS_EmptySet, PoolAssumption
<1>9. \A l \in Job \ {j} : Same(l)
  BY DEF Inv, GlobalType, Same
<1> QED BY <1>1, <1>2, <1>4, <1>6, <1>7, <1>8, <1>9, StepOf DEF Local

\* Steps that touch neither the pool nor the store keep the counts.
LEMMA CountsKept ==
  ASSUME Inv, NEW j \in Job, UNCHANGED pool, chunks \subseteq chunks'
  PROVE  Counted(j)' /\ Cardinality(Running(j)') <= Pool
<1> USE PartsType, Numbers DEF pool
<1>1. Running(j)' = Running(j)
  BY DEF Running, Slots, Parts
<1>2. Home(j)' = HomeOf(work[j], next[j], Parts(j), chunks')
  BY DEF Home, HomeOf, Parts
<1>3. next[j] \in Nat
  BY DEF Inv
<1>4. Cardinality(Home(j)') \in Nat /\ Cardinality(Home(j)) <= Cardinality(Home(j)')
  BY <1>2, <1>3, HomeSize, HomeGrows DEF Home
<1>5. sent[j]["ok"] + taken[j] <= Cardinality(Home(j))
  BY DEF Inv, Local, Counted
<1>6. (sent[j]["ok"] + taken[j] <= Cardinality(Home(j)))'
  <2>1. sent[j]["ok"] \in Nat /\ taken[j] \in Nat /\ Cardinality(Home(j)) \in Nat
    BY DEF Inv
  <2> QED BY <1>4, <1>5, <2>1
<1>7. \A i \in Running(j)' : i <= next'[j]
  BY <1>1 DEF Inv, Local, Counted
<1> QED BY <1>1, <1>6, <1>7 DEF Inv, Local, Counted

LEMMA GiveUpInv ==
  ASSUME Inv, NEW j \in Job, GiveUp(j)
  PROVE  Inv'
<1> USE PartsType, Numbers DEF GiveUp, index, disk, pool, open
<1>1. GlobalType' /\ Backed' /\ OpenNamed'
  BY DEF Inv, GlobalType, Backed, OpenNamed, Target
<1>2. LocalType(j)' /\ Phases(j)'
  BY DEF Inv, Local, LocalType, Results, Assembling, Slots, Parts, Phases, Returned, GetsManifest
<1>3. Counted(j)' /\ Cardinality(Running(j)') <= Pool
  BY CountsKept
<1>4. \A l \in Job \ {j} : Same(l)
  BY DEF Inv, GlobalType, Same
<1> QED BY <1>1, <1>2, <1>3, <1>4, StepOf DEF Local

\* The caller goes on with its manifest, or to its chunks when it has it.
LEMMA ManifestInv ==
  ASSUME Inv, NEW j \in Job, GetsManifest(j),
         NEW l \in {"put manifest", "write manifest", "collect"}, Goto(j, l),
         chunks \subseteq chunks', chunks' \subseteq Chunk, torn' \subseteq Chunk,
         l = "collect" => FileOf[j] \in manifests \cup chunks',
         UNCHANGED <<manifests, gone, pool, open, disk>>
  PROVE  Inv'
<1> USE PartsType, Numbers DEF Goto, disk, pool, open
<1>1. GlobalType'
  BY DEF Inv, GlobalType, Place
<1>2. Backed' /\ OpenNamed'
  BY DEF Inv, Backed, OpenNamed, Target
<1>3. main'[j] = l /\ ~ Assembling(j) /\ ~ Assembling(j)'
  BY DEF Inv, GlobalType, GetsManifest, Assembling
<1>4. LocalType(j)'
  BY <1>3 DEF Inv, Local, LocalType, Results, Slots, Parts
<1>5. Phases(j)'
  BY <1>3 DEF Inv, Local, Phases, Returned, GetsManifest
<1>6. Counted(j)' /\ Cardinality(Running(j)') <= Pool
  BY CountsKept
<1>7. \A k \in Job \ {j} : Same(k)
  BY DEF Inv, GlobalType, Same
<1> QED BY <1>1, <1>2, <1>4, <1>5, <1>6, <1>7, StepOf DEF Local

LEMMA ManifestStepInv ==
  ASSUME Inv, NEW j \in Job,
         ManifestHeld(j) \/ ManifestFound(j) \/ ManifestTruncated(j) \/ ManifestStored(j)
  PROVE  Inv'
<1> USE PartsType DEF GetsManifest, index
<1>1. chunks \subseteq Chunk /\ torn \subseteq Chunk
  BY DEF Inv, GlobalType
<1>2. CASE ManifestHeld(j)
  <2>1. Goto(j, "collect") /\ GetsManifest(j) /\ FileOf[j] \in manifests \cup chunks'
        /\ UNCHANGED <<chunks, torn, manifests, gone, pool, open, disk>>
    BY <1>2 DEF ManifestHeld
  <2> QED BY <1>1, <2>1, ManifestInv
<1>3. CASE ManifestFound(j)
  <2>1. Goto(j, "put manifest") /\ GetsManifest(j)
        /\ UNCHANGED <<chunks, torn, manifests, gone, pool, open, disk>>
    BY <1>3 DEF ManifestFound
  <2> QED BY <1>1, <2>1, ManifestInv
<1>4. CASE ManifestTruncated(j)
  <2>1. Goto(j, "write manifest") /\ GetsManifest(j) /\ torn' = torn \cup {FileOf[j]}
        /\ UNCHANGED <<chunks, manifests, gone, pool, open, disk>>
    BY <1>4 DEF ManifestTruncated, Truncates
  <2>2. torn' \subseteq Chunk
    BY <1>1, <2>1
  <2> QED BY <1>1, <2>1, <2>2, ManifestInv
<1>5. CASE ManifestStored(j)
  <2>1. Goto(j, "collect") /\ GetsManifest(j) /\ torn' = torn \ {FileOf[j]}
        /\ chunks' = chunks \cup {FileOf[j]} /\ UNCHANGED <<manifests, gone, pool, open, disk>>
    BY <1>5 DEF ManifestStored, Stores
  <2>2. torn' \subseteq Chunk /\ chunks' \subseteq Chunk /\ chunks \subseteq chunks'
        /\ FileOf[j] \in manifests \cup chunks'
    BY <1>1, <2>1
  <2> QED BY <1>1, <2>1, <2>2, ManifestInv
<1> QED BY <1>2, <1>3, <1>4, <1>5

-----------------------------------------------------------------------------
(* The dispatcher and its workers *)

LEMMA DispatchInv ==
  ASSUME Inv, NEW j \in Job, Dispatch(j)
  PROVE  Inv'
<1> DEFINE i == next[j] + 1
<1> USE PartsType, Numbers DEF Dispatch, index, open, disk
<1>1. GlobalType' /\ Backed' /\ OpenNamed'
  <2>1. next' \in [Job -> Nat] /\ DOMAIN work' = Job
    BY DEF Inv, GlobalType
  <2>2. GlobalType'
    BY <2>1 DEF Inv, GlobalType
  <2>3. Backed' /\ OpenNamed'
    BY DEF Inv, Backed, OpenNamed, Target
  <2> QED BY <2>2, <2>3
<1>2. i \in Slots(j) /\ next'[j] = i /\ work'[j] = [work[j] EXCEPT ![i] = "get"]
  BY DEF Inv, GlobalType
<1>3. LocalType(j)' /\ Phases(j)'
  <2>1. Results(j)' = Results(j) /\ Slots(j)' = Slots(j) /\ Parts(j)' = Parts(j)
        /\ Assembling(j)' = Assembling(j)
    BY DEF Results, Slots, Parts, Assembling
  <2>2. work'[j] \in [Slots(j) -> {"none", "get", "put", "write"}]
    BY <1>2 DEF Inv, Local, LocalType
  <2>3. LocalType(j)'
    BY <1>2, <2>1, <2>2 DEF Inv, Local, LocalType
  <2>4. Phases(j)'
    BY DEF Inv, Local, Phases, Returned, GetsManifest
  <2> QED BY <2>3, <2>4
<1>4. Running(j)' = Running(j) \cup {i}
  <2>1. Slots(j)' = Slots(j)
    BY DEF Slots, Parts
  <2>2. \A k \in Slots(j) : work'[j][k] = IF k = i THEN "get" ELSE work[j][k]
    BY <1>2 DEF Inv, Local, LocalType
  <2> QED BY <1>2, <2>1, <2>2 DEF Running
<1>5. Cardinality(Running(j)') <= Pool
  <2>1. Running(j) \in SUBSET (1..Len(Parts(j)))
    BY DEF Running
  <2>2. Cardinality(Running(j) \cup {i}) <= Cardinality(Running(j)) + 1
        /\ Cardinality(Running(j)) \in Nat /\ Cardinality(Running(j) \cup {i}) \in Nat
    BY <2>1, RunningSize
  <2> QED BY <1>4, <2>2, PoolAssumption DEF SlotFree
<1>6. Counted(j)'
  <2>1. Cardinality(Home(j)) <= Cardinality(Home(j)')
    <3>1. \A k \in 1..next[j] : work[j][k] = "none" => work'[j][k] = "none"
      BY <1>2 DEF Inv, Local, LocalType
    <3>2. Home(j)' = HomeOf(work'[j], i, Parts(j), chunks)
      BY <1>2 DEF Home, HomeOf, Parts
    <3>3. next[j] \in Nat /\ i \in Nat /\ next[j] <= i
      BY DEF Inv
    <3> HIDE DEF i
    <3>4. Cardinality(HomeOf(work[j], next[j], Parts(j), chunks))
            <= Cardinality(HomeOf(work'[j], i, Parts(j), chunks))
      BY <3>1, <3>3, HomeGrows
    <3> QED BY <3>2, <3>4 DEF Home
  <2>2. Cardinality(Home(j)') \in Nat
    <3>1. next'[j] \in Nat
      BY <1>2 DEF Inv
    <3> QED BY <3>1, HomeSize DEF Home
  <2>3. sent[j]["ok"] + taken[j] <= Cardinality(Home(j))
    BY DEF Inv, Local, Counted
  <2>4. (sent[j]["ok"] + taken[j] <= Cardinality(Home(j)))'
    <3>1. sent[j]["ok"] \in Nat /\ taken[j] \in Nat /\ Cardinality(Home(j)) \in Nat
      BY DEF Inv
    <3> QED BY <2>1, <2>2, <2>3, <3>1
  <2>5. \A k \in Running(j)' : k <= next'[j]
    <3>1. \A k \in Running(j) : k <= next[j] /\ k \in Nat
      <4>1. \A k \in Running(j) : k \in Nat
        BY DEF Running
      <4> QED BY <4>1 DEF Inv, Local, Counted
    <3>2. next[j] \in Nat
      BY DEF Inv
    <3> QED BY <1>2, <1>4, <3>1, <3>2
  <2> QED BY <2>4, <2>5 DEF Counted
<1>7. \A l \in Job \ {j} : Same(l)
  BY DEF Inv, GlobalType, Same
<1> QED BY <1>1, <1>3, <1>5, <1>6, <1>7, StepOf DEF Local

LEMMA DispatchStopsInv ==
  ASSUME Inv, NEW j \in Job, DispatchStops(j)
  PROVE  Inv'
<1> DEFINE n == Len(Parts(j))
<1> USE PartsType, Numbers DEF DispatchStops, index, open, disk
<1>1. GlobalType' /\ Backed' /\ OpenNamed'
  <2>1. next' \in [Job -> Nat]
    BY DEF Inv, GlobalType
  <2>2. GlobalType'
    BY <2>1 DEF Inv, GlobalType
  <2>3. Backed' /\ OpenNamed'
    BY DEF Inv, Backed, OpenNamed, Target
  <2> QED BY <2>2, <2>3
<1>2. next'[j] = n /\ next[j] \in Nat /\ next[j] <= n
  BY DEF Inv, GlobalType
<1>3. LocalType(j)' /\ Phases(j)'
  <2>1. Results(j)' = Results(j) /\ Slots(j)' = Slots(j) /\ Parts(j)' = Parts(j)
        /\ Assembling(j)' = Assembling(j)
    BY DEF Results, Slots, Parts, Assembling
  <2>2. LocalType(j)'
    BY <1>2, <2>1 DEF Inv, Local, LocalType
  <2>3. Phases(j)'
    BY DEF Inv, Local, Phases, Returned, GetsManifest
  <2> QED BY <2>2, <2>3
<1>4. Running(j)' = Running(j) /\ Running(j) \subseteq 1..n
  BY DEF Running, Slots, Parts
<1>5. Counted(j)'
  <2>1. Cardinality(Home(j)) <= Cardinality(Home(j)')
    <3>1. Home(j)' = HomeOf(work[j], n, Parts(j), chunks)
      BY <1>2 DEF Home, HomeOf, Parts
    <3> QED BY <1>2, <3>1, HomeGrows DEF Home
  <2>2. Cardinality(Home(j)') \in Nat
    BY <1>2, HomeSize DEF Home
  <2>3. sent[j]["ok"] + taken[j] <= Cardinality(Home(j))
    BY DEF Inv, Local, Counted
  <2>4. (sent[j]["ok"] + taken[j] <= Cardinality(Home(j)))'
    <3>1. sent[j]["ok"] \in Nat /\ taken[j] \in Nat /\ Cardinality(Home(j)) \in Nat
      BY DEF Inv
    <3> QED BY <2>1, <2>2, <2>3, <3>1
  <2> QED BY <1>2, <1>4, <2>4 DEF Counted
<1>6. Cardinality(Running(j)') <= Pool
  BY <1>4 DEF Inv, Local
<1>7. \A l \in Job \ {j} : Same(l)
  BY DEF Inv, GlobalType, Same
<1> QED BY <1>1, <1>3, <1>5, <1>6, <1>7, StepOf DEF Local

\* A worker of j goes from one stage to another, or to its end.
LEMMA WorkerKeeps ==
  ASSUME Inv, NEW j \in Job, NEW i \in Slots(j), work[j][i] # "none",
         NEW w \in {"none", "put", "write"}, work' = [work EXCEPT ![j][i] = w],
         chunks \subseteq chunks', chunks' \subseteq Chunk, torn' \subseteq Chunk,
         UNCHANGED <<manifests, main, gone, next, taken, open, disk>>,
         sent' \in [Job -> [{"ok", "err"} -> Nat]],
         \A l \in Job \ {j} : sent'[l] = sent[l],
         sent'[j]["ok"] + taken[j] <= Cardinality(HomeOf(work'[j], next[j], Parts(j), chunks')),
         Results(j)' <= Len(Parts(j))
  PROVE  Inv'
<1> USE PartsType, Numbers DEF open, disk
<1>1. /\ work'[j] = [work[j] EXCEPT ![i] = w] /\ Slots(j)' = Slots(j) /\ Parts(j)' = Parts(j)
      /\ \A k \in Slots(j) : work'[j][k] = IF k = i THEN w ELSE work[j][k]
  BY DEF Inv, GlobalType, Local, LocalType, Slots, Parts
<1>2. GlobalType'
  BY DEF Inv, GlobalType
<1>3. Backed' /\ OpenNamed'
  BY DEF Inv, Backed, OpenNamed, Target
<1>4. Results(j)' \in 0..Len(Parts(j))
  BY DEF Results
<1>5. LocalType(j)'
  BY <1>1, <1>4 DEF Inv, Local, LocalType, Assembling
<1>6. next[j] # 0
  <2>1. i \in Nat /\ i >= 1
    OBVIOUS
  <2>2. i \in Running(j)
    BY DEF Running
  <2>3. i <= next[j]
    BY <2>2 DEF Inv, Local, Counted
  <2> QED BY <2>1, <2>3
<1>7. Phases(j)'
  BY <1>6 DEF Inv, Local, Phases, Returned, GetsManifest
<1>8. Running(j)' \in SUBSET Running(j)
  BY <1>1 DEF Running
<1>9. Cardinality(Running(j)') <= Pool
  <2>1. Running(j) \in SUBSET (1..Len(Parts(j)))
    BY DEF Running
  <2>2. /\ Cardinality(Running(j)') <= Cardinality(Running(j))
        /\ Cardinality(Running(j)') \in Nat /\ Cardinality(Running(j)) \in Nat
    BY <1>8, <2>1, RunningSize
  <2> QED BY <2>2, PoolAssumption DEF Inv, Local
<1>10. Counted(j)'
  <2>1. Home(j)' = HomeOf(work'[j], next[j], Parts(j), chunks')
    BY <1>1 DEF Home
  <2>2. \A k \in Running(j)' : k <= next'[j]
    BY <1>8 DEF Inv, Local, Counted
  <2> QED BY <2>1, <2>2 DEF Counted
<1>11. \A l \in Job \ {j} : Same(l)
  BY DEF Inv, GlobalType, Same
<1> QED BY <1>2, <1>3, <1>5, <1>7, <1>9, <1>10, <1>11, StepOf DEF Local

\* A worker at work has been dispatched.
LEMMA WorkerTurn ==
  ASSUME Inv, NEW j \in Job, NEW i \in Slots(j), work[j][i] # "none"
  PROVE  i \in 1..next[j] /\ next[j] \in Nat /\ 1..next[j] \subseteq Slots(j)
<1> USE PartsType, Numbers
<1>1. i \in Nat /\ i >= 1 /\ next[j] \in Nat /\ next[j] <= Len(Parts(j))
  BY DEF Inv, Local, LocalType
<1>2. i \in Running(j)
  BY DEF Running
<1>3. i <= next[j]
  BY <1>2 DEF Inv, Local, Counted
<1> QED BY <1>1, <1>3

\* One that goes on sends nothing yet.
LEMMA ProceedsInv ==
  ASSUME Inv, NEW j \in Job, NEW i \in Slots(j), work[j][i] # "none",
         NEW v, NEW w \in {"put", "write"}, Proceeds(j, i, v, w), torn' \subseteq Chunk,
         UNCHANGED <<chunks, manifests, main, gone, next, taken, open, disk>>
  PROVE  Inv'
<1> USE PartsType, Numbers DEF Proceeds
<1>1. work'[j] = [work[j] EXCEPT ![i] = w]
      /\ \A k \in Slots(j) : work'[j][k] = IF k = i THEN w ELSE work[j][k]
  BY DEF Inv, GlobalType, Local, LocalType
<1>2. HomeOf(work'[j], next[j], Parts(j), chunks') = Home(j)
  <2>1. \A k \in 1..next[j] : work'[j][k] = "none" <=> work[j][k] = "none"
    BY <1>1, WorkerTurn
  <2> QED BY <2>1 DEF Home, HomeOf
<1>3. sent'[j]["ok"] + taken[j] <= Cardinality(HomeOf(work'[j], next[j], Parts(j), chunks'))
  BY <1>2 DEF Inv, Local, Counted
<1>4. Results(j)' <= Len(Parts(j))
  BY DEF Inv, Local, LocalType, Results
<1> QED BY <1>3, <1>4, WorkerKeeps DEF Inv, GlobalType

\* A result takes its place in the channel.
LEMMA SentMore ==
  ASSUME GlobalType, NEW j \in Job, NEW r \in {"ok", "err"}, sent' = [sent EXCEPT ![j][r] = @ + 1]
  PROVE  /\ sent' \in [Job -> [{"ok", "err"} -> Nat]]
         /\ \A l \in Job \ {j} : sent'[l] = sent[l]
         /\ Results(j)' = Results(j) + 1
         /\ sent'[j]["ok"] = sent[j]["ok"] + (IF r = "ok" THEN 1 ELSE 0)
<1>1. sent \in [Job -> [{"ok", "err"} -> Nat]]
  BY DEF GlobalType
<1>2. /\ r = "ok" => sent'[j]["ok"] = sent[j]["ok"] + 1 /\ sent'[j]["err"] = sent[j]["err"]
      /\ r = "err" => sent'[j]["ok"] = sent[j]["ok"] /\ sent'[j]["err"] = sent[j]["err"] + 1
  BY <1>1
<1>3. sent[j]["ok"] \in Nat /\ sent[j]["err"] \in Nat
  BY <1>1
<1>4. Results(j)' = Results(j) + 1
  BY <1>2, <1>3 DEF Results
<1>5. sent' \in [Job -> [{"ok", "err"} -> Nat]] /\ \A l \in Job \ {j} : sent'[l] = sent[l]
  BY <1>1
<1> QED BY <1>2, <1>4, <1>5

\* A worker of j that sends its result: a good one is counted with its chunk.
LEMMA ResultInv ==
  ASSUME Inv, NEW j \in Job, NEW i \in Slots(j), work[j][i] # "none",
         NEW r \in {"ok", "err"}, Result(j, i, r),
         chunks \subseteq chunks', chunks' \subseteq Chunk, torn' \subseteq Chunk,
         r = "ok" => Parts(j)[i] \in chunks',
         UNCHANGED <<manifests, main, gone, next, taken, open, disk>>
  PROVE  Inv'
<1> USE PartsType, Numbers DEF Result, CanSend, Capacity
<1> DEFINE H == HomeOf(work'[j], next[j], Parts(j), chunks')
<1>1. work'[j] = [work[j] EXCEPT ![i] = "none"]
      /\ \A k \in Slots(j) : work'[j][k] = IF k = i THEN "none" ELSE work[j][k]
  BY DEF Inv, GlobalType, Local, LocalType
<1>2. /\ sent' \in [Job -> [{"ok", "err"} -> Nat]]
      /\ \A l \in Job \ {j} : sent'[l] = sent[l]
      /\ Results(j)' = Results(j) + 1
      /\ sent'[j]["ok"] = sent[j]["ok"] + (IF r = "ok" THEN 1 ELSE 0)
  BY SentMore DEF Inv
<1>3. Results(j)' <= Len(Parts(j))
  BY <1>2 DEF Inv
<1>4. i \in 1..next[j] /\ next[j] \in Nat /\ work'[j][i] = "none"
      /\ \A k \in 1..next[j] : work[j][k] = "none" => work'[j][k] = "none"
  BY <1>1, WorkerTurn
<1>5. /\ Cardinality(H) \in Nat
      /\ Cardinality(Home(j)) <= Cardinality(H)
      /\ r = "ok" => Cardinality(Home(j)) + 1 <= Cardinality(H)
  <2>1. Cardinality(H) \in Nat
    BY <1>4, HomeSize
  <2>2. next[j] <= next[j]
    BY <1>4
  <2>3. Cardinality(Home(j)) <= Cardinality(H)
    BY <1>4, <2>2, HomeGrows DEF Home
  <2>4. r = "ok" => Cardinality(Home(j)) + 1 <= Cardinality(H)
    BY <1>4, HomeGains DEF Home
  <2> QED BY <2>1, <2>3, <2>4
<1>6. sent[j]["ok"] + taken[j] <= Cardinality(Home(j)) /\ Cardinality(Home(j)) \in Nat
      /\ sent[j]["ok"] \in Nat /\ taken[j] \in Nat
  BY DEF Inv, Local, Counted
<1>7. sent'[j]["ok"] + taken[j] <= Cardinality(H)
  <2> HIDE DEF H
  <2> QED BY <1>2, <1>5, <1>6
<1> QED BY <1>2, <1>3, <1>7, WorkerKeeps

LEMMA WorkerInv ==
  ASSUME Inv, NEW j \in Job, NEW i \in Slots(j), Worker(j, i)
  PROVE  Inv'
<1> USE PartsType DEF index
<1>1. Parts(j)[i] \in Chunk /\ chunks \subseteq Chunk /\ torn \subseteq Chunk
  BY DEF Inv, GlobalType
<1>2. CASE ChunkHeld(j, i)
  BY <1>1, <1>2, ResultInv DEF ChunkHeld
<1>3. CASE ChunkFound(j, i)
  BY <1>1, <1>3, ProceedsInv DEF ChunkFound, Proceeds
<1>4. CASE ChunkTruncated(j, i)
  <2>1. torn' \subseteq Chunk
    BY <1>1, <1>4 DEF ChunkTruncated, Truncates
  <2> QED BY <1>4, <2>1, ProceedsInv DEF ChunkTruncated, Proceeds, Truncates
<1>5. CASE ChunkStored(j, i)
  <2>1. chunks' \subseteq Chunk /\ chunks \subseteq chunks' /\ Parts(j)[i] \in chunks'
        /\ torn' \subseteq Chunk /\ UNCHANGED manifests
    BY <1>1, <1>5 DEF ChunkStored, Stores
  <2> QED BY <1>5, <2>1, ResultInv DEF ChunkStored
<1>6. CASE ChunkFails(j, i)
  BY <1>1, <1>6, ResultInv DEF ChunkFails
<1> QED BY <1>2, <1>3, <1>4, <1>5, <1>6 DEF Worker

-----------------------------------------------------------------------------
(* Collecting and assembling *)

LEMMA TakeOkInv ==
  ASSUME Inv, NEW j \in Job, TakeOk(j)
  PROVE  Inv'
<1> USE PartsType, Numbers DEF TakeOk, Takes, index, open, disk
<1>1. /\ sent'[j]["ok"] = sent[j]["ok"] - 1 /\ sent'[j]["err"] = sent[j]["err"]
      /\ taken'[j] = taken[j] + 1
      /\ sent[j]["ok"] \in Nat /\ sent[j]["err"] \in Nat /\ taken[j] \in Nat
  BY DEF Inv, GlobalType
<1>2. GlobalType'
  <2>1. sent' \in [Job -> [{"ok", "err"} -> Nat]]
    BY DEF Inv, GlobalType
  <2>2. {next, taken, pos, off}' \subseteq [Job -> Nat]
    <3>1. taken \in [Job -> Nat] /\ taken' \in [Job -> Nat]
      BY <1>1 DEF Inv, GlobalType
    <3> QED BY <3>1 DEF Inv, GlobalType
  <2> QED BY <2>1, <2>2 DEF Inv, GlobalType
<1>3. Backed' /\ OpenNamed'
  BY DEF Inv, Backed, OpenNamed, Target
<1>4. Running(j)' = Running(j) /\ Home(j)' = Home(j)
  BY DEF Running, Home, HomeOf, Slots, Parts
<1>5. sent[j]["ok"] + taken[j] <= Len(Parts(j))
  BY DEF Inv, Local, Counted, LocalType
<1>6. LocalType(j)' /\ Phases(j)'
  <2>1. LocalType(j) /\ Phases(j) /\ main[j] = "collect"
    BY DEF Inv, Local
  <2>2. /\ {next[j], taken[j] + 1, pos[j], off[j]} \subseteq 0..Len(Parts(j))
        /\ Results(j)' \in 0..Len(Parts(j))
    <3>1. /\ next[j] \in 0..Len(Parts(j)) /\ pos[j] \in 0..Len(Parts(j))
          /\ off[j] \in 0..Len(Parts(j))
          /\ sent[j]["ok"] + sent[j]["err"] <= Len(Parts(j)) /\ sent[j]["ok"] > 0
          /\ Len(Parts(j)) \in Nat
      BY <2>1 DEF LocalType, Results
    <3>2. /\ taken[j] + 1 \in 0..Len(Parts(j))
          /\ sent[j]["ok"] - 1 + sent[j]["err"] \in 0..Len(Parts(j))
      BY <1>1, <1>5, <3>1
    <3> QED BY <1>1, <3>1, <3>2 DEF Results
  <2>3. {next, taken, pos, off}' \subseteq [Job -> Nat] /\ UNCHANGED <<work, fd, main, next, pos, off>>
    BY <1>2 DEF GlobalType
  <2>4. {next'[j], taken'[j], pos'[j], off'[j], Results(j)'} \subseteq 0..Len(Parts(j))
    BY <1>1, <2>2, <2>3
  <2>5. LocalType(j)'
    BY <2>1, <2>3, <2>4 DEF LocalType, Slots, Parts, Assembling
  <2> QED BY <2>1, <2>5 DEF Phases, Returned, GetsManifest
<1>7. Counted(j)' /\ Cardinality(Running(j)') <= Pool
  BY <1>1, <1>4 DEF Inv, Local, Counted
<1>8. \A l \in Job \ {j} : Same(l)
  BY DEF Inv, GlobalType, Same
<1> QED BY <1>2, <1>3, <1>6, <1>7, <1>8, StepOf DEF Local

LEMMA AddManifestInv ==
  ASSUME Inv, NEW j \in Job, AddManifest(j)
  PROVE  Inv'
<1> USE PartsType, Numbers DEF AddManifest, Goto, open, disk
<1>1. CASE FileOf[j] \in manifests \/ Blocks(j) \subseteq chunks
  <2> USE <1>1 DEF pool
  <2>1. GlobalType'
    <3>1. main' = [main EXCEPT ![j] = "create"] /\ manifests' = manifests \cup {FileOf[j]}
      OBVIOUS
    <3>2. main' \in [Job -> Place]
      BY <3>1 DEF Inv, GlobalType, Place
    <3>3. manifests' \subseteq FileId
      BY <3>1 DEF Inv, GlobalType
    <3> QED BY <3>2, <3>3 DEF Inv, GlobalType
  <2>2. Backed' /\ OpenNamed'
    BY DEF Inv, Backed, OpenNamed, Target, Blocks, Parts, Slots
  <2>3. main'[j] = "create" /\ FileOf[j] \in manifests'
    BY DEF Inv, GlobalType
  <2>4. LocalType(j)' /\ Phases(j)'
    <3>1. LocalType(j)'
      <4>1. LocalType(j) /\ main[j] = "collect" /\ UNCHANGED <<work, next, taken, pos, off, sent, fd>>
        BY DEF Inv, Local
      <4> QED BY <2>3, <4>1 DEF LocalType, Results, Slots, Parts, Assembling
    <3>2. Phases(j)'
      BY <2>3 DEF Phases, Returned, GetsManifest
    <3> QED BY <3>1, <3>2
  <2>5. Counted(j)' /\ Cardinality(Running(j)') <= Pool
    BY CountsKept
  <2>6. \A l \in Job \ {j} : Same(l)
    BY DEF Inv, GlobalType, Same
  <2> QED BY <2>1, <2>2, <2>4, <2>5, <2>6, StepOf DEF Local
<1>2. CASE ~ (FileOf[j] \in manifests \/ Blocks(j) \subseteq chunks)
  BY <1>2, ReturnInv DEF index
<1> QED BY <1>1, <1>2

LEMMA CreateTempInv ==
  ASSUME Inv, NEW j \in Job, CreateTemp(j)
  PROVE  Inv'
<1> USE PartsType, Numbers DEF CreateTemp, Goto, index, pool
<1>1. GlobalType'
  <2>1. << >> \in Seq(Chunk \cup {Zero})
    OBVIOUS
  <2>2. temp' \in [Path -> {None} \cup Seq(Chunk \cup {Zero})]
    BY <2>1 DEF Inv, GlobalType
  <2>3. loose' \in [Path -> BOOLEAN]
    BY DEF Inv, GlobalType
  <2> QED BY <2>2, <2>3 DEF Inv, GlobalType, Place
<1>2. Backed'
  BY DEF Inv, Backed
<1>3. OpenNamed'
  <2>1. << >> # None
    <3>1. << >> \in Seq(Chunk \cup {Zero})
      OBVIOUS
    <3> QED BY <3>1, NoneAssumption
  <2> QED BY <2>1 DEF Inv, GlobalType, OpenNamed, Target
<1>4. main'[j] = "resize" /\ fd'[j] = "temp" /\ main[j] = "create"
  BY DEF Inv, GlobalType
<1>5. LocalType(j)' /\ Phases(j)'
  BY <1>4 DEF Inv, Local, LocalType, Results, Phases, Returned, GetsManifest, Slots, Parts, Assembling
<1>6. Counted(j)' /\ Cardinality(Running(j)') <= Pool
  BY CountsKept
<1>7. \A l \in Job \ {j} : Same(l)
  BY DEF Inv, GlobalType, Same
<1> QED BY <1>1, <1>2, <1>3, <1>5, <1>6, <1>7, StepOf DEF Local

\* Changing the open file keeps contents contents, and files there.
LEMMA ChangeKeeps ==
  ASSUME Inv, NEW j \in Job, NEW s \in Seq(Chunk \cup {Zero}), Change(j, s), UNCHANGED fd
  PROVE  {temp, final}' \subseteq [Path -> {None} \cup Seq(Chunk \cup {Zero})] /\ OpenNamed'
<1> USE PartsType DEF Change
<1>1. s # None
  BY NoneAssumption
<1>2. temp \in [Path -> {None} \cup Seq(Chunk \cup {Zero})] /\ final \in [Path -> {None} \cup Seq(Chunk \cup {Zero})]
  BY DEF Inv, GlobalType
<1>3. temp' \in [Path -> {None} \cup Seq(Chunk \cup {Zero})] /\ final' \in [Path -> {None} \cup Seq(Chunk \cup {Zero})]
  BY <1>2
<1>4. OpenNamed'
  <2>1. \A p \in Path : (temp[p] # None => temp'[p] # None) /\ (final[p] # None => final'[p] # None)
    BY <1>1, <1>2
  <2> QED BY <2>1 DEF Inv, OpenNamed, Target
<1> QED BY <1>3, <1>4

\* An open file has a content.
LEMMA OpenType ==
  ASSUME Inv, NEW j \in Job
  PROVE  Opened(j) \in Seq(Chunk \cup {Zero})
<1>1. << >> \in Seq(Chunk \cup {Zero})
  OBVIOUS
<1> QED BY <1>1, PartsType DEF Inv, GlobalType, OpenNamed, Opened

LEMMA ResizeInv ==
  ASSUME Inv, NEW j \in Job, Resize(j)
  PROVE  Inv'
<1> USE PartsType, Numbers DEF Resize, Goto, index, pool, open
<1>1. Resized(Opened(j), Len(Parts(j))) \in Seq(Chunk \cup {Zero})
  BY OpenType, ResizedType
<1>2. {temp, final}' \subseteq [Path -> {None} \cup Seq(Chunk \cup {Zero})] /\ OpenNamed'
  BY <1>1, ChangeKeeps
<1>3. GlobalType' /\ Backed'
  BY <1>2 DEF Inv, GlobalType, Backed, Place
<1>4. main'[j] = "write" /\ fd'[j] = fd[j] /\ main[j] = "resize"
  BY DEF Inv, GlobalType
<1>5. LocalType(j)' /\ Phases(j)'
  BY <1>4 DEF Inv, Local, LocalType, Results, Phases, Returned, GetsManifest, Slots, Parts, Assembling
<1>6. Counted(j)' /\ Cardinality(Running(j)') <= Pool
  BY CountsKept
<1>7. \A l \in Job \ {j} : Same(l)
  BY DEF Inv, GlobalType, Same
<1> QED BY <1>2, <1>3, <1>5, <1>6, <1>7, StepOf DEF Local

\* A chunk has been read.
LEMMA ReadsInv ==
  ASSUME Inv, NEW j \in Job, Reads(j),
         {temp, final}' \subseteq [Path -> {None} \cup Seq(Chunk \cup {Zero})], OpenNamed',
         loose' \in [Path -> BOOLEAN],
         off' = off \/ off' = [off EXCEPT ![j] = @ + 1],
         UNCHANGED <<index, main, gone, pool, fd>>
  PROVE  Inv'
<1>0. pos' \in [Job -> Nat] /\ off' \in [Job -> Nat]
  <2>1. pos \in [Job -> Nat] /\ off \in [Job -> Nat]
    BY DEF Inv, GlobalType
  <2>2. CASE off' = [off EXCEPT ![j] = @ + 1]
    BY <2>1, <2>2 DEF Reads
  <2> QED BY <2>1, <2>2 DEF Reads
<1> USE PartsType, Numbers DEF Reads, index, pool
<1>1. pos'[j] = pos[j] + 1 /\ pos[j] \in Nat /\ pos[j] + 1 \in 0..Len(Parts(j))
      /\ off[j] \in Nat /\ off[j] <= pos[j] /\ off'[j] \in {off[j], off[j] + 1}
  BY DEF Inv, GlobalType, Local, LocalType
<1>2. GlobalType'
  BY <1>0 DEF Inv, GlobalType
<1>3. Backed'
  BY DEF Inv, Backed
<1>4. LocalType(j)'
  <2>1. off'[j] \in 0..Len(Parts(j)) /\ off'[j] <= pos'[j] /\ pos'[j] \in 0..Len(Parts(j))
    BY <1>1
  <2> QED BY <2>1 DEF Inv, Local, LocalType, Results, Slots, Parts, Assembling
<1>5. Phases(j)'
  BY DEF Inv, Local, Phases, Returned, GetsManifest
<1>6. Counted(j)' /\ Cardinality(Running(j)') <= Pool
  BY CountsKept
<1>7. \A l \in Job \ {j} : Same(l)
  BY DEF Inv, GlobalType, Same
<1> QED BY <1>2, <1>3, <1>4, <1>5, <1>6, <1>7, StepOf DEF Local

LEMMA WriteChunkInv ==
  ASSUME Inv, NEW j \in Job, WriteChunk(j)
  PROVE  Inv'
<1> USE PartsType, Numbers DEF WriteChunk
<1>1. pos[j] + 1 \in Slots(j) /\ Offset(j) \in Nat \ {0}
  BY DEF Inv, Reads, Offset
<1>2. Put(Opened(j), Offset(j), Parts(j)[pos[j] + 1]) \in Seq(Chunk \cup {Zero})
  <2>1. Parts(j)[pos[j] + 1] \in Chunk \cup {Zero}
    BY <1>1
  <2> QED BY <1>1, <2>1, OpenType, PutType
<1>3. {temp, final}' \subseteq [Path -> {None} \cup Seq(Chunk \cup {Zero})] /\ OpenNamed'
  BY <1>2, ChangeKeeps
<1>4. loose' \in [Path -> BOOLEAN]
  BY DEF Inv, GlobalType
<1> QED BY <1>3, <1>4, ReadsInv

LEMMA ReadTornInv ==
  ASSUME Inv, NEW j \in Job, ReadTorn(j)
  PROVE  Inv'
<1> USE PartsType DEF ReadTorn
<1>1. {temp, final}' \subseteq [Path -> {None} \cup Seq(Chunk \cup {Zero})] /\ loose' \in [Path -> BOOLEAN]
  BY DEF Inv, GlobalType
<1>2. OpenNamed'
  BY DEF Inv, OpenNamed, Target
<1> QED BY <1>1, <1>2, ReadsInv

\* The renamed file is there under its new name, and those that have it open
\* know it by that name.
LEMMA RenameInv ==
  ASSUME Inv, NEW j \in Job, Rename(j)
  PROVE  Inv'
<1> USE PartsType, Numbers DEF Rename, Leave, Goto, index
<1>1. {temp, final}' \subseteq [Path -> {None} \cup Seq(Chunk \cup {Zero})]
  <2>1. temp \in [Path -> {None} \cup Seq(Chunk \cup {Zero})] /\ final \in [Path -> {None} \cup Seq(Chunk \cup {Zero})]
    BY DEF Inv, GlobalType
  <2> QED BY <2>1
<1>2. fd' \in [Job -> {"none", "temp", "final", "nameless"}]
      /\ fd'[j] = "none" /\ \A l \in Job \ {j} : fd'[l] = "none" <=> fd[l] = "none"
  BY DEF Inv, GlobalType
<1>3. GlobalType'
  <2>1. {next, taken, pos, off}' \subseteq [Job -> Nat]
    <3>1. taken' \in [Job -> Nat] /\ pos' \in [Job -> Nat] /\ off' \in [Job -> Nat]
      BY DEF Inv, GlobalType
    <3> QED BY <3>1 DEF Inv, GlobalType
  <2>2. main' \in [Job -> Place] /\ gone' \in [Job -> BOOLEAN]
    BY DEF Inv, GlobalType, Place
  <2> QED BY <1>1, <1>2, <2>1, <2>2 DEF Inv, GlobalType
<1>4. Backed'
  BY DEF Inv, Backed
<1>5. OpenNamed'
  <2> SUFFICES ASSUME NEW l \in Job
               PROVE  /\ fd'[l] = "temp" => temp'[Target(l)] # None
                      /\ fd'[l] = "final" => final'[Target(l)] # None
    BY DEF OpenNamed, Target
  <2>1. CASE Target(l) = Target(j)
    BY <2>1 DEF Inv, GlobalType
  <2>2. CASE Target(l) # Target(j)
    BY <2>2 DEF Inv, GlobalType, OpenNamed
  <2> QED BY <2>1, <2>2
<1>6. main'[j] = "idle" /\ taken'[j] = 0 /\ pos'[j] = 0 /\ off'[j] = 0
  BY DEF Inv, GlobalType
<1>7. LocalType(j)' /\ Phases(j)'
  <2>1. LocalType(j)'
    BY <1>2, <1>6 DEF Inv, Local, LocalType, Results, Assembling, Slots, Parts
  <2> QED BY <1>6, <2>1 DEF Phases, Returned, GetsManifest
<1>8. Running(j)' = Running(j) /\ Home(j)' = Home(j)
  BY DEF Running, Home, HomeOf, Slots, Parts
<1>9. Counted(j)' /\ Cardinality(Running(j)') <= Pool
  <2>1. sent'[j]["ok"] + taken'[j] <= sent[j]["ok"] + taken[j]
    BY <1>6 DEF Inv
  <2>2. sent'[j]["ok"] + taken'[j] \in Nat /\ sent[j]["ok"] + taken[j] \in Nat /\ Cardinality(Home(j)) \in Nat
    BY <1>6 DEF Inv
  <2> QED BY <1>8, <2>1, <2>2 DEF Inv, Local, Counted
<1>10. \A l \in Job \ {j} : Same(l)
  BY <1>2 DEF Inv, GlobalType, Same
<1> QED BY <1>3, <1>4, <1>5, <1>7, <1>9, <1>10, StepOf DEF Local

-----------------------------------------------------------------------------
(* The theorems *)

LEMMA NextInv == Inv /\ [Next]_vars => Inv'
<1> SUFFICES ASSUME Inv, [Next]_vars PROVE Inv'
  OBVIOUS
<1>1. CASE UNCHANGED vars
  <2> USE <1>1 DEF vars, index, pool, open, disk
  <2>1. GlobalType' /\ Backed' /\ OpenNamed'
    BY DEF Inv, GlobalType, Backed, OpenNamed, Target
  <2>2. ASSUME NEW l \in Job PROVE Local(l)'
    <3>1. Same(l)
      BY DEF Same
    <3> QED BY <3>1, LocalSame DEF Inv
  <2> QED BY <2>1, <2>2 DEF Inv
<1>2. CASE Next
  <2> SUFFICES ASSUME NEW j \in Job, Start(j) \/ GiveUp(j) \/ Step(j) PROVE Inv'
    BY <1>2 DEF Next
  <2>1. CASE Start(j) \/ GiveUp(j)
    BY <2>1, StartInv, GiveUpInv
  <2>2. CASE Dispatcher(j)
    BY <2>2, DispatchInv, DispatchStopsInv DEF Dispatcher
  <2>3. CASE \E i \in Slots(j) : Worker(j, i)
    BY <2>3, WorkerInv
  <2>4. CASE Main(j)
    <3>1. CASE ManifestHeld(j) \/ ManifestFound(j) \/ ManifestTruncated(j) \/ ManifestStored(j)
      BY <3>1, ManifestStepInv
    <3>2. CASE AddManifest(j) \/ TakeOk(j)
      BY <3>2, AddManifestInv, TakeOkInv
    <3>3. CASE ManifestFails(j) \/ TakeErr(j) \/ TakeCancel(j) \/ RenameFails(j) \/ FileFails(j)
      BY <3>3, ReturnInv DEF ManifestFails, TakeErr, Takes, TakeCancel, RenameFails, FileFails, LeaveFiles
    <3>4. CASE CreateTemp(j) \/ Resize(j) \/ WriteChunk(j) \/ ReadTorn(j) \/ Rename(j)
      BY <3>4, CreateTempInv, ResizeInv, WriteChunkInv, ReadTornInv, RenameInv
    <3> QED BY <2>4, <3>1, <3>2, <3>3, <3>4 DEF Main
  <2> QED BY <2>1, <2>2, <2>3, <2>4 DEF Step
<1> QED BY <1>1, <1>2

\* The inductive invariant holds for ever.
LEMMA Invariance == Spec => []Inv
BY InitInv, NextInv, PTL DEF Spec

\* Every variable has its type; in particular the results of a call fit into
\* the channel (node.go:187).
THEOREM TypeCorrect == Spec => []TypeOK
<1>1. Inv => TypeOK
  BY DEF Inv, GlobalType, Local, LocalType, TypeOK, Place
<1> QED BY <1>1, Invariance, PTL

\* A download keeps to its number of parallel fetches, whatever fails and
\* whoever gives up (node.go:186-199).
THEOREM PoolBoundHolds == Spec => []PoolBound
<1>1. Inv => PoolBound
  BY DEF Inv, Local, PoolBound
<1> QED BY <1>1, Invariance, PTL

\* When a call has received a good result for each chunk, the store has all
\* blocks of its file, and AddManifest does not refuse it (node.go:209-225).
THEOREM GatheredHolds == Spec => []Gathered
<1>1. Inv => Gathered
  <2> SUFFICES ASSUME Inv, NEW j \in Job, ~ Returned(j), ~ GetsManifest(j), AllTaken(j)
               PROVE  Blocks(j) \subseteq chunks
    BY DEF Gathered
  <2> USE PartsType
  <2>1. FileOf[j] \in manifests \/ FileOf[j] \in chunks
    BY DEF Inv, Local, Phases, Returned
  <2>2. CASE FileOf[j] \in manifests
    BY <2>2 DEF Inv, Backed, Blocks, Parts, Slots
  <2>3. CASE FileOf[j] \in chunks
    <3>1. /\ next[j] \in Nat /\ next[j] <= Len(Parts(j)) /\ Cardinality(Home(j)) \in Nat
          /\ Cardinality(Home(j)) <= next[j] /\ sent[j]["ok"] \in Nat /\ taken[j] = Len(Parts(j))
          /\ sent[j]["ok"] + taken[j] <= Cardinality(Home(j))
      BY Numbers DEF Inv, Local, LocalType, Counted, AllTaken
    <3>2. Cardinality(Home(j)) = next[j] /\ next[j] = Len(Parts(j))
      BY <3>1
    <3>3. Home(j) = 1..Len(Parts(j))
      BY <3>1, <3>2, HomeSize DEF Home
    <3>4. \A i \in Slots(j) : Parts(j)[i] \in chunks
      BY <3>3 DEF Home, HomeOf
    <3> QED BY <2>3, <3>4 DEF Blocks
  <2> QED BY <2>1, <2>2, <2>3
<1> QED BY <1>1, Invariance, PTL

-----------------------------------------------------------------------------
(* What is saved is whole *)

\* The file of j has no byte yet, or its first pos[j] pieces.
Written(j) ==
  /\ main[j] # "write" => pos[j] = 0
  /\ main[j] = "write" /\ ~ loose[Target(j)] =>
       /\ off[j] = pos[j]
       /\ DOMAIN temp[Target(j)] = Slots(j)
       /\ \A i \in 1..pos[j] : temp[Target(j)][i] = Parts(j)[i]

\* Where nothing has gone wrong, at most one call assembles, and under the
\* temporary name.
Alone(j) ==
  Assembling(j) /\ ~ loose[Target(j)] =>
    /\ fd[j] = "temp"
    /\ \A l \in Job : Assembling(l) /\ Target(l) = Target(j) => l = j

Whole ==
  /\ \A j \in Job : Written(j) /\ Alone(j)
  /\ SavedWhole

LEMMA InitWhole == Init => Whole
BY PartsType DEF Init, Whole, Written, Alone, Assembling, SavedWhole

\* Calls that do not assemble, or stop, leave all files as they are.
LEMMA AwayWhole ==
  ASSUME Inv, Whole, NEW j \in Job, UNCHANGED disk,
         main'[j] \notin {"resize", "write"}, pos'[j] = 0,
         \A l \in Job \ {j} :
           main'[l] = main[l] /\ pos'[l] = pos[l] /\ off'[l] = off[l] /\ fd'[l] = fd[l]
  PROVE  Whole'
<1> USE DEF disk
<1>1. SavedWhole'
  BY DEF Whole, SavedWhole
<1>2. ASSUME NEW l \in Job PROVE Written(l)' /\ Alone(l)'
  <2>1. CASE l = j
    BY <2>1 DEF Written, Alone, Assembling
  <2>2. CASE l # j
    <3>1. Written(l)'
      BY <2>2 DEF Whole, Written, Target, Slots, Parts
    <3>2. Alone(l)'
      BY <2>2 DEF Whole, Alone, Assembling, Target
    <3> QED BY <3>1, <3>2
  <2> QED BY <2>1, <2>2
<1> QED BY <1>1, <1>2 DEF Whole

LEMMA SameWhole ==
  ASSUME Inv, Whole, UNCHANGED <<main, open, disk>>
  PROVE  Whole'
BY DEF Whole, Written, Alone, SavedWhole, Assembling, Target, Slots, Parts, open, disk

\* A file is created where nobody assembles, or the overlap is noted.
LEMMA CreateTempWhole ==
  ASSUME Inv, Whole, NEW j \in Job, CreateTemp(j)
  PROVE  Whole'
<1> USE PartsType DEF CreateTemp, Goto
<1>1. /\ main'[j] = "resize" /\ fd'[j] = "temp" /\ pos' = pos /\ off' = off /\ main[j] = "create"
      /\ \A l \in Job \ {j} : main'[l] = main[l] /\ fd'[l] = fd[l]
  BY DEF Inv, GlobalType
<1>2. /\ \A p \in Path : loose[p] => loose'[p]
      /\ \A p \in Path \ {Target(j)} : loose'[p] = loose[p] /\ temp'[p] = temp[p]
      /\ ~ loose'[Target(j)] => \A l \in Job \ {j} : Target(l) = Target(j) => ~ Assembling(l)
  BY DEF Inv, GlobalType
<1>3. SavedWhole'
  BY <1>2 DEF Whole, SavedWhole
<1>4. ASSUME NEW l \in Job PROVE Written(l)' /\ Alone(l)'
  <2>1. CASE l = j
    <3>1. Written(l)'
      BY <1>1, <2>1 DEF Whole, Written
    <3>2. Alone(l)'
      BY <1>1, <1>2, <2>1 DEF Alone, Assembling, Target
    <3> QED BY <3>1, <3>2
  <2>2. CASE l # j /\ Target(l) = Target(j)
    <3>1. Written(l)'
      BY <1>1, <1>2, <2>2 DEF Whole, Written, Assembling, Target, Slots, Parts
    <3>2. Alone(l)'
      BY <1>1, <1>2, <2>2 DEF Alone, Assembling, Target
    <3> QED BY <3>1, <3>2
  <2>3. CASE l # j /\ Target(l) # Target(j)
    <3>1. Written(l)'
      BY <1>1, <1>2, <2>3 DEF Whole, Written, Target, Slots, Parts
    <3>2. Alone(l)'
      BY <1>1, <1>2, <2>3 DEF Whole, Alone, Assembling, Target
    <3> QED BY <3>1, <3>2
  <2> QED BY <2>1, <2>2, <2>3
<1> QED BY <1>3, <1>4 DEF Whole

\* A change of the open file of j concerns only the file it assembles.
LEMMA ChangeWhole ==
  ASSUME Inv, Whole, NEW j \in Job, Assembling(j), NEW s, Change(j, s),
         main'[j] = "write", UNCHANGED <<fd, loose>>,
         off'[j] = pos'[j], DOMAIN s = Slots(j), \A i \in 1..pos'[j] : s[i] = Parts(j)[i],
         \A l \in Job \ {j} : main'[l] = main[l] /\ pos'[l] = pos[l] /\ off'[l] = off[l]
  PROVE  Whole'
<1> USE PartsType DEF Change
<1>1. /\ \A p \in Path \ {Target(j)} : temp'[p] = temp[p] /\ final'[p] = final[p]
      /\ ~ loose[Target(j)] => temp'[Target(j)] = s /\ final'[Target(j)] = final[Target(j)]
  BY DEF Inv, GlobalType, Whole, Alone
<1>2. SavedWhole'
  BY <1>1 DEF Whole, SavedWhole
<1>3. ASSUME NEW l \in Job PROVE Alone(l)'
  BY DEF Whole, Alone, Assembling, Target
<1>4. ASSUME NEW l \in Job PROVE Written(l)'
  <2>1. CASE l = j
    BY <1>1, <2>1 DEF Written, Target, Slots, Parts
  <2>2. CASE l # j /\ Target(l) = Target(j)
    BY <1>1, <2>2 DEF Whole, Written, Alone, Assembling, Target, Slots, Parts
  <2>3. CASE l # j /\ Target(l) # Target(j)
    BY <1>1, <2>3 DEF Whole, Written, Target, Slots, Parts
  <2> QED BY <2>1, <2>2, <2>3
<1> QED BY <1>2, <1>3, <1>4 DEF Whole

LEMMA ResizeWhole ==
  ASSUME Inv, Whole, NEW j \in Job, Resize(j)
  PROVE  Whole'
<1> USE PartsType, Numbers DEF Resize, Goto, open
<1> DEFINE s == Resized(Opened(j), Len(Parts(j)))
<1>1. /\ Assembling(j) /\ main'[j] = "write" /\ pos'[j] = 0 /\ off'[j] = 0
      /\ \A l \in Job \ {j} : main'[l] = main[l] /\ pos'[l] = pos[l] /\ off'[l] = off[l]
  BY DEF Inv, GlobalType, Local, LocalType, Whole, Written, Assembling
<1>2. DOMAIN s = Slots(j)
  BY DEF Resized
<1>3. \A i \in 1..pos'[j] : s[i] = Parts(j)[i]
  BY <1>1
<1> HIDE DEF s
<1>4. Change(j, s)
  BY DEF s
<1> QED BY <1>1, <1>2, <1>3, <1>4, ChangeWhole

\* Where files are loose, nothing is said of what is read and written.
LEMMA LooseWhole ==
  ASSUME Inv, Whole, NEW j \in Job, Reads(j), loose'[Target(j)],
         \A p \in Path \ {Target(j)} : temp'[p] = temp[p] /\ final'[p] = final[p] /\ loose'[p] = loose[p],
         \A l \in Job \ {j} : off'[l] = off[l],
         UNCHANGED <<main, fd>>
  PROVE  Whole'
<1> USE PartsType DEF Reads
<1>1. main[j] = "write" /\ \A l \in Job \ {j} : pos'[l] = pos[l]
  BY DEF Inv, GlobalType
<1>2. SavedWhole'
  BY DEF Whole, SavedWhole
<1>3. \A l \in Job : Alone(l)'
  BY DEF Whole, Alone, Assembling, Target
<1>4. ASSUME NEW l \in Job PROVE Written(l)'
  <2>1. CASE Target(l) = Target(j)
    BY <1>1, <2>1 DEF Whole, Written, Target
  <2>2. CASE Target(l) # Target(j)
    BY <1>1, <2>2 DEF Whole, Written, Target, Slots, Parts
  <2> QED BY <2>1, <2>2
<1> QED BY <1>2, <1>3, <1>4 DEF Whole

LEMMA ReadTornWhole ==
  ASSUME Inv, Whole, NEW j \in Job, ReadTorn(j)
  PROVE  Whole'
<1>1. /\ loose'[Target(j)]
      /\ \A p \in Path \ {Target(j)} : temp'[p] = temp[p] /\ final'[p] = final[p] /\ loose'[p] = loose[p]
  BY PartsType DEF ReadTorn, Inv, GlobalType
<1> QED BY <1>1, LooseWhole DEF ReadTorn

\* The next piece goes behind those that are written.
LEMMA WriteChunkWhole ==
  ASSUME Inv, Whole, NEW j \in Job, WriteChunk(j)
  PROVE  Whole'
<1> USE PartsType, Numbers DEF WriteChunk
<1> DEFINE s == Put(Opened(j), Offset(j), Parts(j)[pos[j] + 1])
<1>1. /\ Assembling(j) /\ main' = main /\ pos[j] \in Nat /\ pos'[j] = pos[j] + 1
      /\ pos'[j] \in Slots(j) /\ off[j] \in Nat /\ off'[j] = off[j] + 1
      /\ \A l \in Job \ {j} : pos'[l] = pos[l] /\ off'[l] = off[l]
  BY DEF Inv, GlobalType, Assembling, Reads
<1>2. CASE loose[Target(j)]
  <2>1. \A p \in Path \ {Target(j)} : temp'[p] = temp[p] /\ final'[p] = final[p]
    BY DEF Change, Inv, GlobalType
  <2> QED BY <1>1, <1>2, <2>1, LooseWhole
<1>3. CASE ~ loose[Target(j)]
  <2>0. main[j] = "write"
    BY DEF Reads
  <2>1. /\ Opened(j) = temp[Target(j)] /\ Opened(j) \in Seq(Chunk \cup {Zero})
        /\ off[j] = pos[j]
        /\ DOMAIN Opened(j) = Slots(j)
        /\ \A i \in 1..pos[j] : Opened(j)[i] = Parts(j)[i]
    BY <1>1, <1>3, <2>0, OpenType DEF Whole, Alone, Written, Opened
  <2>2. Len(Opened(j)) = Len(Parts(j))
    BY <2>1
  <2>3. DOMAIN s = Slots(j)
    BY <1>1, <2>1, <2>2 DEF Put, Offset
  <2>4. \A i \in 1..pos'[j] : s[i] = Parts(j)[i]
    <3> SUFFICES ASSUME NEW i \in 1..pos'[j] PROVE s[i] = Parts(j)[i]
      OBVIOUS
    <3>1. i \in Slots(j) /\ s[i] = IF i = pos[j] + 1 THEN Parts(j)[pos[j] + 1] ELSE Opened(j)[i]
      BY <1>1, <2>1, <2>2 DEF Put, Offset
    <3> QED BY <1>1, <2>1, <3>1
  <2> HIDE DEF s
  <2>5. Change(j, s)
    BY DEF s
  <2> QED BY <1>1, <2>0, <2>1, <2>3, <2>4, <2>5, ChangeWhole
<1> QED BY <1>2, <1>3

\* What is renamed has all its pieces.
LEMMA TempWhole ==
  ASSUME Inv, Whole, NEW j \in Job, Rename(j), ~ loose[Target(j)]
  PROVE  temp[Target(j)] = Parts(j)
<1> USE PartsType DEF Rename
<1>1. /\ DOMAIN temp[Target(j)] = Slots(j)
      /\ \A i \in Slots(j) : temp[Target(j)][i] = Parts(j)[i]
  BY DEF Whole, Written
<1>2. temp[Target(j)] \in Seq(Chunk \cup {Zero})
  BY DEF Inv, GlobalType
<1> QED BY <1>1, <1>2

\* It replaces only what stands under the name of the file.
LEMMA RenameWhole ==
  ASSUME Inv, Whole, NEW j \in Job, Rename(j)
  PROVE  Whole'
<1> USE PartsType DEF Rename, Leave, Goto
<1>1. /\ main'[j] = "idle" /\ pos'[j] = 0 /\ loose' = loose
      /\ \A l \in Job \ {j} : main'[l] = main[l] /\ pos'[l] = pos[l] /\ off'[l] = off[l]
      /\ \A l \in Job \ {j} : Target(l) # Target(j) => fd'[l] = fd[l]
      /\ \A p \in Path \ {Target(j)} : temp'[p] = temp[p] /\ final'[p] = final[p]
      /\ final'[Target(j)] = temp[Target(j)]
  BY DEF Inv, GlobalType
<1>2. SavedWhole'
  <2> SUFFICES ASSUME NEW p \in Path, final'[p] # None, ~ loose[p]
               PROVE  \E f \in FileId : PathOf[f] = p /\ final'[p] = Content[f]
    BY <1>1 DEF SavedWhole
  <2>1. CASE p # Target(j)
    BY <1>1, <2>1 DEF Whole, SavedWhole
  <2>2. CASE p = Target(j)
    <3>1. temp[p] = Parts(j)
      BY <2>2, TempWhole
    <3> QED BY <1>1, <2>2, <3>1 DEF Parts, Target
  <2> QED BY <2>1, <2>2
<1>3. ASSUME NEW l \in Job PROVE Written(l)' /\ Alone(l)'
  <2>1. CASE l = j
    BY <1>1, <2>1 DEF Written, Alone, Assembling
  <2>2. CASE l # j /\ Target(l) = Target(j) /\ ~ loose[Target(j)]
    <3>1. ~ Assembling(l)
      BY <2>2 DEF Whole, Alone, Assembling
    <3> QED BY <1>1, <2>2, <3>1 DEF Whole, Written, Alone, Assembling
  <2>3. CASE l # j /\ Target(l) = Target(j) /\ loose[Target(j)]
    BY <1>1, <2>3 DEF Whole, Written, Alone, Target
  <2>4. CASE l # j /\ Target(l) # Target(j)
    <3>1. Written(l)'
      BY <1>1, <2>4 DEF Whole, Written, Target, Slots, Parts
    <3>2. Alone(l)'
      BY <1>1, <2>4 DEF Whole, Alone, Assembling, Target
    <3> QED BY <3>1, <3>2
  <2> QED BY <2>1, <2>2, <2>3, <2>4
<1> QED BY <1>2, <1>3 DEF Whole

LEMMA ReturnWhole ==
  ASSUME Inv, Whole, NEW j \in Job, Return(j), UNCHANGED disk
  PROVE  Whole'
<1>1. /\ main'[j] = "idle" /\ pos'[j] = 0
      /\ \A l \in Job \ {j} :
           main'[l] = main[l] /\ pos'[l] = pos[l] /\ off'[l] = off[l] /\ fd'[l] = fd[l]
  BY DEF Inv, GlobalType, Return, Leave, Goto
<1> QED BY <1>1, AwayWhole

LEMMA NextWhole == Inv /\ Whole /\ [Next]_vars => Whole'
<1> SUFFICES ASSUME Inv, Whole, [Next]_vars PROVE Whole'
  OBVIOUS
<1>1. CASE UNCHANGED vars
  BY <1>1, SameWhole DEF vars
<1>2. CASE Next
  <2> SUFFICES ASSUME NEW j \in Job, Start(j) \/ GiveUp(j) \/ Step(j) PROVE Whole'
    BY <1>2 DEF Next
  <2>1. ASSUME NEW l \in Place \ {"resize", "write"}, Goto(j, l), UNCHANGED <<open, disk>>,
               main[j] # "write"
        PROVE  Whole'
    <3>1. /\ main'[j] \notin {"resize", "write"} /\ pos'[j] = 0 /\ UNCHANGED disk
          /\ \A k \in Job \ {j} :
               main'[k] = main[k] /\ pos'[k] = pos[k] /\ off'[k] = off[k] /\ fd'[k] = fd[k]
      BY <2>1 DEF Inv, GlobalType, Whole, Written, Goto, open
    <3> QED BY <3>1, AwayWhole
  <2>2. CASE \/ Start(j) \/ ManifestHeld(j) \/ ManifestFound(j)
             \/ ManifestTruncated(j) \/ ManifestStored(j)
    BY <2>1, <2>2 DEF Start, Returned, ManifestHeld, ManifestFound, ManifestTruncated, ManifestStored, Place
  <2>3. CASE GiveUp(j) \/ Dispatcher(j) \/ TakeOk(j)
    BY <2>3, SameWhole DEF GiveUp, Dispatcher, Dispatch, DispatchStops, TakeOk, Takes
  <2>4. CASE \E i \in Slots(j) : Worker(j, i)
    BY <2>4, SameWhole DEF Worker, ChunkHeld, ChunkFound, ChunkTruncated, ChunkStored, ChunkFails
  <2>5. CASE ManifestFails(j) \/ TakeErr(j) \/ TakeCancel(j) \/ RenameFails(j) \/ FileFails(j)
    BY <2>5, ReturnWhole DEF ManifestFails, TakeErr, TakeCancel, RenameFails, FileFails, LeaveFiles
  <2>6. CASE AddManifest(j)
    <3>1. CASE Return(j)
      BY <2>6, <3>1, ReturnWhole DEF AddManifest
    <3>2. CASE Goto(j, "create") /\ UNCHANGED open
      BY <2>1, <2>6, <3>2 DEF AddManifest, Place
    <3> QED BY <2>6, <3>1, <3>2 DEF AddManifest
  <2>7. CASE CreateTemp(j) \/ Resize(j) \/ WriteChunk(j) \/ ReadTorn(j) \/ Rename(j)
    BY <2>7, CreateTempWhole, ResizeWhole, WriteChunkWhole, ReadTornWhole, RenameWhole
  <2> QED BY <2>2, <2>3, <2>4, <2>5, <2>6, <2>7 DEF Step, Main
<1> QED BY <1>1, <1>2

\* What stands under an output path is a whole file, wherever downloads fail
\* or are given up, as long as no two have assembled there at the same time and
\* none has read a chunk that another writer had truncated (node.go:232-256,
\* store.go:112, 128).
THEOREM SavedWholeHolds == Spec => []SavedWhole
<1>1. Whole => SavedWhole
  BY DEF Whole
<1> QED BY <1>1, InitWhole, NextWhole, Invariance, PTL DEF Spec

-----------------------------------------------------------------------------
(* What the caller sees: Download implements SavesFile *)

Busy == {j \in Job : ~ Returned(j)}

\* The names and the calls under way are the same in both specifications.
LEMMA Mapping ==
  ASSUME NEW j \in Job
  PROVE  Saved!Target(j) = Target(j) /\ Content[FileOf[j]] = Parts(j) /\ (j \in Busy <=> main[j] # "idle")
BY DEF Saved!Target, Target, Parts, Busy, Returned

\* Steps between the beginning and the end of a call show at most in the files
\* of the chunks.
LEMMA HiddenStep ==
  ASSUME UNCHANGED <<loose, final>>, \A l \in Job : Returned(l)' <=> Returned(l)
  PROVE  Saved!Next
BY DEF Saved!Next, Saved!Rewrite

LEMMA BeginStep ==
  ASSUME Inv, NEW j \in Job, Start(j)
  PROVE  Saved!Next
<1>1. Returned(j) /\ ~ Returned(j)' /\ \A l \in Job \ {j} : Returned(l)' <=> Returned(l)
  BY DEF Inv, GlobalType, Start, Goto, Returned
<1>2. Busy' = Busy \cup {j} /\ j \notin Busy
  BY <1>1 DEF Busy
<1>3. Saved!Begin(j)
  BY <1>2 DEF Saved!Begin, Start, index, disk, Busy
<1> QED BY <1>3 DEF Saved!Next

\* A call that fails ends without a trace.
LEMMA FailStep ==
  ASSUME Inv, NEW j \in Job, ~ Returned(j), Return(j), UNCHANGED <<torn, disk>>
  PROVE  Saved!Next
<1>1. Returned(j)' /\ \A l \in Job \ {j} : Returned(l)' <=> Returned(l)
  BY DEF Inv, GlobalType, Return, Leave, Goto, Returned
<1>2. Busy' = Busy \ {j} /\ j \in Busy
  BY <1>1 DEF Busy
<1>3. Saved!Fail(j)
  BY <1>2 DEF Saved!Fail, disk, Busy
<1> QED BY <1>3 DEF Saved!Next

\* Two calls that assemble at one path meet there.
LEMMA CreateStep ==
  ASSUME Inv, NEW j \in Job, CreateTemp(j)
  PROVE  Saved!Next
<1>1. \A l \in Job : Returned(l)' <=> Returned(l)
  BY DEF Inv, GlobalType, CreateTemp, Goto, Returned
<1>2. CASE \E l \in Job \ {j} : Assembling(l) /\ Target(l) = Target(j)
  <2>1. PICK l \in Job \ {j} : Assembling(l) /\ Target(l) = Target(j)
    BY <1>2
  <2>2. Busy' = Busy /\ {j, l} \subseteq Busy
    BY <1>1, <2>1 DEF Busy, Returned, Assembling, CreateTemp
  <2>3. loose' = [loose EXCEPT ![Target(j)] = TRUE] /\ UNCHANGED <<torn, final>>
    BY <2>1 DEF CreateTemp, index
  <2>4. Saved!Meet(j, l)
    BY <2>1, <2>2, <2>3, Mapping DEF Saved!Meet, Busy
  <2> QED BY <2>4 DEF Saved!Next
<1>3. CASE ~ \E l \in Job \ {j} : Assembling(l) /\ Target(l) = Target(j)
  <2>1. loose' = [loose EXCEPT ![Target(j)] = loose[Target(j)]] /\ UNCHANGED final
    BY <1>3 DEF CreateTemp, Inv, GlobalType
  <2>2. loose' = loose
    BY <2>1 DEF Inv, GlobalType
  <2> QED BY <1>1, <2>1, <2>2, HiddenStep
<1> QED BY <1>2, <1>3

\* A call whose file another one has renamed goes on writing to it.
LEMMA ChangeStep ==
  ASSUME Inv, Whole, NEW j \in Job, Resize(j) \/ WriteChunk(j)
  PROVE  Saved!Next
<1>1. /\ Assembling(j) /\ loose' = loose /\ torn' = torn
      /\ \A l \in Job : Returned(l)' <=> Returned(l)
  BY DEF Inv, GlobalType, Resize, WriteChunk, Reads, Goto, Returned, Assembling, index
<1>2. final' = final \/ (fd[j] = "final" /\ \E s : final' = [final EXCEPT ![Target(j)] = s])
  BY DEF Resize, WriteChunk, Change
<1>3. CASE final' = final
  BY <1>1, <1>3, HiddenStep
<1>4. CASE fd[j] = "final" /\ \E s : final' = [final EXCEPT ![Target(j)] = s]
  <2>1. loose[Target(j)]
    BY <1>1, <1>4 DEF Whole, Alone
  <2>2. final' = [final EXCEPT ![Target(j)] = final'[Target(j)]]
    BY <1>4, PartsType DEF Inv, GlobalType
  <2>3. Busy' = Busy /\ j \in Busy
    BY <1>1 DEF Busy, Returned, Assembling
  <2>4. Saved!Spoil(j)
    BY <1>1, <2>1, <2>2, <2>3, Mapping DEF Saved!Spoil, Busy
  <2> QED BY <2>4 DEF Saved!Next
<1> QED BY <1>2, <1>3, <1>4

\* A torn chunk that is read is one of the file of the call.
LEMMA ReadTornStep ==
  ASSUME Inv, NEW j \in Job, ReadTorn(j)
  PROVE  Saved!Next
<1> USE PartsType DEF ReadTorn, Reads
<1>1. \A l \in Job : Returned(l)' <=> Returned(l)
  BY DEF Returned
<1>2. Busy' = Busy /\ j \in Busy
  BY <1>1 DEF Busy, Returned
<1>3. pos[j] + 1 \in DOMAIN Content[FileOf[j]] /\ Content[FileOf[j]][pos[j] + 1] \in torn
  BY Numbers, Mapping DEF Inv, Slots
<1>4. Saved!Misread(j)
  BY <1>2, <1>3, Mapping DEF Saved!Misread, Busy, index
<1> QED BY <1>4 DEF Saved!Next

\* The rename is the moment at which the whole file appears.
LEMMA SaveStep ==
  ASSUME Inv, Whole, NEW j \in Job, Rename(j)
  PROVE  Saved!Next
<1>1. /\ ~ Returned(j) /\ Returned(j)' /\ \A l \in Job \ {j} : Returned(l)' <=> Returned(l)
      /\ loose' = loose /\ torn' = torn
      /\ final' = [final EXCEPT ![Target(j)] = temp[Target(j)]]
  BY DEF Inv, GlobalType, Rename, Leave, Goto, Returned, index
<1>2. Busy' = Busy \ {j} /\ j \in Busy
  BY <1>1 DEF Busy
<1>3. CASE ~ loose[Target(j)]
  <2>1. final' = [final EXCEPT ![Target(j)] = Parts(j)]
    BY <1>1, <1>3, TempWhole
  <2>2. Saved!Save(j)
    BY <1>1, <1>2, <2>1, Mapping DEF Saved!Save, Busy
  <2> QED BY <2>2 DEF Saved!Next
<1>4. CASE loose[Target(j)]
  <2>1. final' = [final EXCEPT ![Target(j)] = final'[Target(j)]]
    BY <1>1, PartsType DEF Inv, GlobalType
  <2>2. Saved!Spoil(j)
    BY <1>1, <1>2, <1>4, <2>1, Mapping DEF Saved!Spoil, Busy
  <2> QED BY <2>2 DEF Saved!Next
<1> QED BY <1>3, <1>4

LEMMA StepRefines == Inv /\ Whole /\ [Next]_vars => [Saved!Next]_(Saved!vars)
<1> SUFFICES ASSUME Inv, Whole, [Next]_vars PROVE Saved!Next
  OBVIOUS
<1>1. CASE UNCHANGED vars
  BY <1>1, HiddenStep DEF vars, disk, Returned
<1>2. CASE Next
  <2> SUFFICES ASSUME NEW j \in Job, Start(j) \/ GiveUp(j) \/ Step(j)
               PROVE  Saved!Next
    BY <1>2 DEF Next
  <2>1. CASE Start(j)
    BY <2>1, BeginStep
  <2>2. CASE GiveUp(j) \/ Dispatcher(j) \/ TakeOk(j)
    BY <2>2, HiddenStep DEF GiveUp, Dispatcher, Dispatch, DispatchStops, TakeOk, disk, Returned
  <2>3. CASE \E i \in Slots(j) : Worker(j, i)
    BY <2>3, HiddenStep DEF Worker, ChunkHeld, ChunkFound, ChunkTruncated, ChunkStored, ChunkFails, disk, Returned
  <2>4. ASSUME NEW l \in Place \ {"idle"}, Goto(j, l), ~ Returned(j), UNCHANGED disk
        PROVE  Saved!Next
    <3>1. \A k \in Job : Returned(k)' <=> Returned(k)
      BY <2>4 DEF Inv, GlobalType, Goto, Returned
    <3> QED BY <2>4, <3>1, HiddenStep DEF disk
  <2>5. CASE ManifestHeld(j) \/ ManifestFound(j) \/ ManifestTruncated(j) \/ ManifestStored(j)
    BY <2>4, <2>5 DEF ManifestHeld, ManifestFound, ManifestTruncated, ManifestStored, Returned, Place
  <2>6. CASE ManifestFails(j) \/ TakeErr(j) \/ TakeCancel(j) \/ RenameFails(j) \/ FileFails(j)
    <3>1. ~ Returned(j) /\ Return(j) /\ UNCHANGED <<torn, disk>>
      BY <2>6 DEF ManifestFails, GetsManifest, TakeErr, Takes, TakeCancel, RenameFails, FileFails,
                  LeaveFiles, Returned, index
    <3> QED BY <3>1, FailStep
  <2>7. CASE AddManifest(j)
    <3>1. ~ Returned(j) /\ UNCHANGED <<torn, disk>> /\ (Return(j) \/ Goto(j, "create"))
      BY <2>7 DEF AddManifest, Returned
    <3> QED BY <2>4, <3>1, FailStep DEF Place
  <2>8. CASE CreateTemp(j) \/ Resize(j) \/ WriteChunk(j) \/ ReadTorn(j) \/ Rename(j)
    BY <2>8, CreateStep, ChangeStep, ReadTornStep, SaveStep
  <2> QED BY <2>1, <2>2, <2>3, <2>5, <2>6, <2>7, <2>8 DEF Step, Main
<1> QED BY <1>1, <1>2

LEMMA InitRefines == Init => Saved!Init
BY DEF Init, Saved!Init, Returned

\* A call saves the whole file it asked for in one step, when it returns with
\* success, or leaves all files alone, for any files, names and callers, as
\* long as no two calls assemble at one path at the same time and none reads a
\* torn chunk there.
THEOREM ImplementsSavesFileHolds == Spec => ImplementsSavesFile
BY InitWhole, NextWhole, Invariance, InitRefines, StepRefines, PTL
   DEF Spec, ImplementsSavesFile, Saved!Spec

-----------------------------------------------------------------------------
(* Progress *)

\* Workers that are at one of the stages S.
At(j, S) == {i \in Slots(j) : work[j][i] \in S}

\* The stages workers have before them until they write or send.
Ahead(j) == Cardinality(At(j, {"get"})) + Cardinality(At(j, {"get", "put"}))

\* What the dispatcher is through with is with a worker, in the channel or
\* received; only a dispatcher that was cancelled leaves chunks out.
Accounted(j) ==
  /\ Results(j) + taken[j] + Cardinality(Running(j)) <= next[j]
  /\ main[j] = "collect" /\ ~ gone[j]
       => Results(j) + taken[j] + Cardinality(Running(j)) = next[j]

\* No goroutine of a download waits for something that cannot come: a worker
\* always finds room in the channel, also when the call has returned and nobody
\* takes results any more, so it ends and gives its slot back; and while the
\* caller waits for results there is one, or a worker, or a chunk that can be
\* given to a worker (node.go:186-222).
GoesOn ==
  \A j \in Job :
    /\ Running(j) # {} => CanSend(j)
    /\ ~ Over(j) =>
         \/ ~ Returned(j) /\ main[j] # "collect"
         \/ main[j] = "collect" /\ (AllTaken(j) \/ gone[j] \/ Results(j) > 0)
         \/ next[j] < Len(Parts(j)) /\ (SlotFree(j) \/ Cancelled(j))
         \/ Running(j) # {}

\* What a call has left to do: to dispatch, get, truncate, write, send and take
\* each chunk, and to read it back.
Left(j) ==
  5 * (Len(Parts(j)) - next[j]) + 2 * Cardinality(Running(j)) + Ahead(j)
    + Results(j) + (Len(Parts(j)) - pos[j])

\* Every step of a download that does not bring its caller to the next phase
\* uses up some of what is left.
UsesUp ==
  [][\A j \in Job : main'[j] = main[j] =>
       \/ Left(j)' < Left(j)
       \/ UNCHANGED <<next[j], work[j], sent[j], taken[j], pos[j]>>]_vars

\* The chunks at work are among those of the file.
LEMMA WorkSize ==
  ASSUME Inv, NEW j \in Job, NEW S
  PROVE  /\ IsFiniteSet(Running(j)) /\ IsFiniteSet(At(j, S))
         /\ Cardinality(Running(j)) \in Nat /\ Cardinality(At(j, S)) \in Nat
         /\ Ahead(j) \in Nat /\ Results(j) \in Nat
<1>1. IsFiniteSet(1..Len(Parts(j)))
  BY PartsType, FS_Interval
<1>2. Running(j) \in SUBSET (1..Len(Parts(j)))
  BY PartsType DEF Running
<1>3. ASSUME NEW T
      PROVE  IsFiniteSet(At(j, T)) /\ Cardinality(At(j, T)) \in Nat
  <2>1. At(j, T) \in SUBSET (1..Len(Parts(j)))
    BY PartsType DEF At
  <2> QED BY <1>1, <2>1, FS_Subset, FS_CardinalityType
<1>4. IsFiniteSet(Running(j)) /\ Cardinality(Running(j)) \in Nat
  BY <1>1, <1>2, FS_Subset, FS_CardinalityType
<1>5. Ahead(j) \in Nat
  BY <1>3 DEF Ahead
<1> QED BY <1>3, <1>4, <1>5, Numbers DEF Inv

LEMMA DispatchEffect ==
  ASSUME Inv, NEW j \in Job, Dispatch(j)
  PROVE  /\ next'[j] = next[j] + 1
         /\ Cardinality(Running(j)') = Cardinality(Running(j)) + 1
         /\ Ahead(j)' = Ahead(j) + 2
<1> DEFINE i == next[j] + 1
<1> USE PartsType, Numbers DEF Dispatch
<1>1. i \in Slots(j) /\ next'[j] = i /\ work'[j] = [work[j] EXCEPT ![i] = "get"]
  BY DEF Inv, GlobalType
<1>2. Slots(j)' = Slots(j)
  BY DEF Slots, Parts
<1>3. \A k \in Slots(j) : work'[j][k] = IF k = i THEN "get" ELSE work[j][k]
  BY <1>1 DEF Inv, Local, LocalType
<1>4. Running(j)' = Running(j) \cup {i}
  BY <1>1, <1>2, <1>3 DEF Running
<1>5. i \notin Running(j)
  <2>1. next[j] \in Nat
    BY DEF Inv
  <2>2. i \in Running(j) => i <= next[j]
    BY DEF Inv, Local, Counted
  <2> QED BY <2>1, <2>2
<1>6. ASSUME NEW S \in {{"get"}, {"get", "put"}}
      PROVE  Cardinality(At(j, S)') = Cardinality(At(j, S)) + 1
  <2>1. At(j, S)' = At(j, S) \cup {i}
    BY <1>1, <1>2, <1>3 DEF At
  <2>2. i \notin At(j, S)
    BY <1>5 DEF At, Running
  <2> HIDE DEF i
  <2> QED BY <2>1, <2>2, WorkSize, FS_AddElement
<1>7. Ahead(j)' = Ahead(j) + 2
  <2>1. /\ Cardinality(At(j, {"get"})') = Cardinality(At(j, {"get"})) + 1
        /\ Cardinality(At(j, {"get", "put"})') = Cardinality(At(j, {"get", "put"})) + 1
    BY <1>6
  <2>2. Cardinality(At(j, {"get"})) \in Nat /\ Cardinality(At(j, {"get", "put"})) \in Nat
    BY WorkSize
  <2> QED BY <2>1, <2>2 DEF Ahead
<1> HIDE DEF i
<1>8. Cardinality(Running(j) \cup {i}) = Cardinality(Running(j)) + 1
  BY <1>5, WorkSize, FS_AddElement
<1> QED BY <1>1, <1>4, <1>7, <1>8 DEF i

\* A worker that goes on has one stage less ahead.
LEMMA ProceedsEffect ==
  ASSUME Inv, NEW j \in Job, NEW i \in Slots(j), Proceeds(j, i, "get", "put") \/ Proceeds(j, i, "put", "write")
  PROVE  /\ Running(j)' = Running(j)
         /\ Ahead(j)' = Ahead(j) - 1
<1> USE PartsType DEF Proceeds
<1> DEFINE G == At(j, {"get"})
           W == At(j, {"get", "put"})
<1>1. Slots(j)' = Slots(j) /\ work[j] \in [Slots(j) -> {"none", "get", "put", "write"}]
  BY DEF Inv, Local, LocalType, Slots, Parts
<1>2. /\ IsFiniteSet(G) /\ IsFiniteSet(W) /\ Cardinality(G) \in Nat /\ Cardinality(W) \in Nat
  BY WorkSize
<1>3. CASE Proceeds(j, i, "get", "put")
  <2>1. \A k \in Slots(j) : work'[j][k] = IF k = i THEN "put" ELSE work[j][k]
    BY <1>1, <1>3 DEF Inv, GlobalType
  <2>2. Running(j)' = Running(j)
    BY <1>1, <1>3, <2>1 DEF Running
  <2>3. G' = G \ {i} /\ i \in G /\ W' = W
    BY <1>1, <1>3, <2>1 DEF At
  <2>4. Cardinality(G') = Cardinality(G) - 1
    <3> HIDE DEF G
    <3> QED BY <1>2, <2>3, FS_RemoveElement
  <2> QED BY <1>2, <2>2, <2>3, <2>4 DEF Ahead
<1>4. CASE Proceeds(j, i, "put", "write")
  <2>1. \A k \in Slots(j) : work'[j][k] = IF k = i THEN "write" ELSE work[j][k]
    BY <1>1, <1>4 DEF Inv, GlobalType
  <2>2. Running(j)' = Running(j)
    BY <1>1, <1>4, <2>1 DEF Running
  <2>3. W' = W \ {i} /\ i \in W /\ G' = G
    BY <1>1, <1>4, <2>1 DEF At
  <2>4. Cardinality(W') = Cardinality(W) - 1
    <3> HIDE DEF W
    <3> QED BY <1>2, <2>3, FS_RemoveElement
  <2> QED BY <1>2, <2>2, <2>3, <2>4 DEF Ahead
<1> QED BY <1>3, <1>4

\* A result ends its worker, and is in the channel.
LEMMA ResultEffect ==
  ASSUME Inv, NEW j \in Job, NEW i \in Slots(j), work[j][i] # "none",
         NEW r \in {"ok", "err"}, Result(j, i, r)
  PROVE  /\ Cardinality(Running(j)') = Cardinality(Running(j)) - 1
         /\ Ahead(j)' \in Nat
         /\ Ahead(j)' <= Ahead(j)
         /\ Results(j)' = Results(j) + 1
<1> USE PartsType DEF Result
<1>1. Slots(j)' = Slots(j)
  BY DEF Slots, Parts
<1>2. \A k \in Slots(j) : work'[j][k] = IF k = i THEN "none" ELSE work[j][k]
  BY DEF Inv, GlobalType, Local, LocalType
<1>3. Running(j)' = Running(j) \ {i} /\ i \in Running(j)
  BY <1>1, <1>2 DEF Running
<1>4. Cardinality(Running(j)') = Cardinality(Running(j)) - 1
  BY <1>3, WorkSize, FS_RemoveElement
<1>5. ASSUME NEW S \in {{"get"}, {"get", "put"}}
      PROVE  /\ Cardinality(At(j, S)) \in Nat /\ Cardinality(At(j, S)') \in Nat
             /\ Cardinality(At(j, S)') <= Cardinality(At(j, S))
  <2>1. At(j, S)' \in SUBSET At(j, S)
    BY <1>1, <1>2 DEF At
  <2>2. IsFiniteSet(At(j, S)') /\ Cardinality(At(j, S)') <= Cardinality(At(j, S))
    BY <2>1, WorkSize, FS_Subset
  <2> QED BY <2>2, WorkSize, FS_CardinalityType
<1>6. Ahead(j)' \in Nat /\ Ahead(j)' <= Ahead(j)
  <2>1. /\ Cardinality(At(j, {"get"})') <= Cardinality(At(j, {"get"}))
        /\ Cardinality(At(j, {"get"})) \in Nat /\ Cardinality(At(j, {"get"})') \in Nat
    BY <1>5
  <2>2. /\ Cardinality(At(j, {"get", "put"})') <= Cardinality(At(j, {"get", "put"}))
        /\ Cardinality(At(j, {"get", "put"})) \in Nat /\ Cardinality(At(j, {"get", "put"})') \in Nat
    BY <1>5
  <2> QED BY <2>1, <2>2 DEF Ahead
<1>7. Results(j)' = Results(j) + 1
  BY SentMore DEF Inv
<1> QED BY <1>4, <1>6, <1>7

\* What a worker does.
LEMMA WorkerEffect ==
  ASSUME Inv, NEW j \in Job, NEW i \in Slots(j), Worker(j, i)
  PROVE  /\ UNCHANGED <<main, gone, next, taken, pos>>
         /\ \/ /\ Running(j)' = Running(j) /\ UNCHANGED sent
               /\ Ahead(j)' = Ahead(j) - 1
            \/ /\ Cardinality(Running(j)') = Cardinality(Running(j)) - 1
               /\ Ahead(j)' \in Nat
               /\ Ahead(j)' <= Ahead(j)
               /\ Results(j)' = Results(j) + 1
<1> USE DEF open
<1>1. CASE ChunkHeld(j, i)
  BY <1>1, ResultEffect DEF ChunkHeld
<1>2. CASE ChunkFound(j, i)
  BY <1>2, ProceedsEffect DEF ChunkFound, Proceeds
<1>3. CASE ChunkTruncated(j, i)
  BY <1>3, ProceedsEffect DEF ChunkTruncated, Proceeds
<1>4. CASE ChunkStored(j, i)
  BY <1>4, ResultEffect DEF ChunkStored
<1>5. CASE ChunkFails(j, i)
  BY <1>5, ResultEffect DEF ChunkFails
<1> QED BY <1>1, <1>2, <1>3, <1>4, <1>5 DEF Worker

\* The calls do not touch each other's goroutines.
LEMMA OthersStand ==
  ASSUME Inv, NEW j \in Job, Start(j) \/ GiveUp(j) \/ Step(j), NEW l \in Job \ {j}
  PROVE  /\ main'[l] = main[l] /\ gone'[l] = gone[l] /\ next'[l] = next[l]
         /\ work'[l] = work[l] /\ sent'[l] = sent[l]
         /\ taken'[l] = taken[l] /\ pos'[l] = pos[l]
<1> USE DEF Inv, GlobalType, pool, open, Goto, Leave, Return
<1>1. CASE Start(j) \/ GiveUp(j) \/ ManifestFails(j)
  BY <1>1 DEF Start, GiveUp, ManifestFails
<1>1a. CASE ManifestHeld(j) \/ ManifestFound(j) \/ ManifestTruncated(j) \/ ManifestStored(j)
  BY <1>1a DEF ManifestHeld, ManifestFound, ManifestTruncated, ManifestStored
<1>2. CASE Dispatcher(j)
  BY <1>2 DEF Dispatcher, Dispatch, DispatchStops
<1>3. ASSUME NEW i \in Slots(j), Worker(j, i)
      PROVE  /\ UNCHANGED <<main, gone, next, taken, pos>>
             /\ work'[l] = work[l] /\ sent'[l] = sent[l]
  BY <1>3 DEF Worker, ChunkHeld, ChunkFound, ChunkTruncated, ChunkStored, ChunkFails, Proceeds, Result
<1>4. CASE TakeOk(j) \/ TakeErr(j) \/ TakeCancel(j) \/ AddManifest(j)
  BY <1>4 DEF TakeOk, Takes, TakeErr, TakeCancel, AddManifest
<1>5. CASE CreateTemp(j) \/ Resize(j) \/ WriteChunk(j) \/ ReadTorn(j)
  BY <1>5 DEF CreateTemp, Resize, WriteChunk, ReadTorn, Reads
<1>6. CASE Rename(j) \/ RenameFails(j) \/ FileFails(j)
  BY <1>6 DEF Rename, RenameFails, FileFails, LeaveFiles
<1> QED BY <1>1, <1>1a, <1>2, <1>3, <1>4, <1>5, <1>6 DEF Step, Main

LEMMA InitAccounted == Init => \A j \in Job : Accounted(j)
<1> SUFFICES ASSUME Init, NEW j \in Job PROVE Accounted(j)
  OBVIOUS
<1>1. Running(j) = {} /\ Results(j) = 0 /\ taken[j] = 0 /\ next[j] \in Nat /\ main[j] = "idle"
  BY PartsType DEF Init, Running, NoWork, Results, NoResult
<1>2. Cardinality({}) = 0
  BY FS_EmptySet
<1> QED BY <1>1, <1>2 DEF Accounted

\* A call that returns leaves its workers, and what they have sent, to themselves.
LEMMA ReturnAccounted ==
  ASSUME Inv, NEW j \in Job, Accounted(j), UNCHANGED work,
         main'[j] = "idle", taken'[j] = 0,
         \/ UNCHANGED sent
         \/ sent[j]["err"] > 0 /\ sent' = [sent EXCEPT ![j]["err"] = @ - 1],
         next'[j] = next[j] \/ next'[j] = Len(Parts(j))
  PROVE  Accounted(j)'
<1>1. Running(j)' = Running(j)
  BY DEF Running, Slots, Parts
<1>2. sent \in [Job -> [{"ok", "err"} -> Nat]]
  BY DEF Inv, GlobalType
<1>3. Results(j)' \in Nat /\ Results(j)' <= Results(j)
  BY <1>2 DEF Results
<1>4. Inv /\ GlobalType /\ Local(j)
  BY DEF Inv
<1>5. next[j] <= Len(Parts(j))
  BY <1>4, PartsType, Numbers DEF Local, LocalType
<1>6. /\ next[j] \in Nat /\ Len(Parts(j)) \in Nat /\ taken[j] \in Nat
      /\ Results(j) \in Nat /\ Cardinality(Running(j)) \in Nat
  BY <1>4, PartsType, Numbers, WorkSize
<1> QED BY <1>1, <1>3, <1>5, <1>6 DEF Accounted

LEMMA AccountedStep ==
  ASSUME Inv, NEW j \in Job, Accounted(j), Start(j) \/ GiveUp(j) \/ Step(j)
  PROVE  Accounted(j)'
<1>0. /\ next[j] \in Nat /\ taken[j] \in Nat /\ Results(j) \in Nat
      /\ Cardinality(Running(j)) \in Nat /\ next[j] <= Len(Parts(j))
      /\ main \in [Job -> Place]
      /\ next \in [Job -> Nat] /\ sent \in [Job -> [{"ok", "err"} -> Nat]]
      /\ taken \in [Job -> Nat] /\ gone \in [Job -> BOOLEAN] /\ Len(Parts(j)) \in Nat
  <2>1. GlobalType /\ Local(j)
    BY DEF Inv
  <2>2. /\ Results(j) \in Nat /\ Cardinality(Running(j)) \in Nat
        /\ Len(Parts(j)) \in Nat
    BY <2>1, PartsType, Numbers, WorkSize
  <2>3. next[j] <= Len(Parts(j))
    BY <2>1, PartsType, Numbers DEF Local, LocalType
  <2> QED BY <2>1, <2>2, <2>3 DEF GlobalType
<1>1. Running(j) = {} => Cardinality(Running(j)) = 0
  BY FS_EmptySet
<1>2. CASE Start(j)
  <2>1. Running(j)' = {} /\ next'[j] = 0 /\ main'[j] = "manifest" /\ sent'[j] = NoResult /\ UNCHANGED taken
    BY <1>0, <1>2 DEF Start, Goto, Quiet, Running, Slots, Parts
  <2>2. Results(j)' = 0 /\ taken'[j] = 0
    BY <1>2, <2>1 DEF Start, Inv, Local, Phases, NoResult, Results
  <2> QED BY <2>1, <2>2, FS_EmptySet DEF Accounted
<1>3. CASE GiveUp(j)
  <2>1. gone'[j] /\ UNCHANGED <<main, next, work, sent, taken>>
    BY <1>0, <1>3 DEF GiveUp, pool
  <2>2. Running(j)' = Running(j) /\ Results(j)' = Results(j)
    BY <2>1 DEF Running, Slots, Parts, Results
  <2> QED BY <2>1, <2>2 DEF Accounted
<1>4. CASE ManifestHeld(j) \/ ManifestFound(j) \/ ManifestTruncated(j) \/ ManifestStored(j)
  <2>1. UNCHANGED <<gone, next, work, sent, taken>> /\ GetsManifest(j)
    BY <1>4 DEF ManifestHeld, ManifestFound, ManifestTruncated, ManifestStored, GetsManifest, pool
  <2>2. Results(j) = 0 /\ taken[j] = 0 /\ next[j] = 0
    BY <2>1 DEF Inv, Local, Phases, NoResult, Results
  <2>3. Cardinality(Running(j)) = 0
    BY <1>0, <2>2 DEF Accounted
  <2>4. Running(j)' = Running(j) /\ Results(j)' = Results(j)
    BY <2>1 DEF Running, Slots, Parts, Results
  <2> QED BY <2>1, <2>2, <2>3, <2>4 DEF Accounted
<1>5. CASE Dispatch(j)
  <2>1. UNCHANGED <<main, gone, sent, taken>>
    BY <1>5 DEF Dispatch
  <2>2. Results(j)' = Results(j)
    BY <2>1 DEF Results
  <2>3. next'[j] = next[j] + 1 /\ Cardinality(Running(j)') = Cardinality(Running(j)) + 1
    BY <1>5, DispatchEffect
  <2> QED BY <1>0, <2>1, <2>2, <2>3 DEF Accounted
<1>6. CASE DispatchStops(j)
  <2>1. UNCHANGED <<main, gone, work, sent, taken>> /\ next'[j] = Len(Parts(j))
    BY <1>0, <1>6 DEF DispatchStops
  <2>2. Running(j)' = Running(j) /\ Results(j)' = Results(j)
    BY <2>1 DEF Running, Slots, Parts, Results
  <2>3. ~ (main[j] = "collect" /\ ~ gone[j])
    BY <1>6 DEF DispatchStops, Cancelled, Returned
  <2> QED BY <1>0, <2>1, <2>2, <2>3 DEF Accounted
<1>7. ASSUME NEW i \in Slots(j), Worker(j, i)
      PROVE  Accounted(j)'
  <2>1. UNCHANGED <<main, gone, next, taken>>
    BY <1>7, WorkerEffect
  <2>2. \/ Cardinality(Running(j)') = Cardinality(Running(j)) /\ Results(j)' = Results(j)
        \/ /\ Cardinality(Running(j)') = Cardinality(Running(j)) - 1
           /\ Results(j)' = Results(j) + 1
    BY <1>7, WorkerEffect DEF Results
  <2> QED BY <1>0, <2>1, <2>2 DEF Accounted
<1>8. CASE TakeOk(j)
  <2>1. /\ UNCHANGED <<main, gone, next, work>> /\ taken'[j] = taken[j] + 1
        /\ sent'[j]["ok"] = sent[j]["ok"] - 1 /\ sent'[j]["err"] = sent[j]["err"]
    BY <1>0, <1>8 DEF TakeOk, Takes
  <2>2. Running(j)' = Running(j)
    BY <2>1 DEF Running, Slots, Parts
  <2>3. Results(j)' = Results(j) - 1
    <3>1. sent[j]["ok"] \in Nat /\ sent[j]["err"] \in Nat
      BY <1>0
    <3>2. sent'[j]["ok"] + sent'[j]["err"] = sent[j]["ok"] + sent[j]["err"] - 1
      BY <2>1, <3>1
    <3> QED BY <3>1, <3>2 DEF Results
  <2> QED BY <1>0, <2>1, <2>2, <2>3 DEF Accounted
<1>9. ASSUME Return(j), UNCHANGED work,
             \/ UNCHANGED sent
             \/ sent[j]["err"] > 0 /\ sent' = [sent EXCEPT ![j]["err"] = @ - 1],
             next'[j] = next[j] \/ next'[j] = Len(Parts(j))
      PROVE  Accounted(j)'
  <2>1. main'[j] = "idle" /\ taken'[j] = 0
    BY <1>0, <1>9 DEF Return, Leave, Goto
  <2> QED BY <1>9, <2>1, ReturnAccounted
<1>10. CASE ManifestFails(j) \/ TakeErr(j) \/ TakeCancel(j) \/ RenameFails(j) \/ FileFails(j)
  BY <1>0, <1>9, <1>10 DEF ManifestFails, TakeErr, Takes, TakeCancel, RenameFails, FileFails
<1>11. ASSUME UNCHANGED <<next, work, sent, taken>>, main'[j] # "collect"
       PROVE  Accounted(j)'
  <2>1. Running(j)' = Running(j) /\ Results(j)' = Results(j)
    BY <1>11 DEF Running, Slots, Parts, Results
  <2> QED BY <1>11, <2>1 DEF Accounted
<1>12. CASE AddManifest(j)
  <2>1. CASE Return(j)
    BY <1>9, <1>12, <2>1 DEF AddManifest
  <2>2. CASE ~ Return(j)
    BY <1>0, <1>11, <1>12, <2>2 DEF AddManifest, Goto
  <2> QED BY <2>1, <2>2
<1>13. CASE CreateTemp(j) \/ Resize(j) \/ WriteChunk(j) \/ ReadTorn(j)
  BY <1>0, <1>11, <1>13 DEF CreateTemp, Resize, WriteChunk, ReadTorn, Reads, Goto, pool
<1>14. CASE Rename(j)
  <2>1. UNCHANGED <<next, work, sent>> /\ main'[j] = "idle" /\ taken'[j] = 0
    BY <1>0, <1>14 DEF Rename, Leave, Goto
  <2> QED BY <2>1, ReturnAccounted
<1> QED BY <1>2, <1>3, <1>4, <1>5, <1>6, <1>7, <1>8, <1>10, <1>12, <1>13, <1>14
        DEF Step, Dispatcher, Main

LEMMA NextAccounted ==
  Inv /\ (\A j \in Job : Accounted(j)) /\ [Next]_vars => (\A j \in Job : Accounted(j))'
<1> SUFFICES ASSUME Inv, \A j \in Job : Accounted(j), [Next]_vars, NEW l \in Job
             PROVE  Accounted(l)'
  OBVIOUS
<1>1. ASSUME main'[l] = main[l], gone'[l] = gone[l], next'[l] = next[l], work'[l] = work[l],
             sent'[l] = sent[l], taken'[l] = taken[l]
      PROVE  Accounted(l)'
  <2>1. Running(l)' = Running(l) /\ Results(l)' = Results(l)
    BY <1>1 DEF Running, Slots, Parts, Results
  <2> QED BY <1>1, <2>1 DEF Accounted
<1>2. CASE UNCHANGED vars
  BY <1>1, <1>2 DEF vars, pool
<1>3. ASSUME NEW j \in Job, Start(j) \/ GiveUp(j) \/ Step(j)
      PROVE  Accounted(l)'
  <2>1. CASE l = j
    BY <1>3, <2>1, AccountedStep
  <2>2. CASE l # j
    <3>1. l \in Job \ {j}
      BY <2>2
    <3> QED BY <1>1, <1>3, <3>1, OthersStand
  <2> QED BY <2>1, <2>2
<1> QED BY <1>2, <1>3 DEF Next

\* No download gets stuck, and no goroutine of one is left behind for ever: there
\* is room in the channel for every result that is still to come (node.go:187).
THEOREM NeverStuckHolds == Spec => []GoesOn
<1>1. ASSUME Inv, \A j \in Job : Accounted(j)
      PROVE  GoesOn
  <2> SUFFICES ASSUME NEW j \in Job
               PROVE  /\ Running(j) # {} => CanSend(j)
                      /\ ~ Over(j) =>
                           \/ ~ Returned(j) /\ main[j] # "collect"
                           \/ main[j] = "collect" /\ (AllTaken(j) \/ gone[j] \/ Results(j) > 0)
                           \/ next[j] < Len(Parts(j)) /\ (SlotFree(j) \/ Cancelled(j))
                           \/ Running(j) # {}
    BY DEF GoesOn
  <2>0. /\ next[j] \in Nat /\ taken[j] \in Nat /\ Results(j) \in Nat
        /\ Cardinality(Running(j)) \in Nat /\ next[j] <= Len(Parts(j)) /\ Len(Parts(j)) \in Nat
    <3>1. GlobalType /\ Local(j)
      BY <1>1 DEF Inv
    <3>2. next[j] <= Len(Parts(j))
      BY <3>1, PartsType, Numbers DEF Local, LocalType
    <3> QED BY <1>1, <3>1, <3>2, PartsType, Numbers, WorkSize
  <2>1. Running(j) # {} => Cardinality(Running(j)) > 0
    BY <1>1, <2>0, WorkSize, FS_EmptySet
  <2>2. Running(j) = {} => Cardinality(Running(j)) = 0
    BY FS_EmptySet
  <2>3. Running(j) # {} => CanSend(j)
    BY <1>1, <2>0, <2>1 DEF Accounted, CanSend, Capacity
  <2>4. Running(j) = {} => SlotFree(j)
    BY <2>2, PoolAssumption DEF SlotFree
  <2>5. main[j] = "idle" /\ ~ Over(j) =>
          (next[j] < Len(Parts(j)) /\ Cancelled(j)) \/ Running(j) # {}
    BY <2>0 DEF Over, Returned, Quiet, Cancelled
  <2>6. main[j] = "collect" /\ ~ gone[j] /\ Results(j) = 0 /\ ~ AllTaken(j) /\ Running(j) = {}
          => next[j] < Len(Parts(j))
    <3>1. SUFFICES ASSUME main[j] = "collect", ~ gone[j], Results(j) = 0, ~ AllTaken(j), Running(j) = {}
                   PROVE  next[j] < Len(Parts(j))
      OBVIOUS
    <3>2. Results(j) + taken[j] + Cardinality(Running(j)) = next[j]
      BY <1>1, <3>1 DEF Accounted
    <3>3. Cardinality(Running(j)) = 0
      BY <2>2, <3>1
    <3> QED BY <2>0, <3>1, <3>2, <3>3 DEF AllTaken
  <2>7. Results(j) = 0 \/ Results(j) > 0
    BY <2>0
  <2>8. CASE main[j] = "collect"
    BY <2>3, <2>4, <2>6, <2>7, <2>8
  <2>9. CASE main[j] = "idle"
    BY <2>3, <2>5, <2>9
  <2> QED BY <2>3, <2>8, <2>9 DEF Returned
<1> QED BY <1>1, InitAccounted, NextAccounted, Invariance, PTL DEF Spec

\* Arithmetic: n chunks out of m dispatched, r workers with c stages ahead, s
\* results in the channel, p chunks read back.  A dispatch costs 5 and adds a
\* worker with two stages ahead; a dispatcher that stops, a stage, a result
\* taken and a chunk read cost what they are.
LEMMA LeftDrops ==
  ASSUME NEW n \in Nat, NEW r \in Nat, NEW c \in Nat, NEW s \in Nat, NEW p \in Nat, NEW m \in Nat
  PROVE  LET left == 5 * (m - n) + 2 * r + c + s + (m - p) IN
         /\ 5 * (m - (n + 1)) + 2 * (r + 1) + (c + 2) + s + (m - p) < left
         /\ n < m => 5 * (m - m) + 2 * r + c + s + (m - p) < left
         /\ 5 * (m - n) + 2 * r + (c - 1) + s + (m - p) < left
         /\ 5 * (m - n) + 2 * r + c + (s - 1) + (m - p) < left
         /\ 5 * (m - n) + 2 * r + c + s + (m - (p + 1)) < left
OBVIOUS

\* A result costs its worker, and adds at most one to the channel.
LEMMA ResultDrops ==
  ASSUME NEW n \in Nat, NEW r \in Nat, NEW c \in Nat, NEW s \in Nat, NEW p \in Nat, NEW m \in Nat,
         NEW d \in Nat, NEW t \in Nat, d <= c, t <= s + 1
  PROVE  5 * (m - n) + 2 * (r - 1) + d + t + (m - p) < 5 * (m - n) + 2 * r + c + s + (m - p)
OBVIOUS

\* What a step of a download that stays in its phase uses up.
LEMMA LeftStep ==
  ASSUME Inv, NEW j \in Job, Start(j) \/ GiveUp(j) \/ Step(j), main'[j] = main[j]
  PROVE  \/ Left(j)' < Left(j)
         \/ UNCHANGED <<next[j], work[j], sent[j], taken[j], pos[j]>>
<1> DEFINE m == Len(Parts(j))
           n == next[j]
           r == Cardinality(Running(j))
           c == Ahead(j)
           s == Results(j)
           p == pos[j]
<1>0. /\ main \in [Job -> Place]
      /\ next \in [Job -> Nat] /\ pos \in [Job -> Nat]
      /\ sent \in [Job -> [{"ok", "err"} -> Nat]]
  BY DEF Inv, GlobalType
<1>0a. n \in Nat /\ p \in Nat /\ s \in Nat /\ m \in Nat /\ r \in Nat /\ c \in Nat
  BY PartsType, Numbers, WorkSize DEF Inv, GlobalType
<1>0b. Left(j) = 5 * (m - n) + 2 * r + c + s + (m - p)
  BY DEF Left
<1>0c. /\ 5 * (m - (n + 1)) + 2 * (r + 1) + (c + 2) + s + (m - p) < Left(j)
       /\ n < m => 5 * (m - m) + 2 * r + c + s + (m - p) < Left(j)
       /\ 5 * (m - n) + 2 * r + (c - 1) + s + (m - p) < Left(j)
       /\ 5 * (m - n) + 2 * r + c + (s - 1) + (m - p) < Left(j)
       /\ 5 * (m - n) + 2 * r + c + s + (m - (p + 1)) < Left(j)
  <2> HIDE DEF m, n, r, c, s, p
  <2> QED BY <1>0a, <1>0b, LeftDrops
<1>1. Len(Parts(j))' = Len(Parts(j))
  BY DEF Parts
<1>2. ASSUME UNCHANGED work
      PROVE  Running(j)' = Running(j) /\ Ahead(j)' = Ahead(j)
  BY <1>2 DEF Running, Ahead, At, Slots, Parts
<1>3. CASE GiveUp(j)
  BY <1>3 DEF GiveUp, pool, open
<1>4. CASE Dispatch(j)
  <2>1. UNCHANGED <<sent, pos>>
    BY <1>4 DEF Dispatch, open
  <2>2. Results(j)' = Results(j)
    BY <2>1 DEF Results
  <2>3. /\ next'[j] = next[j] + 1
        /\ Cardinality(Running(j)') = Cardinality(Running(j)) + 1
        /\ Ahead(j)' = Ahead(j) + 2
    BY <1>4, DispatchEffect
  <2>4. Left(j)' = 5 * (m - (n + 1)) + 2 * (r + 1) + (c + 2) + s + (m - p)
    BY <1>1, <2>1, <2>2, <2>3 DEF Left
  <2> QED BY <1>0c, <2>4
<1>5. CASE DispatchStops(j)
  <2>1. UNCHANGED <<work, sent, pos>> /\ next'[j] = Len(Parts(j)) /\ next[j] < Len(Parts(j))
    BY <1>0, <1>5 DEF DispatchStops, open
  <2>2. Results(j)' = Results(j)
    BY <2>1 DEF Results
  <2>3. /\ Cardinality(Running(j)') = Cardinality(Running(j))
        /\ Ahead(j)' = Ahead(j)
    BY <1>2, <2>1
  <2>4. Left(j)' = 5 * (m - m) + 2 * r + c + s + (m - p)
    BY <1>1, <2>1, <2>2, <2>3 DEF Left
  <2> QED BY <1>0c, <2>1, <2>4
<1>6. ASSUME NEW i \in Slots(j), Worker(j, i)
      PROVE  Left(j)' < Left(j)
  <2>1. UNCHANGED <<next, pos>>
    BY <1>6, WorkerEffect
  <2>2. CASE /\ Running(j)' = Running(j) /\ UNCHANGED sent
             /\ Ahead(j)' = Ahead(j) - 1
    <3>1. Results(j)' = Results(j) /\ Cardinality(Running(j)') = Cardinality(Running(j))
      BY <2>2 DEF Results
    <3>2. Left(j)' = 5 * (m - n) + 2 * r + (c - 1) + s + (m - p)
      BY <1>1, <2>1, <2>2, <3>1 DEF Left
    <3> QED BY <1>0c, <3>2
  <2>3. CASE /\ Cardinality(Running(j)') = Cardinality(Running(j)) - 1
             /\ Ahead(j)' \in Nat
             /\ Ahead(j)' <= Ahead(j)
             /\ Results(j)' = Results(j) + 1
    <3> DEFINE d == Ahead(j)'
               t == Results(j)'
    <3>1. d \in Nat /\ t \in Nat /\ d <= c /\ t <= s + 1
      BY <1>0a, <2>3
    <3>2. Left(j)' = 5 * (m - n) + 2 * (r - 1) + d + t + (m - p)
      BY <1>1, <2>1, <2>3 DEF Left
    <3>3. 5 * (m - n) + 2 * (r - 1) + d + t + (m - p) < Left(j)
      <4> HIDE DEF m, n, r, c, s, p, d, t
      <4>1. 5 * (m - n) + 2 * (r - 1) + d + t + (m - p) < 5 * (m - n) + 2 * r + c + s + (m - p)
        BY <1>0a, <3>1, ResultDrops, Zenon
      <4> QED BY <1>0b, <4>1
    <3> QED BY <3>2, <3>3
  <2> QED BY <1>6, <2>2, <2>3, WorkerEffect
<1>7. CASE TakeOk(j)
  <2>1. /\ UNCHANGED <<next, work, pos>>
        /\ sent'[j]["ok"] = sent[j]["ok"] - 1 /\ sent'[j]["err"] = sent[j]["err"]
    BY <1>0, <1>7 DEF TakeOk, Takes, open
  <2>2. /\ Cardinality(Running(j)') = Cardinality(Running(j))
        /\ Ahead(j)' = Ahead(j)
    BY <1>2, <2>1
  <2>3. Results(j)' = Results(j) - 1
    <3>1. sent[j]["ok"] \in Nat /\ sent[j]["err"] \in Nat
      BY <1>0
    <3>2. sent'[j]["ok"] + sent'[j]["err"] = sent[j]["ok"] + sent[j]["err"] - 1
      BY <2>1, <3>1
    <3> QED BY <3>1, <3>2 DEF Results
  <2>4. Left(j)' = 5 * (m - n) + 2 * r + c + (s - 1) + (m - p)
    BY <1>1, <2>1, <2>2, <2>3 DEF Left
  <2> QED BY <1>0c, <2>4
<1>8. CASE WriteChunk(j) \/ ReadTorn(j)
  <2>1. UNCHANGED <<next, work, sent>> /\ pos'[j] = pos[j] + 1
    BY <1>0, <1>8 DEF WriteChunk, ReadTorn, Reads, pool
  <2>2. Results(j)' = Results(j)
    BY <2>1 DEF Results
  <2>3. /\ Cardinality(Running(j)') = Cardinality(Running(j))
        /\ Ahead(j)' = Ahead(j)
    BY <1>2, <2>1
  <2>4. Left(j)' = 5 * (m - n) + 2 * r + c + s + (m - (p + 1))
    BY <1>1, <2>1, <2>2, <2>3 DEF Left
  <2> QED BY <1>0c, <2>4
<1>9. ~ Start(j) /\ ~ ManifestFails(j)
  BY <1>0 DEF Start, Returned, GetsManifest, ManifestFails, Return, Leave, Goto
<1>9a. ~ ManifestHeld(j) /\ ~ ManifestFound(j) /\ ~ ManifestTruncated(j) /\ ~ ManifestStored(j)
  BY <1>0 DEF ManifestHeld, ManifestFound, ManifestTruncated, ManifestStored, Goto
<1>10. ~ TakeErr(j) /\ ~ TakeCancel(j) /\ ~ AddManifest(j)
  BY <1>0 DEF TakeErr, Takes, TakeCancel, AddManifest, Return, Leave, Goto
<1>11. ~ CreateTemp(j) /\ ~ Resize(j)
  BY <1>0 DEF CreateTemp, Resize, Goto
<1>12. ~ Rename(j) /\ ~ RenameFails(j) /\ ~ FileFails(j)
  BY <1>0 DEF Rename, RenameFails, FileFails, LeaveFiles, Return, Leave, Goto
<1> QED BY <1>3, <1>4, <1>5, <1>6, <1>7, <1>8, <1>9, <1>9a, <1>10, <1>11, <1>12 DEF Step, Dispatcher, Main

\* A download takes finitely many steps, for any files, jobs and pool and
\* whatever the others do meanwhile.
THEOREM DownloadBounded == Spec => UsesUp
<1>1. ASSUME Inv, Next, NEW l \in Job, main'[l] = main[l]
      PROVE  \/ Left(l)' < Left(l)
             \/ UNCHANGED <<next[l], work[l], sent[l], taken[l], pos[l]>>
  <2>1. PICK j \in Job : Start(j) \/ GiveUp(j) \/ Step(j)
    BY <1>1 DEF Next
  <2>2. CASE l = j
    BY <1>1, <2>1, <2>2, LeftStep
  <2>3. CASE l # j
    <3>1. l \in Job \ {j}
      BY <2>3
    <3> QED BY <1>1, <2>1, <3>1, OthersStand
  <2> QED BY <2>2, <2>3
<1>2. Inv /\ [Next]_vars
        => [\A j \in Job : main'[j] = main[j] =>
              \/ Left(j)' < Left(j)
              \/ UNCHANGED <<next[j], work[j], sent[j], taken[j], pos[j]>>]_vars
  BY <1>1
<1> QED BY <1>2, Invariance, PTL DEF Spec, UsesUp
=============================================================================
