------------------------------ MODULE SavesFile ------------------------------
(***************************************************************************)
(* What Node.Download promises about the files it saves: a call that       *)
(* succeeds puts the whole file under its name in one step, any other call *)
(* leaves what stands there alone.  The promise ends for a name when two   *)
(* calls have been at work on it at the same time, or when a call for it   *)
(* has read a chunk whose file held nothing just then: from then on what   *)
(* is under the name is anything (Download's ReassembledAsListed).         *)
(***************************************************************************)
CONSTANTS
  Job,      \* callers
  FileOf,   \* FileOf[j]: the file j asks for
  Content,  \* Content[f]: what is in file f
  PathOf,   \* PathOf[f]: the name f is saved under
  Path,     \* names
  None      \* no file

VARIABLES
  busy,    \* calls under way
  torn,    \* chunks whose file holds nothing, as the store is writing it
  loose,   \* loose[p]: the promise has ended for p
  file     \* file[p]: what is under p

vars == <<busy, torn, loose, file>>

Target(j) == PathOf[FileOf[j]]

Init ==
  /\ busy = {}
  /\ torn = {}
  /\ loose = [p \in Path |-> FALSE]
  /\ file = [p \in Path |-> None]

Begin(j) ==
  /\ j \notin busy
  /\ busy' = busy \cup {j}
  /\ UNCHANGED <<torn, loose, file>>

Fail(j) ==
  /\ j \in busy
  /\ busy' = busy \ {j}
  /\ UNCHANGED <<torn, loose, file>>

Save(j) ==
  /\ j \in busy
  /\ busy' = busy \ {j}
  /\ file' = [file EXCEPT ![Target(j)] = Content[FileOf[j]]]
  /\ UNCHANGED <<torn, loose>>

Meet(j, l) ==
  /\ {j, l} \subseteq busy /\ j # l
  /\ Target(j) = Target(l)
  /\ loose' = [loose EXCEPT ![Target(j)] = TRUE]
  /\ UNCHANGED <<busy, torn, file>>

\* The store is at work, for calls under way or for what is left of others.
Rewrite == UNCHANGED <<busy, loose, file>>

\* A chunk of the file is read while it is torn.
Misread(j) ==
  /\ j \in busy
  /\ \E i \in DOMAIN Content[FileOf[j]] : Content[FileOf[j]][i] \in torn
  /\ loose' = [loose EXCEPT ![Target(j)] = TRUE]
  /\ UNCHANGED <<busy, torn, file>>

\* A call for a loose name changes what is there, and may end with it.
Spoil(j) ==
  /\ j \in busy
  /\ loose[Target(j)]
  /\ file' = [file EXCEPT ![Target(j)] = file'[Target(j)]]
  /\ busy' \in {busy, busy \ {j}}
  /\ UNCHANGED <<torn, loose>>

Next ==
  \/ \E j \in Job : Begin(j) \/ Fail(j) \/ Save(j) \/ Misread(j) \/ Spoil(j)
  \/ \E j, l \in Job : Meet(j, l)
  \/ Rewrite

Spec == Init /\ [][Next]_vars
=============================================================================
