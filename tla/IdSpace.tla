------------------------------ MODULE IdSpace -------------------------------
(***************************************************************************)
(* Identifiers and the XOR metric of internal/dht/id.go.  An identifier is *)
(* a sequence of bits, most significant first; the code has 256 of them,   *)
(* in bytes.                                                               *)
(***************************************************************************)
EXTENDS Naturals, FiniteSets

CONSTANT Width   \* bits of an identifier

ASSUME WidthAssumption == Width \in Nat \ {0}

Position == 1..Width
Identifier == [Position -> {0, 1}]

\* The all-zero identifier is nobody's.
ZeroId == [i \in Position |-> 0]

Xor(a, b) == [i \in Position |-> IF a[i] = b[i] THEN 0 ELSE 1]

\* bytes.Compare: the first difference decides.
Less(a, b) ==
  \E i \in Position : a[i] < b[i] /\ \A j \in 1..(i - 1) : a[j] = b[j]

LeadingZeros(a) == Cardinality({i \in Position : \A j \in 1..i : a[j] = 0})
=============================================================================
