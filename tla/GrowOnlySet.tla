----------------------------- MODULE GrowOnlySet -----------------------------
(***************************************************************************)
(* What a tombstone set promises, independently of how it is stored: pairs *)
(* <<number, version>> only ever enter it, and an entry brings all older   *)
(* versions of its number with it.  EntityContainer implements this        *)
(* specification with one integer per number.                              *)
(***************************************************************************)
EXTENDS Integers

CONSTANT Pairs

VARIABLE elements

UpTo(p) == {q \in Pairs : q[1] = p[1] /\ q[2] <= p[2]}

IsDownClosed(set) == \A p \in set : UpTo(p) \subseteq set

Init == elements = {}

Add == /\ elements' \in SUBSET Pairs
       /\ elements \subseteq elements'
       /\ IsDownClosed(elements')

Spec == Init /\ [][Add]_elements
=============================================================================
