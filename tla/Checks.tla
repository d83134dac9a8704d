--------------------------------- MODULE Checks ---------------------------------
(***************************************************************************)
(* Syvert's contracts are checked by chains of checks that stop at the first *)
(* one that fails, and by normalisations that drop the entries of a list     *)
(* that have a fault.  A value of a wrong type, or one that is missing, is   *)
(* None.                                                                     *)
(***************************************************************************)
EXTENDS Naturals, FiniteSets, SequencesExt

CONSTANT None

\* The fault of the first check <<condition, fault>> whose condition holds.
FirstFault(checks) ==
  LET failing == {i \in DOMAIN checks : checks[i][1]}
  IN IF failing = {} THEN None ELSE checks[Min(failing)][2]

\* All the faults of a list of checks <<condition, fault>>.
AllFaults(checks) == {checks[i][2] : i \in {j \in DOMAIN checks : checks[j][1]}}

\* A list of the elements of a set, always the same one: it stands for the sorted list.
Listing(elements) == SetToSeq(elements)

\* The entries of a list at the given places, in their order.
At(list, places) ==
  [n \in 1..Cardinality(places) |-> list[CHOOSE i \in places : Cardinality({j \in places : j <= i}) = n]]

\* Lists are functions on an initial part of the numbers.
IsList(list) == Len(list) \in Nat /\ list = [i \in 1..Len(list) |-> list[i]]

\* A list of strings without a repetition.
StringList(list) == IF list # None THEN IsInjective(list) /\ None \notin ToSet(list) ELSE FALSE
=============================================================================
