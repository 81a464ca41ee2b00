---------------------------- MODULE PimplContract ----------------------------
(***************************************************************************)
(* What the pimpl generator promises, without caches, units or annotations:*)
(* for every implementation class the list of wrapped methods is agreed on *)
(* once and for all, and every piece of code issued for the class, be it   *)
(* the declarations in the header or the definitions in the source file,   *)
(* lists exactly the agreed methods.                                       *)
(***************************************************************************)
CONSTANTS
  Names,      \* of implementation classes
  Lists,      \* lists of methods that can be agreed on
  Undecided   \* nothing has been agreed on yet

VARIABLES
  agreed,     \* name |-> the agreed list, or Undecided
  issued      \* the pairs <<name, list>> that generated code contains

vars == <<agreed, issued>>

Init ==
  /\ agreed = [n \in Names |-> Undecided]
  /\ issued = {}

Agree(n) ==
  /\ agreed[n] = Undecided
  /\ \E list \in Lists : agreed' = [agreed EXCEPT ![n] = list]
  /\ UNCHANGED issued

Issue(n) ==
  /\ agreed[n] # Undecided
  /\ issued' = issued \cup {<<n, agreed[n]>>}
  /\ UNCHANGED agreed

Next == \E n \in Names : Agree(n) \/ Issue(n)

Spec == Init /\ [][Next]_vars

\* All code ever issued for one name, declarations and definitions alike,
\* lists the same methods.
Consistent ==
  \A p, q \in issued : p[1] = q[1] => p[2] = q[2]

=============================================================================
