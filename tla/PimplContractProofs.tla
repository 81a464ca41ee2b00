------------------------- MODULE PimplContractProofs -------------------------
(***************************************************************************)
(* The contract is worth implementing: whatever is agreed on and issued,   *)
(* in whatever order, the code issued for one name is consistent.          *)
(***************************************************************************)
EXTENDS PimplContract, TLAPS

\* What was issued for a name is the list that is agreed on for it, and that
\* list can no longer change.
IssuedIsAgreed ==
  /\ DOMAIN agreed = Names
  /\ \A p \in issued :
       /\ p[1] \in Names
       /\ agreed[p[1]] # Undecided
       /\ p[2] = agreed[p[1]]

\* Everything issued is what was agreed on.
LEMMA IssuedIsAgreedHolds == Spec => []IssuedIsAgreed
<1>1. Init => IssuedIsAgreed
  BY DEF Init, IssuedIsAgreed
<1>2. IssuedIsAgreed /\ [Next]_vars => IssuedIsAgreed'
  <2> SUFFICES ASSUME IssuedIsAgreed, [Next]_vars PROVE IssuedIsAgreed'
    OBVIOUS
  <2>1. ASSUME NEW n \in Names, Agree(n) PROVE IssuedIsAgreed'
    <3>1. DOMAIN agreed' = Names /\ issued' = issued
      BY <2>1 DEF Agree, IssuedIsAgreed
    <3>2. \A p \in issued : agreed'[p[1]] = agreed[p[1]]
      BY <2>1 DEF Agree, IssuedIsAgreed
    <3> QED BY <3>1, <3>2 DEF IssuedIsAgreed
  <2>2. ASSUME NEW n \in Names, Issue(n) PROVE IssuedIsAgreed'
    BY <2>2 DEF Issue, IssuedIsAgreed
  <2>3. CASE UNCHANGED vars
    BY <2>3 DEF vars, IssuedIsAgreed
  <2> QED BY <2>1, <2>2, <2>3 DEF Next
<1> QED BY <1>1, <1>2, PTL DEF Spec

\* All the code issued for one class, declarations and definitions, lists
\* the same methods: what injectPimplMethodCalls inherits by implementing
\* the contract.
THEOREM ContractIsConsistent == Spec => []Consistent
<1>1. IssuedIsAgreed => Consistent
  BY DEF IssuedIsAgreed, Consistent
<1> QED BY <1>1, IssuedIsAgreedHolds, PTL

=============================================================================
