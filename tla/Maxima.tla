------------------------------- MODULE Maxima -------------------------------
(***************************************************************************)
(* Finite sets have maxima: why there always is a most reliable detection  *)
(* among those that finitely many cameras report.                          *)
(***************************************************************************)
EXTENDS Naturals, FiniteSetTheorems, TLAPS

\* Of finitely many elements one has the greatest number. (A set without one that
\* is minimal would have one without any of its elements.)
LEMMA GreatestExists ==
    ASSUME NEW S, IsFiniteSet(S), S # {}, NEW f \in [S -> Nat]
    PROVE  \E m \in S : \A x \in S : f[x] <= f[m]
<1> DEFINE Greatest(T) == \E m \in T : \A x \in T : f[x] <= f[m]
           Bad == {T \in FiniteSubsetsOf(S) : T # {} /\ ~Greatest(T)}
<1>1. ASSUME NEW T \in Bad
      PROVE  \E Z \in Bad : <<Z, T>> \in StrictSubsetOrdering(S)
  <2>1. PICK x \in T : TRUE
    OBVIOUS
  <2> DEFINE Z == T \ {x}
  <2>2. /\ T \in SUBSET S /\ IsFiniteSet(T) /\ x \in S
        /\ Z \in SUBSET S /\ IsFiniteSet(Z) /\ Z # T
    BY <2>1, FS_RemoveElement DEF FiniteSubsetsOf
  <2>3. Z # {} /\ ~Greatest(Z)
    <3>1. \A y \in T : f[y] \in Nat
      BY <2>2
    <3>2. CASE Z = {}
      <4>1. T = {x}
        BY <2>1, <3>2
      <4> QED BY <3>1, <4>1
    <3>3. CASE Greatest(Z)
      <4>1. PICK m \in Z : \A y \in Z : f[y] <= f[m]
        BY <3>3
      <4>2. CASE f[x] <= f[m]
        <5>1. \A y \in T : f[y] <= f[m]
          BY <4>1, <4>2
        <5> QED BY <5>1
      <4>3. CASE ~(f[x] <= f[m])
        <5>1. \A y \in T : f[y] <= f[x]
          BY <2>1, <3>1, <4>1, <4>3
        <5> QED BY <2>1, <5>1
      <4> QED BY <4>2, <4>3
    <3> QED BY <3>2, <3>3
  <2> QED BY <2>1, <2>2, <2>3 DEF FiniteSubsetsOf, StrictSubsetOrdering
<1>2. Bad = {}
  BY <1>1, WFMin, FS_StrictSubsetOrderingWellFounded
<1>3. S \in FiniteSubsetsOf(S)
  BY DEF FiniteSubsetsOf
<1> QED BY <1>2, <1>3
=============================================================================
