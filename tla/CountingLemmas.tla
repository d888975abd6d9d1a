---------------------------- MODULE CountingLemmas ----------------------------
(***************************************************************************)
(* Induction over the natural numbers, stated for a set: the induction     *)
(* theorems of the library take an operator, which no prover installed     *)
(* here instantiates.  A set is a parameter like any other.                *)
(***************************************************************************)
EXTENDS FiniteSetTheorems, FunctionTheorems, TLAPS

\* A set that holds zero, and with a number the next one, holds them all.  A
\* number outside it would make the numbers up to that one that are outside a
\* finite set that stepping down by one maps into itself, hence onto itself:
\* but what steps down to the number itself is not among them.
LEMMA SetInduction ==
  ASSUME NEW S, 0 \in S, \A n \in Nat : n \in S => n + 1 \in S
  PROVE  \A n \in Nat : n \in S
<1> SUFFICES ASSUME NEW n \in Nat, n \notin S PROVE FALSE
  OBVIOUS
<1> DEFINE T == {m \in 0 .. n : m \notin S}
           f == [m \in T |-> m - 1]
<1>1. IsFiniteSet(T)
  <2>1. IsFiniteSet(0 .. n)
    BY FS_Interval
  <2>2. T \in SUBSET (0 .. n)
    OBVIOUS
  <2>3. QED
    BY <2>1, <2>2, FS_Subset
<1>2. \A m \in T : m - 1 \in T
  <2> SUFFICES ASSUME NEW m \in T PROVE m - 1 \in 0 .. n /\ m - 1 \notin S
    OBVIOUS
  <2>1. m # 0 /\ m - 1 \in Nat
    OBVIOUS
  <2>2. QED
    BY <2>1
<1>3. f \in Injection(T, T)
  <2>1. f \in [T -> T]
    BY <1>2
  <2>2. \A a, b \in T : f[a] = f[b] => a = b
    OBVIOUS
  <2>3. QED
    BY <2>1, <2>2, Fun_IsInj
<1>4. f \in Surjection(T, T)
  <2> HIDE DEF f, T
  <2>1. Cardinality(T) = Cardinality(T) <=> f \in Surjection(T, T)
    BY <1>1, <1>3, FS_Injection
  <2>2. QED
    BY <2>1
<1>5. \A t \in T : \E s \in T : f[s] = t
  <2> HIDE DEF f, T
  <2>1. QED
    BY <1>4, Fun_SurjectionProperties
<1>6. n \in T
  OBVIOUS
<1>7. QED
  BY <1>5, <1>6
=============================================================================
