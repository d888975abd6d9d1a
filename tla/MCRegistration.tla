---------------------------- MODULE MCRegistration ----------------------------
(***************************************************************************)
(* Constants of the runs of Registration.                                  *)
(***************************************************************************)
EXTENDS Registration, TLC

CONSTANTS g1, g2, u1, v1

OneRegistrar == {g1}
TwoRegistrars == {g1, g2}
OneUnregistrar == {u1}
OneResolver == {v1}
NoSessions == {}

\* Sessions of one kind are interchangeable: nothing compares two of them.
KindSymmetry == Permutations(Registrars) \cup Permutations(Unregistrars)
=============================================================================
