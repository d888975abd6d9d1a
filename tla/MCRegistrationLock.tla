-------------------------- MODULE MCRegistrationLock --------------------------
(***************************************************************************)
(* Constants of the runs of RegistrationLock.                              *)
(***************************************************************************)
EXTENDS RegistrationLock, TLC

CONSTANTS w1, w2, w3, s1, r1

TwoWriters == {w1, w2}
ThreeWriters == {w1, w2, w3}
OneStrict == {s1}
OneRecoverer == {r1}
None == {}

\* Writers are interchangeable: nothing compares two of them.
WriterSymmetry == Permutations(Writers)
=============================================================================
