----------------------------- MODULE MCProjection -----------------------------
(***************************************************************************)
(* Constants of the runs of Projection.                                    *)
(***************************************************************************)
EXTENDS Projection, TLC

CONSTANTS t1, t2, i1, i2, a, b, c, l1, f1, r1

TwoTargets == {t1, t2}
TwoIdents == {i1, i2}
ThreePaths == {a, b, c}
OneLinker == {l1}
OneForgetter == {f1}
OneRebuilder == {r1}
ThreeRoots == (r1 :> <<a, b, c>>)

\* b is an alias of a when the sessions begin; c may be one too.
MCInit == Init /\ leads[a] # None /\ leads[b] = leads[a]
MCSpec == MCInit /\ [][Next]_vars

\* Nothing compares or orders two targets or two identities.
DataSymmetry == Permutations(Targets) \cup Permutations(Idents)
=============================================================================
