---------------------------- MODULE MCChangeSignal ----------------------------
(***************************************************************************)
(* Constants of the runs of ChangeSignal.                                  *)
(***************************************************************************)
EXTENDS ChangeSignal, TLC

CONSTANTS o1, o2, o3, w1, w2, dot, abs, h1, h2, clean, dirty

TwoObservers == {o1, o2}
ThreeObservers == {o1, o2, o3}
TwoWorkspaces == {w1, w2}
TwoHeads == {h1, h2}
OneStatus == {clean}
TwoStatuses == {clean, dirty}

\* The relative path "." leads to where the command is started; the absolute
\* path of the first workspace always leads there.
TwoPaths == {dot, abs}
InsideEither == {[path \in TwoPaths |-> w1], (dot :> w2 @@ abs :> w1)}
InsideSecond == {dot :> w2 @@ abs :> w1}

\* The same path twice, or the other path once.
TwiceOrOther == {<<dot, dot>>, <<abs>>}
InTurn == {<<abs, dot>>}

\* Nothing compares two observers, commits or listings but for equality.
DataSymmetry == Permutations(Observers) \cup Permutations(Heads) \cup Permutations(Statuses)
=============================================================================
