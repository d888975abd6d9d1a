------------------------------ MODULE MCDispatch ------------------------------
(***************************************************************************)
(* Constants of the run of Dispatch.                                       *)
(***************************************************************************)
EXTENDS Dispatch, TLC

CONSTANTS d, c1, c2, e, q1, i1, i2

OneDraft == {d}
TwoConfirmers == {c1, c2}
GivenBoth == (c1 :> d @@ c2 :> d)
OneDirect == {e}
OneAnswerer == {q1}
TwoIdents == {i1, i2}

\* A bound: two steps of the outside world, or two sessions of the draft, but
\* not both in one behaviour.
Calm == world <= 1 \/ \E s \in Confirmers : At(s, "draft")
MCNext == Next /\ Calm'
MCSpec == Init /\ [][MCNext]_vars

\* Nothing compares or orders two identities, or two sessions of one draft.
DispatchSymmetry == Permutations(Idents) \cup Permutations(Confirmers)
=============================================================================
