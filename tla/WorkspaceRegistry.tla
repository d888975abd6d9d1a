--------------------------- MODULE WorkspaceRegistry ---------------------------
(***************************************************************************)
(* What registration promises for one workspace, without files, locks or   *)
(* a projection: the workspace is registered under at most one identity;   *)
(* a session publishes its own fresh identity into an unregistered         *)
(* workspace, or retires the identity it has chosen, in one atomic step,   *)
(* at most once; and what it reports agrees with what it did.              *)
(***************************************************************************)
CONSTANTS
  Sessions,   \* one command each; a registering session is its identity
  Idents,     \* the identities
  None        \* unregistered

VARIABLES
  current,    \* the workspace's identity, or None
  chosen,     \* the identity each session saw and bound, or None
  effect,     \* what each session did
  report      \* what each session reported, "none" until it does

registryVars == <<current, chosen, effect, report>>

\* The outcomes that tell the truth about what a session did and saw.
Truthful(done, saw) ==
  CASE done = "published" -> {"registered", "registered-unlinked", "conflict",
                              "written-unverified", "error", "crashed"}
    [] done = "retired"   -> {"unregistered", "changed-marker-stopped", "crashed"}
    [] done = "nothing"   ->
         {"occupied-invalid", "changed-marker-stopped", "written-unverified",
          "stopped", "cancelled", "error", "crashed",
          "not-invalid", "invalid-marker-resolved", "invalid-deleted-unverified"}
         \cup (IF saw # None THEN {"linked-existing", "conflict"} ELSE {})

Init ==
  /\ current \in Idents \cup {None}
  /\ chosen = [p \in Sessions |-> None]
  /\ effect = [p \in Sessions |-> "nothing"]
  /\ report = [p \in Sessions |-> "none"]

Choose(p) ==
  /\ chosen[p] = None
  /\ report[p] = "none"
  /\ current # None
  /\ chosen' = [chosen EXCEPT ![p] = current]
  /\ UNCHANGED <<current, effect, report>>

Publish(p) ==
  /\ current = None
  /\ effect[p] = "nothing"
  /\ report[p] = "none"
  /\ current' = p
  /\ effect' = [effect EXCEPT ![p] = "published"]
  /\ UNCHANGED chosen

Retire(p) ==
  /\ current # None
  /\ current = chosen[p]
  /\ effect[p] = "nothing"
  /\ report[p] = "none"
  /\ current' = None
  /\ effect' = [effect EXCEPT ![p] = "retired"]
  /\ UNCHANGED chosen

Report(p) ==
  /\ report[p] = "none"
  /\ \E r \in Truthful(effect'[p], chosen[p]) : report' = [report EXCEPT ![p] = r]

\* A session may report in the step that takes effect: a write that fails
\* after the last byte has both published and failed.
Next ==
  \E p \in Sessions :
    \/ Choose(p)
    \/ (Publish(p) \/ Retire(p)) /\ (UNCHANGED report \/ Report(p))
    \/ Report(p) /\ UNCHANGED <<current, chosen, effect>>

Spec == Init /\ [][Next]_registryVars
=============================================================================
