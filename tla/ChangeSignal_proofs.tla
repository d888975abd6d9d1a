-------------------------- MODULE ChangeSignal_proofs --------------------------
(***************************************************************************)
(* Theorems about ChangeSignal for any observers, workspaces, paths, scan  *)
(* lists, directories, git states and bounds.                              *)
(***************************************************************************)
EXTENDS ChangeSignal, TLAPS

Working == {"head", "status", "compare", "bootstrap", "changed"}

\* An observer at work is at a path, and the path leads to a workspace.
LEMMA AtWork ==
  ASSUME TypeOK, NEW o \in Observers, pc[o] \in Working
  PROVE  Path(o) \in Paths /\ Place(o) \in Workspaces
<1>1. scan[o] \in Seq(Paths) /\ leads[o] \in [Paths -> Workspaces]
  BY ChangeSignalAssumption DEF TypeOK
<1>2. Len(entries[o]) < Len(scan[o]) /\ Len(entries[o]) \in Nat
  BY DEF TypeOK, Working
<1>3. Path(o) \in Paths
  BY <1>1, <1>2 DEF Path
<1>4. QED
  BY <1>1, <1>3 DEF Place

\* What an entry added to an answer leaves as it was.
LEMMA EntryAdded ==
  ASSUME TypeOK, NEW o \in Observers, NEW entry \in Entries,
         entries' = [entries EXCEPT ![o] = Append(@, entry)]
  PROVE  /\ entries' \in [Observers -> Seq(Entries)]
         /\ DOMAIN entries'[o] = DOMAIN entries[o] \cup {Len(entries[o]) + 1}
         /\ entries'[o][Len(entries[o]) + 1] = entry
         /\ \A p \in Observers \ {o} : entries'[p] = entries[p]
         /\ \A p \in Observers : \A m \in DOMAIN entries[p] :
              m \in DOMAIN entries'[p] /\ entries'[p][m] = entries[p][m]
<1>1. entries[o] \in Seq(Entries)
  BY DEF TypeOK
<1>2. /\ entries'[o] = Append(entries[o], entry)
      /\ \A p \in Observers \ {o} : entries'[p] = entries[p]
  BY DEF TypeOK
<1>3. /\ entries'[o] \in Seq(Entries)
      /\ DOMAIN entries[o] = 1 .. Len(entries[o])
      /\ DOMAIN entries'[o] = 1 .. (Len(entries[o]) + 1)
      /\ entries'[o][Len(entries[o]) + 1] = entry
      /\ \A m \in DOMAIN entries[o] : entries'[o][m] = entries[o][m]
      /\ Len(entries[o]) \in Nat
  BY <1>1, <1>2
<1>4. entries' \in [Observers -> Seq(Entries)]
  BY <1>2, <1>3 DEF TypeOK
<1>5. \A p \in Observers : \A m \in DOMAIN entries[p] :
        m \in DOMAIN entries'[p] /\ entries'[p][m] = entries[p][m]
  BY <1>2, <1>3
<1>6. QED
  BY <1>2, <1>3, <1>4, <1>5

(***************************************************************************)
(* The inductive invariant.  A baseline was recorded by somebody since the *)
(* last wipe, and what an observer decided when it read the baseline still *)
(* holds, unless it is stale.                                              *)
(***************************************************************************)
WasRecorded(path, c, e) ==
  \E p \in Observers : \E m \in DOMAIN entries[p] : Records(entries[p][m], path, c, e)

BaselineWasRecorded ==
  \A path \in Paths :
    baseline[path] # None => WasRecorded(path, baseline[path], wipes)

DecisionHolds ==
  \A o \in Observers \ stale :
    /\ At(o, "bootstrap") => baseline[Path(o)] = None
    /\ At(o, "changed") => baseline[Path(o)] \notin {None, state[o]}

\* What an observer at its second command has read by the first one is the
\* HEAD of a state its workspace was in, and the present state is among those.
HeadWasShown ==
  \A o \in Observers :
    At(o, "status") =>
      /\ git[Place(o)] \in shown[o]
      /\ \E g \in shown[o] : g.head_oid = state[o].head_oid

Inv == TypeOK /\ BaselineWasRecorded /\ UnchangedWasSeen
         /\ DecisionHolds /\ HeadWasShown /\ SnapshotUnlessMoved

LEMMA InitInv == Init => Inv
<1> SUFFICES ASSUME Init PROVE Inv
  OBVIOUS
<1>1. TypeOK
  BY ChangeSignalAssumption DEF Init, TypeOK, PCs, At
<1>2. BaselineWasRecorded /\ UnchangedWasSeen /\ DecisionHolds
  BY DEF Init, BaselineWasRecorded, UnchangedWasSeen, DecisionHolds, At
<1>3. HeadWasShown /\ SnapshotUnlessMoved
  BY DEF Init, HeadWasShown, SnapshotUnlessMoved, At
<1>4. QED
  BY <1>1, <1>2, <1>3 DEF Inv

\* Between two paths, and after its end, an observer has nothing captured that
\* matters, and what the others have is not touched by its steps.
LEMMA OthersCapture ==
  ASSUME HeadWasShown, SnapshotUnlessMoved, NEW o \in Observers,
         UNCHANGED <<git, scan, leads>>,
         \A p \in Observers \ {o} :
           /\ pc'[p] = pc[p] /\ state'[p] = state[p]
           /\ shown'[p] = shown[p] /\ entries'[p] = entries[p],
         pc'[o] \in {"next", "head", "told", "failed", "dead"}
  PROVE  (HeadWasShown /\ SnapshotUnlessMoved)'
<1>1. \A p \in Observers \ {o} : Place(p)' = Place(p)
  BY DEF Place, Path
<1>2. HeadWasShown'
  BY <1>1 DEF HeadWasShown, At
<1>3. SnapshotUnlessMoved'
  BY DEF SnapshotUnlessMoved
<1>4. QED
  BY <1>2, <1>3

\* What was seen stays seen while entries are added that say something else.
LEMMA SeenStays ==
  ASSUME UnchangedWasSeen,
         \A p \in Observers : \A m \in DOMAIN entries[p] :
           m \in DOMAIN entries'[p] /\ entries'[p][m] = entries[p][m],
         NEW q \in Observers, NEW k \in DOMAIN entries'[q],
         k \in DOMAIN entries[q] \/ entries'[q][k].change_signal # "unchanged"
  PROVE  entries'[q][k].change_signal = "unchanged" =>
           \E p \in Observers : \E m \in DOMAIN entries'[p] :
             /\ p = q => m < k
             /\ Records(entries'[p][m], entries'[q][k].workspace_path,
                        entries'[q][k].captured, entries'[q][k].era)
<1> SUFFICES ASSUME entries'[q][k].change_signal = "unchanged"
             PROVE  \E p \in Observers : \E m \in DOMAIN entries'[p] :
                      /\ p = q => m < k
                      /\ Records(entries'[p][m], entries'[q][k].workspace_path,
                                 entries'[q][k].captured, entries'[q][k].era)
  OBVIOUS
<1>1. k \in DOMAIN entries[q] /\ entries'[q][k] = entries[q][k]
  OBVIOUS
<1>2. PICK p \in Observers : \E m \in DOMAIN entries[p] :
            /\ p = q => m < k
            /\ Records(entries[p][m], entries[q][k].workspace_path,
                       entries[q][k].captured, entries[q][k].era)
  BY <1>1 DEF UnchangedWasSeen
<1>3. PICK m \in DOMAIN entries[p] :
            /\ p = q => m < k
            /\ Records(entries[p][m], entries[q][k].workspace_path,
                       entries[q][k].captured, entries[q][k].era)
  BY <1>2
<1>4. m \in DOMAIN entries'[p] /\ entries'[p][m] = entries[p][m]
  OBVIOUS
<1>5. QED
  BY <1>1, <1>3, <1>4

\* Steps of an observer that only take it elsewhere, or end it.
Moves(o) ==
  \/ ComeTo(o) \/ NoBaseline(o) \/ BaselineDiffers(o)
  \/ StoreFails(o) \/ Tell(o) \/ Crash(o)

LEMMA MovesInv ==
  ASSUME Inv, NEW o \in Observers, Moves(o)
  PROVE  Inv'
<1> USE DEF Inv, command, ghosts, At, Goto, Ends, Moves, ComeTo, NoBaseline,
           BaselineDiffers, StoreFails, Tell, Crash
<1>1. TypeOK'
  BY DEF TypeOK, PCs
<1>2. (BaselineWasRecorded /\ UnchangedWasSeen)'
  BY DEF BaselineWasRecorded, WasRecorded, UnchangedWasSeen
<1>3. DecisionHolds'
  BY DEF TypeOK, DecisionHolds, Path
<1>4. (HeadWasShown /\ SnapshotUnlessMoved)'
  <2>1. CASE NoBaseline(o) \/ BaselineDiffers(o)
    BY <2>1 DEF TypeOK, HeadWasShown, SnapshotUnlessMoved, Place, Path
  <2>2. CASE ComeTo(o) \/ StoreFails(o) \/ Tell(o) \/ Crash(o)
    <3>1. pc'[o] \in {"next", "head", "told", "failed", "dead"}
      BY <2>2 DEF TypeOK
    <3>2. /\ UNCHANGED <<git, scan, leads>>
          /\ \A p \in Observers \ {o} :
               /\ pc'[p] = pc[p] /\ state'[p] = state[p]
               /\ shown'[p] = shown[p] /\ entries'[p] = entries[p]
      BY <2>2 DEF TypeOK
    <3>3. QED
      BY <3>1, <3>2, OthersCapture
  <2>3. QED
    BY <2>1, <2>2
<1>5. QED
  BY <1>1, <1>2, <1>3, <1>4

LEMMA ReadHeadInv ==
  ASSUME Inv, NEW o \in Observers, ReadHead(o)
  PROVE  Inv'
<1> USE DEF Inv, command, At, Goto, ReadHead
<1>1. TypeOK'
  <2>1. Place(o) \in Workspaces
    BY AtWork DEF Working
  <2>2. git[Place(o)] \in Captures /\ git[Place(o)].head_oid \in Heads
    BY <2>1 DEF TypeOK, Captures
  <2>3. [head_oid |-> git[Place(o)].head_oid, worktree |-> None] \in Readings
    BY <2>2 DEF Readings
  <2>4. QED
    BY <2>2, <2>3 DEF TypeOK, PCs
<1>2. (BaselineWasRecorded /\ UnchangedWasSeen)'
  BY DEF BaselineWasRecorded, WasRecorded, UnchangedWasSeen
<1>3. DecisionHolds'
  BY DEF TypeOK, DecisionHolds, Path
<1>4. (HeadWasShown /\ SnapshotUnlessMoved)'
  BY DEF TypeOK, Captures, HeadWasShown, SnapshotUnlessMoved, Place, Path
<1>5. QED
  BY <1>1, <1>2, <1>3, <1>4

LEMMA ReadStatusInv ==
  ASSUME Inv, NEW o \in Observers, ReadStatus(o)
  PROVE  Inv'
<1> USE DEF Inv, command, ghosts, At, Goto, ReadStatus
<1>1. Place(o) \in Workspaces
  BY AtWork DEF Working
<1>2. TypeOK'
  BY <1>1 DEF TypeOK, PCs, Captures, Readings
<1>3. (BaselineWasRecorded /\ UnchangedWasSeen)'
  BY DEF BaselineWasRecorded, WasRecorded, UnchangedWasSeen
<1>4. DecisionHolds'
  BY DEF TypeOK, DecisionHolds, Path
<1>5. HeadWasShown'
  BY DEF TypeOK, HeadWasShown, Place, Path
<1>6. state'[o] = [head_oid |-> state[o].head_oid, worktree |-> git[Place(o)].worktree]
  BY DEF TypeOK, Readings
<1>7. state'[o] \in shown[o] \/ \E g \in shown[o] : g.head_oid # state'[o].head_oid
  <2>1. git[Place(o)] \in shown[o]
    BY DEF HeadWasShown
  <2>2. git[Place(o)] = [head_oid |-> git[Place(o)].head_oid, worktree |-> git[Place(o)].worktree]
    BY <1>1 DEF TypeOK, Captures
  <2>3. QED
    BY <1>6, <2>1, <2>2
<1>8. SnapshotUnlessMoved'
  BY <1>7 DEF TypeOK, SnapshotUnlessMoved
<1>9. QED
  BY <1>2, <1>3, <1>4, <1>5, <1>8

LEMMA GitFailsInv ==
  ASSUME Inv, NEW o \in Observers, GitFails(o)
  PROVE  /\ Inv'
         /\ Path(o) \in Paths
         /\ entries' = [entries EXCEPT ![o] = Append(@,
              [workspace_path |-> Path(o), change_signal |-> "unsupported",
               captured |-> None, era |-> wipes])]
<1> USE DEF Inv, GitFails, Found, At, Goto, command
<1> DEFINE entry == [workspace_path |-> Path(o), change_signal |-> "unsupported",
                     captured |-> None, era |-> wipes]
<1>1. Path(o) \in Paths
  BY AtWork DEF Working
<1>2. entry \in Entries /\ entries' = [entries EXCEPT ![o] = Append(@, entry)]
  BY <1>1 DEF Entries, TypeOK
<1>3. /\ entries' \in [Observers -> Seq(Entries)]
      /\ DOMAIN entries'[o] = DOMAIN entries[o] \cup {Len(entries[o]) + 1}
      /\ entries'[o][Len(entries[o]) + 1] = entry
      /\ \A p \in Observers \ {o} : entries'[p] = entries[p]
      /\ \A p \in Observers : \A m \in DOMAIN entries[p] :
           m \in DOMAIN entries'[p] /\ entries'[p][m] = entries[p][m]
  BY <1>2, EntryAdded
<1> HIDE DEF entry
<1>4. TypeOK'
  BY <1>3 DEF TypeOK, PCs
<1>5. BaselineWasRecorded'
  BY <1>3 DEF BaselineWasRecorded, WasRecorded
<1>6. UnchangedWasSeen'
  <2>1. \A q \in Observers : \A k \in DOMAIN entries'[q] :
          k \in DOMAIN entries[q] \/ entries'[q][k].change_signal # "unchanged"
    BY <1>3 DEF entry
  <2>2. \A q \in Observers : \A k \in DOMAIN entries'[q] :
          entries'[q][k].change_signal = "unchanged" =>
            \E p \in Observers : \E m \in DOMAIN entries'[p] :
              /\ p = q => m < k
              /\ Records(entries'[p][m], entries'[q][k].workspace_path,
                         entries'[q][k].captured, entries'[q][k].era)
    <3> TAKE q \in Observers
    <3> TAKE k \in DOMAIN entries'[q]
    <3>1. k \in DOMAIN entries[q] \/ entries'[q][k].change_signal # "unchanged"
      BY <2>1
    <3>2. QED
      BY <1>3, <3>1, SeenStays
  <2>3. QED
    BY <2>2 DEF UnchangedWasSeen
<1>7. DecisionHolds'
  BY <1>3 DEF TypeOK, DecisionHolds, Path
<1>8. (HeadWasShown /\ SnapshotUnlessMoved)'
  <2>1. pc'[o] = "next"
    BY DEF TypeOK
  <2>2. /\ UNCHANGED <<git, scan, leads>>
        /\ \A p \in Observers \ {o} :
             /\ pc'[p] = pc[p] /\ state'[p] = state[p]
             /\ shown'[p] = shown[p] /\ entries'[p] = entries[p]
    BY <1>3 DEF TypeOK
  <2>3. QED
    BY <2>1, <2>2, OthersCapture
<1>9. QED
  BY <1>1, <1>2, <1>4, <1>5, <1>6, <1>7, <1>8 DEF entry

LEMMA BaselineEqualInv ==
  ASSUME Inv, NEW o \in Observers, BaselineEqual(o)
  PROVE  Inv'
<1> USE DEF Inv, BaselineEqual, Found, At, Goto, command
<1> DEFINE entry == [workspace_path |-> Path(o), change_signal |-> "unchanged",
                     captured |-> state[o], era |-> wipes]
<1>1. /\ Path(o) \in Paths /\ state[o] \in Captures
      /\ baseline[Path(o)] = state[o] /\ state[o] # None
  BY AtWork, ChangeSignalAssumption DEF Working, TypeOK
<1>2. entry \in Entries /\ entries' = [entries EXCEPT ![o] = Append(@, entry)]
  BY <1>1 DEF Entries, TypeOK
<1>3. /\ entries' \in [Observers -> Seq(Entries)]
      /\ DOMAIN entries'[o] = DOMAIN entries[o] \cup {Len(entries[o]) + 1}
      /\ entries'[o][Len(entries[o]) + 1] = entry
      /\ \A p \in Observers \ {o} : entries'[p] = entries[p]
      /\ \A p \in Observers : \A m \in DOMAIN entries[p] :
           m \in DOMAIN entries'[p] /\ entries'[p][m] = entries[p][m]
  BY <1>2, EntryAdded
<1> HIDE DEF entry
<1>4. TypeOK'
  BY <1>3 DEF TypeOK, PCs
<1>5. BaselineWasRecorded'
  BY <1>3 DEF BaselineWasRecorded, WasRecorded
<1>6. UnchangedWasSeen'
  <2> SUFFICES ASSUME NEW q \in Observers, NEW k \in DOMAIN entries'[q],
                      entries'[q][k].change_signal = "unchanged"
               PROVE  \E p \in Observers : \E m \in DOMAIN entries'[p] :
                        /\ p = q => m < k
                        /\ Records(entries'[p][m], entries'[q][k].workspace_path,
                                   entries'[q][k].captured, entries'[q][k].era)
    BY DEF UnchangedWasSeen
  <2>1. CASE k \in DOMAIN entries[q]
    BY <1>3, <2>1, SeenStays
  <2>2. CASE k \notin DOMAIN entries[q]
    <3>1. q = o /\ k = Len(entries[o]) + 1 /\ entries'[q][k] = entry
      BY <1>3, <2>2
    <3>2. PICK p \in Observers : \E m \in DOMAIN entries[p] :
                Records(entries[p][m], Path(o), state[o], wipes)
      BY <1>1 DEF BaselineWasRecorded, WasRecorded
    <3>3. PICK m \in DOMAIN entries[p] : Records(entries[p][m], Path(o), state[o], wipes)
      BY <3>2
    <3>4. p = o => m < k
      BY <3>1 DEF TypeOK
    <3>5. QED
      BY <1>3, <3>1, <3>3, <3>4 DEF entry
  <2>3. QED
    BY <2>1, <2>2
<1>7. DecisionHolds'
  BY <1>3 DEF TypeOK, DecisionHolds, Path
<1>8. (HeadWasShown /\ SnapshotUnlessMoved)'
  <2>1. pc'[o] = "next"
    BY DEF TypeOK
  <2>2. /\ UNCHANGED <<git, scan, leads>>
        /\ \A p \in Observers \ {o} :
             /\ pc'[p] = pc[p] /\ state'[p] = state[p]
             /\ shown'[p] = shown[p] /\ entries'[p] = entries[p]
    BY <1>3 DEF TypeOK
  <2>3. QED
    BY <2>1, <2>2, OthersCapture
<1>9. QED
  BY <1>4, <1>5, <1>6, <1>7, <1>8

LEMMA SetBaselineInv ==
  ASSUME Inv, NEW o \in Observers, SetBaseline(o)
  PROVE  Inv'
<1> USE DEF Inv, SetBaseline, Found, At, Goto, command
<1> DEFINE entry == [workspace_path |-> Path(o), change_signal |-> pc[o],
                     captured |-> state[o], era |-> wipes]
<1>1. Path(o) \in Paths /\ state[o] \in Captures
  BY AtWork DEF Working, TypeOK
<1>2. entry \in Entries /\ entries' = [entries EXCEPT ![o] = Append(@, entry)]
  BY <1>1 DEF Entries, TypeOK
<1>3. /\ entries' \in [Observers -> Seq(Entries)]
      /\ DOMAIN entries'[o] = DOMAIN entries[o] \cup {Len(entries[o]) + 1}
      /\ entries'[o][Len(entries[o]) + 1] = entry
      /\ \A p \in Observers \ {o} : entries'[p] = entries[p]
      /\ \A p \in Observers : \A m \in DOMAIN entries[p] :
           m \in DOMAIN entries'[p] /\ entries'[p][m] = entries[p][m]
  BY <1>2, EntryAdded
<1> HIDE DEF entry
<1>4. TypeOK'
  BY <1>1, <1>3 DEF TypeOK, PCs, Replacing
<1>5. BaselineWasRecorded'
  <2> SUFFICES ASSUME NEW path \in Paths, baseline'[path] # None
               PROVE  WasRecorded(path, baseline[path], wipes)'
    BY DEF BaselineWasRecorded
  <2>1. CASE path = Path(o)
    <3>1. baseline'[path] = state[o]
      BY <1>1, <2>1 DEF TypeOK
    <3>2. Records(entry, path, state[o], wipes)
      BY <2>1 DEF Records, entry
    <3>3. QED
      BY <1>3, <3>1, <3>2 DEF WasRecorded
  <2>2. CASE path # Path(o)
    <3>1. baseline'[path] = baseline[path]
      BY <2>2 DEF TypeOK
    <3>2. WasRecorded(path, baseline[path], wipes)
      BY <3>1 DEF BaselineWasRecorded
    <3>3. QED
      BY <1>3, <3>1, <3>2 DEF WasRecorded
  <2>3. QED
    BY <2>1, <2>2
<1>6. UnchangedWasSeen'
  <2>1. \A q \in Observers : \A k \in DOMAIN entries'[q] :
          k \in DOMAIN entries[q] \/ entries'[q][k].change_signal # "unchanged"
    BY <1>3 DEF entry
  <2>2. \A q \in Observers : \A k \in DOMAIN entries'[q] :
          entries'[q][k].change_signal = "unchanged" =>
            \E p \in Observers : \E m \in DOMAIN entries'[p] :
              /\ p = q => m < k
              /\ Records(entries'[p][m], entries'[q][k].workspace_path,
                         entries'[q][k].captured, entries'[q][k].era)
    <3> TAKE q \in Observers
    <3> TAKE k \in DOMAIN entries'[q]
    <3>1. k \in DOMAIN entries[q] \/ entries'[q][k].change_signal # "unchanged"
      BY <2>1
    <3>2. QED
      BY <1>3, <3>1, SeenStays
  <2>3. QED
    BY <2>2 DEF UnchangedWasSeen
<1>7. DecisionHolds'
  <2> SUFFICES ASSUME NEW p \in Observers \ stale'
               PROVE  /\ pc'[p] = "bootstrap" => baseline'[Path(p)'] = None
                      /\ pc'[p] = "changed" => baseline'[Path(p)'] \notin {None, state'[p]}
    BY DEF DecisionHolds
  <2>1. CASE p = o
    BY <2>1 DEF TypeOK
  <2>2. CASE p # o
    <3>1. Path(p)' = Path(p) /\ state'[p] = state[p] /\ pc'[p] = pc[p]
      BY <1>3, <2>2 DEF TypeOK, Path
    <3>2. pc[p] \in {"bootstrap", "changed"} => p \notin stale /\ Path(p) # Path(o)
      BY <2>2 DEF Replacing
    <3>3. pc[p] \in {"bootstrap", "changed"} => baseline'[Path(p)] = baseline[Path(p)]
      BY <3>2, AtWork DEF TypeOK, Working
    <3>4. QED
      BY <3>1, <3>2, <3>3 DEF DecisionHolds
  <2>3. QED
    BY <2>1, <2>2
<1>8. (HeadWasShown /\ SnapshotUnlessMoved)'
  <2>1. pc'[o] = "next"
    BY DEF TypeOK
  <2>2. /\ UNCHANGED <<git, scan, leads>>
        /\ \A p \in Observers \ {o} :
             /\ pc'[p] = pc[p] /\ state'[p] = state[p]
             /\ shown'[p] = shown[p] /\ entries'[p] = entries[p]
    BY <1>3 DEF TypeOK
  <2>3. QED
    BY <2>1, <2>2, OthersCapture
<1>9. QED
  BY <1>4, <1>5, <1>6, <1>7, <1>8

LEMMA WorkInv ==
  ASSUME Inv, NEW w \in Workspaces, NEW g \in Captures, Work(w, g)
  PROVE  Inv'
<1> USE DEF Inv, Work, command, answer, At
<1>1. TypeOK'
  BY ChangeSignalAssumption DEF TypeOK
<1>2. (BaselineWasRecorded /\ UnchangedWasSeen /\ DecisionHolds)'
  BY DEF BaselineWasRecorded, WasRecorded, UnchangedWasSeen, DecisionHolds, Path
<1>3. (HeadWasShown /\ SnapshotUnlessMoved)'
  BY DEF TypeOK, HeadWasShown, SnapshotUnlessMoved, Place, Path
<1>4. QED
  BY <1>1, <1>2, <1>3

LEMMA WipeInv ==
  ASSUME Inv, Wipe
  PROVE  Inv'
<1> USE DEF Inv, Wipe, command, answer, At
<1>1. TypeOK'
  BY ChangeSignalAssumption DEF TypeOK, Replacing
<1>2. (BaselineWasRecorded /\ UnchangedWasSeen)'
  BY DEF BaselineWasRecorded, UnchangedWasSeen
<1>3. DecisionHolds'
  <2>1. \A o \in Observers : pc[o] \in {"bootstrap", "changed"} => o \in stale'
    BY AtWork DEF Working, Replacing
  <2>2. QED
    BY <2>1 DEF DecisionHolds
<1>4. (HeadWasShown /\ SnapshotUnlessMoved)'
  BY DEF HeadWasShown, SnapshotUnlessMoved, Place, Path
<1>5. QED
  BY <1>1, <1>2, <1>3, <1>4

\* Next, by the lemmas above.
LEMMA NextCases ==
  ASSUME Next
  PROVE  \/ \E o \in Observers :
              \/ Moves(o) \/ ReadHead(o) \/ ReadStatus(o)
              \/ GitFails(o) \/ BaselineEqual(o) \/ SetBaseline(o)
         \/ \E w \in Workspaces, g \in Captures : Work(w, g)
         \/ Wipe
  BY DEF Next, Observe, Moves

LEMMA Invariance == Spec => []Inv
<1>1. Inv /\ UNCHANGED vars => Inv'
  BY DEF Inv, vars, command, answer, ghosts, TypeOK, BaselineWasRecorded, WasRecorded,
         UnchangedWasSeen, DecisionHolds, HeadWasShown, SnapshotUnlessMoved, Place, Path, At
<1>2. Inv /\ Next => Inv'
  BY NextCases, MovesInv, ReadHeadInv, ReadStatusInv, GitFailsInv,
     BaselineEqualInv, SetBaselineInv, WorkInv, WipeInv
<1>3. QED
  BY InitInv, <1>1, <1>2, PTL DEF Spec

\* Every variable has its type, for any observers, workspaces, paths and bounds.
THEOREM TypeCorrect == Spec => []TypeOK
  BY Invariance, PTL DEF Inv

\* Whatever lists the commands are given and wherever their paths lead, no
\* answer says unchanged of a state that was not recorded under the same path
\* before, by another answer or earlier in the same one, since the store was
\* last deleted.
THEOREM UnchangedIsKnown == Spec => []UnchangedWasSeen
  BY Invariance, PTL DEF Inv

\* The two git commands give a state the workspace was in while they ran,
\* unless HEAD moved between them.
THEOREM SnapshotIsReal == Spec => []SnapshotUnlessMoved
  BY Invariance, PTL DEF Inv
-----------------------------------------------------------------------------
(***************************************************************************)
(* The refinement: every step maps to a step of ChangeBaseline or leaves   *)
(* its variables alone, but for the store of a stale observer.             *)
(***************************************************************************)
said == [o \in Observers |-> [k \in 1 .. Len(entries[o]) |-> Told(entries[o][k])]]

\* An entry added to an answer is one more thing said.
LEMMA EntryIsSaid ==
  ASSUME TypeOK, NEW o \in Observers, NEW entry \in Entries,
         entries' = [entries EXCEPT ![o] = Append(@, entry)]
  PROVE  said' = [said EXCEPT ![o] = Append(@, Told(entry))]
<1>1. entries[o] \in Seq(Entries) /\ Len(entries[o]) \in Nat
  BY DEF TypeOK
<1>2. /\ entries'[o] = Append(entries[o], entry)
      /\ \A p \in Observers \ {o} : entries'[p] = entries[p]
  BY DEF TypeOK
<1> DEFINE old == [k \in 1 .. Len(entries[o]) |-> Told(entries[o][k])]
           new == [k \in 1 .. Len(entries'[o]) |-> Told(entries'[o][k])]
           Sayings == {Told(e) : e \in Entries}
<1>3. /\ Len(entries'[o]) = Len(entries[o]) + 1
      /\ \A k \in 1 .. Len(entries[o]) : entries'[o][k] = entries[o][k]
      /\ entries'[o][Len(entries[o]) + 1] = entry
  BY <1>1, <1>2
<1>4. old \in Seq(Sayings) /\ Len(old) = Len(entries[o])
  <2>1. \A k \in 1 .. Len(entries[o]) : Told(entries[o][k]) \in Sayings
    BY <1>1
  <2>2. old \in [1 .. Len(entries[o]) -> Sayings]
    BY <2>1
  <2>3. QED
    BY <1>1, <2>2
<1>5. new = Append(old, Told(entry))
  <2> DEFINE longer == Append(old, Told(entry))
  <2>1. /\ DOMAIN longer = 1 .. (Len(entries[o]) + 1)
        /\ \A k \in 1 .. Len(entries[o]) : longer[k] = old[k]
        /\ longer[Len(entries[o]) + 1] = Told(entry)
        /\ longer = [k \in DOMAIN longer |-> longer[k]]
    BY <1>1, <1>4
  <2>2. \A k \in 1 .. (Len(entries[o]) + 1) : longer[k] = Told(entries'[o][k])
    <3> SUFFICES ASSUME NEW k \in 1 .. (Len(entries[o]) + 1)
                 PROVE  longer[k] = Told(entries'[o][k])
      OBVIOUS
    <3>1. CASE k \in 1 .. Len(entries[o])
      BY <1>3, <2>1, <3>1
    <3>2. CASE k = Len(entries[o]) + 1
      BY <1>3, <2>1, <3>2
    <3>3. QED
      BY <1>1, <3>1, <3>2
  <2> HIDE DEF longer, old
  <2>3. QED
    BY <1>3, <2>1, <2>2 DEF longer
<1>6. said'[o] = new /\ said[o] = old /\ \A p \in Observers \ {o} : said'[p] = said[p]
  BY <1>2 DEF said
<1> HIDE DEF old, new
<1>7. QED
  BY <1>5, <1>6 DEF said

LEMMA EqualIsExact ==
  ASSUME Inv, NEW o \in Observers, BaselineEqual(o)
  PROVE  Exact!Next
<1>1. Path(o) \in Paths /\ state[o] \in Captures /\ baseline[Path(o)] = state[o] /\ state[o] # None
  BY AtWork, ChangeSignalAssumption DEF Inv, TypeOK, Working, BaselineEqual, At
<1>2. baseline' = [baseline EXCEPT ![Path(o)] = state[o]]
  BY <1>1 DEF BaselineEqual, Inv, TypeOK
<1>3. Exact!Signal(Path(o), state[o]) = "unchanged"
  BY <1>1 DEF Exact!Signal
<1> DEFINE entry == [workspace_path |-> Path(o), change_signal |-> "unchanged",
                     captured |-> state[o], era |-> wipes]
<1>4. entry \in Entries /\ entries' = [entries EXCEPT ![o] = Append(@, entry)]
  BY <1>1 DEF Entries, Inv, TypeOK, BaselineEqual, Found
<1>5. said' = [said EXCEPT ![o] = Append(@, Told(entry))]
  BY <1>4, EntryIsSaid DEF Inv
<1>6. Told(entry) = [path |-> Path(o), signal |-> "unchanged", saw |-> state[o]]
  BY DEF Told
<1>7. Exact!Observe(o, Path(o), state[o])
  BY <1>2, <1>3, <1>5, <1>6 DEF Exact!Observe, Exact!Say, said
<1>8. QED
  BY <1>1, <1>7 DEF Exact!Next

LEMMA StoreIsExact ==
  ASSUME Inv, NEW o \in Observers \ stale, SetBaseline(o)
  PROVE  Exact!Next
<1>1. Path(o) \in Paths /\ state[o] \in Captures /\ state[o] # None
  BY AtWork, ChangeSignalAssumption DEF Inv, TypeOK, Working, SetBaseline, At
<1>2. Exact!Signal(Path(o), state[o]) = pc[o]
  <2>1. CASE At(o, "bootstrap")
    BY <1>1, <2>1 DEF Exact!Signal, Inv, DecisionHolds, At
  <2>2. CASE At(o, "changed")
    BY <2>2 DEF Exact!Signal, Inv, DecisionHolds, At
  <2>3. QED
    BY <2>1, <2>2 DEF SetBaseline, At
<1> DEFINE entry == [workspace_path |-> Path(o), change_signal |-> pc[o],
                     captured |-> state[o], era |-> wipes]
<1>3. entry \in Entries /\ entries' = [entries EXCEPT ![o] = Append(@, entry)]
  BY <1>1 DEF Entries, Inv, TypeOK, SetBaseline, Found
<1>4. said' = [said EXCEPT ![o] = Append(@, Told(entry))]
  BY <1>3, EntryIsSaid DEF Inv
<1>5. Told(entry) = [path |-> Path(o), signal |-> pc[o], saw |-> state[o]]
  BY DEF Told
<1>6. Exact!Observe(o, Path(o), state[o])
  BY <1>2, <1>4, <1>5 DEF Exact!Observe, Exact!Say, said, SetBaseline
<1>7. QED
  BY <1>1, <1>6 DEF Exact!Next

LEMMA FailureIsExact ==
  ASSUME Inv, NEW o \in Observers, GitFails(o)
  PROVE  Exact!Next
<1> DEFINE entry == [workspace_path |-> Path(o), change_signal |-> "unsupported",
                     captured |-> None, era |-> wipes]
<1>1. /\ Path(o) \in Paths /\ entry \in Entries
      /\ entries' = [entries EXCEPT ![o] = Append(@, entry)]
  BY GitFailsInv DEF Entries, Inv, TypeOK
<1>2. said' = [said EXCEPT ![o] = Append(@, Told(entry))]
  BY <1>1, EntryIsSaid DEF Inv
<1>3. Told(entry) = [path |-> Path(o), signal |-> "unsupported", saw |-> None]
  BY DEF Told
<1>4. Exact!Unsupported(o, Path(o))
  BY <1>2, <1>3 DEF Exact!Unsupported, Exact!Say, said, GitFails
<1>5. QED
  BY <1>1, <1>4 DEF Exact!Next

LEMMA StepIsExact ==
  ASSUME Inv, Next
  PROVE  (\E o \in stale : entries'[o] # entries[o]) \/ [Exact!Next]_Exact!baselineVars
<1>1. ASSUME UNCHANGED <<baseline, entries>>
      PROVE  UNCHANGED Exact!baselineVars
  BY <1>1 DEF Exact!baselineVars
<1>2. ASSUME NEW o \in Observers, Moves(o) \/ ReadHead(o) \/ ReadStatus(o)
      PROVE  UNCHANGED <<baseline, entries>>
  BY <1>2 DEF Moves, ComeTo, NoBaseline, BaselineDiffers, StoreFails, Tell, Crash,
              ReadHead, ReadStatus
<1>3. ASSUME NEW o \in Observers, SetBaseline(o), o \in stale
      PROVE  entries'[o] # entries[o]
  <2>1. entries[o] \in Seq(Entries)
    BY DEF Inv, TypeOK
  <2>2. \E e : entries'[o] = Append(entries[o], e)
    BY <1>3 DEF Inv, TypeOK, SetBaseline, Found
  <2>3. Len(entries'[o]) = Len(entries[o]) + 1 /\ Len(entries[o]) \in Nat
    BY <2>1, <2>2
  <2>4. QED
    BY <2>3
<1>4. ASSUME NEW w \in Workspaces, NEW g \in Captures, Work(w, g)
      PROVE  UNCHANGED <<baseline, entries>>
  BY <1>4 DEF Work, answer
<1>5. ASSUME Wipe
      PROVE  Exact!Next
  BY <1>5 DEF Wipe, answer, Exact!Next, Exact!Forget
<1>6. QED
  BY NextCases, <1>1, <1>2, <1>3, <1>4, <1>5, EqualIsExact, StoreIsExact, FailureIsExact

\* The detailed change signal implements the one-step one of ChangeBaseline, a
\* store of a stale observer being the only step that does not.
THEOREM SignalsAreExact == Spec => ExactUnlessStale
<1>1. Init => Exact!Init
  <2> SUFFICES ASSUME Init PROVE Exact!Init
    OBVIOUS
  <2>1. \A o \in Observers : [k \in 1 .. Len(entries[o]) |-> Told(entries[o][k])] = <<>>
    <3> TAKE o \in Observers
    <3>1. Len(entries[o]) = 0
      BY DEF Init
    <3>2. 1 .. Len(entries[o]) = {}
      BY <3>1
    <3>3. QED
      BY <3>2
  <2>2. QED
    BY <2>1 DEF Init, Exact!Init
<1>2. ASSUME Inv, [Next]_vars
      PROVE  (\E o \in stale : entries'[o] # entries[o]) \/ [Exact!Next]_Exact!baselineVars
  <2>1. CASE Next
    BY <1>2, <2>1, StepIsExact
  <2>2. CASE UNCHANGED vars
    BY <2>2 DEF vars, answer, Exact!baselineVars
  <2>3. QED
    BY <1>2, <2>1, <2>2
<1>3. QED
  BY <1>1, <1>2, Invariance, PTL DEF Spec, ExactUnlessStale
=============================================================================
