-------------------------------- MODULE Chain --------------------------------
(***************************************************************************)
(* Reconstruction of chains of jobs from their follows links               *)
(* (build_chain_from_records in chain.py): an index from each job to the   *)
(* record that follows it, then one walk from every head.                  *)
(*                                                                         *)
(* The records come from files of the workspace that agents can write, so  *)
(* the links are arbitrary: to jobs without a record, several to one job,  *)
(* to a record itself, in circles.  The order of the records is that of    *)
(* their time stamps, which is arbitrary too.                              *)
(***************************************************************************)
EXTENDS Naturals, Sequences, FiniteSets

CONSTANTS
  Ids,   \* job ids
  None   \* no follows link

ASSUME ChainAssumption == None \notin Ids

VARIABLES
  given,      \* the jobs with a record
  follows,    \* the follows link of each of them, or None
  toIndex,    \* the records not indexed yet
  followers,  \* the index: the record that follows a job, or None
  toWalk,     \* the heads no walk has begun at
  chain,      \* the chain being walked, or the empty sequence
  chains      \* the chains returned

records == <<given, follows>>
vars    == <<records, toIndex, followers, toWalk, chain, chains>>

\* Mutant: a chain begins at every record.
EveryRecord(g, f) == g

\* Records that do not follow any other record.
Heads(g, f) == {r \in g : f[r] = None}

Init ==
  /\ given \in SUBSET Ids /\ IsFiniteSet(given)
  /\ follows \in [given -> Ids \cup {None}]
  /\ toIndex = given
  /\ followers = [i \in Ids |-> None]
  /\ toWalk = Heads(given, follows)
  /\ chain = <<>>
  /\ chains = {}

\* Mutant: the index is keyed by the follower.
IndexByFollower(r) ==
  /\ r \in toIndex
  /\ followers' = [followers EXCEPT ![r] = follows[r]]
  /\ toIndex' = toIndex \ {r}
  /\ UNCHANGED <<records, toWalk, chain, chains>>

\* Mutant: a link is indexed only if the job it names came before.
IndexKnown(r) ==
  /\ r \in toIndex
  /\ followers' = [i \in Ids |-> IF i = follows[r] /\ i \notin toIndex THEN r ELSE followers[i]]
  /\ toIndex' = toIndex \ {r}
  /\ UNCHANGED <<records, toWalk, chain, chains>>

\* A later record that follows the same job takes the place of an earlier one.
Index(r) ==
  /\ r \in toIndex
  /\ followers' = [i \in Ids |-> IF i = follows[r] THEN r ELSE followers[i]]
  /\ toIndex' = toIndex \ {r}
  /\ UNCHANGED <<records, toWalk, chain, chains>>

Begin(h) ==
  /\ toIndex = {} /\ chain = <<>>
  /\ h \in toWalk
  /\ chain' = <<h>>
  /\ toWalk' = toWalk \ {h}
  /\ UNCHANGED <<records, toIndex, followers, chains>>

current == chain[Len(chain)]

\* Mutant: the follower is put before the job it follows.
ExtendInFront ==
  /\ chain # <<>>
  /\ followers[current] # None
  /\ chain' = <<followers[current]>> \o chain
  /\ UNCHANGED <<records, toIndex, followers, toWalk, chains>>

Extend ==
  /\ chain # <<>>
  /\ followers[current] # None
  /\ chain' = Append(chain, followers[current])
  /\ UNCHANGED <<records, toIndex, followers, toWalk, chains>>

End ==
  /\ chain # <<>>
  /\ followers[current] = None
  /\ chains' = chains \cup {chain}
  /\ chain' = <<>>
  /\ UNCHANGED <<records, toIndex, followers, toWalk>>

Next ==
  \/ \E r \in given : Index(r) \/ Begin(r)
  \/ Extend
  \/ End

Spec == Init /\ [][Next]_vars

-----------------------------------------------------------------------------
(***************************************************************************)
(* Properties.                                                             *)
(***************************************************************************)

\* Every variable has its type; a chain that is returned has a head.
TypeOK ==
  /\ given \subseteq Ids
  /\ follows \in [given -> Ids \cup {None}]
  /\ toIndex \subseteq given
  /\ followers \in [Ids -> given \cup {None}]
  /\ toWalk \subseteq given
  /\ chain \in Seq(given)
  /\ chains \subseteq Seq(given) \ {<<>>}

\* The chains returned and the one being walked.
Walked == chains \cup {chain}

\* A chain begins at a record that follows nothing and goes on, each time,
\* with a record that follows the one before.
LinksFollowed ==
  \A c \in Walked : \A k \in 1 .. Len(c) :
    follows[c[k]] = IF k = 1 THEN None ELSE c[k - 1]

\* No walk meets a record twice.
NeverInCircles ==
  \A c \in Walked : \A k, l \in 1 .. Len(c) : c[k] = c[l] => k = l

\* No record is in two chains, nor in the chain being walked and another one.
Disjoint ==
  \A c, e \in Walked : \A k \in 1 .. Len(c), l \in 1 .. Len(e) : c[k] = e[l] => c = e

\* Whatever circles and forks the links make, no record is told twice, in one
\* chain or in two (chain.py:66-75).
ToldOnce == NeverInCircles /\ Disjoint

\* The links make plain lines: every link names a record, no two name the
\* same one, and there are no circles.
Linear ==
  /\ \A r \in given : follows[r] \in given \cup {None}
  /\ \A r, s \in given : follows[r] = follows[s] /\ follows[r] # None => r = s
  /\ \A g \in (SUBSET given) \ {{}} : \E r \in g : follows[r] \notin g

\* Of such links nothing is lost: when the last walk has ended every record is
\* in a chain.
NothingLost ==
  (Linear /\ toIndex = {} /\ toWalk = {} /\ chain = <<>>) =>
    \A r \in given : \E c \in chains : \E k \in 1 .. Len(c) : c[k] = r

\* The records some walk has met.
Met == {r \in given : \E c \in Walked : \E k \in 1 .. Len(c) : c[k] = r}

\* What is left to do: records to index, heads to walk from, records to meet
\* and a chain to return.
Left ==
  Cardinality(toIndex) + Cardinality(toWalk) + Cardinality(given \ Met)
  + IF chain = <<>> THEN 0 ELSE 1

\* Every turn of every loop leaves less to do, so the reconstruction ends
\* whatever links it is given: the walk, too, which has no other bound.
Ends == [][Left' \in Nat /\ Left' < Left]_vars
=============================================================================
