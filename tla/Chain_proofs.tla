----------------------------- MODULE Chain_proofs -----------------------------
(***************************************************************************)
(* Theorems about Chain for any set of job ids and any links.              *)
(***************************************************************************)
EXTENDS Chain, FiniteSetTheorems, TLAPS

\* The index names only records that follow the job they are indexed under,
\* and a head whose walk has not begun is in no chain.
Indexed == \A i \in Ids : followers[i] # None => follows[followers[i]] = i

HeadsWait ==
  /\ \A h \in toWalk : follows[h] = None
  /\ \A c \in Walked : \A k \in 1 .. Len(c) : c[k] \notin toWalk

\* A chain is returned once its walk has ended.
Unreturned == chain \notin chains

Inv == TypeOK /\ Unreturned /\ Indexed /\ LinksFollowed /\ HeadsWait /\ NeverInCircles /\ Disjoint

LEMMA InitInv == Init => Inv
<1> SUFFICES ASSUME Init PROVE Inv
  OBVIOUS
<1>1. TypeOK
  BY ChainAssumption DEF Init, TypeOK, Heads
<1>2. Walked = {<<>>}
  BY DEF Init, Walked
<1>3. Indexed
  BY DEF Init, Indexed
<1>4. LinksFollowed /\ NeverInCircles /\ Disjoint
  BY <1>2 DEF LinksFollowed, NeverInCircles, Disjoint
<1>5. HeadsWait
  BY <1>2 DEF Init, HeadsWait, Heads
<1>6. Unreturned
  BY DEF Init, Unreturned
<1>7. QED
  BY <1>1, <1>3, <1>4, <1>5, <1>6 DEF Inv

LEMMA IndexInv ==
  ASSUME Inv, NEW r \in given, Index(r)
  PROVE  Inv'
<1> USE DEF Inv
<1>1. TypeOK'
  BY DEF TypeOK, Index, records
<1>2. Indexed'
  BY ChainAssumption DEF TypeOK, Indexed, Index, records
<1>3. Walked' = Walked
  BY DEF Walked, Index
<1>4. (LinksFollowed /\ HeadsWait /\ NeverInCircles /\ Disjoint)'
  BY <1>3 DEF Index, records, LinksFollowed, HeadsWait, NeverInCircles, Disjoint
<1>5. Unreturned'
  BY DEF Unreturned, Index
<1>6. QED
  BY <1>1, <1>2, <1>4, <1>5

LEMMA BeginInv ==
  ASSUME Inv, NEW h \in given, Begin(h)
  PROVE  Inv'
<1> USE DEF Inv
<1>1. TypeOK'
  BY DEF TypeOK, Begin, records
<1>2. Indexed'
  BY DEF Indexed, Begin, records
<1>3. /\ h \in toWalk /\ follows[h] = None
      /\ chain' = <<h>> /\ Len(chain') = 1 /\ chain'[1] = h
  BY DEF Begin, HeadsWait
<1>4. \A c \in Walked' : c = <<h>> \/ c \in Walked
  BY DEF Walked, Begin
<1>5. \A c \in Walked : \A k \in 1 .. Len(c) : c[k] # h
  BY <1>3 DEF HeadsWait
<1>6. LinksFollowed'
  <2> SUFFICES ASSUME NEW c \in Walked', NEW k \in 1 .. Len(c)
               PROVE  follows[c[k]] = IF k = 1 THEN None ELSE c[k - 1]
    BY DEF LinksFollowed, Begin, records
  <2>1. CASE c = <<h>>
    BY <1>3, <2>1
  <2>2. CASE c \in Walked
    BY <2>2 DEF LinksFollowed
  <2>3. QED
    BY <1>4, <2>1, <2>2
<1>7. HeadsWait'
  BY <1>3, <1>4, <1>5 DEF HeadsWait, Begin, records
<1>8. NeverInCircles'
  BY <1>3, <1>4 DEF NeverInCircles
<1>9. Disjoint'
  BY <1>3, <1>4, <1>5 DEF Disjoint
<1>10. Unreturned'
  BY <1>3, <1>5 DEF Unreturned, Begin, Walked
<1>11. QED
  BY <1>1, <1>2, <1>6, <1>7, <1>8, <1>9, <1>10

\* What makes the walk end: the record it adds follows the one it is at, and
\* every record in a chain is a head or follows the one before it there.
LEMMA NewRecord ==
  ASSUME Inv, chain # <<>>, followers[current] # None
  PROVE  /\ Len(chain) \in Nat \ {0} /\ current \in given
         /\ followers[current] \in given
         /\ follows[followers[current]] = current
         /\ followers[current] \notin toWalk
         /\ \A c \in Walked : \A k \in 1 .. Len(c) : c[k] # followers[current]
<1> USE DEF Inv
<1> DEFINE new == followers[current]
<1>1. Len(chain) \in Nat \ {0} /\ current \in given /\ current = chain[Len(chain)]
  BY DEF TypeOK, current
<1>2. new \in given /\ follows[new] = current
  BY <1>1 DEF TypeOK, Indexed
<1>3. current # None
  BY <1>1, ChainAssumption DEF TypeOK
<1>4. new \notin toWalk
  BY <1>2, <1>3 DEF HeadsWait
<1>5. ASSUME NEW c \in Walked, NEW k \in 1 .. Len(c), c[k] = new
      PROVE  FALSE
  <2>1. Len(c) \in Nat
    BY <1>5 DEF Walked, TypeOK
  <2>2. k # 1 /\ c[k - 1] = current
    BY <1>2, <1>3, <1>5 DEF LinksFollowed
  <2>3. k - 1 \in 1 .. Len(c) /\ Len(chain) \in 1 .. Len(chain) /\ chain \in Walked
    BY <1>1, <2>1, <2>2 DEF Walked
  <2>4. c = chain
    BY <1>1, <2>2, <2>3 DEF Disjoint
  <2>5. k - 1 = Len(chain)
    BY <1>1, <2>2, <2>3, <2>4 DEF NeverInCircles
  <2>6. QED
    BY <2>1, <2>4, <2>5
<1>6. QED
  BY <1>1, <1>2, <1>4, <1>5

LEMMA ExtendInv ==
  ASSUME Inv, Extend
  PROVE  Inv'
<1> USE DEF Inv
<1> DEFINE new == followers[current]
           n   == Len(chain)
<1>1. /\ n \in Nat \ {0} /\ current = chain[n] /\ new \in given
      /\ follows[new] = current /\ new \notin toWalk
      /\ \A c \in Walked : \A k \in 1 .. Len(c) : c[k] # new
  BY NewRecord DEF Extend, current
<1>2. chain \in Seq(given) /\ chain \in Walked
  BY DEF TypeOK, Walked
<1>3. /\ chain' \in Seq(given) /\ Len(chain') = n + 1 /\ chain'[n + 1] = new
      /\ \A k \in 1 .. n : chain'[k] = chain[k]
  BY <1>1, <1>2 DEF Extend
<1>4. \A c \in Walked' : c = chain' \/ c \in chains
  BY DEF Walked, Extend
<1>5. TypeOK'
  BY <1>3 DEF TypeOK, Extend, records
<1>6. Indexed'
  BY DEF Indexed, Extend, records
<1>7. LinksFollowed'
  <2> SUFFICES ASSUME NEW c \in Walked', NEW k \in 1 .. Len(c)
               PROVE  follows[c[k]] = IF k = 1 THEN None ELSE c[k - 1]
    BY DEF LinksFollowed, Extend, records
  <2>1. CASE c \in chains
    BY <2>1 DEF LinksFollowed, Walked
  <2>2. CASE c = chain' /\ k \in 1 .. n
    <3>1. follows[chain[k]] = IF k = 1 THEN None ELSE chain[k - 1]
      BY <1>2, <2>2 DEF LinksFollowed
    <3>2. k # 1 => chain'[k - 1] = chain[k - 1]
      BY <1>1, <1>3, <2>2
    <3>3. QED
      BY <1>3, <2>2, <3>1, <3>2
  <2>3. CASE c = chain' /\ k = n + 1
    BY <1>1, <1>3, <2>3
  <2>4. QED
    BY <1>1, <1>3, <1>4, <2>1, <2>2, <2>3
<1>8. HeadsWait'
  <2>1. \A h \in toWalk' : follows'[h] = None
    BY DEF HeadsWait, Extend, records
  <2>2. ASSUME NEW c \in Walked', NEW k \in 1 .. Len(c)
        PROVE  c[k] \notin toWalk'
    <3>1. CASE c \in chains
      BY <3>1 DEF HeadsWait, Walked, Extend
    <3>2. CASE c = chain' /\ k \in 1 .. n
      BY <1>2, <1>3, <3>2 DEF HeadsWait, Extend
    <3>3. CASE c = chain' /\ k = n + 1
      BY <1>1, <1>3, <3>3 DEF Extend
    <3>4. QED
      BY <1>1, <1>3, <1>4, <3>1, <3>2, <3>3
  <2>3. QED
    BY <2>1, <2>2 DEF HeadsWait
<1>9. NeverInCircles'
  <2> SUFFICES ASSUME NEW c \in Walked', NEW k \in 1 .. Len(c), NEW l \in 1 .. Len(c),
                      c[k] = c[l]
               PROVE  k = l
    BY DEF NeverInCircles
  <2>1. CASE c \in chains
    BY <2>1 DEF NeverInCircles, Walked
  <2>2. CASE c = chain' /\ k \in 1 .. n /\ l \in 1 .. n
    BY <1>2, <1>3, <2>2 DEF NeverInCircles
  <2>3. CASE c = chain' /\ k = n + 1 /\ l \in 1 .. n
    BY <1>1, <1>2, <1>3, <2>3
  <2>4. CASE c = chain' /\ k \in 1 .. n /\ l = n + 1
    BY <1>1, <1>2, <1>3, <2>4
  <2>5. QED
    BY <1>1, <1>3, <1>4, <2>1, <2>2, <2>3, <2>4
<1>10. Disjoint'
  <2>1. ASSUME NEW c \in chains, NEW k \in 1 .. Len(c), NEW l \in 1 .. n + 1,
               c[k] = chain'[l]
        PROVE  c = chain'
    <3>1. c \in Walked /\ c # <<>>
      BY DEF Walked, TypeOK
    <3>2. l # n + 1
      BY <1>1, <1>3, <2>1, <3>1
    <3>3. l \in 1 .. n /\ chain'[l] = chain[l]
      BY <1>1, <1>3, <3>2
    <3>4. c = chain
      BY <1>2, <2>1, <3>1, <3>3 DEF Disjoint
    <3>5. QED
      BY <3>4 DEF Unreturned
  <2>2. QED
    BY <1>3, <1>4, <2>1 DEF Disjoint, Walked
<1>11. Unreturned'
  <2>1. n + 1 \in 1 .. Len(chain')
    BY <1>1, <1>3
  <2>2. QED
    BY <1>1, <1>3, <2>1 DEF Unreturned, Extend, Walked
<1>12. QED
  BY <1>5, <1>6, <1>7, <1>8, <1>9, <1>10, <1>11

LEMMA EndInv ==
  ASSUME Inv, End
  PROVE  Inv'
<1> USE DEF Inv
<1>1. TypeOK'
  BY DEF TypeOK, End, records
<1>2. Indexed'
  BY DEF Indexed, End, records
<1>3. \A c \in Walked' : c = <<>> \/ c \in Walked
  BY DEF Walked, End
<1>4. LinksFollowed' /\ HeadsWait'
  BY <1>3 DEF LinksFollowed, HeadsWait, End, records
<1>5. NeverInCircles' /\ Disjoint'
  BY <1>3 DEF NeverInCircles, Disjoint
<1>6. Unreturned'
  BY DEF Unreturned, End, TypeOK
<1>7. QED
  BY <1>1, <1>2, <1>4, <1>5, <1>6

LEMMA Inductive == Spec => []Inv
<1>1. Inv /\ [Next]_vars => Inv'
  <2> SUFFICES ASSUME Inv, [Next]_vars PROVE Inv'
    OBVIOUS
  <2>1. CASE UNCHANGED vars
    BY <2>1 DEF vars, records, Inv, TypeOK, Indexed, LinksFollowed, HeadsWait,
       NeverInCircles, Disjoint, Unreturned, Walked
  <2>2. QED
    BY <2>1, IndexInv, BeginInv, ExtendInv, EndInv DEF Next
<1>2. QED
  BY InitInv, <1>1, PTL DEF Spec

\* Types, whatever the links are.
THEOREM TypeCorrect == Spec => []TypeOK
BY Inductive, PTL DEF Inv

\* The chains returned follow the links (chain.py:63-75).
THEOREM FollowsLinks == Spec => []LinksFollowed
BY Inductive, PTL DEF Inv

\* No links an agent could write make build_chain_from_records meet a record
\* twice, in one walk or in two (chain.py:66-75).
THEOREM NothingTwice == Spec => []ToldOnce
<1>1. Inv => ToldOnce
  BY DEF Inv, ToldOnce
<1>2. QED
  BY Inductive, <1>1, PTL

-----------------------------------------------------------------------------
(***************************************************************************)
(* Nothing is lost.  While no two links name the same job, the index       *)
(* forgets none of them, so a walk goes on as long as a record follows the *)
(* one it is at.                                                           *)
(***************************************************************************)

OneFollower == \A r, s \in given : follows[r] = follows[s] /\ follows[r] # None => r = s

\* The index knows every link it was given.
Remembers == \A r \in given \ toIndex : follows[r] # None => followers[follows[r]] = r

\* No walk begins before the index is complete.
Phases == (chain # <<>> \/ chains # {}) => toIndex = {}

\* Every head waits for its walk or was met by one.
HeadsMet ==
  \A h \in Heads(given, follows) :
    h \in toWalk \/ \E c \in Walked : \E k \in 1 .. Len(c) : c[k] = h

\* No record follows the last one of a chain that was returned.
WalkedOut == \A c \in chains : \A r \in given : follows[r] # c[Len(c)]

Whole == Phases /\ HeadsMet /\ (OneFollower => Remembers /\ WalkedOut)

LEMMA WholeInit == Init => Whole
<1> SUFFICES ASSUME Init PROVE Whole
  OBVIOUS
<1>1. Phases /\ Remembers /\ WalkedOut
  BY DEF Init, Phases, Remembers, WalkedOut
<1>2. HeadsMet
  BY DEF Init, HeadsMet
<1>3. QED
  BY <1>1, <1>2 DEF Whole

LEMMA WholeStep == Inv /\ Whole /\ [Next]_vars => Whole'
<1> SUFFICES ASSUME Inv, Whole, [Next]_vars PROVE Whole'
  OBVIOUS
<1> USE DEF Inv, Whole
<1>1. ASSUME NEW r \in given, Index(r)
      PROVE  Whole'
  <2>1. Phases'
    BY <1>1 DEF Phases, Index
  <2>2. HeadsMet'
    BY <1>1 DEF HeadsMet, Walked, Heads, Index, records
  <2>3. ASSUME OneFollower, NEW s \in given, s \notin toIndex', follows[s] # None
        PROVE  followers'[follows[s]] = s
    <3>1. CASE s = r
      <4>1. follows[r] \in Ids \cup {None}
        BY <1>1 DEF TypeOK
      <4>2. QED
        BY <1>1, <2>3, <3>1, <4>1 DEF Index
    <3>2. CASE s # r
      <4>1. follows[s] # follows[r] /\ s \notin toIndex /\ follows[s] \in Ids
        BY <1>1, <2>3, <3>2 DEF OneFollower, Index, TypeOK
      <4>2. QED
        BY <1>1, <2>3, <4>1 DEF Remembers, Index
    <3>3. QED
      BY <3>1, <3>2
  <2>4. OneFollower' => Remembers' /\ WalkedOut'
    BY <1>1, <2>3 DEF OneFollower, Remembers, WalkedOut, Index, records
  <2>5. QED
    BY <2>1, <2>2, <2>4
<1>2. ASSUME NEW h \in given, Begin(h)
      PROVE  Whole'
  <2>1. chain = <<>> /\ chain' = <<h>> /\ Walked' = chains \cup {<<h>>}
    BY <1>2 DEF Begin, Walked
  <2>2. Phases'
    BY <1>2 DEF Phases, Begin
  <2>3. ASSUME NEW g \in Heads(given, follows)
        PROVE  g \in toWalk' \/ \E c \in Walked' : \E k \in 1 .. Len(c) : c[k] = g
    <3>1. CASE g = h
      <4>1. <<h>> \in Walked' /\ 1 \in 1 .. Len(<<h>>) /\ <<h>>[1] = g
        BY <2>1, <3>1
      <4>2. QED
        BY <4>1
    <3>2. CASE g # h /\ g \in toWalk
      BY <1>2, <3>2 DEF Begin
    <3>3. CASE g \notin toWalk
      <4>1. PICK c \in Walked : \E k \in 1 .. Len(c) : c[k] = g
        BY <2>3, <3>3 DEF HeadsMet
      <4>2. c \in chains
        BY <2>1, <4>1 DEF Walked
      <4>3. QED
        BY <2>1, <4>1, <4>2
    <3>4. QED
      BY <3>1, <3>2, <3>3
  <2>4. HeadsMet'
    BY <1>2, <2>3 DEF HeadsMet, Begin, records
  <2>5. OneFollower' => Remembers' /\ WalkedOut'
    BY <1>2 DEF OneFollower, Remembers, WalkedOut, Begin, records
  <2>6. QED
    BY <2>2, <2>4, <2>5
<1>3. CASE Extend
  <2>1. /\ Len(chain) \in Nat \ {0} /\ chain \in Seq(given) /\ followers[current] \in given
        /\ chain' = Append(chain, followers[current])
    BY <1>3, NewRecord DEF Extend, TypeOK
  <2>2. Len(chain') = Len(chain) + 1 /\ \A k \in 1 .. Len(chain) : chain'[k] = chain[k]
    BY <2>1
  <2>3. Phases'
    BY <1>3 DEF Phases, Extend
  <2>4. ASSUME NEW g \in Heads(given, follows), g \notin toWalk
        PROVE  \E c \in Walked' : \E k \in 1 .. Len(c) : c[k] = g
    <3>1. PICK c \in Walked : \E k \in 1 .. Len(c) : c[k] = g
      BY <2>4 DEF HeadsMet
    <3>2. CASE c \in chains
      BY <1>3, <3>1, <3>2 DEF Walked, Extend
    <3>3. CASE c = chain
      <4>1. PICK k \in 1 .. Len(chain) : chain[k] = g
        BY <3>1, <3>3
      <4>2. k \in 1 .. Len(chain') /\ chain'[k] = g /\ chain' \in Walked'
        BY <2>1, <2>2, <4>1 DEF Walked
      <4>3. QED
        BY <4>2
    <3>4. QED
      BY <3>1, <3>2, <3>3 DEF Walked
  <2>5. HeadsMet'
    BY <1>3, <2>4 DEF HeadsMet, Extend, records
  <2>6. OneFollower' => Remembers' /\ WalkedOut'
    BY <1>3 DEF OneFollower, Remembers, WalkedOut, Extend, records
  <2>7. QED
    BY <2>3, <2>5, <2>6
<1>4. CASE End
  <2>1. Phases'
    BY <1>4 DEF Phases, End
  <2>2. chain \in chains' /\ \A c \in Walked : c \in Walked'
    BY <1>4 DEF End, Walked
  <2>3. HeadsMet'
    BY <1>4, <2>2 DEF HeadsMet, End, records
  <2>4. ASSUME OneFollower, NEW r \in given
        PROVE  follows[r] # current
    <3>1. r \notin toIndex /\ r # None /\ current \in given /\ current # None
      <4>1. toIndex = {} /\ Len(chain) \in 1 .. Len(chain)
        BY <1>4 DEF Phases, End, TypeOK
      <4>2. QED
        BY <2>4, <4>1, ChainAssumption DEF TypeOK, current
    <3>2. follows[r] = current => followers[current] = r
      BY <2>4, <3>1 DEF Remembers
    <3>3. QED
      BY <1>4, <3>1, <3>2 DEF End
  <2>5. OneFollower' => Remembers' /\ WalkedOut'
    BY <1>4, <2>4 DEF OneFollower, Remembers, WalkedOut, End, records, current
  <2>6. QED
    BY <2>1, <2>3, <2>5
<1>5. CASE UNCHANGED vars
  BY <1>5 DEF vars, records, Phases, HeadsMet, Walked, Heads, OneFollower, Remembers, WalkedOut
<1>6. QED
  BY <1>1, <1>2, <1>3, <1>4, <1>5 DEF Next

\* The records in no chain would be a circle: none of them is a head, and the
\* record each one follows is in no chain either.
LEMMA WholeIsAll == Inv /\ Whole => NothingLost
<1> SUFFICES ASSUME Inv, Whole, Linear, toIndex = {}, toWalk = {}, chain = <<>>
             PROVE  \A r \in given : \E c \in chains : \E k \in 1 .. Len(c) : c[k] = r
  BY DEF NothingLost
<1> USE DEF Inv, Whole
<1> DEFINE InChain(r) == \E c \in chains : \E k \in 1 .. Len(c) : c[k] = r
           lost == {r \in given : ~InChain(r)}
<1>1. OneFollower
  BY DEF Linear, OneFollower
<1>2. ASSUME lost # {}
      PROVE  FALSE
  <2>1. PICK r \in lost : follows[r] \notin lost
    <3>1. lost \in (SUBSET given) \ {{}}
      BY <1>2
    <3>2. QED
      BY <3>1 DEF Linear
  <2>2. CASE follows[r] = None
    <3>1. r \in Heads(given, follows)
      BY <2>1, <2>2 DEF Heads
    <3>2. \E c \in Walked : \E k \in 1 .. Len(c) : c[k] = r
      BY <3>1 DEF HeadsMet
    <3>3. InChain(r)
      BY <3>2 DEF Walked
    <3>4. QED
      BY <2>1, <3>3
  <2>3. CASE follows[r] \in given
    <3>1. InChain(follows[r])
      BY <2>1, <2>3
    <3>2. PICK c \in chains : \E k \in 1 .. Len(c) : c[k] = follows[r]
      BY <3>1
    <3>3. PICK k \in 1 .. Len(c) : c[k] = follows[r]
      BY <3>2
    <3>4. c \in Seq(given) /\ Len(c) \in Nat /\ c \in Walked
      BY DEF TypeOK, Walked
    <3>5. k # Len(c)
      BY <1>1, <2>1, <3>3 DEF WalkedOut
    <3>6. k + 1 \in 1 .. Len(c) /\ k + 1 # 1 /\ (k + 1) - 1 = k
      BY <3>4, <3>5
    <3>7. follows[c[k + 1]] = c[k]
      BY <3>4, <3>6 DEF LinksFollowed
    <3>8. c[k + 1] \in given /\ c[k + 1] = r
      <4>1. c[k + 1] \in given /\ follows[r] # None
        BY <2>3, <3>4, <3>6, ChainAssumption DEF TypeOK
      <4>2. QED
        BY <1>1, <2>1, <3>3, <3>7, <4>1 DEF OneFollower
    <3>9. QED
      BY <2>1, <3>6, <3>8
  <2>4. QED
    BY <2>1, <2>2, <2>3 DEF Linear
<1>3. QED
  BY <1>2

\* If the links are plain lines, every record is told in a chain
\* (chain.py:49-78).
THEOREM LosesNothing == Spec => []NothingLost
<1>1. Spec => []Whole
  BY Inductive, WholeInit, WholeStep, PTL DEF Spec
<1>2. QED
  BY Inductive, <1>1, WholeIsAll, PTL

-----------------------------------------------------------------------------
(***************************************************************************)
(* The reconstruction ends.  What a walk adds to its chain was met by no   *)
(* walk before (NewRecord), so every turn takes one from what is left.     *)
(***************************************************************************)

\* There are finitely many records: they come in a list.
Countable == IsFiniteSet(given)

\* What is left is a natural number, and a sum of four of them.
LEMMA LeftType ==
  ASSUME TypeOK, Countable
  PROVE  /\ IsFiniteSet(toIndex) /\ IsFiniteSet(toWalk) /\ IsFiniteSet(given \ Met)
         /\ Cardinality(toIndex) \in Nat /\ Cardinality(toWalk) \in Nat
         /\ Cardinality(given \ Met) \in Nat
<1>1. toIndex \subseteq given /\ toWalk \subseteq given /\ given \ Met \subseteq given
  BY DEF TypeOK
<1>2. IsFiniteSet(toIndex) /\ IsFiniteSet(toWalk) /\ IsFiniteSet(given \ Met)
  BY <1>1, FS_Subset DEF Countable
<1>3. QED
  BY <1>2, FS_CardinalityType

\* One element fewer.
LEMMA OneFewer ==
  ASSUME NEW S, IsFiniteSet(S), NEW x \in S, NEW T, T = S \ {x}
  PROVE  Cardinality(T) = Cardinality(S) - 1
BY FS_RemoveElement

\* The sum falls if its parts change in one of these ways.
LEMMA SumFalls ==
  ASSUME TypeOK, Countable,
         Cardinality(toIndex') \in Nat, Cardinality(toWalk') \in Nat,
         Cardinality((given \ Met)') \in Nat,
         \/ /\ Cardinality(toIndex') = Cardinality(toIndex) - 1
            /\ Cardinality(toWalk') = Cardinality(toWalk)
            /\ Cardinality((given \ Met)') = Cardinality(given \ Met)
            /\ chain' = chain
         \/ /\ Cardinality(toIndex') = Cardinality(toIndex)
            /\ Cardinality(toWalk') = Cardinality(toWalk) - 1
            /\ Cardinality((given \ Met)') = Cardinality(given \ Met) - 1
            /\ chain = <<>>
         \/ /\ Cardinality(toIndex') = Cardinality(toIndex)
            /\ Cardinality(toWalk') = Cardinality(toWalk)
            /\ Cardinality((given \ Met)') = Cardinality(given \ Met) - 1
            /\ chain # <<>>
         \/ /\ Cardinality(toIndex') = Cardinality(toIndex)
            /\ Cardinality(toWalk') = Cardinality(toWalk)
            /\ Cardinality((given \ Met)') = Cardinality(given \ Met)
            /\ chain # <<>> /\ chain' = <<>>
  PROVE  Left' \in Nat /\ Left' < Left
<1> DEFINE i == Cardinality(toIndex)
           w == Cardinality(toWalk)
           m == Cardinality(given \ Met)
           o == IF chain = <<>> THEN 0 ELSE 1
           j == Cardinality(toIndex')
           v == Cardinality(toWalk')
           n == Cardinality((given \ Met)')
           p == IF chain' = <<>> THEN 0 ELSE 1
<1>1. Left = i + w + m + o /\ Left' = j + v + n + p
  BY Zenon DEF Left
<1>2. i \in Nat /\ w \in Nat /\ m \in Nat /\ j \in Nat /\ v \in Nat /\ n \in Nat
  BY LeftType
<1>3. o \in {0, 1} /\ p \in {0, 1}
  OBVIOUS
<1>4. \/ j = i - 1 /\ v = w /\ n = m /\ p = o
      \/ j = i /\ v = w - 1 /\ n = m - 1 /\ o = 0
      \/ j = i /\ v = w /\ n = m - 1 /\ o = 1
      \/ j = i /\ v = w /\ n = m /\ o = 1 /\ p = 0
  <2> HIDE DEF i, w, m, j, v, n
  <2>1. QED
    BY DEF i, w, m, j, v, n
<1> HIDE DEF i, w, m, o, j, v, n, p
<1>5. j + v + n + p \in Nat /\ j + v + n + p < i + w + m + o
  BY <1>2, <1>3, <1>4
<1>6. QED
  BY <1>1, <1>5

\* Indexing leaves one record fewer to index.
LEMMA IndexLeft ==
  ASSUME Inv, Countable, NEW r \in given, Index(r)
  PROVE  Left' \in Nat /\ Left' < Left
<1>1. r \in toIndex /\ toIndex' = toIndex \ {r} /\ UNCHANGED <<given, toWalk, chain, chains>>
  BY DEF Index, records
<1>2. Cardinality(toIndex') = Cardinality(toIndex) - 1
  BY <1>1, LeftType, OneFewer DEF Inv
<1>3. (given \ Met)' = given \ Met
  BY <1>1 DEF Met, Walked
<1>4. Cardinality(toIndex') \in Nat
  <2>1. IsFiniteSet(toIndex')
    BY <1>1, LeftType, FS_Subset DEF Inv
  <2>2. QED
    BY <2>1, FS_CardinalityType
<1>5. QED
  BY <1>1, <1>2, <1>3, <1>4, LeftType, SumFalls DEF Inv

\* A walk that begins leaves one head and one unmet record fewer, for a chain to
\* return.
LEMMA BeginLeft ==
  ASSUME Inv, Countable, NEW h \in given, Begin(h)
  PROVE  Left' \in Nat /\ Left' < Left
<1>1. /\ h \in toWalk /\ toWalk' = toWalk \ {h} /\ chain = <<>> /\ chain' = <<h>>
      /\ UNCHANGED <<given, toIndex, chains>>
  BY DEF Begin, records
<1>2. h \in given \ Met
  BY <1>1 DEF Inv, HeadsWait, Met
<1>3. (given \ Met)' = (given \ Met) \ {h}
  <2>1. Walked = chains \cup {<<>>} /\ Walked' = chains \cup {<<h>>}
    BY <1>1 DEF Walked
  <2>2. \A r \in given : (\E k \in 1 .. Len(<<h>>) : <<h>>[k] = r) <=> r = h
    <3>1. Len(<<h>>) = 1 /\ <<h>>[1] = h
      OBVIOUS
    <3>2. QED
      BY <3>1
  <2>3. \A r : ~\E k \in 1 .. Len(<<>>) : <<>>[k] = r
    OBVIOUS
  <2>4. Met' = Met \cup {h}
    BY <1>1, <2>1, <2>2, <2>3 DEF Met
  <2>5. QED
    BY <1>1, <2>4
<1>4. /\ Cardinality(toWalk') = Cardinality(toWalk) - 1
      /\ Cardinality((given \ Met)') = Cardinality(given \ Met) - 1
  BY <1>1, <1>2, <1>3, LeftType, OneFewer DEF Inv
<1>5. Cardinality(toWalk') \in Nat /\ Cardinality((given \ Met)') \in Nat
  <2>1. IsFiniteSet(toWalk') /\ IsFiniteSet((given \ Met)')
    BY <1>1, <1>3, LeftType, FS_Subset DEF Inv
  <2>2. QED
    BY <2>1, FS_CardinalityType
<1>6. QED
  BY <1>1, <1>4, <1>5, LeftType, SumFalls DEF Inv

\* A turn of a walk meets a record no walk has met.
LEMMA ExtendLeft ==
  ASSUME Inv, Countable, Extend
  PROVE  Left' \in Nat /\ Left' < Left
<1> DEFINE new == followers[current]
           n   == Len(chain)
<1>1. /\ chain # <<>> /\ chain' = Append(chain, new) /\ chain \in Seq(given) /\ n \in Nat
      /\ UNCHANGED <<given, toIndex, toWalk, chains>>
  BY NewRecord DEF Extend, Inv, TypeOK, records
<1>2. new \in given \ Met
  BY NewRecord DEF Extend, Met
<1> HIDE DEF new
<1>3. /\ Len(chain') = n + 1 /\ chain'[n + 1] = new /\ chain' # <<>>
      /\ \A k \in 1 .. n : chain'[k] = chain[k]
  BY <1>1, <1>2
<1>4. (given \ Met)' = (given \ Met) \ {new}
  <2>1. \A r \in given : (\E k \in 1 .. Len(chain') : chain'[k] = r)
                         <=> r = new \/ \E k \in 1 .. Len(chain) : chain[k] = r
    <3>1. 1 .. n + 1 = (1 .. n) \cup {n + 1}
      BY <1>1
    <3>2. QED
      BY <1>3, <3>1
  <2>2. Walked = chains \cup {chain} /\ Walked' = chains \cup {chain'}
    BY <1>1 DEF Walked
  <2> DEFINE In(q, r) == \E k \in 1 .. Len(q) : q[k] = r
  <2>3. /\ Met = {r \in given : \E q \in chains \cup {chain} : In(q, r)}
        /\ Met' = {r \in given : \E q \in chains \cup {chain'} : In(q, r)}
    BY <1>1, <2>2 DEF Met
  <2>4. \A r \in given : In(chain', r) <=> r = new \/ In(chain, r)
    BY <2>1
  <2> HIDE DEF In
  <2>5. Met' = Met \cup {new}
    BY <1>2, <2>3, <2>4
  <2>6. QED
    BY <1>1, <2>5
<1>5. Cardinality((given \ Met)') = Cardinality(given \ Met) - 1
  BY <1>2, <1>4, LeftType, OneFewer DEF Inv
<1>6. Cardinality((given \ Met)') \in Nat
  <2>1. IsFiniteSet((given \ Met)')
    BY <1>4, LeftType, FS_Subset DEF Inv
  <2>2. QED
    BY <2>1, FS_CardinalityType
<1>7. QED
  BY <1>1, <1>3, <1>5, <1>6, LeftType, SumFalls DEF Inv

\* A walk that ends returns its chain.
LEMMA EndLeft ==
  ASSUME Inv, Countable, End
  PROVE  Left' \in Nat /\ Left' < Left
<1>1. /\ chain # <<>> /\ chain' = <<>> /\ chains' = chains \cup {chain}
      /\ UNCHANGED <<given, toIndex, toWalk>>
  BY DEF End, records
<1>2. (given \ Met)' = given \ Met
  BY <1>1 DEF Met, Walked
<1>3. QED
  BY <1>1, <1>2, LeftType, SumFalls DEF Inv

\* Whatever the links, the reconstruction ends, after as many turns as there is
\* left to do at its beginning at most (chain.py:56-77).
THEOREM Terminates == Spec => Ends
<1>1. Init => Countable
  BY DEF Init, Countable
<1>2. Countable /\ [Next]_vars => Countable'
  BY DEF Countable, Next, vars, records, Index, Begin, Extend, End
<1>3. Inv /\ Countable /\ [Next]_vars => [Left' \in Nat /\ Left' < Left]_vars
  BY IndexLeft, BeginLeft, ExtendLeft, EndLeft DEF Next
<1>4. QED
  BY Inductive, <1>1, <1>2, <1>3, PTL DEF Spec, Ends
=============================================================================
