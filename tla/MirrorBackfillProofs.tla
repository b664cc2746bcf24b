------------------------- MODULE MirrorBackfillProofs -------------------------
(***************************************************************************)
(* The safety properties of MirrorBackfill, for every set of pages and     *)
(* selections and every bound: what a rebase of any number of commits ends *)
(* in, by induction over them, and what the versions in the backup, in the *)
(* mirror, on their way and in a snapshot have to do with each other.      *)
(***************************************************************************)
EXTENDS MirrorBackfill, FiniteSets, FiniteSetTheorems, WellFoundedInduction,
        SequenceTheorems, TLAPS

-----------------------------------------------------------------------------
(* Induction over an interval                                              *)

\* A set of indices has a least one: the initial segments that end in them are
\* finite sets, which strict inclusion orders well.  It stands for an induction over
\* the commits of a rebase.
LEMMA LeastIndex ==
    ASSUME NEW n \in Nat, NEW S, S \subseteq 0..n, S # {}
    PROVE  \E m \in S : \A k \in S : m <= k
<1> DEFINE Segment(k) == 0..k
           Segments == {Segment(k) : k \in S}
           Strictly == StrictSubsetOrdering(0..n)
<1>1. Segments \subseteq FiniteSubsetsOf(0..n) /\ Segments # {}
  <2>1. ASSUME NEW k \in S PROVE Segment(k) \in FiniteSubsetsOf(0..n)
    <3>1. IsFiniteSet(0..n) /\ Segment(k) \in SUBSET (0..n)
      BY FS_Interval
    <3>2. QED
      BY <3>1, FS_Subset DEF FiniteSubsetsOf
  <2>2. QED
    BY <2>1
<1>2. PICK s \in Segments : \A t \in Segments : <<t, s>> \notin Strictly
  <2>1. IsWellFoundedOn(Strictly, FiniteSubsetsOf(0..n))
    BY FS_StrictSubsetOrderingWellFounded
  <2> HIDE DEF Segments, Strictly
  <2>2. QED
    BY <1>1, <2>1, WFMin
<1>3. PICK m \in S : s = Segment(m)
  OBVIOUS
<1>4. ASSUME NEW k \in S, k < m PROVE FALSE
  <2>1. Segment(k) \subseteq Segment(m) /\ m \in Segment(m) /\ m \notin Segment(k)
    BY <1>4
  <2>2. <<Segment(k), Segment(m)>> \in Strictly
    BY <2>1 DEF StrictSubsetOrdering
  <2>3. QED
    BY <1>2, <1>3, <2>2
<1>5. QED
  BY <1>4

\* The same as an induction: what holds of 0 and passes from each index to the next
\* holds up to n.
LEMMA Climb ==
    ASSUME NEW n \in Nat, NEW S, 0 \in S,
           \A i \in 1..n : i - 1 \in S => i \in S
    PROVE  0..n \subseteq S
<1>1. SUFFICES ASSUME (0..n) \ S # {} PROVE FALSE
  OBVIOUS
<1>2. PICK m \in (0..n) \ S : \A k \in (0..n) \ S : m <= k
  BY <1>1, LeastIndex
<1>3. m \in 1..n /\ m - 1 \in 0..n /\ ~(m <= m - 1)
  BY <1>2
<1>4. QED
  BY <1>2, <1>3

-----------------------------------------------------------------------------
(* The rebase                                                              *)

\* The function that Rebase is declared to be exists: the recursion has a solution up
\* to every index.
LEMMA RebaseUnfolds ==
    ASSUME Len(mirror.pending) \in Nat
    PROVE  Rebase = [i \in 0..Len(mirror.pending) |->
                       IF i = 0 THEN [out |-> <<>>, ok |-> TRUE]
                       ELSE Replay(Rebase[i - 1], i)]
<1> PICK n \in Nat : n = Len(mirror.pending)
  OBVIOUS
<1> DEFINE Start == [out |-> <<>>, ok |-> TRUE]
           Solves(g, k) == g = [i \in 0..k |-> IF i = 0 THEN Start ELSE Replay(g[i - 1], i)]
           Solved == {k \in 0..n : \E g : Solves(g, k)}
<1>1. 0 \in Solved
  <2>1. Solves([i \in 0..0 |-> Start], 0)
    OBVIOUS
  <2> HIDE DEF Solves
  <2>2. QED
    BY <2>1
<1>2. ASSUME NEW k \in 1..n, k - 1 \in Solved PROVE k \in Solved
  <2>1. PICK g : Solves(g, k - 1)
    BY <1>2
  <2> DEFINE h == [i \in 0..k |-> IF i = k THEN Replay(g[k - 1], k) ELSE g[i]]
  <2>2. ASSUME NEW i \in 0..k
        PROVE  h[i] = IF i = 0 THEN Start ELSE Replay(h[i - 1], i)
    <3>1. CASE i = k
      <4>1. h[k - 1] = g[k - 1]
        OBVIOUS
      <4>2. QED
        BY <3>1, <4>1
    <3>2. CASE i # k
      <4>1. i \in 0..(k - 1) /\ h[i] = g[i] /\ (i # 0 => h[i - 1] = g[i - 1])
        BY <3>2
      <4>2. g[i] = IF i = 0 THEN Start ELSE Replay(g[i - 1], i)
        BY <2>1, <4>1
      <4>3. QED
        BY <4>1, <4>2
    <3>3. QED
      BY <3>1, <3>2
  <2>3. h = [i \in 0..k |-> h[i]]
    OBVIOUS
  <2>4. Solves(h, k)
    <3> HIDE DEF h, Start
    <3>1. QED
      BY <2>2, <2>3
  <2> HIDE DEF Solves, h
  <2>5. QED
    BY <2>4
<1>3. n \in Solved
  <2> HIDE DEF Solved
  <2>1. 0..n \subseteq Solved
    BY <1>1, <1>2, Climb
  <2>2. QED
    BY <2>1
<1>4. \E g : Solves(g, n)
  BY <1>3
<1>5. QED
  BY <1>4 DEF Rebase

\* Trees whose pages have given lines in each part.
Mixed(G) == {t \in Tree : \A p \in Pages, x \in Parts : t[p][x] \in G[p][x]}

\* What the branches are made of.
Branches(G) ==
    /\ Empty \in Mixed(G)
    /\ remote \in Seq(Mixed(G))
    /\ mirror.pending \in Seq(Mixed(G))
    /\ mirror.base \in 0..Len(remote)

\* The mirror's branch after i commits, and what they have changed.
After(i) == IF i = 0 THEN TreeAt(mirror.base) ELSE mirror.pending[i]
ChangedBy(i) == {px \in Pages \X Parts : \E j \in 1..i : px \in Touched(j)}
Merged(i) == [p \in Pages |-> [x \in Parts |->
                IF <<p, x>> \in ChangedBy(i) THEN After(i)[p][x] ELSE Backup[p][x]]]

TipOf(r) == IF r.out = <<>> THEN Backup ELSE Last(r.out)

\* What the rebase r has reached with i commits.
Reached(G, r, i) ==
    /\ r.out \in Seq(Mixed(G)) /\ r.ok \in BOOLEAN
    /\ TipOf(r) = Merged(i)
    /\ \A p \in Pages, x \in Parts :
          <<p, x>> \notin ChangedBy(i) => After(i)[p][x] = TreeAt(mirror.base)[p][x]
    /\ ~r.ok => \E px \in ChangedBy(i) : Backup[px[1]] # TreeAt(mirror.base)[px[1]]

LEMMA BranchTrees ==
    ASSUME NEW G, Branches(G)
    PROVE  /\ Len(remote) \in Nat /\ Len(mirror.pending) \in Nat
           /\ \A n \in 0..Len(remote) : TreeAt(n) \in Mixed(G)
           /\ Backup \in Mixed(G)
           /\ \A i \in 0..Len(mirror.pending) : After(i) \in Mixed(G)
<1>1. Len(remote) \in Nat /\ Len(mirror.pending) \in Nat
  BY DEF Branches
<1>2. \A n \in 0..Len(remote) : TreeAt(n) \in Mixed(G)
  BY <1>1 DEF Branches, TreeAt
<1>3. \A i \in 1..Len(mirror.pending) : mirror.pending[i] \in Mixed(G)
  BY <1>1 DEF Branches
<1>4. QED
  BY <1>1, <1>2, <1>3 DEF Branches, After, Backup

\* One commit more.
LEMMA ReplayReaches ==
    ASSUME NEW G, Branches(G), NEW i \in 1..Len(mirror.pending),
           NEW r, Reached(G, r, i - 1)
    PROVE  Reached(G, Replay(r, i), i)
<1> DEFINE tip == TipOf(r)
           new == [p \in Pages |-> [x \in Parts |->
                     IF <<p, x>> \in Touched(i) THEN mirror.pending[i][p][x] ELSE tip[p][x]]]
           next == Replay(r, i)
<1>1. /\ i - 1 \in 0..Len(mirror.pending) /\ i \in 0..Len(mirror.pending)
      /\ Before(i) = After(i - 1) /\ After(i) = mirror.pending[i]
  BY BranchTrees DEF Before, After
<1>2. /\ After(i - 1) \in Mixed(G) /\ After(i) \in Mixed(G)
      /\ Backup \in Mixed(G) /\ TreeAt(mirror.base) \in Mixed(G)
  BY <1>1, BranchTrees DEF Branches
<1>3. ChangedBy(i) = ChangedBy(i - 1) \cup Touched(i)
  BY BranchTrees DEF ChangedBy, Touched
<1>4. \A p \in Pages, x \in Parts :
        <<p, x>> \notin Touched(i) => After(i)[p][x] = After(i - 1)[p][x]
  BY <1>1 DEF Touched
<1>5. Touched(i) \subseteq Pages \X Parts
  BY DEF Touched
<1>6. tip = Merged(i - 1)
  BY DEF Reached
<1>7. tip \in Mixed(G)
  <2>1. ASSUME NEW p \in Pages, NEW x \in Parts
        PROVE  Merged(i - 1)[p][x] \in Lines /\ Merged(i - 1)[p][x] \in G[p][x]
    BY <1>2 DEF Merged, Mixed, Tree
  <2>2. Merged(i - 1) \in Mixed(G)
    BY <2>1 DEF Merged, Mixed, Tree
  <2>3. QED
    BY <1>6, <2>2
<1>8. new \in Mixed(G)
  <2>1. /\ \A p \in Pages, x \in Parts : tip[p][x] \in Lines /\ tip[p][x] \in G[p][x]
        /\ \A p \in Pages, x \in Parts :
              mirror.pending[i][p][x] \in Lines /\ mirror.pending[i][p][x] \in G[p][x]
    <3> HIDE DEF tip
    <3>1. QED
      BY <1>1, <1>2, <1>7 DEF Mixed, Tree
  <2> HIDE DEF tip
  <2>2. QED
    BY <2>1 DEF Mixed, Tree
<1>9. next = [out |-> IF new = tip /\ Touched(i) # {} THEN r.out ELSE Append(r.out, new),
              ok |-> r.ok /\ \A p \in Pages :
                               ~Collide(Before(i)[p], mirror.pending[i][p], tip[p])]
  BY DEF Replay, TipOf
<1> HIDE DEF tip, new, next
<1>10. new = Merged(i)
  <2>1. ASSUME NEW p \in Pages, NEW x \in Parts PROVE new[p][x] = Merged(i)[p][x]
    <3>1. CASE <<p, x>> \in Touched(i)
      BY <1>1, <1>3, <3>1 DEF new, Merged
    <3>2. CASE <<p, x>> \notin Touched(i)
      <4>1. new[p][x] = tip[p][x] /\ After(i)[p][x] = After(i - 1)[p][x]
        BY <1>4, <3>2 DEF new
      <4>2. QED
        BY <1>3, <1>6, <3>2, <4>1 DEF Merged
    <3>3. QED
      BY <3>1, <3>2
  <2>2. QED
    BY <2>1 DEF new, Merged
<1>11. next.out \in Seq(Mixed(G)) /\ TipOf(next) = new /\ next.ok \in BOOLEAN
  <2>1. r.out \in Seq(Mixed(G)) /\ tip = TipOf(r)
    BY DEF Reached, tip
  <2>2. CASE new = tip /\ Touched(i) # {}
    BY <1>9, <2>1, <2>2 DEF TipOf
  <2>3. CASE ~(new = tip /\ Touched(i) # {})
    <3>1. next.out = Append(r.out, new)
      BY <1>9, <2>3
    <3>2. next.out \in Seq(Mixed(G)) /\ next.out # <<>> /\ Last(next.out) = new
      BY <1>8, <2>1, <3>1, AppendProperties DEF Last
    <3>3. QED
      BY <1>9, <3>2 DEF TipOf
  <2>4. QED
    BY <2>2, <2>3
<1>12. ASSUME NEW p \in Pages, NEW x \in Parts, <<p, x>> \notin ChangedBy(i)
       PROVE  After(i)[p][x] = TreeAt(mirror.base)[p][x]
  BY <1>3, <1>4, <1>12 DEF Reached
<1>13. ASSUME ~next.ok
       PROVE  \E px \in ChangedBy(i) : Backup[px[1]] # TreeAt(mirror.base)[px[1]]
  <2>1. CASE ~r.ok
    BY <1>3, <2>1 DEF Reached
  <2>2. CASE r.ok
    <3>1. PICK p \in Pages : Collide(After(i - 1)[p], After(i)[p], tip[p])
      BY <1>1, <1>9, <1>13, <2>2
    <3>2. After(i)[p] # After(i - 1)[p] /\ tip[p] # After(i - 1)[p]
      BY <3>1 DEF Collide
    <3>3. PICK x \in Parts : After(i)[p][x] # After(i - 1)[p][x]
      <4>1. After(i)[p] \in [Parts -> Lines] /\ After(i - 1)[p] \in [Parts -> Lines]
        BY <1>2 DEF Mixed, Tree
      <4>2. QED
        BY <3>2, <4>1
    <3>4. PICK y \in Parts : tip[p][y] # After(i - 1)[p][y]
      <4>1. tip[p] \in [Parts -> Lines] /\ After(i - 1)[p] \in [Parts -> Lines]
        BY <1>2, <1>7 DEF Mixed, Tree
      <4>2. QED
        BY <3>2, <4>1
    <3>5. <<p, x>> \in ChangedBy(i)
      BY <1>3, <1>4, <3>3
    <3>6. <<p, y>> \notin ChangedBy(i - 1)
      BY <1>6, <3>4 DEF Merged
    <3>7. tip[p][y] = Backup[p][y] /\ After(i - 1)[p][y] = TreeAt(mirror.base)[p][y]
      BY <1>6, <3>6 DEF Merged, Reached
    <3>8. Backup[p] # TreeAt(mirror.base)[p]
      BY <3>4, <3>7
    <3>9. QED
      BY <3>5, <3>8
  <2>3. QED
    BY <2>1, <2>2 DEF Reached
<1>14. QED
  BY <1>10, <1>11, <1>12, <1>13 DEF Reached, next

\* All of them.
LEMMA RebaseReaches ==
    ASSUME NEW G, Branches(G)
    PROVE  Reached(G, Rebase[Len(mirror.pending)], Len(mirror.pending))
<1>1. PICK n \in Nat : n = Len(mirror.pending)
  BY BranchTrees
<1> DEFINE Done == {i \in 0..n : Reached(G, Rebase[i], i)}
<1>2. \A i \in 0..n : Rebase[i] = IF i = 0 THEN [out |-> <<>>, ok |-> TRUE]
                                 ELSE Replay(Rebase[i - 1], i)
  BY <1>1, RebaseUnfolds
<1>3. Reached(G, Rebase[0], 0)
  <2>1. Rebase[0] = [out |-> <<>>, ok |-> TRUE]
    BY <1>2
  <2>2. ChangedBy(0) = {} /\ After(0) = TreeAt(mirror.base)
    BY DEF ChangedBy, After
  <2>3. Backup = Merged(0)
    BY <2>2, BranchTrees DEF Merged, Mixed, Tree
  <2>4. TipOf(Rebase[0]) = Backup /\ Rebase[0].out \in Seq(Mixed(G)) /\ Rebase[0].ok = TRUE
    BY <2>1 DEF TipOf
  <2>5. QED
    BY <2>2, <2>3, <2>4 DEF Reached
<1>4. ASSUME NEW i \in 1..n, i - 1 \in Done PROVE i \in Done
  <2>1. Rebase[i] = Replay(Rebase[i - 1], i) /\ Reached(G, Rebase[i - 1], i - 1)
    BY <1>2, <1>4
  <2>2. QED
    BY <1>1, <2>1, ReplayReaches
<1>5. n \in Done
  <2> HIDE DEF Done
  <2>1. 0 \in Done
    BY <1>3 DEF Done
  <2>2. 0..n \subseteq Done
    BY <1>4, <2>1, Climb
  <2>3. QED
    BY <2>2
<1>6. QED
  BY <1>1, <1>5

-----------------------------------------------------------------------------
(* Types                                                                   *)

LEMMA CopyType ==
    /\ None \in Copies
    /\ \A c \in Copies, x \in Parts : c[x] \in 0..MaxChanges /\ (c[x] = 0 <=> c = None)
BY BackfillAssumption DEF Copies, None, Parts

LEMMA FileType ==
    ASSUME NEW c \in Copies, NEW form \in {"json", "yaml"}
    PROVE  /\ File(c, form) \in [Parts -> Lines]
           /\ \A x \in Parts : File(c, form)[x].v = c[x]
<1>1. CASE c = None
  BY <1>1 DEF File, Absent, Lines, NoLines, None
<1>2. CASE c # None
  <2>1. \A x \in Parts : c[x] \in 1..MaxChanges
    BY <1>2 DEF Copies
  <2>2. QED
    BY <1>2, <2>1 DEF File, Lines
<1>3. QED
  BY <1>1, <1>2

LEMMA EmptyType == Empty \in Tree
BY DEF Empty, Tree, Absent, Lines

LEMMA TreeAtType ==
    ASSUME remote \in Seq(Tree), NEW n \in 0..Len(remote)
    PROVE  TreeAt(n) \in Tree
BY EmptyType DEF TreeAt

\* Any lines: the content a rebase needs for the types.
AnyFile == [p \in Pages |-> [x \in Parts |-> Lines]]

LEMMA AnyBranches ==
    ASSUME TypeOK
    PROVE  Branches(AnyFile) /\ Mixed(AnyFile) = Tree
<1>1. Mixed(AnyFile) = Tree
  BY DEF Mixed, AnyFile, Tree
<1>2. mirror.base \in 0..Len(remote) /\ mirror.pending \in Seq(Tree) /\ remote \in Seq(Tree)
  BY DEF TypeOK, Mirrors
<1>3. QED
  BY <1>1, <1>2, EmptyType DEF Branches

LEMMA MirrorType ==
    ASSUME NEW b \in Nat, NEW q \in Seq(Tree), NEW w \in BOOLEAN
    PROVE  /\ [base |-> b, pending |-> q, wedged |-> w] \in Mirrors
           /\ [base |-> b, pending |-> q, wedged |-> w].base = b
BY DEF Mirrors

LEMMA TypeInit == Init => TypeOK
<1> SUFFICES ASSUME Init PROVE TypeOK
  OBVIOUS
<1>2. /\ clock = 0 /\ faults = 0 /\ notifies = {} /\ remote = <<>>
      /\ wiki = [p \in Pages |-> None]
      /\ mirror = [base |-> 0, pending |-> <<>>, wedged |-> FALSE]
  BY DEF Init
<1>3. PICK only \in Selections :
        bf = [pc |-> "idle", only |-> only, snap |-> wiki, at |-> 0, onto |-> 0, tree |-> Empty]
  BY DEF Init
<1>4. 0 \in 0..MaxChanges /\ 0 \in 0..MaxFaults
  BY BackfillAssumption
<1>5. wiki \in Versions
  BY <1>2, CopyType DEF Versions
<1>6. remote \in Seq(Tree) /\ Len(remote) = 0
  BY <1>2
<1>7. mirror \in Mirrors /\ mirror.base = 0
  BY <1>2, <1>6, MirrorType
<1>8. bf \in Scripts /\ bf.onto = 0
  BY <1>3, <1>4, <1>5, EmptyType DEF Scripts
<1>9. QED
  BY <1>2, <1>4, <1>5, <1>6, <1>7, <1>8 DEF TypeOK

Engine ==
    \/ \E p, q \in Pages : Write(p) \/ Delete(p) \/ Move(p, q)
    \/ \E n \in notifies : Lose(n)

Backfilling == Backfill \/ ReuseSnapshot \/ CloneFails \/ ScriptFails

LEMMA StepSplits == Next <=> Engine \/ Mirror \/ MirrorRestart \/ Backfilling
BY DEF Next, Engine, Backfilling

LEMMA OnlyTheScript ==
    ASSUME [Next]_vars, bf' # bf
    PROVE  Backfilling
BY StepSplits DEF vars, Engine, Write, Delete, Move, Lose, Mirror, Sync, MirrorPush,
                  MirrorRebase, MirrorRestart

\* What a write leaves of the page, and what the mirror is told of it: the parts that
\* are not written stay.
LEMMA WriteType ==
    ASSUME TypeOK, NEW p \in Pages, Write(p)
    PROVE  \E c \in Copies :
              /\ wiki' = [wiki EXCEPT ![p] = c] /\ Notified(p, c)
              /\ \A x \in Parts : \/ c[x] = clock'
                                  \/ wiki[p] # None /\ c[x] = wiki[p][x]
<1>1. PICK written \in (IF wiki[p] = None THEN {Parts} ELSE Edits) :
        LET c == [x \in Parts |-> IF x \in written THEN clock' ELSE wiki[p][x]] IN
        /\ wiki' = [wiki EXCEPT ![p] = c]
        /\ Notified(p, c)
  BY DEF Write
<1> DEFINE c == [x \in Parts |-> IF x \in written THEN clock' ELSE wiki[p][x]]
<1>2. clock' \in 1..MaxChanges /\ wiki[p] \in Copies
  BY BackfillAssumption DEF Write, Tick, TypeOK, Versions
<1>3. \A x \in Parts : c[x] = clock' \/ (wiki[p] # None /\ c[x] = wiki[p][x])
  BY <1>1
<1>4. c \in Copies
  BY <1>1, <1>2, <1>3 DEF Copies
<1>5. QED
  BY <1>1, <1>3, <1>4

LEMMA TypeEngine ==
    ASSUME TypeOK, Engine
    PROVE  TypeOK'
<1>1. UNCHANGED <<remote, mirror, bf, faults>>
  BY DEF Engine, Write, Delete, Move, Lose
<1>2. clock' \in 0..MaxChanges
  BY BackfillAssumption DEF Engine, Write, Delete, Move, Lose, Tick, TypeOK
<1>3. wiki' \in Versions /\ notifies' \subseteq [page : Pages, copy : Copies]
  <2>1. None \in Copies
    BY CopyType
  <2>2. ASSUME NEW p \in Pages, Write(p)
        PROVE  wiki' \in Versions /\ notifies' \subseteq [page : Pages, copy : Copies]
    <3>1. PICK c \in Copies : wiki' = [wiki EXCEPT ![p] = c] /\ Notified(p, c)
      BY <2>2, WriteType
    <3>2. QED
      BY <3>1 DEF Notified, TypeOK, Versions
  <2>3. CASE \E p \in Pages : Delete(p)
    BY <2>1, <2>3 DEF Delete, Notified, TypeOK, Versions
  <2>4. ASSUME NEW p \in Pages, NEW q \in Pages, Move(p, q)
        PROVE  wiki' \in Versions /\ notifies' \subseteq [page : Pages, copy : Copies]
    <3>1. clock' \in 1..MaxChanges
      BY <2>4, BackfillAssumption DEF Move, Tick, TypeOK
    <3>2. [x \in Parts |-> clock'] \in Copies
      BY <3>1 DEF Copies
    <3>3. PICK c \in Copies : c = [x \in Parts |-> clock']
      BY <3>2
    <3>4. QED
      BY <2>1, <2>4, <3>3 DEF Move, TypeOK, Versions
  <2>5. CASE \E n \in notifies : Lose(n)
    BY <2>5 DEF Lose, TypeOK
  <2>6. QED
    BY <2>2, <2>3, <2>4, <2>5 DEF Engine
<1>4. QED
  BY <1>1, <1>2, <1>3 DEF TypeOK

LEMMA LocalType ==
    ASSUME TypeOK
    PROVE  Local \in Tree
<1>1. mirror.pending \in Seq(Tree) /\ mirror.base \in 0..Len(remote) /\ remote \in Seq(Tree)
  BY DEF TypeOK, Mirrors
<1>2. CASE mirror.pending = <<>>
  BY <1>1, <1>2, TreeAtType DEF Local
<1>3. CASE mirror.pending # <<>>
  <2>1. Len(mirror.pending) \in 1..Len(mirror.pending)
    BY <1>1, <1>3
  <2>2. QED
    BY <1>1, <1>3, <2>1 DEF Local, Last
<1>4. QED
  BY <1>2, <1>3

LEMMA TypeSync ==
    ASSUME TypeOK, NEW n \in notifies, Sync(n)
    PROVE  TypeOK'
<1> DEFINE t == [Local EXCEPT ![n.page] = File(n.copy, "json")]
<1>1. t \in Tree
  <2>1. File(n.copy, "json") \in [Parts -> Lines]
    BY FileType DEF TypeOK
  <2>2. QED
    BY <2>1, LocalType DEF Tree
<1>2. mirror' = mirror \/ mirror' = [mirror EXCEPT !.pending = Append(mirror.pending, t)]
  BY DEF Sync
<1>3. mirror' \in Mirrors /\ mirror'.base = mirror.base
  <2> HIDE DEF t
  <2>1. mirror \in Mirrors
    BY DEF TypeOK
  <2>2. Append(mirror.pending, t) \in Seq(Tree)
    BY <1>1, <2>1, AppendProperties DEF Mirrors
  <2>3. QED
    BY <1>2, <2>1, <2>2 DEF Mirrors
<1>4. UNCHANGED <<clock, wiki, remote, bf, faults>> /\ notifies' \subseteq notifies
  BY DEF Sync
<1>5. QED
  BY <1>3, <1>4 DEF TypeOK

LEMMA PushType ==
    ASSUME TypeOK, MirrorPush
    PROVE  /\ remote' = remote \o mirror.pending
           /\ remote' \in Seq(Tree)
           /\ Len(remote') = Len(remote) + Len(mirror.pending)
           /\ mirror' = [base |-> Len(remote'), pending |-> <<>>, wedged |-> FALSE]
<1>1. mirror \in Mirrors /\ mirror.pending \in Seq(Tree) /\ remote \in Seq(Tree)
  BY DEF TypeOK, Mirrors
<1>2. mirror.wedged = FALSE
  BY <1>1 DEF MirrorPush, Mirrors
<1>3. QED
  BY <1>1, <1>2, ConcatProperties DEF MirrorPush, Mirrors

LEMMA TypeMirrorPush ==
    ASSUME TypeOK, MirrorPush
    PROVE  TypeOK'
<1>1. Len(remote) \in Nat /\ Len(mirror.pending) \in Nat
  BY DEF TypeOK, Mirrors
<1>2. Len(remote') \in Nat /\ Len(remote) <= Len(remote')
  BY <1>1, PushType
<1>3. mirror' \in Mirrors /\ mirror'.base = Len(remote')
  <2>1. <<>> \in Seq(Tree)
    OBVIOUS
  <2>2. QED
    BY <1>2, <2>1, PushType, MirrorType
<1>4. bf' \in Scripts /\ bf'.onto <= Len(remote')
  BY <1>1, <1>2 DEF TypeOK, MirrorPush, Scripts
<1>5. QED
  BY <1>2, <1>3, <1>4, PushType DEF TypeOK, MirrorPush

LEMMA TypeMirrorRebase ==
    ASSUME TypeOK, MirrorRebase
    PROVE  TypeOK'
<1>1. mirror \in Mirrors /\ Len(remote) \in Nat /\ mirror.base <= Len(remote)
  BY DEF TypeOK
<1>2. PICK r : r = Rebase[Len(mirror.pending)]
  OBVIOUS
<1>3. r.out \in Seq(Tree)
  BY <1>2, AnyBranches, RebaseReaches DEF Reached
<1>4. mirror' = IF r.ok THEN [base |-> Len(remote), pending |-> r.out, wedged |-> FALSE]
               ELSE [mirror EXCEPT !.wedged = TRUE]
  BY <1>2 DEF MirrorRebase
<1>5. CASE r.ok
  <2>1. mirror' \in Mirrors /\ mirror'.base = Len(remote)
    BY <1>1, <1>3, <1>4, <1>5, MirrorType
  <2>2. QED
    BY <1>1, <2>1 DEF TypeOK, MirrorRebase
<1>6. CASE ~r.ok
  <2>1. mirror' = [mirror EXCEPT !.wedged = TRUE]
    BY <1>4, <1>6
  <2>2. mirror' \in Mirrors /\ mirror'.base = mirror.base
    BY <1>1, <2>1 DEF Mirrors
  <2>3. QED
    BY <1>1, <2>2 DEF TypeOK, MirrorRebase
<1>7. QED
  BY <1>5, <1>6

LEMMA TypeMirrorRestart ==
    ASSUME TypeOK, MirrorRestart
    PROVE  TypeOK'
<1>1. mirror' \in Mirrors /\ mirror'.base <= Len(remote)
  BY DEF TypeOK, MirrorRestart, Mirrors
<1>2. faults' \in 0..MaxFaults
  BY BackfillAssumption DEF TypeOK, MirrorRestart, Fault
<1>3. QED
  BY <1>1, <1>2 DEF TypeOK, MirrorRestart

LEMMA SnapshotType ==
    ASSUME TypeOK
    PROVE  write_pages \in Tree
<1>1. ASSUME NEW p \in Pages, p \in iter_pages(bf.snap, bf.only)
      PROVE  File(bf.snap[p], "yaml") \in [Parts -> Lines]
  <2>1. bf.snap[p] \in Copies
    BY DEF TypeOK, Scripts, Versions
  <2>2. QED
    BY <2>1, FileType
<1>2. QED
  BY <1>1, EmptyType DEF write_pages, clear_wiki_tree, Tree

\* What the script's push leaves, taken or not.
LEMMA PublishedType ==
    ASSUME TypeOK, FastForward
    PROVE  /\ Published = Append(remote, bf.tree)
           /\ Published \in Seq(Tree)
           /\ Len(Published) = Len(remote) + 1
           /\ Published[Len(Published)] = bf.tree
           /\ \A i \in 1..Len(remote) : Published[i] = remote[i]
<1>1. remote \in Seq(Tree) /\ bf.tree \in Tree /\ Len(remote) \in Nat
  BY DEF TypeOK, Scripts
<1>2. SubSeq(remote, 1, bf.onto) = remote
  BY <1>1 DEF FastForward
<1>3. remote \o <<bf.tree>> = Append(remote, bf.tree)
  BY <1>1
<1>4. Published = Append(remote, bf.tree)
  BY <1>2, <1>3 DEF Published
<1>5. QED
  BY <1>1, <1>4, AppendProperties

LEMMA TypeScript ==
    ASSUME TypeOK,
           NEW b \in Scripts, Script(b), b.onto <= Len(remote'),
           remote' = remote \/ (FastForward /\ remote' = Published),
           faults' = faults \/ Fault
    PROVE  TypeOK'
<1>1. bf' = b /\ UNCHANGED <<clock, wiki, notifies, mirror>>
  BY DEF Script
<1>2. faults' \in 0..MaxFaults
  BY BackfillAssumption DEF TypeOK, Fault
<1>3. remote' \in Seq(Tree) /\ Len(remote) <= Len(remote')
  <2>1. remote \in Seq(Tree) /\ Len(remote) \in Nat
    BY DEF TypeOK
  <2>2. QED
    BY <2>1, PublishedType
<1>4. mirror'.base <= Len(remote')
  BY <1>1, <1>3 DEF TypeOK, Mirrors
<1>5. QED
  BY <1>1, <1>2, <1>3, <1>4 DEF TypeOK

\* Every step of the script is one of these.
LEMMA ScriptSteps ==
    ASSUME TypeOK, Backfilling
    PROVE  /\ UNCHANGED <<clock, wiki, notifies, mirror>>
           /\ remote' = remote \/ (bf.pc = "push" /\ FastForward /\ remote' = Published)
           /\ faults' = faults \/ Fault
           /\ \/ \E only \in Selections :
                     /\ bf.pc = "idle" /\ remote' = remote
                     /\ \/ Enumerate(wiki, only, clock)
                        \/ Enumerate(bf.snap, only, bf.at)
              \/ \E n \in {0, Len(remote)} : Cloned(n) /\ remote' = remote
              \/ /\ bf.pc = "commit" /\ Differs /\ remote' = remote
                 /\ Script([bf EXCEPT !.pc = "push", !.tree = write_pages])
              \/ Finished
<1>1. CASE snapshot_pvc
  BY <1>1 DEF snapshot_pvc, Enumerate, Script
<1>2. CASE ReuseSnapshot
  BY <1>2 DEF ReuseSnapshot, Enumerate, Script
<1>3. CASE setup_workdir
  BY <1>3 DEF setup_workdir, Cloned, Script
<1>4. CASE CloneFails
  BY <1>4 DEF CloneFails, Cloned, Script
<1>5. CASE Commit
  <2>1. CASE Differs
    BY <1>5, <2>1 DEF Commit, Script
  <2>2. CASE ~Differs
    BY <1>5, <2>2 DEF Commit, Finished, Script
  <2>3. QED
    BY <2>1, <2>2
<1>6. CASE Push
  BY <1>6 DEF Push, Finished, Script
<1>7. CASE PushRejected
  BY <1>7 DEF PushRejected, Finished, Script
<1>8. CASE ScriptFails
  BY <1>8 DEF ScriptFails, Finished, Script
<1>9. QED
  BY <1>1, <1>2, <1>3, <1>4, <1>5, <1>6, <1>7, <1>8 DEF Backfilling, Backfill

LEMMA TypeBackfilling ==
    ASSUME TypeOK, Backfilling
    PROVE  TypeOK'
<1>1. /\ bf \in Scripts /\ bf.onto <= Len(remote) /\ Len(remote) \in Nat
      /\ remote \in Seq(Tree) /\ wiki \in Versions /\ clock \in 0..MaxChanges
  BY DEF TypeOK
<1>2. ASSUME NEW b \in Scripts, Script(b), b.onto <= Len(remote), remote' = remote
      PROVE  TypeOK'
  BY <1>2, ScriptSteps, TypeScript
<1>3. ASSUME NEW snap \in Versions, NEW only \in Selections, NEW at \in 0..MaxChanges,
             Enumerate(snap, only, at), remote' = remote
      PROVE  TypeOK'
  <2> DEFINE pc == IF iter_pages(snap, only) = {} THEN "idle" ELSE "clone"
             b == [bf EXCEPT !.pc = pc, !.only = only, !.snap = snap, !.at = at]
  <2>1. pc \in {"idle", "clone"}
    OBVIOUS
  <2>2. Script(b)
    BY <1>3 DEF Enumerate
  <2> HIDE DEF pc
  <2>3. b \in Scripts /\ b.onto = bf.onto
    BY <1>1, <2>1 DEF Scripts
  <2> HIDE DEF b
  <2>4. QED
    BY <1>1, <1>2, <1>3, <2>2, <2>3
<1>4. ASSUME NEW n \in {0, Len(remote)}, Cloned(n), remote' = remote
      PROVE  TypeOK'
  <2> DEFINE t == TreeAt(n)
             b == [bf EXCEPT !.pc = "commit", !.onto = n, !.tree = t]
  <2>1. Script(b)
    BY <1>4 DEF Cloned
  <2>2. t \in Tree /\ n \in Nat
    BY <1>1, TreeAtType
  <2> HIDE DEF t
  <2>3. b \in Scripts /\ b.onto = n
    BY <1>1, <2>2 DEF Scripts
  <2> HIDE DEF b
  <2>4. QED
    BY <1>1, <1>2, <1>4, <2>1, <2>3
<1>5. ASSUME Script([bf EXCEPT !.pc = "push", !.tree = write_pages]), remote' = remote
      PROVE  TypeOK'
  <2> DEFINE t == write_pages
             b == [bf EXCEPT !.pc = "push", !.tree = t]
  <2>1. t \in Tree
    BY SnapshotType
  <2>2. Script(b)
    BY <1>5
  <2> HIDE DEF t
  <2>3. b \in Scripts /\ b.onto = bf.onto
    BY <1>1, <2>1 DEF Scripts
  <2> HIDE DEF b
  <2>4. QED
    BY <1>1, <1>2, <1>5, <2>2, <2>3
<1>6. CASE Finished
  <2> DEFINE b == [bf EXCEPT !.pc = "idle", !.onto = 0, !.tree = Empty]
  <2>1. Script(b)
    BY <1>6 DEF Finished
  <2>2. b \in Scripts /\ b.onto = 0
    BY <1>1, EmptyType DEF Scripts
  <2>3. Len(remote') \in Nat
    BY <1>1, ScriptSteps, PublishedType
  <2> HIDE DEF b
  <2>4. QED
    BY <2>1, <2>2, <2>3, ScriptSteps, TypeScript
<1>7. bf.snap \in Versions /\ bf.at \in 0..MaxChanges
  BY <1>1 DEF Scripts
<1>8. QED
  BY <1>1, <1>3, <1>4, <1>5, <1>6, <1>7, ScriptSteps

LEMMA TypeStep == TypeOK /\ [Next]_vars => TypeOK'
<1> SUFFICES ASSUME TypeOK, [Next]_vars PROVE TypeOK'
  OBVIOUS
<1>1. CASE Engine
  BY <1>1, TypeEngine
<1>2. CASE Mirror
  BY <1>2, TypeSync, TypeMirrorPush, TypeMirrorRebase DEF Mirror
<1>3. CASE MirrorRestart
  BY <1>3, TypeMirrorRestart
<1>4. CASE Backfilling
  BY <1>4, TypeBackfilling
<1>5. CASE UNCHANGED vars
  BY <1>5 DEF vars, TypeOK
<1>6. QED
  BY <1>1, <1>2, <1>3, <1>4, <1>5, StepSplits

\* The type invariant of both writers, a rebase of any number of commits included.
THEOREM TypeCorrect == Spec => []TypeOK
<1>1. QED
  BY TypeInit, TypeStep, PTL DEF Spec

-----------------------------------------------------------------------------
(* The history of the backup                                               *)

\* The remote changes by appending only: the mirror's commits or the script's one.
LEMMA RemoteGrows ==
    ASSUME TypeOK, [Next]_vars
    PROVE  /\ Len(remote) <= Len(remote')
           /\ \A i \in 1..Len(remote) : remote'[i] = remote[i]
           /\ remote' = remote \/ MirrorPush \/ remote' = Append(remote, bf.tree)
<1>1. remote \in Seq(Tree) /\ mirror.pending \in Seq(Tree) /\ Len(remote) \in Nat
  BY DEF TypeOK, Mirrors
<1>2. remote' = remote \/ MirrorPush \/ remote' = Append(remote, bf.tree)
  <2>1. CASE Engine
    BY <2>1 DEF Engine, Write, Delete, Move, Lose
  <2>2. CASE Mirror
    BY <2>2 DEF Mirror, Sync, MirrorRebase
  <2>3. CASE MirrorRestart
    BY <2>3 DEF MirrorRestart
  <2>4. CASE Backfilling
    BY <2>4, ScriptSteps, PublishedType
  <2>5. CASE UNCHANGED vars
    BY <2>5 DEF vars
  <2>6. QED
    BY <2>1, <2>2, <2>3, <2>4, <2>5, StepSplits
<1>3. CASE remote' = remote
  BY <1>1, <1>2, <1>3
<1>4. CASE MirrorPush
  <2>1. /\ remote' = remote \o mirror.pending
        /\ Len(remote') = Len(remote) + Len(mirror.pending)
        /\ Len(mirror.pending) \in Nat
    BY <1>1, <1>4, PushType
  <2>2. QED
    BY <1>1, <1>2, <2>1, ConcatProperties
<1>5. CASE remote' = Append(remote, bf.tree)
  <2>1. bf.tree \in Tree
    BY DEF TypeOK, Scripts
  <2>2. QED
    BY <1>1, <1>2, <1>5, <2>1, AppendProperties
<1>6. QED
  BY <1>2, <1>3, <1>4, <1>5

\* Neither writer takes commits out of the backup (images/git-mirror pushes and
\* git-mirror-backfill.py pushes, both without force, from clones of any age).
THEOREM HistoryIsKept == Spec => HistorySurvives
<1>1. TypeOK /\ [Next]_vars => [IsPrefix(remote, remote')]_vars
  <2> SUFFICES ASSUME TypeOK, [Next]_vars PROVE IsPrefix(remote, remote')
    OBVIOUS
  <2>1. remote \in Seq(Tree) /\ remote' \in Seq(Tree)
    BY TypeStep DEF TypeOK
  <2>2. PICK n \in Nat : n = Len(remote)
    BY <2>1
  <2>3. n <= Len(remote') /\ \A i \in 1..n : remote'[i] = remote[i]
    BY <2>2, RemoteGrows
  <2>4. SubSeq(remote, 1, n) = SubSeq(remote', 1, n)
    BY <2>1, <2>2, <2>3
  <2>5. QED
    BY <2>2, <2>3, <2>4 DEF IsPrefix
<1>2. QED
  BY <1>1, TypeCorrect, PTL DEF Spec, HistorySurvives

-----------------------------------------------------------------------------
(* What a rebase ends in                                                   *)

LEMMA RebaseStep ==
    ASSUME TypeOK, MirrorRebase
    PROVE  \E r :
              /\ Reached(AnyFile, r, Len(mirror.pending))
              /\ ChangedBy(Len(mirror.pending)) = MirrorChanged
              /\ After(Len(mirror.pending)) = Local
              /\ r.ok => /\ mirror' = [base |-> Len(remote), pending |-> r.out,
                                       wedged |-> FALSE]
                         /\ ~mirror'.wedged
              /\ ~r.ok => mirror'.wedged
<1>1. mirror \in Mirrors /\ mirror.pending \in Seq(Tree) /\ mirror.pending # <<>>
  BY DEF TypeOK, Mirrors, MirrorRebase
<1>2. PICK r : r = Rebase[Len(mirror.pending)]
  OBVIOUS
<1>3. Reached(AnyFile, r, Len(mirror.pending))
  BY <1>2, AnyBranches, RebaseReaches
<1>4. DOMAIN mirror.pending = 1..Len(mirror.pending) /\ Len(mirror.pending) # 0
  BY <1>1
<1>5. ChangedBy(Len(mirror.pending)) = MirrorChanged /\ After(Len(mirror.pending)) = Local
  BY <1>1, <1>4 DEF ChangedBy, MirrorChanged, After, Local, Last
<1>6. mirror' = IF r.ok THEN [base |-> Len(remote), pending |-> r.out, wedged |-> FALSE]
               ELSE [mirror EXCEPT !.wedged = TRUE]
  BY <1>2 DEF MirrorRebase
<1>7. r.ok => /\ mirror' = [base |-> Len(remote), pending |-> r.out, wedged |-> FALSE]
              /\ ~mirror'.wedged
  BY <1>6
<1>8. ~r.ok => mirror'.wedged
  BY <1>1, <1>6 DEF Mirrors
<1>9. QED
  BY <1>3, <1>5, <1>7, <1>8

\* However many commits `git pull --rebase` (pushLoop) replays, and whatever the backup
\* has got meanwhile, the mirror's new tip is the backup with the lines its commits
\* change as it had left them.
THEOREM RebaseIsAMerge == Spec => RebaseMerges
<1>1. ASSUME TypeOK, MirrorRebase, ~mirror'.wedged
      PROVE  Local' = [p \in Pages |-> [x \in Parts |->
                IF <<p, x>> \in MirrorChanged THEN Local[p][x] ELSE Backup[p][x]]]
  <2>1. PICK r :
          /\ Reached(AnyFile, r, Len(mirror.pending))
          /\ ChangedBy(Len(mirror.pending)) = MirrorChanged
          /\ After(Len(mirror.pending)) = Local
          /\ mirror' = [base |-> Len(remote), pending |-> r.out, wedged |-> FALSE]
    BY <1>1, RebaseStep
  <2>2. remote' = remote /\ mirror'.base = Len(remote) /\ mirror'.pending = r.out
    BY <1>1, <2>1 DEF MirrorRebase
  <2>3. Local' = TipOf(r)
    BY <2>2 DEF Local, TipOf, TreeAt, Backup
  <2>4. QED
    BY <2>1, <2>3 DEF Reached, Merged
<1>2. QED
  BY <1>1, TypeCorrect, PTL DEF Spec, RebaseMerges

\* The rebase of pushLoop stops only over a page that the mirror and another writer
\* have both changed since it last pushed.
THEOREM OnlyConflictsWedge == Spec => WedgedByConflict
<1>1. ASSUME TypeOK, MirrorRebase, mirror'.wedged
      PROVE  \E px \in MirrorChanged : Backup[px[1]] # TreeAt(mirror.base)[px[1]]
  BY <1>1, RebaseStep DEF Reached
<1>2. QED
  BY <1>1, TypeCorrect, PTL DEF Spec, WedgedByConflict

-----------------------------------------------------------------------------
(* The inductive invariant                                                 *)

\* A version of part x of p that is around, against the engine and the snapshot: none
\* is newer than the lines the engine has, and of those from before the snapshot none is
\* newer than the lines the snapshot has.
Fits(p, x, v) ==
    /\ v <= clock
    /\ wiki[p][x] # 0 => v <= wiki[p][x]
    /\ bf.snap[p][x] # 0 /\ v <= bf.at => v <= bf.snap[p][x]

Fitting == {t \in Tree : \A p \in Pages, x \in Parts : Fits(p, x, t[p][x].v)}

\* What the engine has had since before the snapshot is in it.
SnapshotHas(p, x) == wiki[p][x] \in 1..bf.at => bf.snap[p][x] = wiki[p][x]

TimeInv ==
    /\ \A p \in Pages, x \in Parts : wiki[p][x] <= clock
    /\ bf.at <= clock
    /\ \A p \in Pages, x \in Parts : Fits(p, x, bf.snap[p][x]) /\ SnapshotHas(p, x)
    /\ \A n \in notifies, x \in Parts : Fits(n.page, x, n.copy[x])
    /\ remote \in Seq(Fitting)
    /\ mirror.pending \in Seq(Fitting)
    /\ bf.tree \in Fitting

\* What the script has in its clone.
StageInv ==
    /\ bf.pc = "commit" => bf.tree = TreeAt(bf.onto)
    /\ bf.pc = "push" => bf.tree = write_pages /\ bf.tree # TreeAt(bf.onto)

IInv == TypeOK /\ TimeInv /\ StageInv

-----------------------------------------------------------------------------
(* Trees that fit                                                          *)

LEMMA VersionsOfTrees ==
    ASSUME NEW t \in Tree, NEW p \in Pages, NEW x \in Parts
    PROVE  t[p][x].v \in 0..MaxChanges
BY BackfillAssumption DEF Tree, Lines, NoLines

\* The versions of the engine's pages and of the snapshot's.
LEMMA VersionsAround ==
    ASSUME TypeOK, NEW p \in Pages, NEW x \in Parts
    PROVE  /\ wiki[p] \in Copies /\ bf.snap[p] \in Copies
           /\ wiki[p][x] \in 0..MaxChanges /\ bf.snap[p][x] \in 0..MaxChanges
           /\ clock \in Nat /\ bf.at \in Nat
<1>1. wiki[p] \in Copies /\ bf.snap[p] \in Copies
  BY DEF TypeOK, Versions, Scripts
<1>2. QED
  BY <1>1, CopyType DEF TypeOK, Scripts

LEMMA ZeroFits ==
    ASSUME TypeOK, NEW p \in Pages, NEW x \in Parts
    PROVE  Fits(p, x, 0)
BY VersionsAround DEF Fits

LEMMA EmptyFits == TypeOK => Empty \in Fitting
BY EmptyType, ZeroFits DEF Fitting, Empty, Absent, NoLines

LEMMA LocalFits ==
    ASSUME TypeOK, TimeInv
    PROVE  /\ \A n \in 0..Len(remote) : TreeAt(n) \in Fitting
           /\ Local \in Fitting
<1>1. /\ remote \in Seq(Fitting) /\ mirror.pending \in Seq(Fitting)
      /\ mirror.base \in 0..Len(remote) /\ Len(remote) \in Nat
  BY DEF TypeOK, TimeInv, Mirrors
<1>2. \A n \in 0..Len(remote) : TreeAt(n) \in Fitting
  BY <1>1, EmptyFits DEF TreeAt
<1>3. Local \in Fitting
  <2>1. CASE mirror.pending = <<>>
    BY <1>1, <1>2, <2>1 DEF Local
  <2>2. CASE mirror.pending # <<>>
    <3>1. Len(mirror.pending) \in 1..Len(mirror.pending)
      BY <1>1, <2>2
    <3>2. QED
      BY <1>1, <2>2, <3>1 DEF Local, Last
  <2>3. QED
    BY <2>1, <2>2
<1>4. QED
  BY <1>2, <1>3

\* What fits goes on to fit if versions do.
LEMMA FittingStays ==
    ASSUME \A p \in Pages, x \in Parts, v \in 0..MaxChanges : Fits(p, x, v) => Fits(p, x, v)'
    PROVE  Fitting \subseteq Fitting'
<1> SUFFICES ASSUME NEW t \in Tree, \A p \in Pages, x \in Parts : Fits(p, x, t[p][x].v)
             PROVE  \A p \in Pages, x \in Parts : Fits(p, x, t[p][x].v)'
  BY DEF Fitting
<1>1. QED
  BY VersionsOfTrees

LEMMA SequencesOfMore ==
    ASSUME NEW S, NEW T, S \subseteq T, NEW q \in Seq(S)
    PROVE  q \in Seq(T)
OBVIOUS

\* A tree is renewed in one page.
LEMMA OnePageFits ==
    ASSUME NEW t \in Fitting, NEW p \in Pages, NEW c \in Copies,
           \A x \in Parts : Fits(p, x, c[x]),
           NEW form \in {"json", "yaml"}
    PROVE  [t EXCEPT ![p] = File(c, form)] \in Fitting
<1> DEFINE f == File(c, form)
           u == [t EXCEPT ![p] = f]
<1>1. f \in [Parts -> Lines] /\ \A x \in Parts : f[x].v = c[x]
  BY FileType
<1> HIDE DEF f
<1>2. t \in Tree /\ \A q \in Pages, x \in Parts : Fits(q, x, t[q][x].v)
  BY DEF Fitting
<1>3. u \in Tree /\ u[p] = f /\ \A q \in Pages \ {p} : u[q] = t[q]
  BY <1>1, <1>2 DEF Tree
<1> HIDE DEF u
<1>4. \A q \in Pages, x \in Parts : Fits(q, x, u[q][x].v)
  BY <1>1, <1>2, <1>3
<1>5. QED
  BY <1>3, <1>4 DEF Fitting, u, f

\* The lines that fit, for a rebase.
Fit == [p \in Pages |-> [x \in Parts |-> {f \in Lines : Fits(p, x, f.v)}]]

LEMMA FittingBranches ==
    ASSUME TypeOK, TimeInv
    PROVE  Branches(Fit) /\ Mixed(Fit) = Fitting
<1>1. Mixed(Fit) = Fitting
  BY DEF Mixed, Fit, Fitting, Tree
<1>2. mirror.base \in 0..Len(remote)
  BY DEF TypeOK, Mirrors
<1>3. QED
  BY <1>1, <1>2, EmptyFits DEF Branches, TimeInv

-----------------------------------------------------------------------------
(* Versions in time                                                        *)

LEMMA TimeInit == Init => TimeInv
<1> SUFFICES ASSUME Init PROVE TimeInv
  OBVIOUS
<1>1. TypeOK
  BY TypeInit
<1>2. /\ clock = 0 /\ notifies = {} /\ remote = <<>> /\ mirror.pending = <<>>
      /\ wiki = [p \in Pages |-> None] /\ bf.snap = wiki /\ bf.at = 0 /\ bf.tree = Empty
  BY DEF Init
<1>3. \A p \in Pages, x \in Parts : wiki[p][x] = 0 /\ bf.snap[p][x] = 0 /\ Fits(p, x, 0)
  BY <1>1, <1>2, ZeroFits DEF None
<1>4. QED
  BY <1>1, <1>2, <1>3, EmptyFits DEF TimeInv, SnapshotHas

\* What a change of the engine makes of the lines of a part: it leaves them, removes
\* them or writes new ones.
LEMMA EngineLines ==
    ASSUME TypeOK, Engine
    PROVE  /\ clock' \in Nat /\ clock <= clock' /\ UNCHANGED <<remote, mirror, bf>>
           /\ \A p \in Pages, x \in Parts :
                 \/ wiki'[p][x] \in {wiki[p][x], 0}
                 \/ wiki'[p][x] = clock' /\ clock' = clock + 1
<1>1. clock \in Nat /\ wiki \in Versions
  BY DEF TypeOK
<1>2. ASSUME NEW q \in Pages, Write(q), NEW p \in Pages, NEW x \in Parts
      PROVE  wiki'[p][x] = wiki[p][x] \/ (wiki'[p][x] = clock' /\ clock' = clock + 1)
  <2>1. PICK c \in Copies :
          /\ wiki' = [wiki EXCEPT ![q] = c]
          /\ \A y \in Parts : c[y] = clock' \/ c[y] = wiki[q][y]
    BY <1>2, WriteType
  <2>2. clock' = clock + 1
    BY <1>2 DEF Write, Tick
  <2>3. QED
    BY <1>1, <2>1, <2>2 DEF Versions
<1>3. ASSUME NEW q \in Pages, Delete(q), NEW p \in Pages, NEW x \in Parts
      PROVE  wiki'[p][x] \in {wiki[p][x], 0}
  BY <1>1, <1>3 DEF Delete, Versions, None
<1>4. ASSUME NEW q \in Pages, NEW s \in Pages, Move(q, s), NEW p \in Pages, NEW x \in Parts
      PROVE  \/ wiki'[p][x] \in {wiki[p][x], 0}
             \/ wiki'[p][x] = clock' /\ clock' = clock + 1
  <2>1. PICK c : c = [y \in Parts |-> clock']
    OBVIOUS
  <2>2. wiki' = [wiki EXCEPT ![q] = None, ![s] = c] /\ clock' = clock + 1
    BY <1>4, <2>1 DEF Move, Tick
  <2>3. wiki'[p] \in {wiki[p], None, c}
    BY <1>1, <2>2 DEF Versions
  <2>4. QED
    BY <2>1, <2>2, <2>3 DEF None
<1>5. ASSUME NEW n \in notifies, Lose(n) PROVE UNCHANGED <<clock, wiki>>
  BY <1>5 DEF Lose
<1>6. /\ clock' \in Nat /\ clock <= clock' /\ UNCHANGED <<remote, mirror, bf>>
  BY <1>1 DEF Engine, Write, Delete, Move, Lose, Tick
<1>7. QED
  BY <1>2, <1>3, <1>4, <1>5, <1>6 DEF Engine

\* A change of the engine is newer than all versions around.
LEMMA EngineFits ==
    ASSUME TypeOK, TimeInv, Engine, NEW p \in Pages, NEW x \in Parts,
           NEW v \in 0..MaxChanges, Fits(p, x, v)
    PROVE  Fits(p, x, v)'
<1>1. clock \in Nat /\ clock' \in Nat /\ clock <= clock' /\ bf' = bf
  BY EngineLines DEF TypeOK
<1>2. wiki'[p][x] \in {wiki[p][x], 0} \/ wiki'[p][x] = clock'
  BY EngineLines
<1>3. v \in Nat /\ v <= clock /\ (wiki[p][x] # 0 => v <= wiki[p][x])
  BY BackfillAssumption DEF Fits
<1>4. QED
  BY <1>1, <1>2, <1>3 DEF Fits

LEMMA TimeEngine ==
    ASSUME TypeOK, TimeInv, Engine
    PROVE  TimeInv'
<1>1. /\ clock \in Nat /\ notifies \subseteq [page : Pages, copy : Copies]
      /\ UNCHANGED <<remote, mirror, bf>> /\ clock' \in Nat /\ clock <= clock'
  BY EngineLines DEF TypeOK
<1>2. TypeOK'
  BY TypeEngine
<1>3. Fitting \subseteq Fitting'
  BY EngineFits, FittingStays
<1>4. remote' \in Seq(Fitting') /\ mirror'.pending \in Seq(Fitting') /\ bf'.tree \in Fitting'
  BY <1>1, <1>3, SequencesOfMore DEF TimeInv
<1>5. ASSUME NEW p \in Pages, NEW x \in Parts
      PROVE  wiki'[p][x] <= clock' /\ Fits(p, x, bf.snap[p][x])' /\ SnapshotHas(p, x)'
  <2>1. /\ bf.snap[p][x] \in 0..MaxChanges /\ wiki[p][x] \in Nat
        /\ Fits(p, x, bf.snap[p][x]) /\ wiki[p][x] <= clock
        /\ SnapshotHas(p, x) /\ bf.at <= clock /\ bf.at \in Nat
    BY VersionsAround DEF TimeInv
  <2>2. \/ wiki'[p][x] \in {wiki[p][x], 0}
        \/ wiki'[p][x] = clock' /\ clock' = clock + 1
    BY EngineLines
  <2>3. PICK v \in 0..MaxChanges : v = bf.snap[p][x]
    BY <2>1
  <2>4. Fits(p, x, v)' /\ bf'.snap[p][x] = v
    BY <1>1, <2>1, <2>3, EngineFits
  <2>5. Fits(p, x, bf.snap[p][x])'
    BY <2>4 DEF Fits
  <2>6. SnapshotHas(p, x)'
    BY <1>1, <2>1, <2>2 DEF SnapshotHas
  <2>7. QED
    BY <1>1, <2>1, <2>2, <2>5, <2>6
<1>6. ASSUME NEW n \in notifies', NEW x \in Parts PROVE Fits(n.page, x, n.copy[x])'
  <2>1. CASE n \in notifies
    <3>1. n.page \in Pages /\ n.copy \in Copies /\ Fits(n.page, x, n.copy[x])
      BY <1>1, <2>1 DEF TimeInv
    <3>2. n.copy[x] \in 0..MaxChanges
      BY <3>1, CopyType
    <3>3. QED
      BY <3>1, <3>2, EngineFits
  <2>2. CASE n \notin notifies
    <3>1. PICK p \in Pages : Write(p) \/ (n = [page |-> p, copy |-> None] /\ Delete(p))
      BY <1>6, <2>2 DEF Engine, Write, Delete, Move, Lose, Notified
    <3>2. CASE Write(p)
      <4>1. PICK c \in Copies :
              /\ wiki' = [wiki EXCEPT ![p] = c] /\ Notified(p, c)
              /\ \A y \in Parts : c[y] = clock' \/ (wiki[p] # None /\ c[y] = wiki[p][y])
        BY <3>2, WriteType
      <4>2. n = [page |-> p, copy |-> c] /\ wiki' \in [Pages -> Copies] /\ wiki'[p] = c
        BY <1>6, <2>2, <4>1 DEF Notified, TypeOK, Versions
      <4>3. clock' = clock + 1 /\ bf.at <= clock /\ bf.at \in Nat /\ bf' = bf
        BY <1>1, <3>2 DEF Write, Tick, TimeInv, TypeOK, Scripts
      <4>4. c[x] \in Nat /\ wiki[p][x] \in Nat /\ wiki[p][x] <= clock
            /\ bf.snap[p][x] \in Nat /\ SnapshotHas(p, x)
            /\ wiki[p] \in Copies
        BY CopyType, VersionsAround DEF TimeInv
      <4>5. c[x] # 0
        BY <1>1, <4>1, <4>3, <4>4, CopyType
      <4>6. c[x] <= clock'
        BY <1>1, <4>1, <4>3, <4>4
      <4>7. bf.snap[p][x] # 0 /\ c[x] <= bf.at => c[x] <= bf.snap[p][x]
        BY <1>1, <4>1, <4>3, <4>4, <4>5 DEF SnapshotHas
      <4>8. QED
        BY <4>2, <4>3, <4>4, <4>6, <4>7 DEF Fits
    <3>3. CASE n = [page |-> p, copy |-> None] /\ Delete(p)
      <4>1. Fits(p, x, 0)'
        <5>1. Fits(p, x, 0) /\ 0 \in 0..MaxChanges
          BY ZeroFits, BackfillAssumption
        <5>2. QED
          BY <5>1, EngineFits
      <4>2. n.copy[x] = 0 /\ n.page = p
        BY <3>3 DEF None
      <4>3. QED
        BY <4>1, <4>2
    <3>4. QED
      BY <3>1, <3>2, <3>3
  <2>3. QED
    BY <2>1, <2>2
<1>7. bf'.at <= clock'
  BY <1>1 DEF TimeInv, TypeOK, Scripts
<1>8. QED
  BY <1>4, <1>5, <1>6, <1>7 DEF TimeInv

\* The mirror moves versions about, and makes none.
LEMMA TimeMirror ==
    ASSUME TypeOK, TimeInv, Mirror \/ MirrorRestart
    PROVE  TimeInv'
<1>1. UNCHANGED <<clock, wiki, bf>> /\ notifies' \subseteq notifies
  BY DEF Mirror, Sync, MirrorPush, MirrorRebase, MirrorRestart
<1>2. /\ Fitting' = Fitting /\ \A p, x, v : Fits(p, x, v)' = Fits(p, x, v)
      /\ \A p, x : SnapshotHas(p, x)' = SnapshotHas(p, x)
  BY <1>1 DEF Fitting, Fits, SnapshotHas
<1>3. /\ remote \in Seq(Fitting) /\ mirror.pending \in Seq(Fitting)
      /\ mirror \in Mirrors
  BY DEF TimeInv, TypeOK
<1>4. remote' \in Seq(Fitting) /\ mirror'.pending \in Seq(Fitting)
  <2>1. ASSUME NEW n \in notifies, Sync(n)
        PROVE  remote' = remote /\ mirror'.pending \in Seq(Fitting)
    <3> DEFINE t == [Local EXCEPT ![n.page] = File(n.copy, "json")]
    <3>1. t \in Fitting
      <4>1. n.page \in Pages /\ n.copy \in Copies /\ \A x \in Parts : Fits(n.page, x, n.copy[x])
        BY DEF TimeInv, TypeOK
      <4>2. QED
        BY <4>1, LocalFits, OnePageFits
    <3>2. mirror' = mirror \/ mirror' = [mirror EXCEPT !.pending = Append(mirror.pending, t)]
      BY <2>1 DEF Sync
    <3> HIDE DEF t
    <3>3. mirror'.pending = mirror.pending \/ mirror'.pending = Append(mirror.pending, t)
      BY <1>3, <3>2 DEF Mirrors
    <3>4. Append(mirror.pending, t) \in Seq(Fitting)
      BY <1>3, <3>1, AppendProperties
    <3>5. remote' = remote
      BY <2>1 DEF Sync
    <3>6. QED
      BY <1>3, <3>3, <3>4, <3>5
  <2>2. CASE MirrorPush
    <3>1. remote' = remote \o mirror.pending /\ mirror'.pending = <<>>
      BY <2>2, PushType
    <3>2. remote \o mirror.pending \in Seq(Fitting) /\ <<>> \in Seq(Fitting)
      BY <1>3, ConcatProperties
    <3>3. QED
      BY <3>1, <3>2
  <2>3. CASE MirrorRebase
    <3>1. PICK r : r = Rebase[Len(mirror.pending)]
      OBVIOUS
    <3>2. r.out \in Seq(Fitting)
      BY <3>1, FittingBranches, RebaseReaches DEF Reached
    <3>3. mirror'.pending \in {r.out, mirror.pending}
      BY <1>3, <2>3, <3>1 DEF MirrorRebase, Mirrors
    <3>4. QED
      BY <1>3, <2>3, <3>2, <3>3 DEF MirrorRebase
  <2>4. CASE MirrorRestart
    <3>1. remote' = remote /\ mirror'.pending = <<>>
      BY <2>4 DEF MirrorRestart
    <3>2. QED
      BY <1>3, <3>1
  <2>5. QED
    BY <1>3, <2>1, <2>2, <2>3, <2>4 DEF Mirror
<1>5. QED
  BY <1>1, <1>2, <1>4 DEF TimeInv

\* A new snapshot is the engine's wiki, and an old one has been one.
LEMMA SnapshotFits ==
    ASSUME TypeOK, TimeInv,
           UNCHANGED <<clock, wiki>>,
           \/ bf'.snap = wiki /\ bf'.at = clock
           \/ bf'.snap = bf.snap /\ bf'.at = bf.at
    PROVE  /\ \A p \in Pages, x \in Parts, v \in 0..MaxChanges : Fits(p, x, v) => Fits(p, x, v)'
           /\ bf'.at <= clock'
           /\ \A p \in Pages, x \in Parts : Fits(p, x, bf.snap[p][x])' /\ SnapshotHas(p, x)'
<1>1. /\ clock \in Nat /\ bf.at \in Nat /\ bf.at <= clock
      /\ \A p \in Pages, x \in Parts :
            wiki[p][x] \in Nat /\ bf.snap[p][x] \in Nat /\ wiki[p][x] <= clock
  BY VersionsAround DEF TypeOK, Scripts, TimeInv
<1>2. ASSUME NEW p \in Pages, NEW x \in Parts, NEW v \in 0..MaxChanges, Fits(p, x, v)
      PROVE  Fits(p, x, v)'
  BY <1>1, <1>2 DEF Fits
<1>3. bf'.at <= clock'
  BY <1>1
<1>4. ASSUME NEW p \in Pages, NEW x \in Parts
      PROVE  Fits(p, x, bf.snap[p][x])' /\ SnapshotHas(p, x)'
  <2>1. CASE bf'.snap = wiki /\ bf'.at = clock
    BY <1>1, <2>1 DEF Fits, SnapshotHas
  <2>2. CASE bf'.snap = bf.snap /\ bf'.at = bf.at
    BY <1>1, <2>2 DEF Fits, SnapshotHas, TimeInv
  <2>3. QED
    BY <2>1, <2>2
<1>5. QED
  BY <1>2, <1>3, <1>4

\* The lines that are written from a snapshot are its lines, or none.
LEMMA WrittenLines ==
    ASSUME TypeOK, NEW p \in Pages, NEW x \in Parts
    PROVE  /\ p \in iter_pages(bf.snap, bf.only) => write_pages[p][x].v = bf.snap[p][x]
           /\ p \notin iter_pages(bf.snap, bf.only) => write_pages[p][x].v = 0
<1>1. bf.snap[p] \in Copies
  BY DEF TypeOK, Scripts, Versions
<1>2. File(bf.snap[p], "yaml")[x].v = bf.snap[p][x]
  BY <1>1, FileType
<1>3. Empty[p][x].v = 0
  BY DEF Empty, Absent, NoLines
<1>4. QED
  BY <1>2, <1>3 DEF write_pages, clear_wiki_tree

\* So does what is written from it.
LEMMA WrittenFits ==
    ASSUME TypeOK, TimeInv
    PROVE  write_pages \in Fitting
<1>1. ASSUME NEW p \in Pages, NEW x \in Parts PROVE Fits(p, x, write_pages[p][x].v)
  <2>1. write_pages[p][x].v \in {bf.snap[p][x], 0}
    BY WrittenLines
  <2>2. QED
    BY <2>1, ZeroFits DEF TimeInv
<1>2. QED
  BY <1>1, SnapshotType DEF Fitting

\* What the steps of the script make of its snapshot and its tree.
LEMMA ScriptState ==
    ASSUME TypeOK, Backfilling
    PROVE  /\ \/ bf'.snap = wiki /\ bf'.at = clock
              \/ bf'.snap = bf.snap /\ bf'.at = bf.at
           /\ \/ bf'.pc \in {"idle", "clone"} /\ bf'.tree \in {bf.tree, Empty}
              \/ /\ bf'.pc = "commit" /\ bf'.onto \in 0..Len(remote)
                 /\ bf'.tree = TreeAt(bf'.onto) /\ remote' = remote
              \/ /\ bf.pc = "commit" /\ Differs /\ remote' = remote
                 /\ bf'.pc = "push" /\ bf'.tree = write_pages
                 /\ bf'.onto = bf.onto /\ bf'.snap = bf.snap /\ bf'.only = bf.only
<1>1. bf \in Scripts /\ Len(remote) \in Nat
  BY DEF TypeOK
<1>2. ASSUME NEW only \in Selections, NEW snap, NEW at, Enumerate(snap, only, at)
      PROVE  /\ bf'.snap = snap /\ bf'.at = at /\ bf'.tree = bf.tree
             /\ bf'.pc \in {"idle", "clone"}
  <2> DEFINE pc == IF iter_pages(snap, only) = {} THEN "idle" ELSE "clone"
  <2>1. bf' = [bf EXCEPT !.pc = pc, !.only = only, !.snap = snap, !.at = at]
    BY <1>2 DEF Enumerate, Script
  <2>2. pc \in {"idle", "clone"}
    OBVIOUS
  <2> HIDE DEF pc
  <2>3. QED
    BY <1>1, <2>1, <2>2 DEF Scripts
<1>3. ASSUME NEW n \in {0, Len(remote)}, Cloned(n), remote' = remote
      PROVE  /\ bf'.snap = bf.snap /\ bf'.at = bf.at
             /\ bf'.pc = "commit" /\ bf'.onto \in 0..Len(remote)
             /\ bf'.tree = TreeAt(bf'.onto)
  <2>1. PICK t : t = TreeAt(n)
    OBVIOUS
  <2>2. bf' = [bf EXCEPT !.pc = "commit", !.onto = n, !.tree = t]
    BY <1>3, <2>1 DEF Cloned, Script
  <2>3. bf'.onto = n /\ bf'.tree = t /\ bf'.pc = "commit" /\ bf'.snap = bf.snap /\ bf'.at = bf.at
    BY <1>1, <2>2 DEF Scripts
  <2>4. QED
    BY <1>1, <2>1, <2>3
<1>4. ASSUME Script([bf EXCEPT !.pc = "push", !.tree = write_pages])
      PROVE  /\ bf'.pc = "push" /\ bf'.tree = write_pages /\ bf'.onto = bf.onto
             /\ bf'.snap = bf.snap /\ bf'.only = bf.only /\ bf'.at = bf.at
  <2>1. PICK t : t = write_pages
    OBVIOUS
  <2>2. bf' = [bf EXCEPT !.pc = "push", !.tree = t]
    BY <1>4, <2>1 DEF Script
  <2>3. QED
    BY <1>1, <2>1, <2>2 DEF Scripts
<1>5. ASSUME Finished
      PROVE  bf'.snap = bf.snap /\ bf'.at = bf.at /\ bf'.pc = "idle" /\ bf'.tree = Empty
  BY <1>1, <1>5 DEF Finished, Script, Scripts
<1>6. QED
  BY <1>2, <1>3, <1>4, <1>5, ScriptSteps

LEMMA TimeScript ==
    ASSUME TypeOK, TimeInv, Backfilling
    PROVE  TimeInv'
<1>1. /\ remote \in Seq(Fitting) /\ mirror.pending \in Seq(Fitting) /\ bf.tree \in Fitting
      /\ notifies \subseteq [page : Pages, copy : Copies]
      /\ \A n \in notifies, x \in Parts : Fits(n.page, x, n.copy[x])
      /\ \A p \in Pages, x \in Parts : wiki[p][x] <= clock
  BY DEF TimeInv, TypeOK
<1>2. UNCHANGED <<clock, wiki, notifies, mirror>>
  BY ScriptSteps
<1>3. /\ \A p \in Pages, x \in Parts, v \in 0..MaxChanges : Fits(p, x, v) => Fits(p, x, v)'
      /\ bf'.at <= clock'
      /\ \A p \in Pages, x \in Parts : Fits(p, x, bf.snap[p][x])' /\ SnapshotHas(p, x)'
  BY <1>2, ScriptState, SnapshotFits
<1>4. Fitting \subseteq Fitting'
  BY <1>3, FittingStays
<1>5. ASSUME NEW n \in notifies', NEW x \in Parts PROVE Fits(n.page, x, n.copy[x])'
  <2>1. n \in notifies /\ n.page \in Pages /\ n.copy \in Copies
    BY <1>1, <1>2
  <2>2. n.copy[x] \in 0..MaxChanges /\ Fits(n.page, x, n.copy[x])
    BY <1>1, <2>1, CopyType
  <2>3. QED
    BY <1>3, <2>1, <2>2
<1>6. remote' \in Seq(Fitting)
  <2>1. remote' = remote \/ remote' = Append(remote, bf.tree)
    BY ScriptSteps, PublishedType
  <2>2. QED
    BY <1>1, <2>1, AppendProperties
<1>7. bf'.tree \in Fitting
  <2>1. bf'.tree \in {bf.tree, Empty, write_pages} \/ \E n \in 0..Len(remote) : bf'.tree = TreeAt(n)
    BY ScriptState
  <2>2. QED
    BY <1>1, <2>1, EmptyFits, WrittenFits, LocalFits
<1>8. remote' \in Seq(Fitting') /\ mirror'.pending \in Seq(Fitting') /\ bf'.tree \in Fitting'
  BY <1>1, <1>2, <1>4, <1>6, <1>7, SequencesOfMore
<1>9. QED
  BY <1>1, <1>2, <1>3, <1>5, <1>8 DEF TimeInv

-----------------------------------------------------------------------------
(* The clone                                                               *)

LEMMA StageInit == Init => StageInv
BY DEF Init, StageInv

\* The commits the clone has stay what they are.
LEMMA CloneStays ==
    ASSUME TypeOK, [Next]_vars, NEW n \in 0..Len(remote)
    PROVE  TreeAt(n)' = TreeAt(n)
<1>1. Len(remote) \in Nat
  BY DEF TypeOK
<1>2. QED
  BY <1>1, RemoteGrows DEF TreeAt

LEMMA StageStep ==
    ASSUME TypeOK, StageInv, [Next]_vars
    PROVE  StageInv'
<1>1. bf.onto \in 0..Len(remote) /\ bf \in Scripts
  BY DEF TypeOK, Scripts
<1>2. CASE bf' = bf
  <2>1. PICK n \in 0..Len(remote) : n = bf.onto
    BY <1>1
  <2>2. TreeAt(n)' = TreeAt(n) /\ bf'.onto = n
    BY <1>2, <2>1, CloneStays
  <2>3. TreeAt(bf.onto)' = TreeAt(bf.onto)
    BY <2>1, <2>2 DEF TreeAt
  <2>4. write_pages' = write_pages
    BY <1>2 DEF write_pages, iter_pages, clear_wiki_tree
  <2>5. QED
    BY <1>2, <2>3, <2>4 DEF StageInv
<1>3. CASE Backfilling
  <2>1. CASE bf'.pc \in {"idle", "clone"}
    BY <2>1 DEF StageInv
  <2>2. CASE /\ bf'.pc = "commit" /\ bf'.onto \in 0..Len(remote)
             /\ bf'.tree = TreeAt(bf'.onto) /\ remote' = remote
    <3>1. bf'.tree = TreeAt(bf.onto)'
      BY <2>2 DEF TreeAt
    <3>2. QED
      BY <2>2, <3>1 DEF StageInv
  <2>3. CASE /\ bf.pc = "commit" /\ Differs /\ remote' = remote
             /\ bf'.pc = "push" /\ bf'.tree = write_pages
             /\ bf'.onto = bf.onto /\ bf'.snap = bf.snap /\ bf'.only = bf.only
    <3>1. write_pages' = write_pages
      BY <2>3 DEF write_pages, iter_pages, clear_wiki_tree
    <3>2. TreeAt(bf.onto)' = TreeAt(bf.onto)
      BY <2>3 DEF TreeAt
    <3>3. write_pages # TreeAt(bf.onto)
      BY <2>3 DEF StageInv, Differs
    <3>4. QED
      BY <2>3, <3>1, <3>2, <3>3 DEF StageInv
  <2>4. QED
    BY <1>3, <2>1, <2>2, <2>3, ScriptState
<1>4. QED
  BY <1>2, <1>3, OnlyTheScript

-----------------------------------------------------------------------------
(* What a backfill publishes                                               *)

LEMMA InitIInv == Init => IInv
BY TypeInit, TimeInit, StageInit DEF IInv

LEMMA StepIInv == IInv /\ [Next]_vars => IInv'
<1> SUFFICES ASSUME IInv, [Next]_vars PROVE IInv'
  OBVIOUS
<1>1. TypeOK /\ TimeInv /\ StageInv
  BY DEF IInv
<1>2. CASE UNCHANGED vars
  <2>1. Fitting' = Fitting
    BY <1>2 DEF vars, Fitting, Fits
  <2>2. TimeInv'
    BY <1>1, <1>2, <2>1 DEF vars, TimeInv, Fits, SnapshotHas
  <2>3. QED
    BY <1>1, <1>2, <2>2, TypeStep, StageStep DEF IInv
<1>3. CASE Next
  <2>1. TimeInv'
    BY <1>1, <1>3, StepSplits, TimeEngine, TimeMirror, TimeScript
  <2>2. QED
    BY <1>1, <2>1, TypeStep, StageStep DEF IInv
<1>4. QED
  BY <1>2, <1>3

\* The strengthening the two theorems below rest on: how the versions of a page, in the
\* backup, the mirror, a notify, the clone and the snapshot, are ordered in time, and
\* what the script is about to push.
THEOREM Invariance == Spec => []IInv
<1>1. QED
  BY InitIInv, StepIInv, PTL DEF Spec

\* A push of the script, seen from what it leaves.
LEMMA BackfillPush ==
    ASSUME IInv, [Next]_vars, BackfillPushes
    PROVE  /\ bf.onto = Len(remote)
           /\ remote'[Len(remote')] = write_pages
           /\ write_pages # Backup
<1>1. TypeOK /\ StageInv /\ bf.pc = "push" /\ bf'.pc = "idle" /\ remote' # remote
  BY DEF IInv, BackfillPushes
<1>2. Backfilling
  <2>1. bf' # bf
    BY <1>1
  <2>2. QED
    BY <2>1, OnlyTheScript
<1>3. FastForward /\ remote' = Published
  BY <1>1, <1>2, ScriptSteps
<1>4. remote'[Len(remote')] = bf.tree
  BY <1>1, <1>3, PublishedType
<1>5. QED
  BY <1>1, <1>3, <1>4 DEF StageInv, FastForward, Backup

\* scripts/git-mirror-backfill.py, "if no content changed since the last backfill the
\* commit is skipped": what it pushes differs from what was there.
THEOREM NoEmptyBackfill == Spec => BackfillIsIdempotent
<1>1. ASSUME IInv, [Next]_vars, BackfillPushes
      PROVE  remote'[Len(remote')] # Backup
  BY <1>1, BackfillPush
<1>2. QED
  BY <1>1, Invariance, PTL DEF Spec, BackfillIsIdempotent

\* The lines that a late backfill takes back to older ones, or out of a page the engine
\* has, were written after the snapshot, and were in the backup when the script cloned
\* it.
THEOREM OnlyTheUnseenIsReverted == Spec => RevertsWhatItMissed
<1>1. ASSUME IInv, [Next]_vars, BackfillPushes, NEW p \in bf.only, NEW x \in Parts,
             remote'[Len(remote')][p][x].v < Backup[p][x].v,
             remote'[Len(remote')][p][x].v # 0 \/ Backup[p][x].v = wiki[p][x]
      PROVE  Backup[p][x].v > bf.at /\ Backup[p][x] = TreeAt(bf.onto)[p][x]
  <2>1. /\ bf.onto = Len(remote) /\ remote'[Len(remote')] = write_pages
        /\ TypeOK /\ TimeInv
    BY <1>1, BackfillPush DEF IInv
  <2>2. p \in Pages
    BY <2>1, BackfillAssumption DEF TypeOK, Scripts
  <2>3. /\ bf.snap[p] \in Copies /\ bf.snap[p][x] \in Nat /\ bf.at \in Nat
        /\ SnapshotHas(p, x)
    BY <2>1, <2>2, VersionsAround DEF TimeInv
  <2>4. Backup \in Fitting
    BY <2>1, LocalFits DEF TypeOK, Backup
  <2>5. Backup[p][x].v \in Nat /\ Fits(p, x, Backup[p][x].v)
    BY <2>2, <2>4, VersionsOfTrees DEF Fitting
  <2>6. write_pages[p][x].v = bf.snap[p][x]
    <3>1. CASE p \in iter_pages(bf.snap, bf.only)
      BY <2>1, <2>2, <3>1, WrittenLines
    <3>2. CASE p \notin iter_pages(bf.snap, bf.only)
      <4>1. bf.snap[p] = None
        BY <3>2 DEF iter_pages
      <4>2. QED
        BY <2>1, <2>2, <3>2, <4>1, WrittenLines DEF None
    <3>3. QED
      BY <3>1, <3>2
  <2>7. bf.snap[p][x] < Backup[p][x].v /\ (bf.snap[p][x] # 0 \/ Backup[p][x].v = wiki[p][x])
    BY <1>1, <2>1, <2>6
  <2>8. Backup[p][x].v > bf.at
    BY <2>3, <2>5, <2>7 DEF Fits, SnapshotHas
  <2>9. QED
    BY <2>1, <2>8 DEF Backup
<1>2. IInv /\ [Next]_vars => [BackfillPushes =>
               \A p \in bf.only, x \in Parts :
                  LET before == Backup[p][x].v
                      after == remote'[Len(remote')][p][x].v
                  IN after < before /\ (after # 0 \/ before = wiki[p][x]) =>
                        /\ before > bf.at
                        /\ Backup[p][x] = TreeAt(bf.onto)[p][x]]_vars
  BY <1>1
<1>3. QED
  BY <1>2, Invariance, PTL DEF Spec, RevertsWhatItMissed

\* The safety half of BackupConverges: a push of the whole wiki, with a snapshot that is
\* still the engine's wiki, leaves a backup that holds the engine's pages, and no other.
THEOREM FreshBackfillRestores ==
    Spec => [][BackfillPushes /\ bf.only = Pages /\ bf.snap = wiki => Restored']_vars
<1>1. ASSUME IInv, [Next]_vars, BackfillPushes, bf.only = Pages, bf.snap = wiki
      PROVE  Restored'
  <2>1. remote'[Len(remote')] = write_pages /\ TypeOK /\ IInv'
    BY <1>1, BackfillPush, StepIInv DEF IInv
  <2>2. wiki' = wiki /\ remote' # <<>>
    <3>1. bf' # bf /\ remote' # remote
      BY <1>1 DEF BackfillPushes
    <3>2. Backfilling
      BY <1>1, <3>1, OnlyTheScript
    <3>3. QED
      BY <2>1, <3>1, <3>2, ScriptSteps, PublishedType
  <2>3. Len(remote') # 0 /\ Backup' = write_pages
    <3>1. remote' \in Seq(Tree)
      BY <2>1 DEF IInv, TypeOK
    <3>2. QED
      BY <2>1, <2>2, <3>1 DEF Backup, TreeAt
  <2>4. ASSUME NEW p \in Pages, NEW x \in Parts PROVE write_pages[p][x].v = wiki[p][x]
    <3>1. bf.snap[p] = wiki[p]
      BY <1>1
    <3>2. p \in iter_pages(bf.snap, bf.only) <=> wiki[p] # None
      BY <1>1, <3>1 DEF iter_pages
    <3>3. QED
      BY <2>1, <3>1, <3>2, WrittenLines DEF None
  <2>5. QED
    BY <2>2, <2>3, <2>4 DEF Restored
<1>2. QED
  BY <1>1, Invariance, PTL DEF Spec

=============================================================================
