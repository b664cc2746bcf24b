--------------------------- MODULE GitMirrorProofs ---------------------------
(* Theorems about GitMirror, for every value of its constants.             *)
EXTENDS GitMirror, SequenceTheorems, TLAPS

-----------------------------------------------------------------------------
(* Trees                                                                   *)

\* Taking some pages from another tree gives a tree.
LEMMA OverlayIsTree ==
    ASSUME NEW t \in Tree, NEW s \in Tree, NEW ps
    PROVE  Overlay(t, ps, s) \in Tree
  BY DEF Overlay, Tree

LEMMA EmptyIsTree == Empty \in Tree
  BY DEF Empty, Tree

\* Every prefix of the remote ends in a tree.
LEMMA RemoteTreeIsTree ==
    ASSUME remote \in Seq(Commit), NEW n \in 0..Len(remote)
    PROVE  RemoteTree(n) \in Tree
<1>1. CASE n = 0
  BY <1>1, EmptyIsTree DEF RemoteTree
<1>2. CASE n # 0
  <2>1. remote[n] \in Commit
    BY <1>2
  <2>2. QED
    BY <1>2, <2>1 DEF RemoteTree, Commit
<1>3. QED
  BY <1>1, <1>2

\* So does a prefix of the remote followed by local commits.
LEMMA TipIsTree ==
    ASSUME remote \in Seq(Commit), NEW n \in 0..Len(remote), NEW s \in Seq(Commit)
    PROVE  Tip(n, s) \in Tree
<1>1. CASE s = <<>>
  BY <1>1, RemoteTreeIsTree DEF Tip
<1>2. CASE s # <<>>
  <2>1. Len(s) \in 1..Len(s)
    BY <1>2
  <2>2. s[Len(s)] \in Commit
    BY <2>1
  <2>3. QED
    BY <1>2, <2>2 DEF Tip, Commit
<1>3. QED
  BY <1>1, <1>2

LEMMA HeadIsTree ==
    ASSUME TypeOK
    PROVE  HeadTree \in Tree /\ BranchTree \in Tree
<1>1. /\ remote \in Seq(Commit) /\ synced \in 0..Len(remote)
      /\ pending \in Seq(Commit) /\ rebase.replayed \in Seq(Commit)
      /\ rebase.onto \in 0..Len(remote)
  BY DEF TypeOK, Rebase
<1>2. Tip(synced, pending) \in Tree /\ Tip(rebase.onto, rebase.replayed) \in Tree
  BY <1>1, TipIsTree
<1>3. QED
  BY <1>2 DEF HeadTree, BranchTree

-----------------------------------------------------------------------------
(* Type correctness                                                        *)

LEMMA InitType == Init => TypeOK
<1>1. ASSUME Init PROVE TypeOK
  <2>1. NoRebase \in Rebase
    BY DEF NoRebase, Rebase
  <2>2. synced \in 0..Len(remote) /\ rebase.onto <= Len(remote)
    BY <1>1 DEF Init, NoRebase
  <2>3. remote \in Seq(Commit) /\ pending \in Seq(Commit)
    BY <1>1 DEF Init
  <2>4. crashes \in 0..MaxCrashes /\ outages \in 0..MaxOutages /\ consecPushFail \in 0..MaxFails
    BY <1>1, ConstantsAssumption DEF Init
  <2>5. /\ pc \in [Requests -> {"new"} \cup InFlight \cup Answered]
        /\ req \in [Requests -> Inputs \cup {NoInput}]
    BY <1>1 DEF Init
  <2>6. QED
    BY <1>1, <2>4, <2>5, <2>1, <2>2, <2>3, EmptyIsTree, ConstantsAssumption
    DEF Init, TypeOK, LoopIsFree
<1>2. QED
  BY <1>1

LEMMA StageAllType ==
    ASSUME TypeOK, NEW r \in Requests, StageAll(r)
    PROVE  /\ work' \in Tree /\ index' \in Tree
           /\ rebase' \in Rebase /\ rebase'.onto = rebase.onto
<1>1. StagedWork(r) \in Tree
  BY OverlayIsTree, EmptyIsTree DEF StagedWork, TypeOK
<1>2. work' \in Tree /\ index' \in Tree
  BY <1>1, OverlayIsTree DEF StageAll, TypeOK
<1>3. rebase' \in Rebase /\ rebase'.onto = rebase.onto
  BY DEF StageAll, TypeOK, Rebase
<1>4. QED
  BY <1>2, <1>3

LEMMA AddCommitType ==
    ASSUME TypeOK, NEW r \in Requests, AddCommit(r)
    PROVE  /\ pending' \in Seq(Commit)
           /\ rebase' \in Rebase /\ rebase'.onto = rebase.onto
<1> DEFINE c == [id |-> r, tree |-> index]
<1>1. c \in Commit
  BY DEF TypeOK, Commit
<1>2. /\ pending \in Seq(Commit) /\ rebase \in Rebase
      /\ rebase.replayed \in Seq(Commit)
  BY DEF TypeOK, Rebase
<1>3. Append(rebase.replayed, c) \in Seq(Commit) /\ Append(pending, c) \in Seq(Commit)
  BY <1>1, <1>2
<1>4. CASE rebase.detached
  BY <1>2, <1>3, <1>4 DEF AddCommit, Rebase
<1>5. CASE ~rebase.detached
  BY <1>2, <1>3, <1>5 DEF AddCommit
<1>6. QED
  BY <1>4, <1>5

LEMMA PublishType ==
    ASSUME TypeOK, FastForward, Publish
    PROVE  /\ remote' \in Seq(Commit) /\ synced' \in 0..Len(remote')
           /\ pending' \in Seq(Commit) /\ owed' \in SUBSET Requests
           /\ rebase' = rebase /\ Len(remote) <= Len(remote')
<1>1. remote \in Seq(Commit) /\ pending \in Seq(Commit)
  BY DEF TypeOK
<1>2. /\ remote' \in Seq(Commit) /\ Len(remote') = Len(remote) + Len(pending)
  <2>1. synced = Len(remote) /\ Len(remote) \in Nat
    BY <1>1 DEF FastForward
  <2>2. \A i \in 1..synced : remote[i] \in Commit
    BY <1>1, <2>1
  <2>3. /\ SubSeq(remote, 1, synced) \in Seq(Commit)
        /\ Len(SubSeq(remote, 1, synced)) = IF 1 <= synced THEN synced - 1 + 1 ELSE 0
    BY <2>1, <2>2, SubSeqProperties
  <2>4. QED
    BY <1>1, <2>1, <2>3 DEF Publish
<1>3. pending' \in Seq(Commit)
  BY DEF Publish
<1>4. QED
  BY <1>1, <1>2, <1>3 DEF Publish, TypeOK

LEMMA FailPushType ==
    ASSUME TypeOK, FailPush
    PROVE  mu' = Free /\ pl' = "failed" /\ UNCHANGED <<dirty, healthVars>>
  BY DEF FailPush

\* Merging two versions of a page over a third gives a version of the page.
LEMMA MergeType ==
    ASSUME NEW base \in Page \cup {Absent}, NEW ours \in Page \cup {Absent},
           NEW theirs \in Page \cup {Absent}
    PROVE  Merge(base, ours, theirs) \in Page \cup {Absent}
  BY DEF Merge, Page

\* The commit a rebase replays exists, and so does what it was made on.
LEMMA TodoTrees ==
    ASSUME TypeOK, rebase.done < Len(pending)
    PROVE  /\ Todo \in Commit /\ Todo.tree \in Tree
           /\ Parent \in Tree /\ HeadTree \in Tree
<1>1. /\ rebase.done \in Nat /\ pending \in Seq(Commit) /\ synced \in 0..Len(remote)
      /\ remote \in Seq(Commit) /\ rebase.done + 1 \in 1..Len(pending)
  BY DEF TypeOK, Rebase
<1>2. Todo \in Commit
  BY <1>1 DEF Todo
<1>3. SubSeq(pending, 1, rebase.done) \in Seq(Commit)
  BY <1>1, SubSeqProperties
<1>4. QED
  BY <1>1, <1>2, <1>3, TipIsTree, HeadIsTree DEF Parent, Commit

\* What a commit makes of HEAD when it is replayed is a tree.
LEMMA PickType ==
    ASSUME TypeOK, rebase.done < Len(pending)
    PROVE  Todo \in Commit /\ ReplayedTree \in Tree
<1>1. ASSUME NEW p \in Pages
      PROVE  HeadTree[p] \in Page \cup {Absent}
             /\ Merge(Parent[p], Todo.tree[p], HeadTree[p]) \in Page \cup {Absent}
  BY TodoTrees, MergeType DEF Tree
<1>2. QED
  BY <1>1, TodoTrees DEF ReplayedTree, Tree

\* What a notify writes, or a failed write leaves, is a version of a page.
LEMMA InputType ==
    ASSUME TypeOK, NEW r \in Requests
    PROVE  req[r].value \in Page \cup {Absent} /\ Truncated \in Page
<1>1. req[r] \in Inputs \cup {NoInput}
  BY DEF TypeOK
<1>2. req[r].value \in Contents \cup {Absent}
  BY <1>1 DEF Inputs, NoInput
<1>3. QED
  BY <1>2, ConstantsAssumption DEF Page

LEMMA HandlerType ==
    ASSUME TypeOK, NEW r \in Requests, Handler(r)
    PROVE  TypeOK'
<1> USE DEF handlerVars, loopVars, healthVars, treeVars, branchVars, processVars, netVars,
            InFlight, Answered
<1>1. CASE Lock(r)
  BY <1>1 DEF TypeOK, Lock, clearStaleIndexLock
<1>2. CASE WriteFile(r)
  <2>1. work' \in Tree
    BY <1>2, InputType DEF WriteFile, TypeOK, Tree
  <2>2. QED
    BY <1>2, <2>1 DEF TypeOK, WriteFile
<1>3. CASE Stage(r)
  <2>1. StageAll(r)
    BY <1>3 DEF Stage
  <2>2. QED
    BY <1>3, <2>1, StageAllType DEF TypeOK, Stage
<1>4. CASE StageFails(r)
  <2>1. CASE StageAll(r) /\ UNCHANGED indexLock
    BY <1>4, <2>1, StageAllType DEF TypeOK, StageFails, Answer
  <2>2. CASE \E gone \in SUBSET Matched(r) : work' = Overlay(work, gone, Empty)
    <3>1. work' \in Tree
      BY <2>2, OverlayIsTree, EmptyIsTree DEF TypeOK
    <3>2. CASE StageAll(r) /\ UNCHANGED indexLock
      BY <2>1, <3>2
    <3>3. CASE indexLock' \in BOOLEAN /\ UNCHANGED <<index, rebase>>
      BY <1>4, <3>1, <3>3 DEF TypeOK, StageFails, Answer
    <3>4. QED
      BY <1>4, <3>2, <3>3 DEF StageFails
  <2>3. QED
    BY <1>4, <2>1, <2>2 DEF StageFails
<1>5. CASE GitCommit(r)
  <2>1. AddCommit(r)
    BY <1>5 DEF GitCommit
  <2>2. QED
    BY <1>5, <2>1, AddCommitType
    DEF TypeOK, GitCommit, Answer, Signalled, LoopIsFree
<1>6. CASE NoCommit(r)
  BY <1>6 DEF TypeOK, NoCommit, Answer
<1>7. CASE CommitKilled(r)
  <2>1. CASE AddCommit(r) /\ UNCHANGED indexLock
    BY <1>7, <2>1, AddCommitType DEF TypeOK, CommitKilled, Answer
  <2>2. CASE indexLock' \in BOOLEAN /\ UNCHANGED <<pending, rebase>>
    BY <1>7, <2>2 DEF TypeOK, CommitKilled, Answer
  <2>3. QED
    BY <1>7, <2>1, <2>2 DEF CommitKilled
<1>8. CASE WriteFails(r)
  <2>1. work' \in Tree
    BY <1>8, InputType DEF WriteFails, TypeOK, Tree
  <2>2. QED
    BY <1>8, <2>1 DEF TypeOK, WriteFails, Answer
<1>9. QED
  BY <1>1, <1>2, <1>3, <1>4, <1>5, <1>6, <1>7, <1>8 DEF Handler

LEMMA LoopType ==
    ASSUME TypeOK, LoopTakesMu \/ LoopRunsGit \/ LoopStores
    PROVE  TypeOK'
<1> USE DEF handlerVars, loopVars, healthVars, treeVars, branchVars, processVars, netVars,
            InFlight, Answered, LoopHoldsMu, LoopIsFree
<1>1. CASE LoopTakesMu
  <2>1. CASE CheckDirty
    BY <2>1 DEF TypeOK, CheckDirty
  <2>2. CASE StartPush
    BY <2>2 DEF TypeOK, StartPush
  <2>3. CASE MarkDirty
    BY <2>3 DEF TypeOK, MarkDirty
  <2>4. CASE CooledOff
    BY <2>4 DEF TypeOK, CooledOff
  <2>5. QED
    BY <1>1, <2>1, <2>2, <2>3, <2>4 DEF LoopTakesMu
<1>2. CASE Push
  <2>1. rebase'.onto <= Len(remote')
    BY <1>2, PublishType DEF Push, TypeOK, Rebase
  <2>2. QED
    BY <1>2, <2>1, PublishType DEF TypeOK, Push
<1>3. CASE PushAnswerLost
  <2>1. rebase'.onto <= Len(remote')
    BY <1>3, PublishType DEF PushAnswerLost, TypeOK, Rebase
  <2>2. QED
    BY <1>3, <2>1, PublishType, FailPushType DEF TypeOK, PushAnswerLost
<1>4. CASE PushRejected
  BY <1>4, FailPushType DEF TypeOK, PushRejected
<1>5. CASE PushUnreachable
  BY <1>5, FailPushType DEF TypeOK, PushUnreachable
<1>6. CASE PullRefused
  BY <1>6, FailPushType DEF TypeOK, PullRefused
<1>7. CASE Pull
  <2>1. /\ remote \in Seq(Commit) /\ Len(remote) \in Nat
        /\ Len(remote) \in 0..Len(remote)
    BY DEF TypeOK
  <2>2. RemoteTree(Len(remote)) \in Tree
    BY <2>1, RemoteTreeIsTree DEF TypeOK
  <2>3. index' \in Tree /\ work' \in Tree
    BY <1>7, <2>2 DEF Pull, TypeOK, Tree
  <2>4. rebase' \in Rebase /\ rebase'.onto <= Len(remote)
    <3>1. rebase' = [inProgress |-> TRUE, detached |-> TRUE, onto |-> Len(remote),
                     done |-> 0, replayed |-> <<>>, unmerged |-> {}]
      BY <1>7 DEF Pull, NoRebase
    <3>2. QED
      BY <2>1, <3>1 DEF Rebase
  <2>5. QED
    BY <1>7, <2>3, <2>4 DEF TypeOK, Pull
<1>8. CASE Pick
  <2>1. Todo \in Commit /\ ReplayedTree \in Tree
    BY <1>8, PickType DEF Pick
  <2>2. index' \in Tree /\ work' \in Tree
    BY <1>8, <2>1, OverlayIsTree DEF Pick, TypeOK
  <2>3. [id |-> Todo.id, tree |-> ReplayedTree] \in Commit
    BY <2>1 DEF Commit
  <2>4. rebase.replayed \in Seq(Commit) /\ rebase.done + 1 \in Nat
    BY DEF TypeOK, Rebase
  <2>5. Append(rebase.replayed, [id |-> Todo.id, tree |-> ReplayedTree]) \in Seq(Commit)
    BY <2>3, <2>4
  <2>6. rebase' \in Rebase /\ rebase'.onto = rebase.onto
    BY <1>8, <2>4, <2>5 DEF Pick, TypeOK, Rebase
  <2>7. owed' \in SUBSET Requests
    BY <1>8 DEF Pick, TypeOK
  <2>8. QED
    BY <1>8, <2>2, <2>6, <2>7 DEF TypeOK, Pick
<1>9. CASE PickConflict
  <2>1. Todo \in Commit /\ ReplayedTree \in Tree
    BY <1>9, PickType DEF PickConflict
  <2>2. index' \in Tree /\ work' \in Tree
    BY <1>9, <2>1, OverlayIsTree DEF PickConflict, TypeOK, Commit
  <2>3. Conflicts \in SUBSET Pages
    BY DEF Conflicts, Changed
  <2>4. rebase' \in Rebase /\ rebase'.onto = rebase.onto
    BY <1>9, <2>3 DEF PickConflict, TypeOK, Rebase
  <2>5. QED
    BY <1>9, <2>2, <2>4, FailPushType DEF TypeOK, PickConflict
<1>10. CASE PullDone
  <2>1. NoRebase \in Rebase /\ NoRebase.onto = 0
    BY DEF NoRebase, Rebase
  <2>2. rebase.onto \in 0..Len(remote) /\ rebase.replayed \in Seq(Commit)
    BY DEF TypeOK, Rebase
  <2>3. QED
    BY <1>10, <2>1, <2>2 DEF TypeOK, PullDone
<1>11. CASE LoopStores
  <2>1. consecPushFail' \in 0..MaxFails
    <3>1. MaxFails \in Nat /\ consecPushFail \in 0..MaxFails
      BY ConstantsAssumption DEF TypeOK
    <3>2. \/ consecPushFail' = consecPushFail \/ consecPushFail' = 0
          \/ consecPushFail < MaxFails /\ consecPushFail' = consecPushFail + 1
      BY <1>11 DEF LoopStores, StampPush, ForgiveFailures, CountFailure
    <3>3. QED
      BY <3>1, <3>2
  <2>2. stale' \in BOOLEAN /\ pl' \in LoopIsFree
    BY <1>11 DEF LoopStores, StampPush, ForgiveFailures, CountFailure, LoopGoesOn, TypeOK
  <2>3. UNCHANGED <<handlerVars, mu, dirty, sawFailures, treeVars, branchVars,
                    processVars, remote, netVars, owed>>
    BY <1>11 DEF LoopStores, StampPush, ForgiveFailures, CountFailure, LoopGoesOn
  <2>4. QED
    BY <2>1, <2>2, <2>3 DEF TypeOK
<1>12. QED
  BY <1>1, <1>2, <1>3, <1>4, <1>5, <1>6, <1>7, <1>8, <1>9, <1>10, <1>11 DEF LoopRunsGit

LEMMA ResetHardType ==
    ASSUME TypeOK, NEW keep, ResetHard(keep)
    PROVE  index' \in Tree /\ work' \in Tree
<1>1. remote \in Seq(Commit) /\ Len(remote) \in 0..Len(remote)
  BY DEF TypeOK
<1>2. RemoteTree(Len(remote)) \in Tree
  BY <1>1, RemoteTreeIsTree
<1>3. QED
  BY <1>2 DEF ResetHard, TypeOK, Tree

LEMMA BootstrapType == ASSUME TypeOK, Bootstrap PROVE TypeOK'
<1> USE DEF handlerVars, loopVars, healthVars, treeVars, branchVars, processVars, netVars,
            LoopIsFree
<1>0. /\ remote \in Seq(Commit) /\ Len(remote) \in Nat
      /\ <<>> \in Seq(Commit) /\ rebase \in Rebase
      /\ NoRebase \in Rebase /\ NoRebase.onto = 0
  BY DEF TypeOK, NoRebase, Rebase
<1>1. CASE Clone
  <2>1. index' \in Tree /\ work' \in Tree
    BY <1>1, ResetHardType, EmptyIsTree DEF Clone
  <2>2. synced' \in 0..Len(remote) /\ pending' \in Seq(Commit)
    BY <1>0, <1>1 DEF Clone
  <2>3. rebase' \in Rebase /\ rebase'.onto <= Len(remote) /\ indexLock' = FALSE
    BY <1>0, <1>1 DEF Clone
  <2>4. Serve
    BY <1>1 DEF Clone
  <2>5. QED
    BY <2>1, <2>2, <2>3, <2>4 DEF TypeOK, Serve
<1>2. CASE KeepClone
  BY <1>2 DEF TypeOK, KeepClone, Serve
<1>3. CASE ResetClone
  <2>1. index' \in Tree /\ work' \in Tree
    BY <1>3, ResetHardType DEF ResetClone
  <2>2. CASE CanCheckout
    <3>1. rebase' \in Rebase /\ rebase'.onto = 0
      BY <1>0, <1>3, <2>2 DEF ResetClone, Rebase
    <3>2. synced' \in 0..Len(remote) /\ pending' \in Seq(Commit)
      BY <1>0, <1>3, <2>2 DEF ResetClone
    <3>3. QED
      BY <1>0, <1>3, <2>1, <3>1, <3>2 DEF TypeOK, ResetClone, Serve
  <2>3. CASE ~CanCheckout
    <3>0. /\ rebase' = [rebase EXCEPT !.onto = Len(remote), !.replayed = <<>>,
                                      !.unmerged = {}]
          /\ {} \in SUBSET Pages
      BY <1>3, <2>3 DEF ResetClone
    <3>1. rebase' \in Rebase /\ rebase'.onto = Len(remote)
      BY <1>0, <3>0 DEF Rebase
    <3>2. UNCHANGED <<synced, pending>>
      BY <1>3, <2>3 DEF ResetClone
    <3>3. QED
      BY <1>0, <1>3, <2>1, <3>1, <3>2 DEF TypeOK, ResetClone, Serve
  <2>4. QED
    BY <2>2, <2>3
<1>4. QED
  BY <1>1, <1>2, <1>3 DEF Bootstrap

LEMMA EnvironmentType ==
    ASSUME TypeOK, \/ \E f \in Foreign : ForeignPush(f)
                   \/ handleHealth \/ Outage \/ Recovery \/ Age \/ Crash
    PROVE  TypeOK'
<1> USE DEF handlerVars, loopVars, healthVars, treeVars, branchVars, processVars, netVars,
            LoopIsFree
<1>1. CASE \E f \in Foreign : ForeignPush(f)
  <2>1. PICK f \in Foreign, p \in Pages, v \in Contents \cup {Absent} :
            /\ ForeignPush(f)
            /\ remote' = Append(remote, [id |-> f,
                            tree |-> [RemoteTree(Len(remote)) EXCEPT ![p] = v]])
    BY <1>1 DEF ForeignPush
  <2> DEFINE t == [RemoteTree(Len(remote)) EXCEPT ![p] = v]
  <2>2. remote \in Seq(Commit) /\ Len(remote) \in 0..Len(remote) /\ Len(remote) \in Nat
    BY DEF TypeOK
  <2>3. RemoteTree(Len(remote)) \in Tree
    BY <2>2, RemoteTreeIsTree
  <2>4. t \in Tree
    BY <2>3, ConstantsAssumption DEF Tree, Page
  <2>5. [id |-> f, tree |-> t] \in Commit
    BY <2>4 DEF Commit
  <2>6. remote' \in Seq(Commit) /\ Len(remote') = Len(remote) + 1
    BY <2>1, <2>2, <2>5
  <2>7. synced' \in 0..Len(remote') /\ rebase'.onto <= Len(remote')
    BY <2>1, <2>2, <2>6 DEF ForeignPush, TypeOK, Rebase
  <2>8. QED
    BY <2>1, <2>6, <2>7 DEF ForeignPush, TypeOK
<1>2. CASE Outage
  <2>1. outages' \in 0..MaxOutages
    BY <1>2, ConstantsAssumption DEF TypeOK, Outage
  <2>2. QED
    BY <1>2, <2>1 DEF TypeOK, Outage
<1>3. CASE Recovery
  BY <1>3 DEF TypeOK, Recovery
<1>4. CASE Age
  BY <1>4 DEF TypeOK, Age
<1>5. CASE Crash
  <2>1. crashes' \in 0..MaxCrashes /\ consecPushFail' \in 0..MaxFails
    BY <1>5, ConstantsAssumption DEF TypeOK, Crash
  <2>2. indexLock' \in BOOLEAN
    BY <1>5 DEF TypeOK, Crash
  <2>3. pc' \in [Requests -> {"new"} \cup InFlight \cup Answered]
    BY <1>5 DEF TypeOK, Crash, Answered
  <2>4. QED
    BY <1>5, <2>1, <2>2, <2>3 DEF TypeOK, Crash
<1>6. CASE handleHealth
  BY <1>6 DEF TypeOK, handleHealth, ReadFailures, ReadAge
<1>7. QED
  BY <1>1, <1>2, <1>3, <1>4, <1>5, <1>6

LEMMA RequestType ==
    ASSUME TypeOK, NEW r \in Requests, Receive(r) \/ Cancel(r)
    PROVE  TypeOK'
<1> USE DEF handlerVars, loopVars, healthVars, treeVars, branchVars, processVars, netVars,
            InFlight, Answered
<1>1. CASE Receive(r)
  <2>1. PICK i \in Inputs :
            /\ req' = [req EXCEPT ![r] = i]
            /\ pc' = [pc EXCEPT ![r] = IF Mutates(i) THEN "lock"
                                       ELSE IF i.op = "move_session" THEN "ok"
                                       ELSE "error"]
            /\ skipped' = IF i.op \in {"move_session", "unsupported"}
                          THEN skipped \cup {r} ELSE skipped
    BY <1>1 DEF Receive
  <2>2. /\ pc' \in [Requests -> {"new"} \cup InFlight \cup Answered]
        /\ req' \in [Requests -> Inputs \cup {NoInput}]
        /\ skipped' \in SUBSET Requests
    BY <2>1 DEF TypeOK
  <2>3. QED
    BY <1>1, <2>2 DEF TypeOK, Receive
<1>2. CASE Cancel(r)
  BY <1>2 DEF TypeOK, Cancel
<1>3. QED
  BY <1>1, <1>2

\* Every variable of the mirror keeps its type; the local branch and a rebase
\* never refer to more of the remote's history than there is.
THEOREM TypeCorrect == Spec => []TypeOK
<1>1. TypeOK /\ [Next]_vars => TypeOK'
  <2> SUFFICES ASSUME TypeOK, [Next]_vars
               PROVE  TypeOK'
    OBVIOUS
  <2>1. CASE UNCHANGED vars
    BY <2>1 DEF TypeOK, vars, handlerVars, loopVars, healthVars, treeVars,
                branchVars, processVars, netVars
  <2>2. CASE Next
    BY <2>2, RequestType, HandlerType, LoopType, EnvironmentType, BootstrapType
    DEF Next
  <2>3. QED
    BY <2>1, <2>2
<1>2. QED
  BY <1>1, InitType, PTL DEF Spec

-----------------------------------------------------------------------------
(* The inductive invariant behind the safety properties                    *)

\* The mutex: who holds it, that no handler meets an index.lock, and that only
\* a serving process has handlers and a push loop.
MutexInv ==
    /\ LockDiscipline
    /\ up <=> pl # "down"
    /\ ~up => \A r \in Requests : pc[r] \notin InFlight

\* The dirty flag: set whenever the loop is on its way to look at it with work to
\* do, or failures are counted that no success is about to clear.  A success stores
\* the time before it clears the count, so whoever saw the count and then an old time
\* saw a count that stands.  A process that is down owes nothing.
DirtyInv ==
    /\ OwedIsScheduled
    /\ FailuresAreLive
    /\ dirty => pl # "parked"
    /\ pl \in {"debounce", "cooloff"} => dirty
    /\ consecPushFail > 0 =>
        dirty \/ pl \in LoopHoldsMu \cup {"failed", "counted", "pushed", "stamped"}
    /\ pl = "stamped" => ~stale
    /\ sawFailures # {} /\ stale => consecPushFail > 0
    /\ ~up => owed = {} /\ consecPushFail = 0 /\ ~dirty /\ sawFailures = {}

\* Ids of the commits a rebase has still to replay.
TodoIds == {pending[i].id : i \in (rebase.done + 1)..Len(pending)}

\* The branch: a detached HEAD means the branch is behind the remote, so no
\* push succeeds before the branch has moved; what is owed is on the branch, or
\* was replayed, or is still to be replayed.
BranchInv ==
    /\ rebase.detached => rebase.inProgress /\ synced < Len(remote)
    /\ ~rebase.detached => rebase.replayed = <<>>
    /\ pl = "pull" => synced < Len(remote)
    /\ owed \subseteq Ids(pending) \cup Ids(rebase.replayed)
    /\ pl = "pick" => /\ rebase.detached
                      /\ rebase.done <= Len(pending)
                      /\ owed \subseteq TodoIds \cup Ids(rebase.replayed)

IInv == TypeOK /\ MutexInv /\ DirtyInv /\ BranchInv

\* Who may change what: the other actions leave these variables alone.
LEMMA MutexHandler ==
    ASSUME TypeOK, MutexInv, NEW r \in Requests, Handler(r)
    PROVE  MutexInv'
<1> USE ConstantsAssumption
    DEF handlerVars, loopVars, healthVars, treeVars, branchVars, processVars, netVars,
        InFlight, HoldsMu, LoopHoldsMu
<1>1. CASE Lock(r)
  BY <1>1 DEF TypeOK, MutexInv, LockDiscipline, Lock, clearStaleIndexLock
<1>2. CASE WriteFile(r)
  BY <1>2 DEF TypeOK, MutexInv, LockDiscipline, WriteFile
<1>3. CASE Stage(r)
  BY <1>3 DEF TypeOK, MutexInv, LockDiscipline, Stage
<1>4. CASE StageFails(r)
  <2>1. /\ pc[r] = "stage" /\ mu = r /\ mu' = Free /\ pc' = [pc EXCEPT ![r] = "error"]
        /\ UNCHANGED <<pl, up>>
    BY <1>4 DEF StageFails, Answer, MutexInv, LockDiscipline
  <2>2. QED
    BY <2>1 DEF TypeOK, MutexInv, LockDiscipline
<1>5. CASE GitCommit(r)
  <2>1. /\ pc[r] = "commit" /\ mu = r /\ mu' = Free /\ pc' = [pc EXCEPT ![r] = "ok"]
        /\ UNCHANGED up /\ (pl = "parked" \/ pl' = pl) /\ (pl = "parked" => pl' = "check")
    BY <1>5 DEF GitCommit, Answer, Signalled, MutexInv, LockDiscipline
  <2>2. QED
    BY <2>1 DEF TypeOK, MutexInv, LockDiscipline
<1>6. CASE NoCommit(r)
  <2>1. /\ pc[r] = "commit" /\ mu = r /\ mu' = Free
        /\ \E a \in Answered : pc' = [pc EXCEPT ![r] = a]
        /\ UNCHANGED <<pl, up>>
    BY <1>6 DEF NoCommit, Answer, Answered, MutexInv, LockDiscipline
  <2>2. QED
    BY <2>1 DEF TypeOK, MutexInv, LockDiscipline, Answered
<1>7. CASE CommitKilled(r)
  <2>1. /\ pc[r] = "commit" /\ mu = r /\ mu' = Free /\ pc' = [pc EXCEPT ![r] = "error"]
        /\ UNCHANGED <<pl, up>>
    BY <1>7 DEF CommitKilled, Answer, MutexInv, LockDiscipline
  <2>2. QED
    BY <2>1 DEF TypeOK, MutexInv, LockDiscipline
<1>8. CASE WriteFails(r)
  <2>1. /\ pc[r] = "file" /\ mu = r /\ mu' = Free /\ pc' = [pc EXCEPT ![r] = "error"]
        /\ UNCHANGED <<pl, up, indexLock>>
    BY <1>8 DEF WriteFails, Answer, MutexInv, LockDiscipline
  <2>2. QED
    BY <2>1 DEF TypeOK, MutexInv, LockDiscipline
<1>9. QED
  BY <1>1, <1>2, <1>3, <1>4, <1>5, <1>6, <1>7, <1>8 DEF Handler

LEMMA MutexLoop ==
    ASSUME TypeOK, MutexInv, LoopTakesMu \/ LoopRunsGit \/ LoopStores
    PROVE  MutexInv'
<1> USE ConstantsAssumption
    DEF handlerVars, loopVars, healthVars, treeVars, branchVars, processVars, netVars,
        InFlight, HoldsMu, LoopHoldsMu, MutexInv, LockDiscipline
<1>1. CASE LoopTakesMu
  BY <1>1 DEF TypeOK, LoopTakesMu, CheckDirty, StartPush, MarkDirty, CooledOff
<1>2. CASE Push
  BY <1>2 DEF TypeOK, Push
<1>3. CASE PushAnswerLost
  BY <1>3 DEF TypeOK, PushAnswerLost, FailPush
<1>4. CASE PushRejected
  BY <1>4 DEF TypeOK, PushRejected, FailPush
<1>5. CASE PushUnreachable
  BY <1>5 DEF TypeOK, PushUnreachable, FailPush
<1>6. CASE PullRefused
  BY <1>6 DEF TypeOK, PullRefused, FailPush
<1>7. CASE Pull
  BY <1>7 DEF TypeOK, Pull
<1>8. CASE Pick
  BY <1>8 DEF TypeOK, Pick
<1>9. CASE PickConflict
  BY <1>9 DEF TypeOK, PickConflict, FailPush
<1>10. CASE PullDone
  BY <1>10 DEF TypeOK, PullDone
<1>11. CASE LoopStores
  BY <1>11 DEF TypeOK, LoopStores, StampPush, ForgiveFailures, CountFailure, LoopGoesOn
<1>12. QED
  BY <1>1, <1>2, <1>3, <1>4, <1>5, <1>6, <1>7, <1>8, <1>9, <1>10, <1>11 DEF LoopRunsGit

LEMMA MutexOther ==
    ASSUME TypeOK, MutexInv,
           \/ \E r \in Requests : Receive(r) \/ Cancel(r)
           \/ \E f \in Foreign : ForeignPush(f)
           \/ handleHealth \/ Outage \/ Recovery \/ Age \/ Crash \/ Bootstrap
    PROVE  MutexInv'
<1> USE ConstantsAssumption
    DEF handlerVars, loopVars, healthVars, treeVars, branchVars, processVars, netVars,
        InFlight, HoldsMu, LoopHoldsMu, MutexInv, LockDiscipline
<1>1. CASE \E r \in Requests : Receive(r)
  <2>1. PICK r \in Requests : Receive(r)
    BY <1>1
  <2>2. /\ up /\ pc[r] = "new" /\ UNCHANGED <<mu, pl, up, indexLock>>
        /\ \E x \in {"lock", "ok", "error"} : pc' = [pc EXCEPT ![r] = x]
    BY <2>1 DEF Receive
  <2>3. QED
    BY <2>2 DEF TypeOK
<1>2. CASE \E r \in Requests : Cancel(r)
  BY <1>2 DEF TypeOK, Cancel
<1>3. CASE \E f \in Foreign : ForeignPush(f)
  BY <1>3 DEF TypeOK, ForeignPush
<1>4. CASE handleHealth \/ Outage \/ Recovery \/ Age
  BY <1>4 DEF TypeOK, handleHealth, ReadFailures, ReadAge, Outage, Recovery, Age
<1>5. CASE Crash
  BY <1>5 DEF TypeOK, Crash
<1>6. CASE Bootstrap
  <2>1. ~up /\ Serve
    BY <1>6 DEF Bootstrap, Clone, KeepClone, ResetClone
  <2>2. \A r \in Requests : pc'[r] \notin HoldsMu
    BY <2>1 DEF Serve
  <2>3. mu' \notin Requests /\ mu' # PushLoop
    BY <2>1 DEF Serve, TypeOK
  <2>4. QED
    BY <2>1, <2>2, <2>3 DEF Serve
<1>7. QED
  BY <1>1, <1>2, <1>3, <1>4, <1>5, <1>6

\* What is owed can only shrink, except by a commit, which also sets dirty.
LEMMA DirtyHandler ==
    ASSUME TypeOK, MutexInv, DirtyInv, NEW r \in Requests, Handler(r)
    PROVE  DirtyInv'
<1> USE DEF loopVars, healthVars, processVars, DirtyInv, OwedIsScheduled,
            FailuresAreLive, Healthy, LoopHoldsMu
<1>1. CASE GitCommit(r)
  <2>1. up
    BY <1>1 DEF GitCommit, MutexInv, InFlight
  <2>2. /\ up' = up /\ dirty' /\ UNCHANGED healthVars
        /\ pl' # "parked" /\ (pl' = pl \/ pl' = "check")
    BY <1>1 DEF GitCommit, Signalled
  <2>3. QED
    BY <2>1, <2>2
<1>2. CASE ~GitCommit(r)
  <2>1. UNCHANGED <<loopVars, processVars, owed>>
    BY <1>2 DEF Handler, Lock, WriteFile, WriteFails, Stage, StageFails, NoCommit,
                CommitKilled
  <2>2. QED
    BY <2>1
<1>3. QED
  BY <1>1, <1>2

LEMMA DirtyLoop ==
    ASSUME TypeOK, MutexInv, DirtyInv, LoopTakesMu \/ LoopRunsGit \/ LoopStores,
           Push => owed' = {}
    PROVE  DirtyInv'
<1> USE DEF loopVars, healthVars, processVars, DirtyInv, OwedIsScheduled,
            FailuresAreLive, Healthy, LoopHoldsMu
<1>0. up /\ up' = up
  BY DEF LoopTakesMu, CheckDirty, StartPush, MarkDirty, CooledOff, LoopRunsGit,
         Push, PushAnswerLost, PushRejected, PushUnreachable, PullRefused, Pull,
         Pick, PickConflict, PullDone, LoopStores, StampPush, ForgiveFailures,
         CountFailure, LoopGoesOn, MutexInv
<1>1. CASE CheckDirty
  BY <1>0, <1>1 DEF CheckDirty
<1>2. CASE StartPush
  BY <1>0, <1>2 DEF StartPush
<1>3. CASE MarkDirty
  BY <1>0, <1>3 DEF MarkDirty
<1>4. CASE CooledOff
  BY <1>0, <1>4 DEF CooledOff
<1>5. CASE Push
  BY <1>0, <1>5 DEF Push
<1>6. CASE FailPush
  BY <1>0, <1>6 DEF FailPush
<1>7. CASE (PushRejected /\ ~FailPush) \/ Pull \/ Pick \/ PullDone
  BY <1>0, <1>7 DEF PushRejected, Pull, Pick, PullDone
<1>8. CASE LoopStores
  <2>1. consecPushFail \in Nat /\ consecPushFail' \in Nat
    BY <1>8, ConstantsAssumption
    DEF TypeOK, LoopStores, StampPush, ForgiveFailures, CountFailure, LoopGoesOn
  <2>2. QED
    BY <1>0, <1>8, <2>1, ConstantsAssumption
    DEF TypeOK, LoopStores, StampPush, ForgiveFailures, CountFailure, LoopGoesOn
<1>9. QED
  BY <1>1, <1>2, <1>3, <1>4, <1>5, <1>6, <1>7, <1>8
  DEF LoopTakesMu, LoopRunsGit, PushAnswerLost, PushUnreachable, PullRefused,
      PickConflict

LEMMA DirtyOther ==
    ASSUME TypeOK, MutexInv, DirtyInv,
           \/ \E r \in Requests : Receive(r) \/ Cancel(r)
           \/ \E f \in Foreign : ForeignPush(f)
           \/ handleHealth \/ Outage \/ Recovery \/ Age \/ Crash \/ Bootstrap
    PROVE  DirtyInv'
<1> USE DEF loopVars, healthVars, processVars, DirtyInv, OwedIsScheduled,
            FailuresAreLive, Healthy, LoopHoldsMu
<1>1. CASE \/ \E r \in Requests : Receive(r) \/ Cancel(r)
           \/ \E f \in Foreign : ForeignPush(f)
           \/ Outage \/ Recovery
  <2>1. UNCHANGED <<up, loopVars, owed>>
    BY <1>1 DEF Receive, Cancel, ForeignPush, Outage, Recovery
  <2>2. QED
    BY <2>1
<1>2. CASE Crash
  BY <1>2 DEF Crash
<1>3. CASE Bootstrap
  <2>1. ~up /\ Serve
    BY <1>3 DEF Bootstrap, Clone, KeepClone, ResetClone
  <2>2. QED
    BY <2>1 DEF Serve
<1>4. CASE Age
  BY <1>4 DEF Age
<1>5. CASE handleHealth
  BY <1>5 DEF handleHealth, ReadFailures, ReadAge
<1>6. QED
  BY <1>1, <1>2, <1>3, <1>4, <1>5

-----------------------------------------------------------------------------
(* Commits                                                                 *)

LEMMA IdsOfAppend ==
    ASSUME NEW S, NEW s \in Seq(S), NEW e \in S
    PROVE  Ids(Append(s, e)) = Ids(s) \cup {e.id}
<1>1. /\ DOMAIN Append(s, e) = (DOMAIN s) \cup {Len(s) + 1}
      /\ \A i \in DOMAIN s : Append(s, e)[i] = s[i]
      /\ Append(s, e)[Len(s) + 1] = e
  OBVIOUS
<1>2. QED
  BY <1>1 DEF Ids

LEMMA BranchHandler ==
    ASSUME TypeOK, MutexInv, BranchInv, NEW r \in Requests, Handler(r)
    PROVE  BranchInv'
<1> USE DEF branchVars, BranchInv
<1>0. /\ pc[r] \in InFlight /\ remote' = remote /\ synced' = synced
      /\ pending \in Seq(Commit) /\ rebase \in Rebase
      /\ rebase.replayed \in Seq(Commit)
  BY DEF Handler, Lock, WriteFile, WriteFails, Stage, StageFails, GitCommit,
         NoCommit, CommitKilled, InFlight, TypeOK, Rebase
<1>1. CASE UNCHANGED <<branchVars, owed, pl>>
  BY <1>0, <1>1 DEF Ids, TodoIds
<1>2. CASE StageAll(r) /\ UNCHANGED <<synced, pending, owed, pl>>
  <2>1. /\ rebase'.detached = rebase.detached /\ rebase'.done = rebase.done
        /\ rebase'.replayed = rebase.replayed
        /\ rebase'.inProgress = rebase.inProgress
    BY <1>0, <1>2 DEF StageAll, Rebase
  <2>2. QED
    BY <1>0, <1>2, <2>1 DEF Ids, TodoIds
<1>3. CASE AddCommit(r) /\ owed' \subseteq owed \cup {r} /\ pl' \notin {"pick", "pull"}
  <2> DEFINE c == [id |-> r, tree |-> index]
  <2>1. c \in Commit /\ c.id = r
    BY DEF TypeOK, Commit
  <2>2. CASE rebase.detached
    <3>1. /\ rebase' = [rebase EXCEPT !.replayed = Append(@, c)]
          /\ pending' = pending
      BY <1>3, <2>2 DEF AddCommit
    <3>2. /\ rebase'.replayed = Append(rebase.replayed, c) /\ rebase'.detached
          /\ rebase'.inProgress = rebase.inProgress
      BY <1>0, <2>2, <3>1 DEF Rebase
    <3>3. Ids(rebase'.replayed) = Ids(rebase.replayed) \cup {r}
      BY <1>0, <2>1, <3>2, IdsOfAppend
    <3>4. Ids(pending') = Ids(pending)
      BY <3>1
    <3>5. (Ids(pending) \cup Ids(rebase.replayed))' = Ids(pending) \cup Ids(rebase.replayed) \cup {r}
      BY <3>3, <3>4 DEF Ids
    <3>6. QED
      BY <1>0, <1>3, <2>2, <3>2, <3>5
  <2>3. CASE ~rebase.detached
    <3>1. pending' = Append(pending, c) /\ rebase' = rebase
      BY <1>3, <2>3 DEF AddCommit
    <3>2. Ids(pending') = Ids(pending) \cup {r} /\ Ids(rebase'.replayed) = Ids(rebase.replayed)
      BY <1>0, <2>1, <3>1, IdsOfAppend
    <3>3. QED
      BY <1>0, <1>3, <2>3, <3>1, <3>2
  <2>4. QED
    BY <2>2, <2>3
<1>4. CASE GitCommit(r) \/ CommitKilled(r)
  <2>1. mu = r /\ pl \notin LoopHoldsMu
    BY <1>4, ConstantsAssumption
    DEF GitCommit, CommitKilled, MutexInv, LockDiscipline, HoldsMu
  <2>2. pl' \notin {"pick", "pull"}
    BY <1>4, <2>1 DEF GitCommit, CommitKilled, Signalled, LoopHoldsMu, loopVars
  <2>3. QED
    BY <1>1, <1>3, <1>4, <2>2 DEF GitCommit, CommitKilled, loopVars
<1>5. QED
  BY <1>1, <1>2, <1>4
  DEF Handler, Lock, WriteFile, WriteFails, Stage, StageFails, NoCommit, loopVars

\* A push that the remote takes leaves nothing owed: HEAD is the branch, since a
\* detached HEAD goes with a branch that is behind.
LEMMA PublishPaysAll ==
    ASSUME TypeOK, BranchInv, FastForward, Publish
    PROVE  /\ owed' = {} /\ ~rebase.detached /\ rebase' = rebase
           /\ rebase.replayed = <<>>
<1>1. ~rebase.detached /\ rebase.replayed = <<>>
  BY DEF FastForward, BranchInv, TypeOK
<1>2. owed \subseteq Ids(pending)
  BY <1>1 DEF BranchInv, Ids
<1>3. QED
  BY <1>1, <1>2 DEF Publish

LEMMA BranchPick ==
    ASSUME TypeOK, BranchInv, Pick
    PROVE  BranchInv'
<1> DEFINE c == [id |-> Todo.id, tree |-> ReplayedTree]
<1>1. /\ pending \in Seq(Commit) /\ Len(pending) \in Nat /\ rebase \in Rebase
      /\ rebase.replayed \in Seq(Commit) /\ rebase.done \in Nat
      /\ rebase.done < Len(pending) /\ pl = "pick" /\ rebase.detached
      /\ UNCHANGED <<pl, synced, pending, remote>>
  BY DEF Pick, TypeOK, Rebase, BranchInv, loopVars
<1>2. c \in Commit
  BY <1>1, PickType DEF Commit
<1>3. TodoIds = {Todo.id} \cup {pending[i].id : i \in (rebase.done + 2)..Len(pending)}
  BY <1>1 DEF TodoIds, Todo
<1>4. /\ rebase'.detached /\ rebase'.done = rebase.done + 1
      /\ rebase'.inProgress = rebase.inProgress
  BY <1>1 DEF Pick, Rebase
<1>5. TodoIds' = {pending[i].id : i \in (rebase.done + 2)..Len(pending)}
  BY <1>1, <1>4 DEF TodoIds
<1>6. TodoIds' \subseteq Ids(pending')
  BY <1>1, <1>4 DEF TodoIds, Ids
<1>7. owed' \subseteq TodoIds' \cup Ids(rebase'.replayed)
  <2>1. CASE rebase'.replayed = rebase.replayed /\ owed' = owed \ {Todo.id}
    BY <1>3, <1>5, <2>1, <1>1 DEF BranchInv
  <2>2. CASE rebase'.replayed = Append(rebase.replayed, c) /\ owed' = owed
    <3>1. Ids(rebase'.replayed) = Ids(rebase.replayed) \cup {Todo.id}
      BY <1>1, <1>2, <2>2, IdsOfAppend
    <3>2. QED
      BY <1>1, <1>3, <1>5, <2>2, <3>1 DEF BranchInv
  <2>3. QED
    BY <1>1, <2>1, <2>2 DEF Pick, Rebase
<1>8. QED
  BY <1>1, <1>4, <1>6, <1>7 DEF BranchInv

LEMMA BranchLoop ==
    ASSUME TypeOK, MutexInv, BranchInv, LoopTakesMu \/ LoopRunsGit \/ LoopStores
    PROVE  BranchInv'
<1> USE DEF branchVars, loopVars, healthVars
<1>1. CASE LoopTakesMu
  <2>1. UNCHANGED <<branchVars, remote, owed>> /\ pl' \notin {"pick", "pull"}
    BY <1>1 DEF LoopTakesMu, CheckDirty, StartPush, MarkDirty, CooledOff
  <2>2. QED
    BY <2>1 DEF BranchInv, Ids
<1>2. CASE Push \/ PushAnswerLost
  <2>1. FastForward /\ Publish /\ pl' \notin {"pick", "pull"}
    BY <1>2 DEF Push, PushAnswerLost, FailPush
  <2>2. QED
    BY <2>1, PublishPaysAll DEF BranchInv
<1>3. CASE PushRejected \/ PushUnreachable \/ PullRefused
  <2>1. UNCHANGED <<branchVars, remote, owed>> /\ pl' # "pick"
    BY <1>3 DEF PushRejected, PushUnreachable, PullRefused, FailPush
  <2>2. pl' = "pull" => synced < Len(remote)
    <3>1. pl' = "pull" => synced # Len(remote)
      BY <1>3 DEF PushRejected, PushUnreachable, PullRefused, FailPush, FastForward
    <3>2. synced \in 0..Len(remote) /\ Len(remote) \in Nat
      BY DEF TypeOK
    <3>3. QED
      BY <3>1, <3>2
  <2>3. QED
    BY <2>1, <2>2 DEF BranchInv, Ids
<1>4. CASE Pull
  <2>1. /\ pl = "pull" /\ UNCHANGED <<synced, pending, remote, owed>> /\ pl' = "pick"
        /\ rebase' = [inProgress |-> TRUE, detached |-> TRUE, onto |-> Len(remote),
                      done |-> 0, replayed |-> <<>>, unmerged |-> {}]
    BY <1>4 DEF Pull, NoRebase
  <2>2. ~rebase.detached
    BY <1>4, <2>1 DEF Pull, CanPull, BranchInv
  <2>3. owed \subseteq Ids(pending)
    BY <2>2 DEF BranchInv, Ids
  <2>4. TodoIds' = Ids(pending)
    <3>1. rebase'.done = 0 /\ pending' = pending /\ DOMAIN pending = 1..Len(pending)
      BY <2>1 DEF TypeOK
    <3>2. QED
      BY <3>1 DEF TodoIds, Ids
  <2>5. Ids(pending') = Ids(pending) /\ 0 <= Len(pending')
    BY <2>1 DEF TypeOK
  <2>6. QED
    BY <2>1, <2>3, <2>4, <2>5 DEF BranchInv
<1>5. CASE Pick
  BY <1>5, BranchPick
<1>6. CASE PickConflict
  <2>1. UNCHANGED <<synced, pending, remote, owed>> /\ pl' = "failed"
    BY <1>6 DEF PickConflict, FailPush
  <2>2. /\ rebase'.detached = rebase.detached /\ rebase'.replayed = rebase.replayed
        /\ rebase'.inProgress = rebase.inProgress
    BY <1>6 DEF PickConflict, TypeOK, Rebase
  <2>3. QED
    BY <2>1, <2>2 DEF BranchInv, Ids
<1>7. CASE PullDone
  <2>1. TodoIds = {}
    BY <1>7 DEF PullDone, TodoIds, TypeOK
  <2>2. owed \subseteq Ids(rebase.replayed)
    BY <1>7, <2>1 DEF PullDone, BranchInv
  <2>3. /\ pending' = rebase.replayed /\ owed' = owed /\ pl' = "retry"
        /\ ~rebase'.detached /\ rebase'.replayed = <<>>
    BY <1>7 DEF PullDone, NoRebase
  <2>4. QED
    BY <2>2, <2>3 DEF BranchInv, Ids
<1>8. CASE LoopStores
  <2>1. UNCHANGED <<branchVars, remote, owed>> /\ pl' \notin {"pick", "pull"}
    BY <1>8 DEF LoopStores, StampPush, ForgiveFailures, CountFailure, LoopGoesOn
  <2>2. QED
    BY <2>1 DEF BranchInv, Ids
<1>9. QED
  BY <1>1, <1>2, <1>3, <1>4, <1>5, <1>6, <1>7, <1>8 DEF LoopRunsGit

LEMMA BranchOther ==
    ASSUME TypeOK, MutexInv, DirtyInv, BranchInv,
           \/ \E r \in Requests : Receive(r) \/ Cancel(r)
           \/ \E f \in Foreign : ForeignPush(f)
           \/ handleHealth \/ Outage \/ Recovery \/ Age \/ Crash \/ Bootstrap
    PROVE  BranchInv'
<1> USE DEF branchVars, loopVars, healthVars
<1>1. CASE \/ \E r \in Requests : Receive(r) \/ Cancel(r)
           \/ handleHealth \/ Outage \/ Recovery \/ Age
  <2>1. UNCHANGED <<branchVars, remote, pl, owed>>
    BY <1>1 DEF Receive, Cancel, handleHealth, ReadFailures, ReadAge, Outage,
                Recovery, Age
  <2>2. QED
    BY <2>1 DEF BranchInv, Ids, TodoIds
<1>2. CASE \E f \in Foreign : ForeignPush(f)
  <2>1. UNCHANGED <<branchVars, pl, owed>>
    BY <1>2 DEF ForeignPush
  <2>2. Len(remote') = Len(remote) + 1
    BY <1>2 DEF ForeignPush, TypeOK
  <2>3. synced \in Nat /\ Len(remote) \in Nat
    BY DEF TypeOK
  <2>4. QED
    BY <2>1, <2>2, <2>3 DEF BranchInv, Ids, TodoIds
<1>3. CASE Crash
  BY <1>3 DEF Crash, BranchInv
<1>4. CASE Bootstrap
  <2>1. ~up /\ owed = {}
    BY <1>4 DEF Bootstrap, Clone, KeepClone, ResetClone, DirtyInv
  <2>2. owed' = {} /\ pl' = "check" /\ remote' = remote
    BY <1>4, <2>1 DEF Bootstrap, Clone, KeepClone, ResetClone, Serve
  <2>3. /\ rebase'.detached => rebase'.inProgress /\ synced' < Len(remote')
        /\ ~rebase'.detached => rebase'.replayed = <<>>
    <3>1. CASE Clone
      BY <3>1 DEF Clone, NoRebase
    <3>2. CASE KeepClone
      BY <3>2, <2>2 DEF KeepClone, BranchInv
    <3>3. CASE ResetClone /\ CanCheckout
      <4>1. rebase' = [NoRebase EXCEPT !.inProgress = rebase.inProgress]
        BY <3>3 DEF ResetClone
      <4>2. QED
        BY <4>1 DEF NoRebase
    <3>4. CASE ResetClone /\ ~CanCheckout
      <4>1. rebase' = [rebase EXCEPT !.onto = Len(remote), !.replayed = <<>>,
                                     !.unmerged = {}]
            /\ synced' = synced
        BY <3>4 DEF ResetClone
      <4>2. /\ rebase'.detached = rebase.detached /\ rebase'.replayed = <<>>
            /\ rebase'.inProgress = rebase.inProgress
        BY <4>1 DEF TypeOK, Rebase
      <4>3. QED
        BY <2>2, <4>1, <4>2 DEF BranchInv
    <3>5. QED
      BY <1>4, <3>1, <3>2, <3>3, <3>4 DEF Bootstrap
  <2>4. QED
    BY <2>2, <2>3 DEF BranchInv
<1>5. QED
  BY <1>1, <1>2, <1>3, <1>4

-----------------------------------------------------------------------------
(* The theorems                                                            *)

LEMMA InitIInv == Init => IInv
<1>1. ASSUME Init PROVE IInv
  <2>1. MutexInv
    BY <1>1, ConstantsAssumption
    DEF Init, MutexInv, LockDiscipline, HoldsMu, LoopHoldsMu, InFlight
  <2>2. DirtyInv
    BY <1>1 DEF Init, DirtyInv, OwedIsScheduled, FailuresAreLive
  <2>3. BranchInv
    BY <1>1 DEF Init, BranchInv, NoRebase
  <2>4. QED
    BY <1>1, <2>1, <2>2, <2>3, InitType DEF IInv
<1>2. QED
  BY <1>1

LEMMA StepIInv == IInv /\ [Next]_vars => IInv'
<1> SUFFICES ASSUME IInv, [Next]_vars
             PROVE  IInv'
  OBVIOUS
<1> USE DEF IInv
<1>1. CASE UNCHANGED vars
  <2>1. TypeOK'
    BY <1>1 DEF TypeOK, vars, handlerVars, loopVars, healthVars, treeVars,
                branchVars, processVars, netVars
  <2>2. MutexInv'
    BY <1>1 DEF MutexInv, LockDiscipline, vars, handlerVars, loopVars, treeVars,
                processVars
  <2>3. DirtyInv'
    BY <1>1 DEF DirtyInv, OwedIsScheduled, FailuresAreLive, Healthy, vars, loopVars,
                healthVars, processVars
  <2>4. BranchInv'
    BY <1>1 DEF BranchInv, Ids, TodoIds, vars, loopVars, branchVars
  <2>5. QED
    BY <2>1, <2>2, <2>3, <2>4
<1>2. CASE \E r \in Requests : Handler(r)
  BY <1>2, HandlerType, MutexHandler, DirtyHandler, BranchHandler
<1>3. CASE LoopTakesMu \/ LoopRunsGit \/ LoopStores
  <2>1. Push => owed' = {}
    BY PublishPaysAll DEF Push
  <2>2. QED
    BY <1>3, <2>1, LoopType, MutexLoop, DirtyLoop, BranchLoop
<1>4. CASE \/ \E r \in Requests : Receive(r) \/ Cancel(r)
           \/ \E f \in Foreign : ForeignPush(f)
           \/ handleHealth \/ Outage \/ Recovery \/ Age \/ Crash \/ Bootstrap
  <2>1. TypeOK'
    BY <1>4, RequestType, EnvironmentType, BootstrapType
  <2>2. QED
    BY <1>4, <2>1, MutexOther, DirtyOther, BranchOther
<1>5. QED
  BY <1>1, <1>2, <1>3, <1>4 DEF Next

\* The strengthening is inductive.
THEOREM Invariance == Spec => []IInv
  BY InitIInv, StepIInv, PTL DEF Spec

\* Whoever is between Lock and Unlock is alone, and no handler's git meets an
\* index.lock, however many requests, crashes and cancellations there are.
THEOREM MutualExclusion == Spec => []LockDiscipline
<1>1. IInv => LockDiscipline
  BY DEF IInv, MutexInv
<1>2. QED
  BY <1>1, Invariance, PTL

\* No wake-up of the push loop is lost and no failed push is forgotten.
THEOREM NothingForgotten == Spec => []OwedIsScheduled
<1>1. IInv => OwedIsScheduled
  BY DEF IInv, DirtyInv
<1>2. QED
  BY <1>1, Invariance, PTL

\* Whatever a probe of /healthz read, and whenever: a 503 is answered only while the
\* count is above zero and a push is due, under way or just made.
THEOREM FailuresMeanWork == Spec => []FailuresAreLive
<1>1. IInv => FailuresAreLive
  BY DEF IInv, DirtyInv
<1>2. QED
  BY <1>1, Invariance, PTL

\* No rebase, conflict, retry or lost answer drops an acknowledged change from
\* the local repository before the remote has it.
THEOREM NothingDropped == Spec => []OwedIsCommitted
<1>1. IInv => OwedIsCommitted
  BY DEF IInv, BranchInv, OwedIsCommitted
<1>2. QED
  BY <1>1, Invariance, PTL

=============================================================================
