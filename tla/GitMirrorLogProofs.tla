-------------------------- MODULE GitMirrorLogProofs --------------------------
(* GitMirror keeps the promise of BackupLog, what a 204 and a push promise,  *)
(* and the work of both sides of a rebase, for every value of its constants. *)
EXTENDS GitMirrorProofs

-----------------------------------------------------------------------------
(* Lines of commits                                                        *)

\* The tree a line of commits s on the tree b ends in, and the one before its
\* k-th commit.
TipOf(b, s) == IF s = <<>> THEN b ELSE s[Len(s)].tree
Prior(b, s, k) == IF k = 1 THEN b ELSE s[k - 1].tree
TreeAt(log, n) == IF n = 0 THEN Empty ELSE log[n].tree
Later(s, k) == {s[i].id : i \in (k + 1)..Len(s)}

\* Part x of page p in the tree t.
At(t, p, x) == Part(t[p], x)

\* Some request of S asks for part x of page p to be v.
Asked(rq, S, p, x, v) == \E r \in S : p \in rq[r].pages /\ Part(rq[r].value, x) = v

\* Request r adds nothing to part x of page p (BackupLog!Redundant).
Moot(log, rq, r, p, x) ==
    \/ Part(rq[r].value, x) = Absent
    \/ \E i \in DOMAIN log : At(log[i].tree, p, x) = Part(rq[r].value, x)
    \/ Asked(rq, Requests \ {r}, p, x, Part(rq[r].value, x))

\* What the k-th commit of a line says of a part of a page the base says, or somebody
\* asked for who has no later commit in the line; so does what it changes.  And it
\* changes what its own request asks for, unless that is moot.
Sound(log, rq, S, b, s, k) ==
    LET t == s[k].tree
        r == s[k].id
        By == S \ Later(s, k)
    IN /\ \A p \in Pages, x \in Parts : At(t, p, x) = At(b, p, x) \/ Asked(rq, By, p, x, At(t, p, x))
       /\ \A p \in Pages, x \in Parts :
             At(t, p, x) = At(Prior(b, s, k), p, x) \/ Asked(rq, By, p, x, At(t, p, x))
       /\ \A p \in rq[r].pages, x \in Parts :
             \/ /\ At(t, p, x) = Part(rq[r].value, x)
                /\ At(t, p, x) # At(Prior(b, s, k), p, x)
             \/ Moot(log, rq, r, p, x)

Line(log, rq, S, b, s) == \A k \in 1..Len(s) : Sound(log, rq, S, b, s, k)

Distinct(s) == \A i, j \in 1..Len(s) : s[i].id = s[j].id => i = j

-----------------------------------------------------------------------------
(* The inductive invariant                                                 *)

Done == {r \in Requests : pc[r] \in Answered}
Staged == {r \in Requests : pc[r] \in Answered \cup {"commit"}}

\* What a handler has done where it is.
HandlerInv == \A r \in Requests :
    /\ pc[r] = "new" => req[r] = NoInput
    /\ pc[r] # "new" => req[r] \in Inputs
    /\ pc[r] \in InFlight => Mutates(req[r])
    /\ pc[r] = "file" => req[r].op = "write_page"
    /\ pc[r] = "stage" /\ req[r].op = "write_page" =>
          \A p \in req[r].pages : work[p] = req[r].value
    /\ pc[r] = "commit" => \A p \in req[r].pages : index[p] = req[r].value

\* A request has at most one commit in the remote, the branch or the detached HEAD.
IdInv ==
    /\ Distinct(remote) /\ Distinct(pending) /\ Distinct(rebase.replayed)
    /\ Ids(remote) \subseteq Done \cup Foreign
    /\ Ids(pending) \cup Ids(rebase.replayed) \subseteq Done \ Ids(remote)
    /\ pl = "pick" => Ids(rebase.replayed) \cap TodoIds = {}

\* What is staged was asked for, but for the pages a stopped rebase leaves unmerged:
\* git does not commit before they are staged anew.
IndexInv ==
    /\ pl = "pick" => rebase.unmerged = {}
    /\ \A p \in Pages \ rebase.unmerged, x \in Parts :
          At(index, p, x) = At(HeadTree, p, x) \/ Asked(req, Staged, p, x, At(index, p, x))

\* The requests whose commits a rebase has still to replay.
Ahead == IF pl = "pick" THEN TodoIds ELSE {}

LineInv ==
    /\ Line(remote, req, Done, TreeAt(remote, synced), pending)
    /\ rebase.detached =>
          Line(remote, req, Done \ Ahead, TreeAt(remote, rebase.onto), rebase.replayed)

LogInv == HandlerInv /\ IdInv /\ IndexInv /\ LineInv

-----------------------------------------------------------------------------
(* Lemmas about lines                                                      *)

\* A later log and later requests: nothing that was there is different.
Extends(log, log2) == \A i \in DOMAIN log : i \in DOMAIN log2 /\ log2[i] = log[i]
Agree(rq, rq2) == \A r \in Requests : rq[r] = NoInput \/ rq2[r] = rq[r]

LEMMA AskedLasts ==
    ASSUME NEW rq, NEW rq2, Agree(rq, rq2), NEW S, NEW T, S \subseteq T, T \subseteq Requests,
           NEW p, NEW x, NEW v, Asked(rq, S, p, x, v)
    PROVE  Asked(rq2, T, p, x, v)
<1>1. PICK r \in S : p \in rq[r].pages /\ Part(rq[r].value, x) = v
  BY DEF Asked
<1>2. rq[r] # NoInput
  BY <1>1 DEF NoInput
<1>3. QED
  BY <1>1, <1>2 DEF Agree, Asked

LEMMA MootLasts ==
    ASSUME NEW log, NEW log2, Extends(log, log2), NEW rq, NEW rq2, Agree(rq, rq2),
           NEW r, rq2[r] = rq[r], NEW p, NEW x, Moot(log, rq, r, p, x)
    PROVE  Moot(log2, rq2, r, p, x)
<1>1. CASE Part(rq[r].value, x) = Absent
  BY <1>1 DEF Moot
<1>2. CASE \E i \in DOMAIN log : At(log[i].tree, p, x) = Part(rq[r].value, x)
  BY <1>2 DEF Moot, Extends
<1>3. CASE Asked(rq, Requests \ {r}, p, x, Part(rq[r].value, x))
  BY <1>3, AskedLasts DEF Moot
<1>4. QED
  BY <1>1, <1>2, <1>3 DEF Moot

\* A line stays sound when the log grows, more is asked for and fewer requests are
\* excluded.
LEMMA LineLasts ==
    ASSUME NEW log, NEW log2, Extends(log, log2), NEW rq, NEW rq2, Agree(rq, rq2),
           NEW S, NEW T, S \subseteq T, T \subseteq Requests, NEW b, NEW s,
           \A k \in 1..Len(s) : rq2[s[k].id] = rq[s[k].id],
           Line(log, rq, S, b, s)
    PROVE  Line(log2, rq2, T, b, s)
<1> SUFFICES ASSUME NEW k \in 1..Len(s)
             PROVE  Sound(log2, rq2, T, b, s, k)
  BY DEF Line
<1>1. Sound(log, rq, S, b, s, k) /\ rq2[s[k].id] = rq[s[k].id]
  BY DEF Line
<1>2. \A p, x, v : Asked(rq, S \ Later(s, k), p, x, v) => Asked(rq2, T \ Later(s, k), p, x, v)
  BY AskedLasts
<1>3. \A p, x : Moot(log, rq, s[k].id, p, x) => Moot(log2, rq2, s[k].id, p, x)
  BY <1>1, MootLasts
<1>4. QED
  BY <1>1, <1>2, <1>3 DEF Sound

\* The tip of a line is its base, or asked for by a request of S.
LEMMA LineTip ==
    ASSUME NEW log, NEW rq, NEW S, NEW b, NEW s \in Seq(Commit), Line(log, rq, S, b, s),
           NEW p \in Pages, NEW x \in Parts
    PROVE  \/ At(TipOf(b, s), p, x) = At(b, p, x)
           \/ Asked(rq, S, p, x, At(TipOf(b, s), p, x))
<1>1. CASE s = <<>>
  BY <1>1 DEF TipOf
<1>2. CASE s # <<>>
  <2>1. Len(s) \in 1..Len(s)
    BY <1>2
  <2>2. Later(s, Len(s)) = {}
    BY <2>1 DEF Later
  <2>3. S \ Later(s, Len(s)) = S
    BY <2>2
  <2>4. Sound(log, rq, S, b, s, Len(s))
    BY <2>1 DEF Line
  <2>5. QED
    BY <1>2, <2>3, <2>4 DEF Sound, TipOf
<1>3. QED
  BY <1>1, <1>2

\* What the tip of a line says already is moot for a request that S does not have.
LEMMA TipIsMoot ==
    ASSUME NEW log \in Seq(Commit), NEW n \in 0..Len(log), NEW rq, NEW S, S \subseteq Requests,
           NEW s \in Seq(Commit), Line(log, rq, S, TreeAt(log, n), s),
           NEW r \in Requests, r \notin S, NEW p \in Pages, NEW x \in Parts,
           At(TipOf(TreeAt(log, n), s), p, x) = Part(rq[r].value, x)
    PROVE  Moot(log, rq, r, p, x)
<1>1. CASE At(TreeAt(log, n), p, x) = Part(rq[r].value, x)
  <2>1. CASE n = 0
    <3>1. At(TreeAt(log, n), p, x) = Absent
      BY <2>1 DEF TreeAt, Empty, At, Part
    <3>2. QED
      BY <1>1, <3>1 DEF Moot
  <2>2. CASE n # 0
    <3>1. n \in DOMAIN log /\ At(log[n].tree, p, x) = Part(rq[r].value, x)
      BY <1>1, <2>2 DEF TreeAt
    <3>2. QED
      BY <3>1 DEF Moot
  <2>3. QED
    BY <2>1, <2>2
<1>2. CASE Asked(rq, S, p, x, Part(rq[r].value, x))
  BY <1>2 DEF Moot, Asked
<1>3. QED
  BY <1>1, <1>2, LineTip

\* One more commit, of a request r that S does not have.
LEMMA LineAppend ==
    ASSUME NEW log \in Seq(Commit), NEW n \in 0..Len(log), NEW rq, NEW S, NEW T, S \subseteq T,
           T \subseteq Requests, NEW s \in Seq(Commit), Line(log, rq, S, TreeAt(log, n), s),
           NEW c \in Commit, c.id \in Requests \ S, rq[c.id].pages \subseteq Pages,
           \A p \in Pages, x \in Parts : \/ At(c.tree, p, x) = At(TipOf(TreeAt(log, n), s), p, x)
                                         \/ Asked(rq, T, p, x, At(c.tree, p, x)),
           \A p \in rq[c.id].pages, x \in Parts :
              At(c.tree, p, x) = Part(rq[c.id].value, x) \/ Moot(log, rq, c.id, p, x)
    PROVE  Line(log, rq, T, TreeAt(log, n), Append(s, c))
<1> DEFINE b == TreeAt(log, n)
           u == Append(s, c)
           m == Len(s) + 1
<1>1. /\ Len(s) \in Nat /\ Len(u) = m /\ u[m] = c
      /\ \A i \in 1..Len(s) : u[i] = s[i]
  OBVIOUS
<1>2. ASSUME NEW k \in 1..Len(s)
      PROVE  Sound(log, rq, T, b, u, k)
  <2>1. Later(u, k) = Later(s, k) \cup {c.id}
    BY <1>1 DEF Later
  <2>2. S \ Later(s, k) \subseteq T \ Later(u, k)
    BY <2>1
  <2>3. Prior(b, u, k) = Prior(b, s, k) /\ u[k] = s[k]
    BY <1>1 DEF Prior
  <2>4. Sound(log, rq, S, b, s, k)
    BY DEF Line
  <2>5. \A p, x, v : Asked(rq, S \ Later(s, k), p, x, v) => Asked(rq, T \ Later(u, k), p, x, v)
    BY <2>2 DEF Asked
  <2>6. QED
    BY <2>3, <2>4, <2>5 DEF Sound
<1>3. Sound(log, rq, T, b, u, m)
  <2>1. Later(u, m) = {} /\ T \ Later(u, m) = T
    BY <1>1 DEF Later
  <2>2. Prior(b, u, m) = TipOf(b, s)
    BY <1>1 DEF Prior, TipOf
  <2>3. \A p \in Pages, x \in Parts :
           At(c.tree, p, x) = At(b, p, x) \/ Asked(rq, T, p, x, At(c.tree, p, x))
    <3> TAKE p \in Pages, x \in Parts
    <3>1. At(TipOf(b, s), p, x) = At(b, p, x) \/ Asked(rq, S, p, x, At(TipOf(b, s), p, x))
      BY LineTip
    <3>2. QED
      BY <3>1 DEF Asked
  <2>4. \A p \in rq[c.id].pages, x \in Parts :
           \/ /\ At(c.tree, p, x) = Part(rq[c.id].value, x)
              /\ At(c.tree, p, x) # At(TipOf(b, s), p, x)
           \/ Moot(log, rq, c.id, p, x)
    BY TipIsMoot
  <2>5. QED
    BY <1>1, <2>1, <2>2, <2>3, <2>4 DEF Sound
<1>4. QED
  BY <1>1, <1>2, <1>3 DEF Line

-----------------------------------------------------------------------------
(* Requests                                                                *)

LEMMA InputShape ==
    ASSUME NEW i \in Inputs
    PROVE  /\ i # NoInput /\ i.pages \subseteq Pages
           /\ i.op \in {"write_page", "delete", "purge_project", "move_session", "unsupported",
                        "malformed"}
           /\ i.op # "write_page" => i.value = Absent
  BY ConstantsAssumption DEF Inputs, NoInput

\* What a merge without a conflict makes of a part.
LEMMA MergedPart ==
    ASSUME NEW b \in Page \cup {Absent}, NEW m \in Page \cup {Absent},
           NEW h \in Page \cup {Absent}, m # b, ~Collide(b, m, h), NEW x \in Parts
    PROVE  IF Part(m, x) = Part(b, x) THEN Part(Merge(b, m, h), x) = Part(h, x)
           ELSE /\ Part(Merge(b, m, h), x) = Part(m, x)
                /\ Part(h, x) \in {Part(b, x), Part(m, x)}
<1>1. CASE Absent \in {b, m, h}
  <2>1. Merge(b, m, h) = m /\ h \in {b, m}
    BY <1>1 DEF Merge, Collide
  <2>2. QED
    BY <2>1
<1>2. CASE Absent \notin {b, m, h}
  <2>1. \A v \in {b, m, h} : Part(v, x) = v[x]
    BY <1>2 DEF Part
  <2>2. Merge(b, m, h) = [y \in Parts |-> IF m[y] # b[y] THEN m[y] ELSE h[y]]
    BY <1>2 DEF Merge
  <2>3. Merge(b, m, h) \in Page /\ Absent \notin Page
    BY <1>2, <2>2, ConstantsAssumption DEF Page
  <2>4. Part(Merge(b, m, h), x) = IF m[x] # b[x] THEN m[x] ELSE h[x]
    BY <2>2, <2>3 DEF Part
  <2>5. m[x] # b[x] => h[x] \in {b[x], m[x]}
    BY <1>2 DEF Collide
  <2>6. QED
    BY <2>1, <2>4, <2>5
<1>3. QED
  BY <1>1, <1>2

\* What no step takes back.
LEMMA RequestsLast ==
    ASSUME TypeOK, HandlerInv, [Next]_vars
    PROVE  /\ Agree(req, req')
           /\ Done \subseteq Done' /\ Staged \subseteq Staged'
           /\ Done' \subseteq Requests /\ Staged' \subseteq Requests
           /\ \A r \in Staged : req'[r] = req[r]
<1> USE DEF Done, Staged, InFlight, Answered, Agree, TypeOK
<1>1. CASE \E r \in Requests : Receive(r)
  BY <1>1 DEF Receive, HandlerInv
<1>2. CASE \E r \in Requests : Handler(r)
  <2>1. PICK r \in Requests : Handler(r)
    BY <1>2
  <2>2. /\ req' = req /\ pc[r] \in InFlight
        /\ \E x \in {"file", "stage", "commit", "ok", "error"} :
              /\ pc' = [pc EXCEPT ![r] = x]
              /\ pc[r] = "commit" => x \in Answered
    BY <2>1 DEF Handler, Lock, WriteFile, WriteFails, Stage, StageFails, GitCommit, NoCommit,
                CommitKilled, Answer
  <2>3. QED
    BY <2>2
<1>3. CASE Crash
  BY <1>3 DEF Crash
<1>4. CASE UNCHANGED <<pc, req>>
  BY <1>4
<1>5. QED
  BY <1>1, <1>2, <1>3, <1>4
     DEF Next, Cancel, LoopTakesMu, CheckDirty, StartPush, MarkDirty, CooledOff, LoopRunsGit,
         Push, PushAnswerLost, PushRejected, PushUnreachable, PullRefused, Pull, Pick,
         PickConflict, PullDone, LoopStores, StampPush, ForgiveFailures, CountFailure, LoopGoesOn,
         handleHealth, ReadFailures, ReadAge, ForeignPush, Outage, Recovery, Age, Bootstrap, Clone,
         KeepClone, ResetClone, Serve, vars, handlerVars

\* Who holds mu is the only handler that is past the lock.
LEMMA Alone ==
    ASSUME TypeOK, MutexInv, NEW r \in Requests, pc[r] \in HoldsMu
    PROVE  /\ \A q \in Requests \ {r} : pc[q] \notin HoldsMu
           /\ pl \notin LoopHoldsMu
           /\ up
  BY ConstantsAssumption DEF MutexInv, LockDiscipline, HoldsMu, InFlight

LEMMA StageAllStages ==
    ASSUME TypeOK, NEW r \in Requests, req[r] \in Inputs, StageAll(r),
           \/ req[r].op = "write_page" /\ \A p \in req[r].pages : work[p] = req[r].value
           \/ req[r].op # "write_page"
    PROVE  /\ \A p \in req[r].pages : index'[p] = req[r].value
           /\ \A p \in Pages : \/ index'[p] = index[p] /\ p \notin Matched(r)
                               \/ p \in req[r].pages /\ index'[p] = req[r].value
<1>1. /\ index' = Overlay(index, Matched(r), StagedWork(r)) /\ req[r].pages \subseteq Pages
      /\ Matched(r) \subseteq req[r].pages
  BY InputShape DEF StageAll, Matched
<1>2. \A p \in Pages : index'[p] = IF p \in Matched(r) THEN StagedWork(r)[p] ELSE index[p]
  BY <1>1 DEF Overlay
<1>3. CASE req[r].op = "write_page"
  <2>1. StagedWork(r) = work /\ Matched(r) = req[r].pages
    BY <1>3 DEF StagedWork, Matched
  <2>2. QED
    BY <1>1, <1>2, <1>3, <2>1
<1>4. CASE req[r].op # "write_page"
  <2>1. req[r].value = Absent /\ \A p \in Matched(r) : StagedWork(r)[p] = Absent
    BY <1>1, <1>4, InputShape DEF StagedWork, Overlay, Empty
  <2>2. \A p \in req[r].pages \ Matched(r) : index[p] = Absent
    BY <1>4 DEF Matched
  <2>3. QED
    BY <1>1, <1>2, <2>1, <2>2
<1>5. QED
  BY <1>3, <1>4

LEMMA HandlerHandler ==
    ASSUME TypeOK, MutexInv, HandlerInv, NEW r \in Requests, Handler(r)
    PROVE  HandlerInv'
<1> USE DEF TypeOK, HandlerInv, InFlight, Answered
<1>1. CASE Lock(r)
  <2>1. \A q \in Requests : pc[q] \notin HoldsMu
    BY <1>1, ConstantsAssumption DEF Lock, MutexInv, LockDiscipline
  <2>2. req' = req /\ UNCHANGED <<work, index>>
        /\ pc' = [pc EXCEPT ![r] = IF req[r].op = "write_page" THEN "file" ELSE "stage"]
        /\ pc[r] = "lock"
    BY <1>1 DEF Lock
  <2>3. QED
    BY <2>1, <2>2 DEF HoldsMu
<1>2. CASE WriteFile(r)
  <2>1. \A q \in Requests \ {r} : pc[q] \notin HoldsMu
    BY <1>2, Alone DEF WriteFile, HoldsMu
  <2>2. /\ req' = req /\ index' = index /\ pc' = [pc EXCEPT ![r] = "stage"] /\ pc[r] = "file"
        /\ \A p \in Pages : p \in req[r].pages => work'[p] = req[r].value
    BY <1>2 DEF WriteFile
  <2>3. req[r].pages \subseteq Pages
    BY <2>2, InputShape
  <2>4. QED
    BY <2>1, <2>2, <2>3 DEF HoldsMu
<1>3. CASE Stage(r)
  <2>1. \A q \in Requests \ {r} : pc[q] \notin HoldsMu
    BY <1>3, Alone DEF Stage, HoldsMu
  <2>2. /\ req' = req /\ pc' = [pc EXCEPT ![r] = "commit"] /\ pc[r] = "stage" /\ StageAll(r)
    BY <1>3 DEF Stage
  <2>3. \A p \in req[r].pages : index'[p] = req[r].value
    BY <2>2, StageAllStages
  <2>4. QED
    BY <2>1, <2>2, <2>3 DEF HoldsMu
<1>4. CASE WriteFails(r) \/ StageFails(r) \/ GitCommit(r) \/ NoCommit(r) \/ CommitKilled(r)
  <2>1. pc[r] \in HoldsMu
    BY <1>4 DEF WriteFails, StageFails, GitCommit, NoCommit, CommitKilled, HoldsMu
  <2>2. \A q \in Requests \ {r} : pc[q] \notin HoldsMu
    BY <2>1, Alone
  <2>3. req' = req /\ \E x \in Answered : pc' = [pc EXCEPT ![r] = x]
    BY <1>4 DEF WriteFails, StageFails, GitCommit, NoCommit, CommitKilled, Answer
  <2>4. QED
    BY <2>1, <2>2, <2>3 DEF HoldsMu
<1>5. QED
  BY <1>1, <1>2, <1>3, <1>4 DEF Handler

LEMMA HandlerOther ==
    ASSUME TypeOK, MutexInv, HandlerInv, [Next]_vars, ~\E r \in Requests : Handler(r)
    PROVE  HandlerInv'
<1> USE DEF TypeOK, HandlerInv, InFlight, Answered
<1>1. CASE \E r \in Requests : Receive(r)
  <2>1. PICK r \in Requests, i \in Inputs :
            /\ pc[r] = "new" /\ req' = [req EXCEPT ![r] = i]
            /\ pc' = [pc EXCEPT ![r] = IF Mutates(i) THEN "lock"
                                       ELSE IF i.op = "move_session" THEN "ok" ELSE "error"]
            /\ UNCHANGED <<work, index>>
    BY <1>1 DEF Receive, treeVars
  <2>2. QED
    BY <2>1 DEF Mutates
<1>2. CASE Crash
  <2>1. /\ pc' = [r \in Requests |-> IF pc[r] \in InFlight THEN "error" ELSE pc[r]]
        /\ UNCHANGED <<req, work, index>>
    BY <1>2 DEF Crash
  <2>2. QED
    BY <2>1
<1>3. CASE UNCHANGED <<pc, req>> /\ (UNCHANGED <<work, index>> \/ \A r \in Requests : pc[r] \notin HoldsMu)
  BY <1>3 DEF HoldsMu
<1>4. CASE Pull \/ Pick \/ PickConflict
  <2>1. mu = PushLoop
    BY <1>4 DEF Pull, Pick, PickConflict, MutexInv, LockDiscipline, LoopHoldsMu
  <2>2. \A r \in Requests : pc[r] \notin HoldsMu
    BY <2>1, ConstantsAssumption DEF MutexInv, LockDiscipline
  <2>3. UNCHANGED <<pc, req>>
    BY <1>4 DEF Pull, Pick, PickConflict, handlerVars
  <2>4. QED
    BY <1>3, <2>2, <2>3
<1>5. CASE Bootstrap
  <2>1. /\ \A r \in Requests : pc[r] \notin InFlight
        /\ UNCHANGED <<pc, req>>
    BY <1>5 DEF Bootstrap, Clone, KeepClone, ResetClone, Serve, handlerVars, MutexInv
  <2>2. QED
    BY <1>3, <2>1 DEF HoldsMu
<1>6. QED
  BY <1>1, <1>2, <1>3, <1>4, <1>5
     DEF Next, Cancel, LoopTakesMu, CheckDirty, StartPush, MarkDirty, CooledOff, LoopRunsGit,
         Push, PushAnswerLost, PushRejected, PushUnreachable, PullRefused, PullDone, LoopStores,
         StampPush, ForgiveFailures, CountFailure, LoopGoesOn, handleHealth, ReadFailures,
         ReadAge, ForeignPush, Outage, Recovery, Age, vars, handlerVars, treeVars

-----------------------------------------------------------------------------
(* The kinds of steps                                                      *)

\* The branch and the detached HEAD stay where they are.
Stays ==
    /\ UNCHANGED <<remote, synced, pending>>
    /\ rebase'.detached = rebase.detached /\ rebase'.onto = rebase.onto
    /\ rebase'.done = rebase.done /\ rebase'.replayed = rebase.replayed
    /\ pl' = "pick" => pl = "pick"

StagesAll(r) == pc[r] = "stage" /\ StageAll(r) /\ r \in Staged' /\ Stays

Commits(r) ==
    /\ pc[r] = "commit" /\ r \in Done' /\ MakesCommit(r) /\ AddCommit(r)
    /\ UNCHANGED <<remote, synced, index>> /\ pl' # "pick"

Publishes == FastForward /\ Publish /\ UNCHANGED index /\ pl' # "pick"

LEMMA StepKinds ==
    ASSUME TypeOK, MutexInv, [Next]_vars
    PROVE  \/ Stays /\ UNCHANGED <<index, rebase>>
           \/ \E r \in Requests : StagesAll(r) \/ Commits(r)
           \/ Publishes
           \/ Pull \/ Pick \/ (PickConflict /\ Stays) \/ PullDone
           \/ \E f \in Foreign : ForeignPush(f)
           \/ Clone \/ ResetClone
<1> USE DEF handlerVars, loopVars, healthVars, treeVars, branchVars, processVars, netVars
<1>1. ASSUME NEW r \in Requests, Handler(r)
      PROVE  (Stays /\ UNCHANGED <<index, rebase>>) \/ StagesAll(r) \/ Commits(r)
  <2>1. CASE Lock(r)
    BY <2>1 DEF Lock, Stays
  <2>2. CASE WriteFile(r) \/ WriteFails(r)
    BY <2>2 DEF WriteFile, WriteFails, Answer, Stays
  <2>3. CASE StageAll(r) /\ (Stage(r) \/ StageFails(r))
    <3>1. /\ UNCHANGED <<remote, synced, pending, pl>> /\ pc[r] = "stage"
          /\ pc' = [pc EXCEPT ![r] = "commit"] \/ pc' = [pc EXCEPT ![r] = "error"]
      BY <2>3 DEF Stage, StageFails, Answer
    <3>2. /\ rebase'.detached = rebase.detached /\ rebase'.onto = rebase.onto
          /\ rebase'.done = rebase.done /\ rebase'.replayed = rebase.replayed
      BY <2>3 DEF StageAll, TypeOK, Rebase
    <3>3. r \in Staged'
      BY <3>1 DEF Staged, Answered, TypeOK
    <3>4. QED
      BY <2>3, <3>1, <3>2, <3>3 DEF StagesAll, Stays
  <2>4. CASE StageFails(r) /\ UNCHANGED <<index, rebase>>
    BY <2>4 DEF StageFails, Stays
  <2>5. CASE (GitCommit(r) \/ CommitKilled(r)) /\ MakesCommit(r) /\ AddCommit(r)
    <3>1. /\ pc[r] = "commit" /\ UNCHANGED <<remote, synced, index>>
          /\ pc' = [pc EXCEPT ![r] = "ok"] \/ pc' = [pc EXCEPT ![r] = "error"]
          /\ pl' \in {pl, "check"}
      BY <2>5 DEF GitCommit, CommitKilled, Answer, Signalled
    <3>2. r \in Done'
      BY <3>1 DEF Done, Answered, TypeOK
    <3>3. pl' # "pick"
      BY <3>1, Alone DEF HoldsMu, LoopHoldsMu
    <3>4. QED
      BY <2>5, <3>1, <3>2, <3>3 DEF Commits
  <2>6. CASE CommitKilled(r) /\ UNCHANGED <<pending, rebase>>
    BY <2>6 DEF CommitKilled, Stays
  <2>7. CASE NoCommit(r)
    BY <2>7 DEF NoCommit, Stays
  <2>8. QED
    BY <1>1, <2>1, <2>2, <2>3, <2>4, <2>5, <2>6, <2>7
       DEF Handler, Stage, StageFails, GitCommit, CommitKilled
<1>2. CASE \E r \in Requests : Handler(r)
  BY <1>1, <1>2
<1>3. CASE LoopTakesMu \/ LoopStores \/ PushRejected \/ PushUnreachable \/ PullRefused
  BY <1>3 DEF LoopTakesMu, CheckDirty, StartPush, MarkDirty, CooledOff, LoopStores, StampPush,
              ForgiveFailures, CountFailure, LoopGoesOn, PushRejected, PushUnreachable,
              PullRefused, FailPush, Stays
<1>4. CASE Push \/ PushAnswerLost
  BY <1>4 DEF Push, PushAnswerLost, FailPush, Publishes
<1>5. CASE PickConflict
  BY <1>5 DEF PickConflict, FailPush, Stays, TypeOK, Rebase
<1>6. CASE \E r \in Requests : Receive(r) \/ Cancel(r)
  BY <1>6 DEF Receive, Cancel, Stays
<1>7. CASE handleHealth \/ Outage \/ Recovery \/ Age \/ Crash \/ KeepClone
  BY <1>7 DEF handleHealth, ReadFailures, ReadAge, Outage, Recovery, Age, Crash, KeepClone, Serve,
              Stays
<1>8. CASE UNCHANGED vars
  BY <1>8 DEF vars, Stays
<1>9. QED
  BY <1>2, <1>3, <1>4, <1>5, <1>6, <1>7, <1>8 DEF Next, LoopRunsGit, Bootstrap

-----------------------------------------------------------------------------
(* One commit per request                                                  *)

LEMMA DistinctAppend ==
    ASSUME NEW s \in Seq(Commit), NEW c \in Commit, Distinct(s), c.id \notin Ids(s)
    PROVE  Distinct(Append(s, c))
<1>1. /\ Len(s) \in Nat /\ Len(Append(s, c)) = Len(s) + 1
      /\ Append(s, c)[Len(s) + 1] = c
      /\ \A i \in 1..Len(s) : Append(s, c)[i] = s[i]
  OBVIOUS
<1>2. \A i \in 1..Len(s) : s[i].id # c.id
  BY DEF Ids
<1>3. QED
  BY <1>1, <1>2 DEF Distinct

LEMMA Concatenated ==
    ASSUME NEW s \in Seq(Commit), NEW t \in Seq(Commit)
    PROVE  /\ Ids(s \o t) = Ids(s) \cup Ids(t)
           /\ Distinct(s) /\ Distinct(t) /\ Ids(s) \cap Ids(t) = {} => Distinct(s \o t)
<1>1. /\ Len(s) \in Nat /\ Len(t) \in Nat /\ Len(s \o t) = Len(s) + Len(t)
      /\ s \o t \in Seq(Commit)
      /\ \A i \in 1..Len(s) : (s \o t)[i] = s[i]
      /\ \A i \in 1..Len(t) : (s \o t)[Len(s) + i] = t[i]
  OBVIOUS
<1>2. /\ DOMAIN s = 1..Len(s) /\ DOMAIN t = 1..Len(t)
      /\ DOMAIN (s \o t) = 1..(Len(s) + Len(t))
  BY <1>1
<1> DEFINE u == s \o t
<1> HIDE DEF u
<1>3. ASSUME NEW i \in 1..(Len(s) + Len(t))
      PROVE  \/ i \in 1..Len(s) /\ u[i] = s[i]
             \/ /\ i - Len(s) \in 1..Len(t)
                /\ u[i] = t[i - Len(s)]
  <2>1. CASE i \in 1..Len(s)
    BY <1>1, <2>1 DEF u
  <2>2. CASE i \notin 1..Len(s)
    <3>1. i - Len(s) \in 1..Len(t) /\ Len(s) + (i - Len(s)) = i
      BY <1>1, <2>2
    <3>2. QED
      BY <1>1, <3>1 DEF u
  <2>3. QED
    BY <2>1, <2>2
<1>4. Ids(u) = Ids(s) \cup Ids(t)
  <2>1. Ids(u) \subseteq Ids(s) \cup Ids(t)
    BY <1>2, <1>3 DEF Ids, u
  <2>2. \A i \in 1..Len(s) : i \in DOMAIN u /\ u[i] = s[i]
    BY <1>1, <1>2 DEF u
  <2>3. \A i \in 1..Len(t) : Len(s) + i \in DOMAIN u /\ u[Len(s) + i] = t[i]
    BY <1>1, <1>2 DEF u
  <2>4. \A i \in DOMAIN u : u[i].id \in Ids(u)
    BY DEF Ids
  <2>5. Ids(s) \subseteq Ids(u)
    BY <1>2, <2>2, <2>4 DEF Ids
  <2>6. Ids(t) \subseteq Ids(u)
    BY <1>2, <2>3, <2>4 DEF Ids
  <2>7. QED
    BY <2>1, <2>5, <2>6
<1>5. ASSUME Distinct(s), Distinct(t), Ids(s) \cap Ids(t) = {}
      PROVE  Distinct(u)
  <2> SUFFICES ASSUME NEW i \in 1..(Len(s) + Len(t)), NEW j \in 1..(Len(s) + Len(t)),
                      u[i].id = u[j].id
               PROVE  i = j
    BY <1>1 DEF Distinct, u
  <2>1. \A x \in 1..Len(s), y \in 1..Len(t) : s[x].id # t[y].id
    BY <1>2, <1>5 DEF Ids
  <2>2. CASE i \in 1..Len(s) /\ u[i] = s[i] /\ j \in 1..Len(s) /\ u[j] = s[j]
    BY <1>5, <2>2 DEF Distinct
  <2>3. CASE /\ i - Len(s) \in 1..Len(t) /\ u[i] = t[i - Len(s)]
             /\ j - Len(s) \in 1..Len(t) /\ u[j] = t[j - Len(s)]
    <3>1. i - Len(s) = j - Len(s)
      BY <1>5, <2>3 DEF Distinct
    <3>2. QED
      BY <1>1, <3>1
  <2>4. QED
    BY <1>3, <2>1, <2>2, <2>3
<1>6. QED
  BY <1>4, <1>5 DEF u

\* HEAD at the start of a rebase, and after a boot.
LEMMA PullShape ==
    ASSUME BranchInv, Pull
    PROVE  /\ UNCHANGED <<remote, synced, pending, req, pc>> /\ pl' = "pick"
           /\ ~rebase.detached
           /\ rebase'.detached /\ rebase'.onto = Len(remote) /\ rebase'.done = 0
           /\ rebase'.replayed = <<>> /\ rebase'.unmerged = {}
           /\ index' = RemoteTree(Len(remote))
<1>1. rebase' = [inProgress |-> TRUE, detached |-> TRUE, onto |-> Len(remote), done |-> 0,
                 replayed |-> <<>>, unmerged |-> {}]
  BY DEF Pull, NoRebase
<1>2. /\ UNCHANGED <<remote, synced, pending, req, pc>> /\ pl' = "pick"
      /\ ~rebase.inProgress /\ index' = RemoteTree(Len(remote))
  BY DEF Pull, CanPull, handlerVars
<1>3. QED
  BY <1>1, <1>2 DEF BranchInv

LEMMA BootShape ==
    ASSUME TypeOK, Clone \/ ResetClone
    PROVE  /\ UNCHANGED <<remote, req, pc>> /\ pl' = "check"
           /\ rebase'.replayed = <<>>
           /\ \/ /\ pending' = <<>> /\ ~rebase'.detached /\ synced' \in 0..Len(remote)
                 /\ index' = RemoteTree(synced')
              \/ /\ UNCHANGED <<synced, pending>> /\ rebase'.detached
                 /\ rebase'.onto = Len(remote) /\ index' = RemoteTree(Len(remote))
<1>0. remote \in Seq(Commit) /\ Len(remote) \in 0..Len(remote) /\ 0 \in 0..Len(remote)
      /\ rebase \in Rebase
  BY DEF TypeOK
<1>1. CASE Clone
  <2>1. /\ UNCHANGED <<remote, req, pc>> /\ pl' = "check" /\ pending' = <<>>
        /\ rebase' = NoRebase
    BY <1>1 DEF Clone, Serve, handlerVars
  <2>2. \/ synced' = Len(remote) /\ index' = RemoteTree(Len(remote))
        \/ synced' = 0 /\ index' = Empty
    BY <1>1 DEF Clone, ResetHard
  <2>3. RemoteTree(0) = Empty
    BY DEF RemoteTree
  <2>4. QED
    BY <1>0, <2>1, <2>2, <2>3 DEF NoRebase
<1>2. CASE ResetClone
  <2>1. /\ UNCHANGED <<remote, req, pc>> /\ pl' = "check" /\ index' = RemoteTree(Len(remote))
    BY <1>2 DEF ResetClone, ResetHard, Serve, handlerVars
  <2>2. CASE CanCheckout
    <3>1. /\ synced' = Len(remote) /\ pending' = <<>>
          /\ rebase' = [NoRebase EXCEPT !.inProgress = rebase.inProgress]
      BY <1>2, <2>2 DEF ResetClone
    <3>2. QED
      BY <1>0, <2>1, <3>1 DEF NoRebase
  <2>3. CASE ~CanCheckout
    <3>1. /\ UNCHANGED <<synced, pending>> /\ rebase.detached
          /\ rebase' = [rebase EXCEPT !.onto = Len(remote), !.replayed = <<>>, !.unmerged = {}]
      BY <1>2, <2>3 DEF ResetClone, CanCheckout
    <3>2. QED
      BY <1>0, <2>1, <3>1 DEF Rebase
  <2>4. QED
    BY <2>2, <2>3
<1>3. QED
  BY <1>1, <1>2

\* What the remote becomes when it takes a push.
LEMMA PublishConcatenates ==
    ASSUME TypeOK, BranchInv, Publishes
    PROVE  /\ remote' = remote \o pending /\ pending' = <<>>
           /\ synced' = Len(remote') /\ synced = Len(remote)
           /\ ~rebase.detached /\ rebase' = rebase /\ rebase.replayed = <<>>
           /\ owed' = {}
<1>1. remote \in Seq(Commit) /\ synced = Len(remote)
  BY DEF TypeOK, Publishes, FastForward
<1>2. SubSeq(remote, 1, synced) = remote
  BY <1>1
<1>3. QED
  BY <1>1, <1>2, PublishPaysAll DEF Publishes, Publish

LEMMA TodoShape ==
    ASSUME TypeOK, IdInv, Pick
    PROVE  /\ Todo \in Commit /\ Todo.id \in Done /\ Todo.id \in Ids(pending)
           /\ rebase.done + 1 \in 1..Len(pending)
           /\ TodoIds = {Todo.id} \cup Later(pending, rebase.done + 1)
           /\ TodoIds' = Later(pending, rebase.done + 1)
           /\ Todo.id \notin TodoIds'
<1>1. /\ pending \in Seq(Commit) /\ Len(pending) \in Nat /\ rebase \in Rebase
      /\ rebase.done \in Nat /\ rebase.done < Len(pending) /\ pending' = pending
      /\ Requests \cap Foreign = {}
  BY ConstantsAssumption DEF Pick, TypeOK, Rebase
<1>2. rebase.done + 1 \in 1..Len(pending)
  BY <1>1
<1>3. Todo \in Commit /\ Todo = pending[rebase.done + 1] /\ Todo.id \in Ids(pending)
  BY <1>1, <1>2 DEF Todo, Ids
<1>4. Todo.id \in Done
  BY <1>3 DEF IdInv
<1>5. rebase'.done = rebase.done + 1
  BY <1>1 DEF Pick, Rebase
<1>6. TodoIds' = Later(pending, rebase.done + 1)
  BY <1>1, <1>5 DEF TodoIds, Later
<1>7. TodoIds = {Todo.id} \cup Later(pending, rebase.done + 1)
  BY <1>1, <1>2, <1>3 DEF TodoIds, Later
<1>8. Todo.id \notin Later(pending, rebase.done + 1)
  <2>1. \A i \in (rebase.done + 2)..Len(pending) : i \in 1..Len(pending) /\ i # rebase.done + 1
    BY <1>1
  <2>2. QED
    BY <1>1, <1>2, <1>3, <2>1 DEF Later, IdInv, Distinct
<1>9. QED
  BY <1>2, <1>3, <1>4, <1>6, <1>7, <1>8

LEMMA IdStep ==
    ASSUME IInv, LogInv, [Next]_vars
    PROVE  IdInv'
<1> USE DEF IInv, LogInv
<1>0. /\ remote \in Seq(Commit) /\ pending \in Seq(Commit) /\ rebase \in Rebase
      /\ rebase.replayed \in Seq(Commit) /\ Requests \cap Foreign = {}
      /\ Done \subseteq Done' /\ Done' \subseteq Requests
  BY ConstantsAssumption, RequestsLast DEF TypeOK, Rebase
<1>1. CASE Stays
  <2>1. pl' = "pick" => pl = "pick" /\ TodoIds' = TodoIds
    BY <1>1 DEF Stays, TodoIds
  <2>2. Ids(remote') = Ids(remote) /\ Ids(pending') = Ids(pending)
        /\ Ids(rebase'.replayed) = Ids(rebase.replayed)
    BY <1>1 DEF Stays
  <2>3. Distinct(remote)' /\ Distinct(pending)' /\ Distinct(rebase.replayed)'
    BY <1>1 DEF Stays, IdInv
  <2>4. QED
    BY <1>0, <2>1, <2>2, <2>3 DEF IdInv
<1>2. ASSUME NEW r \in Requests, Commits(r)
      PROVE  IdInv'
  <2> DEFINE c == [id |-> r, tree |-> index]
  <2>1. c \in Commit /\ c.id = r /\ r \in Done' /\ r \notin Done /\ r \notin Foreign
    BY <1>0, <1>2 DEF Commits, TypeOK, Commit, Done, Answered
  <2>2. r \notin Ids(remote) /\ r \notin Ids(pending) /\ r \notin Ids(rebase.replayed)
    BY <2>1 DEF IdInv
  <2>3. remote' = remote /\ pl' # "pick"
    BY <1>2 DEF Commits
  <2>4. CASE pending' = pending /\ rebase'.replayed = Append(rebase.replayed, c)
    <3>1. Ids(rebase'.replayed) = Ids(rebase.replayed) \cup {r} /\ Distinct(rebase'.replayed)
      BY <1>0, <2>1, <2>2, <2>4, IdsOfAppend, DistinctAppend DEF IdInv
    <3>2. QED
      BY <1>0, <2>1, <2>2, <2>3, <2>4, <3>1 DEF IdInv
  <2>5. CASE pending' = Append(pending, c) /\ rebase' = rebase
    <3>1. Ids(pending') = Ids(pending) \cup {r} /\ Distinct(pending')
      BY <1>0, <2>1, <2>2, <2>5, IdsOfAppend, DistinctAppend DEF IdInv
    <3>2. QED
      BY <1>0, <2>1, <2>2, <2>3, <2>5, <3>1 DEF IdInv
  <2>6. QED
    BY <1>0, <1>2, <2>4, <2>5 DEF Commits, AddCommit, Rebase
<1>3. CASE Publishes
  <2>1. /\ remote' = remote \o pending /\ pending' = <<>> /\ rebase' = rebase
        /\ rebase.replayed = <<>> /\ pl' # "pick"
    BY <1>3, PublishConcatenates DEF Publishes
  <2>2. Ids(remote) \cap Ids(pending) = {}
    BY DEF IdInv
  <2>3. Ids(remote') = Ids(remote) \cup Ids(pending) /\ Distinct(remote')
    BY <1>0, <2>1, <2>2, Concatenated DEF IdInv
  <2>4. Ids(<<>>) = {} /\ Distinct(<<>>)
    BY DEF Ids, Distinct
  <2>5. QED
    BY <1>0, <2>1, <2>3, <2>4 DEF IdInv
<1>4. CASE Pull \/ Clone \/ ResetClone
  <2>1. /\ remote' = remote /\ rebase'.replayed = <<>>
        /\ pending' = pending \/ pending' = <<>>
    BY <1>4, PullShape, BootShape
  <2>2. Ids(<<>>) = {} /\ Distinct(<<>>)
    BY DEF Ids, Distinct
  <2>3. QED
    BY <1>0, <2>1, <2>2 DEF IdInv
<1>5. CASE Pick
  <2> DEFINE c == [id |-> Todo.id, tree |-> ReplayedTree]
  <2>1. /\ Todo \in Commit /\ Todo.id \in Done /\ Todo.id \in Ids(pending)
        /\ TodoIds' \subseteq TodoIds /\ Todo.id \in TodoIds /\ Todo.id \notin TodoIds'
    BY <1>5, TodoShape
  <2>2. c \in Commit /\ pl = "pick" /\ UNCHANGED <<remote, pending, pl>>
    BY <1>5, <2>1, PickType DEF Pick, Commit, loopVars
  <2>3. rebase'.replayed = rebase.replayed \/ rebase'.replayed = Append(rebase.replayed, c)
    BY <1>0, <1>5 DEF Pick, Rebase
  <2>4. Todo.id \notin Ids(rebase.replayed) /\ Todo.id \notin Ids(remote)
    BY <2>1, <2>2 DEF IdInv
  <2>5. /\ Ids(rebase'.replayed) \subseteq Ids(rebase.replayed) \cup {Todo.id}
        /\ Distinct(rebase'.replayed)
    <3>1. c.id = Todo.id /\ Distinct(rebase.replayed)
      BY DEF IdInv
    <3>2. Ids(Append(rebase.replayed, c)) = Ids(rebase.replayed) \cup {Todo.id}
      BY <1>0, <2>2, <3>1, IdsOfAppend
    <3>3. Distinct(Append(rebase.replayed, c))
      BY <1>0, <2>2, <2>4, <3>1, DistinctAppend
    <3>4. QED
      BY <2>3, <3>1, <3>2, <3>3
  <2>6. QED
    BY <1>0, <2>1, <2>2, <2>4, <2>5 DEF IdInv
<1>6. CASE PullDone
  <2>1. /\ remote' = remote /\ pending' = rebase.replayed /\ rebase'.replayed = <<>>
        /\ pl' = "retry"
    BY <1>6 DEF PullDone, NoRebase
  <2>2. Ids(<<>>) = {} /\ Distinct(<<>>)
    BY DEF Ids, Distinct
  <2>3. QED
    BY <1>0, <2>1, <2>2 DEF IdInv
<1>7. ASSUME NEW f \in Foreign, ForeignPush(f)
      PROVE  IdInv'
  <2>1. PICK t : /\ remote' = Append(remote, [id |-> f, tree |-> t])
                 /\ t \in Tree
                 /\ UNCHANGED <<pending, rebase, pl>>
    <3>1. PICK p \in Pages, v \in Contents \cup {Absent} :
              remote' = Append(remote, [id |-> f, tree |-> [RemoteTree(Len(remote)) EXCEPT ![p] = v]])
      BY <1>7 DEF ForeignPush
    <3>2. Len(remote) \in 0..Len(remote)
      BY <1>0
    <3>3. [RemoteTree(Len(remote)) EXCEPT ![p] = v] \in Tree
      BY <1>0, <3>2, RemoteTreeIsTree, ConstantsAssumption DEF Tree, Page
    <3>4. QED
      BY <1>7, <3>1, <3>3 DEF ForeignPush, branchVars, loopVars
  <2> DEFINE c == [id |-> f, tree |-> t]
  <2>2. c \in Commit /\ f \notin Ids(remote) /\ f \notin Requests
    BY <1>0, <1>7, <2>1 DEF ForeignPush, Commit
  <2>3. Ids(remote') = Ids(remote) \cup {f} /\ Distinct(remote')
    BY <1>0, <2>1, <2>2, IdsOfAppend, DistinctAppend DEF IdInv
  <2>4. TodoIds' = TodoIds
    BY <2>1 DEF TodoIds
  <2>5. QED
    BY <1>0, <2>1, <2>2, <2>3, <2>4 DEF IdInv
<1>8. QED
  BY <1>1, <1>2, <1>3, <1>4, <1>5, <1>6, <1>7, StepKinds DEF StagesAll

-----------------------------------------------------------------------------
(* HEAD                                                                    *)

\* HEAD is the tip of its line.
LEMMA HeadIsTip ==
    /\ HeadTree = IF rebase.detached THEN TipOf(TreeAt(remote, rebase.onto), rebase.replayed)
                                     ELSE TipOf(TreeAt(remote, synced), pending)
    /\ HeadTree' = IF rebase'.detached
                   THEN TipOf(TreeAt(remote', rebase'.onto), rebase'.replayed)
                   ELSE TipOf(TreeAt(remote', synced'), pending')
    /\ \A n : RemoteTree(n) = TreeAt(remote, n)
    /\ \A n : RemoteTree(n)' = TreeAt(remote', n)
  BY DEF HeadTree, BranchTree, Tip, TipOf, RemoteTree, TreeAt

\* No step takes a commit off the remote.
LEMMA RemoteGrows ==
    ASSUME TypeOK, MutexInv, BranchInv, [Next]_vars
    PROVE  /\ Extends(remote, remote') /\ Len(remote) <= Len(remote')
           /\ \A n \in 0..Len(remote) : TreeAt(remote', n) = TreeAt(remote, n)
<1>0. remote \in Seq(Commit) /\ Len(remote) \in Nat /\ pending \in Seq(Commit)
      /\ DOMAIN remote = 1..Len(remote)
  BY DEF TypeOK
<1>1. CASE remote' = remote
  BY <1>0, <1>1 DEF Extends, TreeAt
<1>2. ASSUME NEW t \in Seq(Commit), remote' = remote \o t
      PROVE  /\ Extends(remote, remote') /\ Len(remote) <= Len(remote')
             /\ \A n \in 0..Len(remote) : TreeAt(remote', n) = TreeAt(remote, n)
  <2>1. /\ Len(remote') = Len(remote) + Len(t) /\ Len(t) \in Nat
        /\ DOMAIN remote' = 1..Len(remote')
        /\ \A i \in 1..Len(remote) : remote'[i] = remote[i]
    BY <1>0, <1>2
  <2>2. QED
    BY <1>0, <2>1 DEF Extends, TreeAt
<1>3. CASE Publishes
  BY <1>0, <1>2, <1>3, PublishConcatenates
<1>4. ASSUME NEW f \in Foreign, ForeignPush(f)
      PROVE  /\ Extends(remote, remote') /\ Len(remote) <= Len(remote')
             /\ \A n \in 0..Len(remote) : TreeAt(remote', n) = TreeAt(remote, n)
  <2>1. PICK c : remote' = Append(remote, c)
    BY <1>4 DEF ForeignPush
  <2>2. /\ Len(remote') = Len(remote) + 1 /\ DOMAIN remote' = 1..Len(remote')
        /\ \A i \in 1..Len(remote) : remote'[i] = remote[i]
    BY <1>0, <2>1
  <2>3. QED
    BY <1>0, <2>2 DEF Extends, TreeAt
<1>5. CASE Clone \/ ResetClone
  BY <1>1, <1>5, BootShape
<1>6. QED
  BY <1>1, <1>3, <1>4, <1>5, StepKinds DEF Stays, StagesAll, Commits, Pull, Pick, PullDone

\* A push makes the tip of the branch the tip of the remote.
LEMMA PublishTip ==
    ASSUME NEW log \in Seq(Commit), NEW s \in Seq(Commit)
    PROVE  TreeAt(log \o s, Len(log \o s)) = TipOf(TreeAt(log, Len(log)), s)
<1>1. CASE s = <<>>
  BY <1>1 DEF TipOf, TreeAt
<1>2. CASE s # <<>>
  <2>1. /\ Len(s) \in Nat \ {0} /\ Len(log) \in Nat /\ Len(log \o s) = Len(log) + Len(s)
        /\ (log \o s)[Len(log) + Len(s)] = s[Len(s)]
    BY <1>2
  <2>2. QED
    BY <1>2, <2>1 DEF TipOf, TreeAt
<1>3. QED
  BY <1>1, <1>2

LEMMA TipOfAppend ==
    ASSUME NEW s \in Seq(Commit), NEW c \in Commit, NEW b
    PROVE  TipOf(b, Append(s, c)) = c.tree
<1>1. Len(Append(s, c)) = Len(s) + 1 /\ Append(s, c)[Len(s) + 1] = c /\ Append(s, c) # <<>>
  OBVIOUS
<1>2. QED
  BY <1>1 DEF TipOf

\* What a rebase replays, in terms of the line it comes from.
LEMMA ParentIsPrior ==
    ASSUME TypeOK, rebase.done + 1 \in 1..Len(pending)
    PROVE  /\ Todo = pending[rebase.done + 1]
           /\ Parent = Prior(TreeAt(remote, synced), pending, rebase.done + 1)
<1>1. /\ pending \in Seq(Commit) /\ Len(pending) \in Nat /\ rebase.done \in Nat
      /\ rebase.done <= Len(pending)
  BY DEF TypeOK, Rebase
<1>2. CASE rebase.done = 0
  <2>1. SubSeq(pending, 1, rebase.done) = <<>>
    BY <1>1, <1>2
  <2>2. QED
    BY <1>2, <2>1 DEF Todo, Parent, Tip, Prior, RemoteTree, TreeAt
<1>3. CASE rebase.done # 0
  <2>1. /\ Len(SubSeq(pending, 1, rebase.done)) = rebase.done
        /\ SubSeq(pending, 1, rebase.done)[rebase.done] = pending[rebase.done]
        /\ SubSeq(pending, 1, rebase.done) # <<>>
    BY <1>1, <1>3
  <2>2. rebase.done + 1 # 1 /\ (rebase.done + 1) - 1 = rebase.done
    BY <1>1, <1>3
  <2>3. QED
    BY <2>1, <2>2 DEF Todo, Parent, Tip, Prior
<1>4. QED
  BY <1>2, <1>3

\* A part the commit in hand changes becomes what it made of it, and was either that or
\* what the commit had found; the other parts stay as they are.
LEMMA ReplayedPart ==
    ASSUME TypeOK, rebase.done < Len(pending), NEW p \in Pages, p \notin Conflicts,
           NEW x \in Parts
    PROVE  IF At(Todo.tree, p, x) = At(Parent, p, x)
           THEN At(ReplayedTree, p, x) = At(HeadTree, p, x)
           ELSE /\ At(ReplayedTree, p, x) = At(Todo.tree, p, x)
                /\ At(HeadTree, p, x) \in {At(Parent, p, x), At(Todo.tree, p, x)}
<1>1. CASE p \notin Changed
  BY <1>1 DEF Changed, ReplayedTree, At
<1>2. CASE p \in Changed
  <2> DEFINE m == Todo.tree[p]
             b == Parent[p]
             h == HeadTree[p]
  <2>1. m \in Page \cup {Absent} /\ b \in Page \cup {Absent} /\ h \in Page \cup {Absent}
    BY TodoTrees DEF Tree
  <2>2. m # b /\ ~Collide(b, m, h)
    BY <1>2 DEF Changed, Conflicts
  <2>3. ReplayedTree[p] = Merge(b, m, h)
    BY <1>2 DEF ReplayedTree
  <2> HIDE DEF m, b, h
  <2>4. IF Part(m, x) = Part(b, x) THEN Part(Merge(b, m, h), x) = Part(h, x)
        ELSE /\ Part(Merge(b, m, h), x) = Part(m, x)
             /\ Part(h, x) \in {Part(b, x), Part(m, x)}
    BY <2>1, <2>2, MergedPart
  <2>5. QED
    BY <2>3, <2>4 DEF At, m, b, h
<1>3. QED
  BY <1>1, <1>2

\* A part that the commit in hand changes becomes what was asked for.
LEMMA ReplayAsked ==
    ASSUME TypeOK, LineInv, rebase.done + 1 \in 1..Len(pending), NEW p \in Pages,
           p \notin Conflicts, NEW x \in Parts
    PROVE  \/ At(ReplayedTree, p, x) = At(HeadTree, p, x)
           \/ Asked(req, Done \ Later(pending, rebase.done + 1), p, x, At(ReplayedTree, p, x))
<1>1. Sound(remote, req, Done, TreeAt(remote, synced), pending, rebase.done + 1)
  BY DEF LineInv, Line
<1>2. rebase.done < Len(pending)
  BY DEF TypeOK, Rebase
<1>3. \/ At(ReplayedTree, p, x) = At(HeadTree, p, x)
      \/ /\ At(Todo.tree, p, x) # At(Parent, p, x)
         /\ At(ReplayedTree, p, x) = At(Todo.tree, p, x)
  BY <1>2, ReplayedPart
<1>4. QED
  BY <1>1, <1>3, ParentIsPrior DEF Sound

\* A pick makes HEAD what it stages.
LEMMA PickShape ==
    ASSUME TypeOK, BranchInv, Pick
    PROVE  /\ UNCHANGED <<remote, synced, pending, pc, req, pl>> /\ pl = "pick"
           /\ rebase.detached /\ rebase'.detached /\ rebase'.onto = rebase.onto
           /\ rebase.done + 1 \in 1..Len(pending)
           /\ rebase.done < Len(pending) /\ Conflicts = {}
           /\ rebase'.unmerged = rebase.unmerged
           /\ index' = ReplayedTree /\ ReplayedTree \in Tree
           /\ \/ /\ rebase'.replayed = rebase.replayed /\ ReplayedTree = HeadTree
                 /\ Changed # {} /\ owed' = owed \ {Todo.id}
              \/ /\ rebase'.replayed = Append(rebase.replayed,
                                              [id |-> Todo.id, tree |-> ReplayedTree])
                 /\ owed' = owed
<1>1. /\ rebase \in Rebase /\ rebase.done < Len(pending) /\ pl = "pick"
      /\ Len(pending) \in Nat /\ rebase.done \in Nat
      /\ UNCHANGED <<remote, synced, pending, pc, req, pl>> /\ index' = ReplayedTree
      /\ Conflicts = {}
  BY DEF Pick, TypeOK, Rebase, handlerVars, loopVars
<1>2. ReplayedTree \in Tree
  BY <1>1, PickType
<1>3. rebase.detached
  BY <1>1 DEF BranchInv
<1>4. /\ rebase'.detached = rebase.detached /\ rebase'.onto = rebase.onto
      /\ rebase'.unmerged = rebase.unmerged
      /\ \/ /\ rebase'.replayed = rebase.replayed /\ ReplayedTree = HeadTree
            /\ Changed # {} /\ owed' = owed \ {Todo.id}
         \/ /\ rebase'.replayed = Append(rebase.replayed, [id |-> Todo.id, tree |-> ReplayedTree])
            /\ owed' = owed
  BY <1>1 DEF Pick, Rebase
<1>5. QED
  BY <1>1, <1>2, <1>3, <1>4

LEMMA PickHead ==
    ASSUME TypeOK, BranchInv, Pick
    PROVE  HeadTree' = ReplayedTree
<1> DEFINE c == [id |-> Todo.id, tree |-> ReplayedTree]
<1>1. /\ remote' = remote /\ rebase.detached /\ rebase'.detached /\ rebase'.onto = rebase.onto
      /\ ReplayedTree \in Tree /\ rebase.replayed \in Seq(Commit)
      /\ \/ rebase'.replayed = rebase.replayed /\ ReplayedTree = HeadTree
         \/ rebase'.replayed = Append(rebase.replayed, c)
  BY PickShape DEF TypeOK, Rebase
<1>2. c \in Commit /\ c.tree = ReplayedTree
  BY <1>1, PickType DEF Pick, Commit
<1>3. QED
  BY <1>1, <1>2, HeadIsTip, TipOfAppend

-----------------------------------------------------------------------------
(* What is staged, and what is in the lines                                *)

\* The handler that commits is the only one past its `git add`.
LEMMA StagedByTheDone ==
    ASSUME TypeOK, MutexInv, HandlerInv, [Next]_vars, NEW r \in Requests, Commits(r)
    PROVE  /\ Staged \subseteq Done' /\ r \notin Done /\ req'[r] = req[r]
           /\ req[r].pages \subseteq Pages
           /\ \A p \in req[r].pages : index[p] = req[r].value
           /\ \A p \in req[r].pages, x \in Parts : At(index, p, x) = Part(req[r].value, x)
           /\ pl # "pick" /\ rebase.unmerged = {}
<1>1. pc[r] = "commit" /\ r \in Done' /\ Done \subseteq Done' /\ \A q \in Staged : req'[q] = req[q]
  BY RequestsLast DEF Commits
<1>2. /\ \A q \in Requests \ {r} : pc[q] \notin HoldsMu
      /\ pl # "pick"
  BY <1>1, Alone DEF HoldsMu, LoopHoldsMu
<1>3. Staged \subseteq Done \cup {r} /\ r \in Staged /\ r \notin Done
  BY <1>1, <1>2 DEF Staged, Done, HoldsMu, Answered
<1>4. req[r].pages \subseteq Pages
  BY <1>1, InputShape DEF HandlerInv
<1>5. rebase.unmerged = {}
  BY DEF Commits, MakesCommit
<1>6. QED
  BY <1>1, <1>2, <1>3, <1>4, <1>5 DEF HandlerInv, At

LEMMA IndexStep ==
    ASSUME IInv, LogInv, [Next]_vars
    PROVE  IndexInv'
<1> USE DEF IInv, LogInv
<1>0. /\ remote \in Seq(Commit) /\ Len(remote) \in Nat /\ pending \in Seq(Commit)
      /\ rebase \in Rebase /\ rebase.replayed \in Seq(Commit)
      /\ Agree(req, req') /\ Staged \subseteq Staged' /\ Staged' \subseteq Requests
      /\ Done \subseteq Staged /\ synced \in 0..Len(remote) /\ rebase.onto \in 0..Len(remote)
  BY RequestsLast DEF TypeOK, Rebase, Staged, Done
<1>1. CASE HeadTree' = index' /\ (pl' = "pick" => rebase'.unmerged = {})
  BY <1>1 DEF IndexInv
<1>2. CASE /\ HeadTree' = HeadTree /\ (pl' = "pick" => rebase'.unmerged = {})
           /\ \A p \in Pages \ rebase'.unmerged :
                 \/ index'[p] = index[p] /\ p \notin rebase.unmerged
                 \/ \A x \in Parts : \/ At(index', p, x) = At(HeadTree, p, x)
                                     \/ Asked(req, Staged', p, x, At(index', p, x))
  <2> SUFFICES ASSUME NEW p \in Pages \ rebase'.unmerged, NEW x \in Parts
               PROVE  \/ At(index', p, x) = At(HeadTree', p, x)
                      \/ Asked(req', Staged', p, x, At(index', p, x))
    BY <1>2 DEF IndexInv
  <2>1. CASE index'[p] = index[p] /\ p \notin rebase.unmerged
    <3>1. \/ At(index, p, x) = At(HeadTree, p, x)
          \/ Asked(req, Staged, p, x, At(index, p, x))
      BY <2>1 DEF IndexInv
    <3>2. At(index', p, x) = At(index, p, x)
      BY <2>1 DEF At
    <3>3. QED
      BY <1>0, <1>2, <3>1, <3>2, AskedLasts
  <2>2. CASE Asked(req, Staged', p, x, At(index', p, x))
    BY <1>0, <2>2, AskedLasts
  <2>3. QED
    BY <1>2, <2>1, <2>2
<1>3. CASE Stays /\ UNCHANGED <<index, rebase>>
  BY <1>2, <1>3, HeadIsTip DEF Stays, IndexInv
<1>4. ASSUME NEW r \in Requests, StagesAll(r)
      PROVE  IndexInv'
  <2>1. HeadTree' = HeadTree
    BY <1>4, HeadIsTip DEF StagesAll, Stays
  <2>2. /\ pc[r] = "stage" /\ r \in Staged' /\ StageAll(r) /\ req[r] \in Inputs
        /\ req[r].op = "write_page" => \A p \in req[r].pages : work[p] = req[r].value
    BY <1>4 DEF StagesAll, HandlerInv
  <2>3. \A p \in Pages : \/ index'[p] = index[p] /\ p \notin Matched(r)
                         \/ p \in req[r].pages /\ index'[p] = req[r].value
    BY <2>2, StageAllStages
  <2>4. rebase'.unmerged = rebase.unmerged \ Matched(r) /\ (pl' = "pick" => pl = "pick")
    BY <1>0, <1>4, <2>2 DEF StageAll, StagesAll, Stays, Rebase
  <2>5. \A p \in Pages \ rebase'.unmerged :
           \/ index'[p] = index[p] /\ p \notin rebase.unmerged
           \/ \A x \in Parts : Asked(req, Staged', p, x, At(index', p, x))
    BY <2>2, <2>3, <2>4 DEF Asked, At
  <2>6. QED
    BY <1>2, <2>1, <2>4, <2>5 DEF IndexInv
<1>5. ASSUME NEW r \in Requests, Commits(r)
      PROVE  IndexInv'
  <2> DEFINE c == [id |-> r, tree |-> index]
  <2>1. c \in Commit /\ c.tree = index
    BY DEF TypeOK, Commit
  <2>2. CASE rebase.detached
    <3>1. rebase'.detached /\ rebase'.replayed = Append(rebase.replayed, c)
      BY <1>0, <1>5, <2>2 DEF Commits, AddCommit, Rebase
    <3>2. HeadTree' = index
      BY <1>0, <2>1, <3>1, HeadIsTip, TipOfAppend
    <3>3. QED
      BY <1>1, <1>5, <3>2 DEF Commits
  <2>3. CASE ~rebase.detached
    <3>1. ~rebase'.detached /\ pending' = Append(pending, c)
      BY <1>0, <1>5, <2>3 DEF Commits, AddCommit, Rebase
    <3>2. HeadTree' = index
      BY <1>0, <2>1, <3>1, HeadIsTip, TipOfAppend
    <3>3. QED
      BY <1>1, <1>5, <3>2 DEF Commits
  <2>4. QED
    BY <2>2, <2>3
<1>6. CASE Publishes
  <2>1. /\ remote' = remote \o pending /\ pending' = <<>> /\ synced' = Len(remote')
        /\ synced = Len(remote) /\ ~rebase.detached /\ rebase' = rebase /\ index' = index
    BY <1>6, PublishConcatenates DEF Publishes
  <2>2. TreeAt(remote', synced') = TipOf(TreeAt(remote, synced), pending)
    BY <1>0, <2>1, PublishTip
  <2>3. HeadTree' = HeadTree
    BY <2>1, <2>2, HeadIsTip DEF TipOf
  <2>4. QED
    BY <1>2, <1>6, <2>1, <2>3 DEF Publishes, IndexInv
<1>7. CASE Pull
  <2>1. HeadTree' = index' /\ rebase'.unmerged = {}
    BY <1>7, PullShape, HeadIsTip DEF TipOf
  <2>2. QED
    BY <1>1, <2>1
<1>8. CASE Pick
  <2>1. /\ remote' = remote /\ rebase.detached /\ rebase'.detached /\ rebase'.onto = rebase.onto
        /\ index' = ReplayedTree /\ ReplayedTree \in Tree
        /\ rebase'.unmerged = {}
    BY <1>8, PickShape DEF IndexInv
  <2>3. HeadTree' = ReplayedTree
    BY <1>8, PickHead
  <2>4. QED
    BY <1>1, <2>1, <2>3
<1>9. CASE PickConflict /\ Stays
  <2>1. HeadTree' = HeadTree
    BY <1>9, HeadIsTip DEF Stays
  <2>2. /\ index' = ReplayedTree /\ rebase.done + 1 \in 1..Len(pending)
        /\ rebase'.unmerged = Conflicts /\ pl' # "pick"
    BY <1>0, <1>9 DEF PickConflict, FailPush, Rebase
  <2>3. \A p \in Pages \ Conflicts, x \in Parts :
           \/ At(ReplayedTree, p, x) = At(HeadTree, p, x)
           \/ Asked(req, Staged', p, x, At(ReplayedTree, p, x))
    BY <1>0, <2>2, ReplayAsked DEF Asked
  <2>4. QED
    BY <1>2, <2>1, <2>2, <2>3
<1>10. CASE PullDone
  <2>1. /\ rebase.detached /\ UNCHANGED <<remote, index>> /\ synced' = rebase.onto
        /\ pending' = rebase.replayed /\ ~rebase'.detached
        /\ rebase'.unmerged = {} /\ rebase.unmerged = {}
    BY <1>10 DEF PullDone, NoRebase, BranchInv, treeVars, IndexInv
  <2>2. HeadTree' = HeadTree
    BY <2>1, HeadIsTip
  <2>3. QED
    BY <1>2, <2>1, <2>2
<1>11. CASE \E f \in Foreign : ForeignPush(f)
  <2>1. UNCHANGED <<pending, synced, rebase, index, pl>>
    BY <1>11 DEF ForeignPush, branchVars, treeVars, loopVars
  <2>2. HeadTree' = HeadTree
    BY <1>0, <2>1, HeadIsTip, RemoteGrows
  <2>3. QED
    BY <1>2, <2>1, <2>2 DEF IndexInv
<1>12. CASE Clone \/ ResetClone
  <2>1. HeadTree' = index' /\ pl' # "pick"
    BY <1>12, BootShape, HeadIsTip DEF TipOf
  <2>2. QED
    BY <1>1, <2>1
<1>13. QED
  BY <1>3, <1>4, <1>5, <1>6, <1>7, <1>8, <1>9, <1>10, <1>11, <1>12, StepKinds

\* A line of commits that are made stays sound.
LEMMA LineKeeps ==
    ASSUME IInv, LogInv, [Next]_vars, NEW n \in 0..Len(remote), NEW s \in Seq(Commit),
           Ids(s) \subseteq Done, NEW S, NEW T, S \subseteq T, T \subseteq Requests,
           Line(remote, req, S, TreeAt(remote, n), s)
    PROVE  Line(remote', req', T, TreeAt(remote', n), s)
<1>1. /\ Extends(remote, remote') /\ TreeAt(remote', n) = TreeAt(remote, n)
      /\ Agree(req, req')
  BY RemoteGrows, RequestsLast DEF IInv, LogInv
<1>2. \A k \in 1..Len(s) : req'[s[k].id] = req[s[k].id]
  <2>1. \A r \in Done : req'[r] = req[r]
    BY RequestsLast DEF IInv, LogInv, Done, Staged
  <2>2. \A k \in 1..Len(s) : s[k].id \in Ids(s)
    BY DEF Ids
  <2>3. QED
    BY <2>1, <2>2
<1>3. QED
  BY <1>1, <1>2, LineLasts

\* The branch.
LEMMA PendingStep ==
    ASSUME IInv, LogInv, [Next]_vars
    PROVE  Line(remote', req', Done', TreeAt(remote', synced'), pending')
<1> USE DEF IInv, LogInv
<1>0. /\ remote \in Seq(Commit) /\ Len(remote) \in Nat /\ pending \in Seq(Commit)
      /\ rebase \in Rebase /\ rebase.replayed \in Seq(Commit)
      /\ Done \subseteq Done' /\ Done' \subseteq Requests
      /\ synced \in 0..Len(remote) /\ rebase.onto \in 0..Len(remote)
      /\ Ids(pending) \subseteq Done /\ Ids(rebase.replayed) \subseteq Done
  BY RequestsLast DEF TypeOK, Rebase, IdInv
<1>1. CASE synced' = synced /\ pending' = pending
  BY <1>0, <1>1, LineKeeps DEF LineInv
<1>2. CASE pending' = <<>>
  BY <1>2 DEF Line
<1>3. ASSUME NEW r \in Requests, Commits(r)
      PROVE  Line(remote', req', Done', TreeAt(remote', synced'), pending')
  <2> DEFINE c == [id |-> r, tree |-> index]
  <2>1. CASE rebase.detached
    BY <1>1, <1>3, <2>1 DEF Commits, AddCommit
  <2>2. CASE ~rebase.detached
    <3>1. /\ pending' = Append(pending, c) /\ UNCHANGED <<remote, synced>>
          /\ r \in Done'
      BY <1>3, <2>2 DEF Commits, AddCommit
    <3>2. Line(remote', req', Done, TreeAt(remote', synced), pending)
      BY <1>0, LineKeeps DEF LineInv
    <3>3. c \in Commit /\ c.id = r /\ c.tree = index
      BY DEF TypeOK, Commit
    <3>4. /\ r \notin Done /\ req'[r] = req[r] /\ req[r].pages \subseteq Pages
          /\ \A p \in req[r].pages, x \in Parts : At(index, p, x) = Part(req[r].value, x)
          /\ Staged \subseteq Done' /\ rebase.unmerged = {}
      BY <1>3, StagedByTheDone
    <3>5. \A p \in Pages, x \in Parts :
             \/ At(index, p, x) = At(TipOf(TreeAt(remote', synced), pending), p, x)
             \/ Asked(req', Done', p, x, At(index, p, x))
      <4>1. Agree(req, req') /\ Done' \subseteq Requests
        BY RequestsLast
      <4>2. HeadTree = TipOf(TreeAt(remote, synced), pending)
        BY <2>2, HeadIsTip
      <4>3. QED
        BY <3>1, <3>4, <4>1, <4>2, AskedLasts DEF IndexInv
    <3>6. remote' \in Seq(Commit) /\ synced \in 0..Len(remote')
      BY <1>0, <3>1
    <3>7. Line(remote', req', Done', TreeAt(remote', synced), Append(pending, c))
      BY <1>0, <3>2, <3>3, <3>4, <3>5, <3>6, LineAppend
    <3>8. QED
      BY <3>1, <3>7
  <2>3. QED
    BY <2>1, <2>2
<1>4. CASE PullDone
  <2>1. pending' = rebase.replayed /\ synced' = rebase.onto /\ rebase.detached
    BY <1>4 DEF PullDone, BranchInv
  <2>2. Line(remote, req, Done \ Ahead, TreeAt(remote, rebase.onto), rebase.replayed)
    BY <2>1 DEF LineInv
  <2>3. Done \ Ahead \subseteq Done'
    BY <1>0
  <2>4. QED
    BY <1>0, <2>1, <2>2, <2>3, LineKeeps
<1>5. CASE Publishes \/ Clone \/ ResetClone
  BY <1>1, <1>2, <1>5, PublishConcatenates, BootShape
<1>6. CASE Pull \/ Pick
  BY <1>1, <1>6, PullShape, PickShape
<1>7. CASE \E f \in Foreign : ForeignPush(f)
  BY <1>1, <1>7 DEF ForeignPush, branchVars
<1>8. QED
  BY <1>1, <1>3, <1>4, <1>5, <1>6, <1>7, StepKinds DEF Stays, StagesAll

\* The detached HEAD.
LEMMA ReplayedStep ==
    ASSUME IInv, LogInv, [Next]_vars, rebase'.detached
    PROVE  Line(remote', req', Done' \ Ahead', TreeAt(remote', rebase'.onto), rebase'.replayed)
<1> USE DEF IInv, LogInv
<1>0. /\ remote \in Seq(Commit) /\ Len(remote) \in Nat /\ pending \in Seq(Commit)
      /\ rebase \in Rebase /\ rebase.replayed \in Seq(Commit)
      /\ Done \subseteq Done' /\ Done' \subseteq Requests
      /\ rebase.onto \in 0..Len(remote) /\ Ids(rebase.replayed) \subseteq Done
  BY RequestsLast DEF TypeOK, Rebase, IdInv
<1>1. CASE /\ rebase'.onto = rebase.onto /\ rebase'.replayed = rebase.replayed
           /\ rebase.detached /\ Ahead' \subseteq Ahead
  <2>1. Done \ Ahead \subseteq Done' \ Ahead' /\ Done' \ Ahead' \subseteq Requests
    BY <1>0, <1>1
  <2>2. QED
    BY <1>0, <1>1, <2>1, LineKeeps DEF LineInv
<1>2. CASE rebase'.replayed = <<>>
  BY <1>2 DEF Line
<1>3. CASE Stays
  <2>1. Ahead' \subseteq Ahead
    BY <1>3 DEF Stays, Ahead, TodoIds
  <2>2. QED
    BY <1>1, <1>3, <2>1 DEF Stays
<1>4. ASSUME NEW r \in Requests, Commits(r)
      PROVE  Line(remote', req', Done' \ Ahead', TreeAt(remote', rebase'.onto), rebase'.replayed)
  <2> DEFINE c == [id |-> r, tree |-> index]
  <2>1. rebase.detached
    BY <1>4 DEF Commits, AddCommit
  <2>2. /\ rebase'.replayed = Append(rebase.replayed, c) /\ rebase'.onto = rebase.onto
        /\ remote' = remote /\ r \in Done' /\ pl' # "pick"
    BY <1>0, <1>4, <2>1 DEF Commits, AddCommit, Rebase
  <2>3. /\ r \notin Done /\ req'[r] = req[r] /\ req[r].pages \subseteq Pages
        /\ \A p \in req[r].pages, x \in Parts : At(index, p, x) = Part(req[r].value, x)
        /\ Staged \subseteq Done' /\ pl # "pick" /\ rebase.unmerged = {}
    BY <1>4, StagedByTheDone
  <2>4. Ahead = {} /\ Ahead' = {}
    BY <2>2, <2>3 DEF Ahead
  <2>5. Line(remote', req', Done, TreeAt(remote', rebase.onto), rebase.replayed)
    <3>1. Done \ Ahead = Done
      BY <2>4
    <3>2. QED
      BY <1>0, <2>1, <3>1, LineKeeps DEF LineInv
  <2>6. c \in Commit /\ c.id = r /\ c.tree = index
    BY DEF TypeOK, Commit
  <2>7. \A p \in Pages, x \in Parts :
           \/ At(index, p, x) = At(TipOf(TreeAt(remote', rebase.onto), rebase.replayed), p, x)
           \/ Asked(req', Done', p, x, At(index, p, x))
    <3>1. Agree(req, req') /\ Done' \subseteq Requests
      BY RequestsLast
    <3>2. HeadTree = TipOf(TreeAt(remote, rebase.onto), rebase.replayed)
      BY <2>1, HeadIsTip
    <3>3. QED
      BY <2>2, <2>3, <3>1, <3>2, AskedLasts DEF IndexInv
  <2>8. remote' \in Seq(Commit) /\ rebase.onto \in 0..Len(remote')
    BY <1>0, <2>2
  <2>9. Line(remote', req', Done', TreeAt(remote', rebase.onto), Append(rebase.replayed, c))
    <3>1. /\ c.id \in Requests \ Done /\ req'[c.id].pages \subseteq Pages
          /\ \A p \in req'[c.id].pages, x \in Parts :
                At(c.tree, p, x) = Part(req'[c.id].value, x)
          /\ \A p \in Pages, x \in Parts :
                \/ At(c.tree, p, x) = At(TipOf(TreeAt(remote', rebase.onto), rebase.replayed), p, x)
                \/ Asked(req', Done', p, x, At(c.tree, p, x))
      BY <2>3, <2>6, <2>7
    <3> HIDE DEF c
    <3>2. QED
      BY <1>0, <2>5, <2>6, <2>8, <3>1, LineAppend
  <2>10. Done' \ Ahead' = Done'
    BY <2>4
  <2>11. QED
    BY <2>2, <2>9, <2>10
<1>5. CASE Pick
  <2> DEFINE c == [id |-> Todo.id, tree |-> ReplayedTree]
             S == Done \ Ahead
             T == Done \ Later(pending, rebase.done + 1)
  <2>1. /\ UNCHANGED <<remote, pending, pc, req, pl>> /\ pl = "pick"
        /\ rebase.detached /\ rebase'.onto = rebase.onto
        /\ rebase.done + 1 \in 1..Len(pending) /\ ReplayedTree \in Tree
        /\ rebase.done < Len(pending) /\ Conflicts = {}
        /\ rebase'.replayed = rebase.replayed \/ rebase'.replayed = Append(rebase.replayed, c)
    BY <1>5, PickShape
  <2>2. /\ Todo \in Commit /\ Todo.id \in Done
        /\ TodoIds = {Todo.id} \cup Later(pending, rebase.done + 1)
        /\ TodoIds' = Later(pending, rebase.done + 1)
    BY <1>5, TodoShape
  <2>3. Ahead = TodoIds /\ Ahead' = TodoIds' /\ Done' = Done
    BY <2>1 DEF Ahead, Done
  <2>4. CASE rebase'.replayed = rebase.replayed
    BY <1>1, <2>1, <2>2, <2>3, <2>4
  <2>5. CASE rebase'.replayed = Append(rebase.replayed, c)
    <3>1. Line(remote, req, S, TreeAt(remote, rebase.onto), rebase.replayed)
      BY <2>1 DEF LineInv
    <3>2. S \subseteq T /\ T \subseteq Requests /\ Todo.id \in Requests \ S
      BY <1>0, <2>2, <2>3
    <3>3. c \in Commit /\ c.id = Todo.id /\ c.tree = ReplayedTree
      BY <2>1, <2>2 DEF Commit
    <3>4. req[Todo.id].pages \subseteq Pages
      <4>1. req[Todo.id] \in Inputs
        BY <2>2 DEF HandlerInv, Done, Answered
      <4>2. QED
        BY <4>1, InputShape
    <3>5. \A p \in Pages, x \in Parts :
             \/ At(ReplayedTree, p, x) = At(TipOf(TreeAt(remote, rebase.onto), rebase.replayed), p, x)
             \/ Asked(req, T, p, x, At(ReplayedTree, p, x))
      BY <2>1, HeadIsTip, ReplayAsked
    <3>6. \A p \in req[Todo.id].pages, x \in Parts :
             \/ At(ReplayedTree, p, x) = Part(req[Todo.id].value, x)
             \/ Moot(remote, req, Todo.id, p, x)
      <4> TAKE p \in req[Todo.id].pages, x \in Parts
      <4>1. Sound(remote, req, Done, TreeAt(remote, synced), pending, rebase.done + 1)
        BY <2>1 DEF LineInv, Line
      <4>2. \/ /\ At(Todo.tree, p, x) = Part(req[Todo.id].value, x)
               /\ At(Todo.tree, p, x) # At(Parent, p, x)
            \/ Moot(remote, req, Todo.id, p, x)
        BY <2>1, <4>1, ParentIsPrior DEF Sound
      <4>3. /\ p \in Pages
            /\ At(Todo.tree, p, x) # At(Parent, p, x) =>
                  At(ReplayedTree, p, x) = At(Todo.tree, p, x)
        BY <2>1, <3>4, ReplayedPart
      <4>4. QED
        BY <4>2, <4>3
    <3>7. Line(remote, req, T, TreeAt(remote, rebase.onto), Append(rebase.replayed, c))
      BY <1>0, <3>1, <3>2, <3>3, <3>4, <3>5, <3>6, LineAppend
    <3>8. QED
      BY <2>1, <2>2, <2>3, <2>5, <3>7
  <2>6. QED
    BY <2>1, <2>4, <2>5
<1>6. CASE Publishes
  BY <1>6, PublishConcatenates
<1>7. CASE Pull \/ Clone \/ ResetClone
  BY <1>2, <1>7, PullShape, BootShape
<1>8. CASE PullDone
  BY <1>8 DEF PullDone, NoRebase
<1>9. CASE \E f \in Foreign : ForeignPush(f)
  <2>1. UNCHANGED <<pending, rebase, pl>>
    BY <1>9 DEF ForeignPush, branchVars, loopVars
  <2>2. Ahead' = Ahead
    BY <2>1 DEF Ahead, TodoIds
  <2>3. QED
    BY <1>1, <2>1, <2>2
<1>10. QED
  BY <1>3, <1>4, <1>5, <1>6, <1>7, <1>8, <1>9, StepKinds DEF StagesAll

-----------------------------------------------------------------------------
(* The theorems                                                            *)

LEMMA InitLogInv == Init => LogInv
<1> SUFFICES ASSUME Init
             PROVE  LogInv
  OBVIOUS
<1>1. /\ remote = <<>> /\ pending = <<>> /\ rebase.replayed = <<>> /\ pl = "down"
      /\ ~rebase.detached /\ index = Empty /\ synced = 0
      /\ \A r \in Requests : pc[r] = "new" /\ req[r] = NoInput
  BY DEF Init, NoRebase
<1>2. HandlerInv
  BY <1>1 DEF HandlerInv, InFlight
<1>3. IdInv
  BY <1>1 DEF IdInv, Ids, Distinct
<1>4. HeadTree = index
  BY <1>1, HeadIsTip DEF TipOf, TreeAt
<1>5. LineInv
  BY <1>1 DEF LineInv, Line
<1>6. QED
  BY <1>1, <1>2, <1>3, <1>4, <1>5 DEF LogInv, IndexInv

LEMMA StepLogInv == IInv /\ LogInv /\ [Next]_vars => LogInv'
<1> SUFFICES ASSUME IInv, LogInv, [Next]_vars
             PROVE  LogInv'
  OBVIOUS
<1>1. HandlerInv'
  BY HandlerHandler, HandlerOther DEF IInv, LogInv
<1>2. LineInv'
  BY PendingStep, ReplayedStep DEF LineInv
<1>3. QED
  BY <1>1, <1>2, IdStep, IndexStep DEF LogInv

\* The invariant of the module: what is committed and staged was asked for, and no
\* request commits twice.
THEOREM LogInvariance == Spec => [](IInv /\ LogInv)
  BY InitIInv, StepIInv, InitLogInv, StepLogInv, PTL DEF Spec

\* No change is on the remote twice, however often a push is retried after its
\* answer got lost and however often the branch is rebased.
THEOREM NoDoublePublish == Spec => []PublishedOnce
<1>1. IInv /\ LogInv => PublishedOnce
  BY DEF IInv, TypeOK, LogInv, IdInv, Distinct, PublishedOnce
<1>2. QED
  BY <1>1, LogInvariance, PTL

\* A 204 for a write, a delete or a purge is true: HEAD has the change when the
\* handler answers, whether git made a commit or had nothing to commit.
THEOREM AcksAreTrue == Spec => AckMeansCommitted
<1>1. IInv /\ LogInv /\ [Next]_vars =>
        [\A r \in Requests : pc[r] # "ok" /\ pc'[r] = "ok" =>
            IF Mutates(req'[r])
            THEN \A p \in req[r].pages : HeadTree'[p] = req[r].value
            ELSE r \in skipped']_vars
  <2> SUFFICES ASSUME IInv, LogInv, [Next]_vars, NEW r \in Requests,
                      pc[r] # "ok", pc'[r] = "ok"
               PROVE  IF Mutates(req'[r])
                      THEN \A p \in req[r].pages : HeadTree'[p] = req[r].value
                      ELSE r \in skipped'
    OBVIOUS
  <2> USE DEF IInv, LogInv
  <2>0. /\ pc \in [Requests -> {"new"} \cup InFlight \cup Answered]
        /\ req \in [Requests -> Inputs \cup {NoInput}]
        /\ pending \in Seq(Commit) /\ rebase \in Rebase /\ rebase.replayed \in Seq(Commit)
    BY DEF TypeOK, Rebase
  <2>1. CASE Receive(r)
    BY <2>0, <2>1 DEF Receive, Mutates
  <2>2. CASE GitCommit(r)
    <3> DEFINE c == [id |-> r, tree |-> index]
    <3>1. /\ AddCommit(r) /\ UNCHANGED <<remote, req, synced>> /\ pc[r] = "commit"
      BY <2>2 DEF GitCommit, Answer
    <3>2. /\ \A p \in req[r].pages : index[p] = req[r].value
          /\ Mutates(req'[r])
      BY <3>1 DEF HandlerInv, InFlight
    <3>3. c \in Commit /\ c.tree = index
      BY DEF TypeOK, Commit
    <3>4. HeadTree' = index
      <4>1. CASE rebase.detached
        <5>1. rebase'.detached /\ rebase'.replayed = Append(rebase.replayed, c)
          BY <2>0, <3>1, <4>1 DEF AddCommit, Rebase
        <5>2. QED
          BY <2>0, <3>3, <5>1, HeadIsTip, TipOfAppend
      <4>2. CASE ~rebase.detached
        <5>1. ~rebase'.detached /\ pending' = Append(pending, c)
          BY <3>1, <4>2 DEF AddCommit
        <5>2. QED
          BY <2>0, <3>3, <5>1, HeadIsTip, TipOfAppend
      <4>3. QED
        BY <4>1, <4>2
    <3>5. QED
      BY <3>2, <3>4
  <2>3. CASE NoCommit(r)
    <3>1. /\ UNCHANGED <<remote, req, synced, pending, rebase>> /\ pc[r] = "commit"
          /\ pc' = [pc EXCEPT ![r] = IF NothingToCommit THEN "ok" ELSE "error"]
          /\ ~MakesCommit(r) \/ indexLock
      BY <2>3 DEF NoCommit, Answer, branchVars
    <3>2. NothingToCommit
      BY <2>0, <3>1
    <3>3. index = HeadTree
      BY <3>1, <3>2 DEF NothingToCommit, MakesCommit
    <3>4. HeadTree' = HeadTree
      BY <3>1, HeadIsTip
    <3>5. /\ \A p \in req[r].pages : index[p] = req[r].value
          /\ Mutates(req'[r])
      BY <3>1 DEF HandlerInv, InFlight
    <3>6. QED
      BY <3>3, <3>4, <3>5
  <2>4. CASE \E q \in Requests : \/ q # r /\ (Receive(q) \/ Handler(q))
                                 \/ Cancel(q) \/ Lock(q) \/ WriteFile(q) \/ WriteFails(q)
                                 \/ Stage(q) \/ StageFails(q) \/ CommitKilled(q)
    BY <2>0, <2>4 DEF Receive, Cancel, Handler, Lock, WriteFile, WriteFails, Stage, StageFails,
                      GitCommit, NoCommit, CommitKilled, Answer
  <2>5. CASE Crash
    BY <2>0, <2>5 DEF Crash
  <2>6. CASE UNCHANGED pc
    BY <2>6
  <2>7. QED
    BY <2>1, <2>2, <2>3, <2>4, <2>5, <2>6
       DEF Next, Handler, LoopTakesMu, CheckDirty, StartPush, MarkDirty, CooledOff, LoopRunsGit,
           Push, PushAnswerLost, PushRejected, PushUnreachable, PullRefused, Pull, Pick,
           PickConflict, PullDone, LoopStores, StampPush, ForgiveFailures, CountFailure,
           LoopGoesOn, handleHealth, ReadFailures, ReadAge, ForeignPush, Outage, Recovery, Age,
           Bootstrap, Clone, KeepClone, ResetClone, Serve, vars, handlerVars
<1>2. QED
  BY <1>1, LogInvariance, PTL DEF Spec, AckMeansCommitted

\* What a push changes of a part of a page was asked for by some notify; what another
\* tool pushed stays as it is.  (Not so of whole pages: a rebase may publish one of which
\* two writers wrote a part each.)
THEOREM OnlyNotifiesArePublished == Spec => PublishesOnlyNotifies
<1>1. IInv /\ LogInv /\ [Next]_vars =>
        [\A p \in Pages, x \in Parts :
            LET before == Part(RemoteTree(Len(remote))[p], x)
                after == Part(RemoteTree(Len(remote))'[p], x)
            IN before # after =>
                \/ \E f \in Foreign : f \in Ids(remote') \ Ids(remote)
                \/ \E r \in Requests : p \in req[r].pages /\ Part(req[r].value, x) = after]_remote
  <2> SUFFICES ASSUME IInv, LogInv, [Next]_vars, NEW p \in Pages, NEW x \in Parts,
                      remote' # remote
               PROVE  LET before == Part(RemoteTree(Len(remote))[p], x)
                          after == Part(RemoteTree(Len(remote))'[p], x)
                      IN before # after =>
                          \/ \E f \in Foreign : f \in Ids(remote') \ Ids(remote)
                          \/ \E r \in Requests :
                                p \in req[r].pages /\ Part(req[r].value, x) = after
    OBVIOUS
  <2> USE DEF IInv, LogInv
  <2>1. CASE Publishes
    <3>1. /\ remote' = remote \o pending /\ synced = Len(remote) /\ remote \in Seq(Commit)
          /\ pending \in Seq(Commit)
      BY <2>1, PublishConcatenates DEF TypeOK
    <3>2. /\ RemoteTree(Len(remote)) = TreeAt(remote, synced)
          /\ RemoteTree(Len(remote))' = TipOf(TreeAt(remote, synced), pending)
      BY <3>1, PublishTip DEF RemoteTree, TreeAt
    <3>3. LET tip == TipOf(TreeAt(remote, synced), pending)
          IN \/ At(tip, p, x) = At(TreeAt(remote, synced), p, x)
             \/ Asked(req, Done, p, x, At(tip, p, x))
      BY <3>1, LineTip DEF LineInv
    <3>4. QED
      BY <3>2, <3>3 DEF Asked, Done, At
  <2>2. ASSUME NEW f \in Foreign, ForeignPush(f)
        PROVE  f \in Ids(remote') \ Ids(remote)
    <3>1. PICK t : f \notin Ids(remote) /\ remote' = Append(remote, [id |-> f, tree |-> t])
      BY <2>2 DEF ForeignPush
    <3>2. /\ Len(remote) + 1 \in DOMAIN remote'
          /\ remote'[Len(remote) + 1] = [id |-> f, tree |-> t]
      BY <3>1 DEF TypeOK
    <3>3. QED
      BY <3>1, <3>2 DEF Ids
  <2>3. QED
    BY <2>1, <2>2, StepKinds, PullShape, PickShape, BootShape DEF Stays, StagesAll, Commits, PullDone
<1>2. QED
  BY <1>1, LogInvariance, PTL DEF Spec, PublishesOnlyNotifies

-----------------------------------------------------------------------------
(* The refinement                                                          *)

\* What is owed is a request that is answered and not on the remote.
LEMMA OwedShape ==
    ASSUME IInv, LogInv
    PROVE  owed \subseteq Done \ Ids(remote)
  BY DEF IInv, BranchInv, LogInv, IdInv

\* What a rebase finds upstream is redundant for the request whose commit it drops.
LEMMA DroppedIsMoot ==
    ASSUME IInv, LogInv, Pick, ReplayedTree = HeadTree, NEW p \in req[Todo.id].pages,
           NEW x \in Parts
    PROVE  Moot(remote, req, Todo.id, p, x)
<1> USE DEF IInv, LogInv
<1>1. /\ Todo.id \in Done /\ rebase.done + 1 \in 1..Len(pending) /\ Todo.id \in TodoIds
      /\ rebase.done < Len(pending) /\ Conflicts = {}
  BY TodoShape, PickShape
<1>2. req[Todo.id] \in Inputs /\ Todo.id \in Requests /\ p \in Pages
  <2>1. req[Todo.id] \in Inputs /\ Todo.id \in Requests
    BY <1>1 DEF HandlerInv, Done, Answered
  <2>2. QED
    BY <2>1, InputShape
<1>3. \/ /\ At(Todo.tree, p, x) = Part(req[Todo.id].value, x)
         /\ At(Todo.tree, p, x) # At(Parent, p, x)
      \/ Moot(remote, req, Todo.id, p, x)
  <2>1. Sound(remote, req, Done, TreeAt(remote, synced), pending, rebase.done + 1)
    BY <1>1 DEF LineInv, Line
  <2>2. QED
    BY <1>1, <2>1, ParentIsPrior DEF Sound
<1>4. CASE /\ At(Todo.tree, p, x) = Part(req[Todo.id].value, x)
           /\ At(Todo.tree, p, x) # At(Parent, p, x)
  <2>1. At(HeadTree, p, x) = Part(req[Todo.id].value, x)
    BY <1>1, <1>2, <1>4, ReplayedPart
  <2>2. /\ rebase.detached /\ pl = "pick"
    BY PickShape
  <2>3. HeadTree = TipOf(TreeAt(remote, rebase.onto), rebase.replayed)
    BY <2>2, HeadIsTip
  <2>4. Line(remote, req, Done \ Ahead, TreeAt(remote, rebase.onto), rebase.replayed)
    BY <2>2 DEF LineInv
  <2>5. Done \ Ahead \subseteq Requests /\ Todo.id \notin Done \ Ahead
    BY <1>1, <2>2 DEF Ahead, Done
  <2>6. remote \in Seq(Commit) /\ rebase.onto \in 0..Len(remote) /\ rebase.replayed \in Seq(Commit)
    BY DEF TypeOK, Rebase
  <2> HIDE DEF IInv, LogInv
  <2>7. QED
    BY <1>2, <2>1, <2>3, <2>4, <2>5, <2>6, TipIsMoot
<1>5. QED
  BY <1>3, <1>4

LEMMA StepMaps ==
    ASSUME IInv, LogInv, [Next]_vars
    PROVE  [Log!Next]_(Log!logVars)
<1> USE DEF IInv, LogInv
<1>0. remote \in Seq(Commit) /\ Len(remote) \in Nat /\ pending \in Seq(Commit)
      /\ req \in [Requests -> Inputs \cup {NoInput}] /\ Requests \cap Foreign = {}
      /\ owed \subseteq Done \ Ids(remote)
  BY ConstantsAssumption, OwedShape DEF TypeOK
<1>1. CASE UNCHANGED <<remote, owed, req>>
  BY <1>1 DEF Log!logVars
<1>2. ASSUME NEW r \in Requests, Receive(r)
      PROVE  Log!Next
  <2>1. PICK i \in Inputs : req' = [req EXCEPT ![r] = i]
    BY <1>2 DEF Receive
  <2>2. req[r] = NoInput /\ i # NoInput /\ UNCHANGED <<remote, owed>>
    BY <1>2, InputShape DEF Receive, HandlerInv
  <2>3. Log!Announce(r)
    BY <1>0, <2>1, <2>2 DEF Log!Announce
  <2>4. QED
    BY <2>3 DEF Log!Next
<1>3. ASSUME NEW r \in Requests, GitCommit(r)
      PROVE  Log!Next
  <2>1. /\ pc[r] = "commit" /\ owed' = owed \cup {r} /\ UNCHANGED <<remote, req>>
    BY <1>3 DEF GitCommit, Answer
  <2>2. r \notin Done /\ r \notin Foreign /\ req[r] # NoInput
    BY <1>0, <2>1, InputShape DEF Done, Answered, HandlerInv
  <2>3. r \notin owed \cup Ids(remote)
    BY <1>0, <2>2 DEF IdInv
  <2>4. Log!Accept(r)
    BY <2>1, <2>2, <2>3 DEF Log!Accept, Log!Ids, Ids
  <2>5. QED
    BY <2>4 DEF Log!Next
<1>4. CASE Publishes /\ UNCHANGED req
  <2>1. /\ remote' = remote \o pending /\ owed' = {} /\ rebase.replayed = <<>>
    BY <1>4, PublishConcatenates
  <2>2. owed \subseteq Ids(pending)
    BY <2>1 DEF BranchInv, Ids
  <2>3. CASE pending = <<>>
    <3>1. remote' = remote
      BY <1>0, <2>1, <2>3
    <3>2. owed = {}
      BY <2>2, <2>3 DEF Ids
    <3>3. QED
      BY <1>1, <1>4, <2>1, <3>1, <3>2
  <2>4. CASE pending # <<>>
    <3>1. Len(remote) < Len(remote') /\ SubSeq(remote', 1, Len(remote)) = remote
      BY <1>0, <2>1, <2>4
    <3>2. Distinct(remote') /\ remote' \in Seq(Commit)
      BY <1>0, <2>1, IdStep DEF IdInv
    <3>3. Ids(remote') = Ids(remote) \cup Ids(pending)
      BY <1>0, <2>1, Concatenated
    <3>4. owed' = owed \ Ids(remote')
      BY <2>1, <2>2, <3>3
    <3>5. Log!Publish
      BY <1>4, <3>1, <3>2, <3>4 DEF Log!Publish, Log!Ids, Ids, Distinct
    <3>6. QED
      BY <3>5 DEF Log!Next
  <2>5. QED
    BY <2>3, <2>4
<1>5. CASE Pick
  <2>1. /\ UNCHANGED <<remote, req>>
        /\ owed' = owed \/ (ReplayedTree = HeadTree /\ owed' = owed \ {Todo.id})
    BY <1>5, PickShape
  <2>2. CASE ReplayedTree = HeadTree /\ owed' = owed \ {Todo.id} /\ Todo.id \in owed
    <3>1. \A p \in req[Todo.id].pages, x \in Parts : Moot(remote, req, Todo.id, p, x)
      BY <1>5, <2>2, DroppedIsMoot
    <3>2. \A p \in req[Todo.id].pages : Log!Redundant(Todo.id, p)
      BY <3>1 DEF Moot, Asked, At, Part, Log!Redundant, Log!Part
    <3>3. Log!Absorb(Todo.id) /\ Todo.id \in Requests
      BY <1>0, <2>1, <2>2, <3>2 DEF Log!Absorb, Done
    <3>4. QED
      BY <3>3 DEF Log!Next
  <2>3. QED
    BY <1>1, <2>1, <2>2
<1>6. ASSUME NEW f \in Foreign, ForeignPush(f)
      PROVE  Log!Next
  <2>1. PICK c : remote' = Append(remote, c)
    BY <1>6 DEF ForeignPush
  <2>2. Len(remote) < Len(remote') /\ SubSeq(remote', 1, Len(remote)) = remote
    BY <1>0, <2>1
  <2>3. UNCHANGED <<owed, req, pending, rebase>>
    BY <1>6 DEF ForeignPush, handlerVars, branchVars
  <2>4. IdInv' /\ LogInv' /\ IInv'
    BY StepLogInv, StepIInv
  <2>5. owed' = owed \ Ids(remote')
    BY <2>3, <2>4 DEF BranchInv, IdInv
  <2>6. Distinct(remote') /\ remote' \in Seq(Commit)
    BY <2>4 DEF IdInv, TypeOK
  <2>7. Log!Publish
    BY <2>2, <2>3, <2>5, <2>6 DEF Log!Publish, Log!Ids, Ids, Distinct
  <2>8. QED
    BY <2>7 DEF Log!Next
<1>7. CASE Crash
  BY <1>7 DEF Crash, Log!Next, Log!Forget
<1>8. CASE \E r \in Requests : Cancel(r) \/ Lock(r) \/ WriteFile(r) \/ WriteFails(r) \/ Stage(r)
                               \/ StageFails(r) \/ NoCommit(r) \/ CommitKilled(r)
  BY <1>1, <1>8 DEF Cancel, Lock, WriteFile, WriteFails, Stage, StageFails, NoCommit, CommitKilled,
                    Answer
<1>9. CASE Push \/ PushAnswerLost
  BY <1>4, <1>9 DEF Push, PushAnswerLost, FailPush, Publishes, handlerVars, treeVars
<1>10. CASE Bootstrap
  BY <1>1, <1>10 DEF Bootstrap, Clone, KeepClone, ResetClone, Serve, handlerVars
<1>11. QED
  BY <1>1, <1>2, <1>3, <1>5, <1>6, <1>7, <1>8, <1>9, <1>10
     DEF Next, Handler, LoopTakesMu, CheckDirty, StartPush, MarkDirty, CooledOff, LoopRunsGit,
         PushRejected, PushUnreachable, PullRefused, Pull, PickConflict, PullDone, LoopStores,
         StampPush, ForgiveFailures, CountFailure, LoopGoesOn, handleHealth, ReadFailures, ReadAge,
         Outage, Recovery, Age, vars, handlerVars

\* git-mirror is a backup log: a change it acknowledges is owed until it is
\* published, once, on a remote that only grows, or until a restart forgets it, or
\* until a rebase finds that it adds nothing.
THEOREM MirrorIsABackupLog == Spec => KeepsBackupLog
<1>1. Init => Log!Init
  BY DEF Init, Log!Init
<1>2. IInv /\ LogInv /\ [Next]_vars => [Log!Next]_(Log!logVars)
  BY StepMaps
<1>3. QED
  BY <1>1, <1>2, LogInvariance, PTL DEF Spec, KeepsBackupLog, Log!Spec

-----------------------------------------------------------------------------
(* What a rebase does to the work of two writers                           *)

\* Part x of page p is one that the first k commits of a line s on the tree b change.
ChangedBy(b, s, k, p, x) == \E i \in 1..k : At(s[i].tree, p, x) # At(Prior(b, s, i), p, x)

\* The tree h is the merge of a tree o and the first k commits of a line s on the
\* tree b: the parts the commits change are as they left them, though o may have
\* them otherwise only if one of the commits had found or made them the same; all
\* others are as in o.
Merged(h, b, o, s, k) == \A p \in Pages, x \in Parts :
    IF ChangedBy(b, s, k, p, x)
    THEN /\ At(h, p, x) = At(Prior(b, s, k + 1), p, x)
         /\ \/ At(o, p, x) = At(b, p, x)
            \/ \E i \in 1..k : At(o, p, x) = At(s[i].tree, p, x)
    ELSE /\ At(h, p, x) = At(o, p, x)
         /\ At(Prior(b, s, k + 1), p, x) = At(b, p, x)

MergeInv == pl = "pick" =>
    Merged(HeadTree, TreeAt(remote, synced), TreeAt(remote, rebase.onto), pending, rebase.done)

\* Part x of page p was changed since the branch left the remote: on the branch, and on
\* the part of the remote that is rebased on.
Ours(p, x) == ChangedBy(TreeAt(remote, synced), pending, Len(pending), p, x)
Theirs(p, x) == At(RemoteTree(rebase.onto), p, x) # At(RemoteTree(synced), p, x)

\* `git pull --rebase` takes neither writer's work from the other, down to the parts of
\* a page: the new branch has ours as the old one had them and all others as the remote
\* has them, and a part both changed is one the remote has as one of our commits made it.
PullMerges ==
    [][PullDone => \A p \in Pages, x \in Parts :
         /\ At(BranchTree', p, x) = IF Ours(p, x) THEN At(BranchTree, p, x)
                                    ELSE At(RemoteTree(rebase.onto), p, x)
         /\ Ours(p, x) /\ Theirs(p, x) =>
               \E i \in DOMAIN pending :
                  At(pending[i].tree, p, x) = At(RemoteTree(rebase.onto), p, x)]_vars

\* The mirror gets stuck in a rebase only over a part of a page of ours that somebody
\* else changed too, or over a page whose file was left in the work tree by a failed
\* notify.
StopsOnConflictOnly ==
    [][PickConflict => \E p \in Pages, x \in Parts :
                          Ours(p, x) /\ (Theirs(p, x) \/ Untracked(p))]_vars

LEMMA MergeStarts ==
    ASSUME NEW b, NEW o, NEW s PROVE Merged(o, b, o, s, 0)
<1>1. \A p, x : ~ChangedBy(b, s, 0, p, x)
  BY DEF ChangedBy
<1>2. QED
  BY <1>1 DEF Merged, Prior

\* A commit that applies without a conflict is merged in.
LEMMA MergeGoesOn ==
    ASSUME NEW h, NEW h2, NEW b, NEW o, NEW s, NEW k \in Nat,
           Merged(h, b, o, s, k),
           \A p \in Pages, x \in Parts :
              LET new == At(s[k + 1].tree, p, x)
                  old == At(Prior(b, s, k + 1), p, x)
              IN IF new = old THEN At(h2, p, x) = At(h, p, x)
                 ELSE At(h2, p, x) = new /\ At(h, p, x) \in {old, new}
    PROVE  Merged(h2, b, o, s, k + 1)
<1>1. Prior(b, s, (k + 1) + 1) = s[k + 1].tree
  BY DEF Prior
<1> SUFFICES ASSUME NEW p \in Pages, NEW x \in Parts
             PROVE  IF ChangedBy(b, s, k + 1, p, x)
                    THEN /\ At(h2, p, x) = At(s[k + 1].tree, p, x)
                         /\ \/ At(o, p, x) = At(b, p, x)
                            \/ \E i \in 1..(k + 1) : At(o, p, x) = At(s[i].tree, p, x)
                    ELSE /\ At(h2, p, x) = At(o, p, x)
                         /\ At(s[k + 1].tree, p, x) = At(b, p, x)
  BY <1>1 DEF Merged
<1> DEFINE new == At(s[k + 1].tree, p, x)
           old == At(Prior(b, s, k + 1), p, x)
<1>2. ChangedBy(b, s, k + 1, p, x) <=> ChangedBy(b, s, k, p, x) \/ new # old
  <2>1. 1..(k + 1) = 1..k \cup {k + 1}
    OBVIOUS
  <2>2. QED
    BY <2>1 DEF ChangedBy
<1>5. k + 1 \in 1..(k + 1) /\ 1..k \subseteq 1..(k + 1)
  OBVIOUS
<1>6. CASE ChangedBy(b, s, k, p, x)
  <2>1. /\ At(h, p, x) = old
        /\ \/ At(o, p, x) = At(b, p, x)
           \/ \E i \in 1..k : At(o, p, x) = At(s[i].tree, p, x)
    BY <1>6 DEF Merged
  <2>2. At(h2, p, x) = new
    BY <2>1
  <2>3. QED
    BY <1>2, <1>5, <1>6, <2>1, <2>2
<1>7. CASE ~ChangedBy(b, s, k, p, x)
  <2>1. At(h, p, x) = At(o, p, x) /\ old = At(b, p, x)
    BY <1>7 DEF Merged
  <2>2. CASE new = old
    BY <1>2, <1>7, <2>1, <2>2
  <2>3. CASE new # old
    BY <1>2, <1>5, <2>1, <2>3
  <2>4. QED
    BY <2>2, <2>3
<1>8. QED
  BY <1>6, <1>7

LEMMA MergeStep ==
    ASSUME IInv, LogInv, MergeInv, [Next]_vars
    PROVE  MergeInv'
<1> USE DEF IInv, LogInv
<1>0. /\ remote \in Seq(Commit) /\ synced \in 0..Len(remote) /\ rebase.onto \in 0..Len(remote)
      /\ pending \in Seq(Commit) /\ rebase.done \in Nat /\ Len(remote) \in Nat
  BY DEF TypeOK, Rebase
<1>1. /\ TreeAt(remote', synced) = TreeAt(remote, synced)
      /\ TreeAt(remote', rebase.onto) = TreeAt(remote, rebase.onto)
  BY <1>0, RemoteGrows
<1> SUFFICES ASSUME pl' = "pick"
             PROVE  Merged(HeadTree', TreeAt(remote', synced'), TreeAt(remote', rebase'.onto),
                           pending', rebase'.done)
  BY DEF MergeInv
<1>2. CASE Pull
  <2>1. /\ HeadTree' = TreeAt(remote', rebase'.onto) /\ rebase'.done = 0
    BY <1>2, PullShape, HeadIsTip DEF TipOf
  <2>2. QED
    BY <2>1, MergeStarts
<1>3. CASE Pick
  <2>1. /\ pl = "pick" /\ UNCHANGED <<remote, synced, pending>> /\ rebase'.onto = rebase.onto
        /\ rebase.done + 1 \in 1..Len(pending) /\ rebase.done < Len(pending)
    BY <1>3, PickShape
  <2>2. rebase'.done = rebase.done + 1 /\ Conflicts = {}
    BY <1>3 DEF Pick, TypeOK, Rebase
  <2>3. HeadTree' = ReplayedTree
    BY <1>3, PickHead
  <2>5. /\ Todo = pending[rebase.done + 1]
        /\ Parent = Prior(TreeAt(remote, synced), pending, rebase.done + 1)
    BY <2>1, ParentIsPrior
  <2>6. \A p \in Pages, x \in Parts :
           IF At(Todo.tree, p, x) = At(Parent, p, x)
           THEN At(ReplayedTree, p, x) = At(HeadTree, p, x)
           ELSE /\ At(ReplayedTree, p, x) = At(Todo.tree, p, x)
                /\ At(HeadTree, p, x) \in {At(Parent, p, x), At(Todo.tree, p, x)}
    BY <2>1, <2>2, ReplayedPart
  <2>7. Merged(HeadTree, TreeAt(remote, synced), TreeAt(remote, rebase.onto), pending, rebase.done)
    BY <2>1 DEF MergeInv
  <2> HIDE DEF IInv, LogInv
  <2>8. Merged(ReplayedTree, TreeAt(remote, synced), TreeAt(remote, rebase.onto), pending,
               rebase.done + 1)
    BY <1>0, <2>1, <2>5, <2>6, <2>7, MergeGoesOn
  <2>9. QED
    BY <2>1, <2>2, <2>3, <2>8
<1>4. CASE Stays
  <2>1. pl = "pick" /\ HeadTree' = HeadTree
    BY <1>4, HeadIsTip DEF Stays
  <2>2. QED
    BY <1>4, <2>1 DEF Stays, MergeInv
<1>5. CASE \E f \in Foreign : ForeignPush(f)
  <2>1. UNCHANGED <<pl, synced, pending, rebase>>
    BY <1>5 DEF ForeignPush, loopVars, branchVars
  <2>2. HeadTree' = HeadTree
    BY <1>1, <2>1, HeadIsTip
  <2>3. QED
    BY <1>1, <2>1, <2>2 DEF MergeInv
<1>6. ASSUME Publishes \/ PullDone \/ Clone \/ ResetClone \/ \E r \in Requests : Commits(r)
      PROVE  FALSE
  BY <1>6, BootShape DEF Publishes, PullDone, Commits
<1>7. QED
  BY <1>2, <1>3, <1>4, <1>5, <1>6, StepKinds DEF StagesAll

LEMMA InitMerge == Init => MergeInv
  BY DEF Init, MergeInv

\* While the push loop replays its commits, HEAD is the merge of the fetched tip and
\* the commits replayed so far.
THEOREM MergeInvariance == Spec => [](IInv /\ LogInv /\ MergeInv)
  BY InitIInv, StepIInv, InitLogInv, StepLogInv, InitMerge, MergeStep, PTL DEF Spec

\* The branch ends in its last commit, which is the tree before a next one.
LEMMA BranchEnds ==
    ASSUME TypeOK
    PROVE  /\ BranchTree = Prior(TreeAt(remote, synced), pending, Len(pending) + 1)
           /\ BranchTree \in Tree
           /\ RemoteTree(synced) = TreeAt(remote, synced)
           /\ RemoteTree(rebase.onto) = TreeAt(remote, rebase.onto)
<1>1. pending \in Seq(Commit) /\ synced \in 0..Len(remote) /\ remote \in Seq(Commit)
  BY DEF TypeOK
<1>2. pending = <<>> <=> Len(pending) = 0
  BY <1>1
<1>3. BranchTree \in Tree
  BY <1>1, TipIsTree DEF BranchTree
<1>4. QED
  BY <1>1, <1>2, <1>3 DEF BranchTree, Tip, Prior, RemoteTree, TreeAt

\* A pull with rebase keeps what this branch and what the other writer did, down to the
\* parts of a page: the new branch is the merge of both, and no change of the other
\* writer is taken back.
THEOREM RebaseKeepsBothSides == Spec => PullMerges
<1>1. ASSUME IInv, LogInv, MergeInv, PullDone
      PROVE  \A p \in Pages, x \in Parts :
                /\ At(BranchTree', p, x) = IF Ours(p, x) THEN At(BranchTree, p, x)
                                           ELSE At(RemoteTree(rebase.onto), p, x)
                /\ Ours(p, x) /\ Theirs(p, x) =>
                      \E i \in DOMAIN pending :
                         At(pending[i].tree, p, x) = At(RemoteTree(rebase.onto), p, x)
  <2>1. TypeOK /\ BranchInv
    BY <1>1 DEF IInv
  <2>2. Merged(HeadTree, TreeAt(remote, synced), TreeAt(remote, rebase.onto), pending, Len(pending))
    BY <1>1 DEF PullDone, MergeInv
  <2>3. BranchTree' = HeadTree
    <3>1. /\ rebase.detached /\ remote' = remote
          /\ synced' = rebase.onto /\ pending' = rebase.replayed
      BY <1>1, <2>1 DEF PullDone, BranchInv
    <3>2. QED
      BY <3>1 DEF BranchTree, HeadTree, Tip, RemoteTree
  <2>4. DOMAIN pending = 1..Len(pending)
    BY <2>1 DEF TypeOK
  <2>5. QED
    BY <2>1, <2>2, <2>3, <2>4, BranchEnds DEF Merged, Ours, Theirs
<1>2. IInv /\ LogInv /\ MergeInv /\ [Next]_vars =>
         [PullDone => \A p \in Pages, x \in Parts :
                /\ At(BranchTree', p, x) = IF Ours(p, x) THEN At(BranchTree, p, x)
                                           ELSE At(RemoteTree(rebase.onto), p, x)
                /\ Ours(p, x) /\ Theirs(p, x) =>
                      \E i \in DOMAIN pending :
                         At(pending[i].tree, p, x) = At(RemoteTree(rebase.onto), p, x)]_vars
  BY <1>1
<1>3. QED
  BY <1>2, MergeInvariance, PTL DEF Spec, PullMerges

\* Two versions of a page that differ do so in some part.
LEMMA Differ ==
    ASSUME NEW v \in Page \cup {Absent}, NEW w \in Page \cup {Absent}, v # w
    PROVE  \E x \in Parts : Part(v, x) # Part(w, x)
<1>1. \A u \in Page, x \in Parts : Part(u, x) = u[x] /\ u[x] # Absent
  BY ConstantsAssumption DEF Page, Part
<1>2. PICK x \in Parts : TRUE
  BY ConstantsAssumption
<1>3. CASE v = Absent \/ w = Absent
  BY <1>1, <1>2, <1>3 DEF Part
<1>4. CASE v \in Page /\ w \in Page
  <2>1. \E y \in Parts : v[y] # w[y]
    BY <1>4 DEF Page
  <2>2. QED
    BY <1>1, <1>4, <2>1
<1>5. QED
  BY <1>3, <1>4

\* A rebase never stops over a part of a page that only one side has changed, unless a
\* file that git does not track is in the way; nor over one the branch changed twice.
THEOREM StuckOnConflictOnly == Spec => StopsOnConflictOnly
<1>1. ASSUME IInv, MergeInv, PickConflict
      PROVE  \E p \in Pages, x \in Parts : Ours(p, x) /\ (Theirs(p, x) \/ Untracked(p))
  <2>1. /\ TypeOK /\ pl = "pick" /\ rebase.done + 1 \in 1..Len(pending) /\ rebase.done \in Nat
        /\ Len(pending) \in Nat /\ rebase.done < Len(pending)
    BY <1>1 DEF IInv, PickConflict, TypeOK, Rebase
  <2>2. PICK p \in Conflicts : TRUE
    BY <1>1 DEF PickConflict
  <2> DEFINE m == Todo.tree[p]
             b == Parent[p]
             h == HeadTree[p]
  <2>3. p \in Pages /\ m # b /\ (Collide(b, m, h) \/ Untracked(p))
    BY <2>2 DEF Conflicts, Changed
  <2>4. /\ Todo = pending[rebase.done + 1]
        /\ Parent = Prior(TreeAt(remote, synced), pending, rebase.done + 1)
    BY <2>1, ParentIsPrior
  <2>5. m \in Page \cup {Absent} /\ b \in Page \cup {Absent} /\ h \in Page \cup {Absent}
    BY <2>1, <2>3, TodoTrees DEF Tree
  <2> HIDE DEF m, b, h
  <2>6. PICK x \in Parts : /\ Part(m, x) # Part(b, x)
                           /\ Part(h, x) # Part(b, x) \/ Untracked(p)
    <3>1. Collide(b, m, h) =>
             \E x \in Parts : Part(m, x) # Part(b, x) /\ Part(h, x) # Part(b, x)
      <4>1. CASE Collide(b, m, h) /\ Absent \in {b, m, h}
        <5>1. \A v \in Page, x \in Parts : Part(v, x) # Absent /\ Part(Absent, x) = Absent
          BY ConstantsAssumption DEF Page, Part
        <5>2. CASE b = Absent
          BY <2>5, <4>1, <5>1, <5>2, ConstantsAssumption DEF Collide
        <5>3. CASE b # Absent /\ m = Absent
          <6>1. PICK x \in Parts : Part(h, x) # Part(b, x)
            BY <2>5, <4>1, Differ DEF Collide
          <6>2. QED
            BY <2>5, <5>1, <5>3, <6>1
        <5>4. CASE b # Absent /\ h = Absent
          <6>1. PICK x \in Parts : Part(m, x) # Part(b, x)
            BY <2>5, <4>1, Differ DEF Collide
          <6>2. QED
            BY <2>5, <5>1, <5>4, <6>1
        <5>5. QED
          BY <4>1, <5>2, <5>3, <5>4
      <4>2. CASE Collide(b, m, h) /\ Absent \notin {b, m, h}
        BY <4>2 DEF Collide, Part
      <4>3. QED
        BY <4>1, <4>2
    <3>2. \E x \in Parts : Part(m, x) # Part(b, x)
      BY <2>3, <2>5, Differ
    <3>3. QED
      BY <2>3, <3>1, <3>2
  <2>7. Ours(p, x)
    BY <2>1, <2>4, <2>6 DEF Ours, ChangedBy, At, m, b
  <2>8. Part(h, x) # Part(b, x) => Theirs(p, x)
    <3>1. Merged(HeadTree, TreeAt(remote, synced), TreeAt(remote, rebase.onto), pending,
                 rebase.done)
      BY <1>1, <2>1 DEF MergeInv
    <3>2. At(HeadTree, p, x) # At(Parent, p, x) =>
             At(TreeAt(remote, rebase.onto), p, x) # At(TreeAt(remote, synced), p, x)
      BY <2>3, <2>4, <3>1 DEF Merged
    <3>3. QED
      BY <2>1, <3>2, BranchEnds DEF Theirs, At, h, b
  <2>9. QED
    BY <2>3, <2>6, <2>7, <2>8
<1>2. IInv /\ LogInv /\ MergeInv /\ [Next]_vars =>
         [PickConflict => \E p \in Pages, x \in Parts :
                             Ours(p, x) /\ (Theirs(p, x) \/ Untracked(p))]_vars
  BY <1>1
<1>3. QED
  BY <1>2, MergeInvariance, PTL DEF Spec, StopsOnConflictOnly

=============================================================================
