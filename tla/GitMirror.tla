------------------------------ MODULE GitMirror ------------------------------
(***************************************************************************)
(* images/git-mirror: the admission webhook that keeps a git backup of the *)
(* wiki.  HTTP handlers apply one notify each to a work tree and commit    *)
(* it; one push loop publishes the commits.  Handlers and push loop share  *)
(* the repository under the mutex mu; a cancelled request kills the git    *)
(* subprocess it was running; the remote may be moved by other tools; the  *)
(* container may be killed between any two steps and boots again on what   *)
(* its emptyDir kept.                                                      *)
(*                                                                         *)
(* A request is handled once and is also the identity of the commit it     *)
(* makes.  A tree maps every page to its content, and a content has parts: *)
(* the lines that git merges apart from each other.  The local branch is   *)
(* the first `synced` commits of the remote followed by `pending`.         *)
(***************************************************************************)
EXTENDS Naturals, Sequences, FiniteSets

CONSTANTS
    Requests,      \* notifies delivered by the engine's admission chain
    Foreign,       \* commits other tools push to the same remote branch
    Pages,         \* paths below wiki/
    Projects,      \* sets of pages: the subtrees purge_project removes
    Parts,         \* parts of a rendered page: its frontmatter, its body
    Texts,         \* what a part may say
    Contents,      \* the pages that notifies and other tools write
    Truncated,     \* what a write that fails half-way leaves of a page
    Absent,        \* no file at that path
    Probes,        \* requests for /healthz that may be under way
    Free,          \* mu is not held
    PushLoop,      \* the push loop, as a holder of mu
    MaxCrashes,    \* bound: container deaths
    MaxOutages,    \* bound: times the remote becomes unreachable
    MaxFails       \* bound: where the model's consecPushFail saturates

ASSUME ConstantsAssumption ==
    /\ Requests \cap Foreign = {}
    /\ Projects \subseteq SUBSET Pages
    /\ Parts # {}
    /\ Contents \subseteq [Parts -> Texts]
    /\ Truncated \in [Parts -> Texts]
    /\ Absent \notin Texts \cup [Parts -> Texts]
    /\ Free \notin Requests
    /\ PushLoop \notin Requests
    /\ Free # PushLoop
    /\ MaxCrashes \in Nat
    /\ MaxOutages \in Nat
    /\ MaxFails \in Nat \ {0}

VARIABLES
    pc,             \* where each request is
    req,            \* what each request asks for
    cancelled,      \* requests whose context is cancelled
    mu,             \* holder of the mutex
    dirty,          \* commits pending a push
    pl,             \* where the push loop is
    consecPushFail, \* push failures since the last success
    stale,          \* the last successful push is older than staleFailThreshold
    sawFailures,    \* probes that have read consecPushFail > 0, and have not read
                    \* the time of the last push yet
    skipped,        \* moveSessionNoops + unsupportedOpHits
    up,             \* the process serves
    cloned,         \* workDir/.git exists
    work,           \* files of the work tree
    index,          \* the git index
    indexLock,      \* .git/index.lock exists
    synced,         \* length of the remote history the local branch contains
    pending,        \* commits of the local branch after that history
    rebase,         \* the state of `git pull --rebase`
    remote,         \* commits of the remote branch
    reachable,      \* the remote answers
    crashes,
    outages,
    owed            \* history variable: changes acknowledged by this process
                    \* that are not on the remote yet

healthVars  == <<consecPushFail, stale, sawFailures>>
handlerVars == <<pc, req, cancelled, skipped>>
loopVars    == <<dirty, pl, healthVars>>
treeVars    == <<work, index, indexLock>>
branchVars  == <<synced, pending, rebase>>
processVars == <<up, cloned, crashes>>
netVars     == <<reachable, outages>>
vars == <<handlerVars, mu, loopVars, treeVars, branchVars, processVars, remote,
          netVars, owed>>

-----------------------------------------------------------------------------
(* Data                                                                    *)

Page == [Parts -> Texts]
Tree == [Pages -> Page \cup {Absent}]
Commit == [id : Requests \cup Foreign, tree : Tree]

Empty == [p \in Pages |-> Absent]
\* The tree t with the pages ps as they are in the tree s.
Overlay(t, ps, s) == [p \in Pages |-> IF p \in ps THEN s[p] ELSE t[p]]
\* Part x of a page with content v.
Part(v, x) == IF v = Absent THEN Absent ELSE v[x]
Ids(s) == {s[i].id : i \in DOMAIN s}

\* The tree of the first n commits of the remote.
RemoteTree(n) == IF n = 0 THEN Empty ELSE remote[n].tree
Tip(n, s) == IF s = <<>> THEN RemoteTree(n) ELSE s[Len(s)].tree

\* `git pull --rebase` replays pending[done + 1 ..] on the first `onto` commits
\* of the remote, on a detached HEAD; `replayed` are the commits made there.
\* A replay that stops on a conflict leaves the unmerged pages and the state
\* directory .git/rebase-merge (inProgress) behind.
Rebase == [inProgress : BOOLEAN, detached : BOOLEAN, onto : Nat, done : Nat,
           replayed : Seq(Commit), unmerged : SUBSET Pages]
NoRebase == [inProgress |-> FALSE, detached |-> FALSE, onto |-> 0, done |-> 0,
             replayed |-> <<>>, unmerged |-> {}]

BranchTree == Tip(synced, pending)
HeadTree == IF rebase.detached THEN Tip(rebase.onto, rebase.replayed)
                               ELSE BranchTree

Untracked(p) == index[p] = Absent /\ work[p] # Absent

\* X-Memory-Op, and the part of the payload the handler uses.  "malformed" is
\* a body or a path the handler refuses before it takes mu, "unsupported" an
\* op it does not know.
Inputs ==
    [op : {"write_page"}, pages : {{p} : p \in Pages}, value : Contents]
    \cup [op : {"delete"}, pages : {{p} : p \in Pages}, value : {Absent}]
    \cup [op : {"purge_project"}, pages : Projects, value : {Absent}]
    \cup [op : {"move_session", "unsupported", "malformed"}, pages : {{}},
           value : {Absent}]
NoInput == [op |-> "none", pages |-> {}, value |-> Absent]

InFlight == {"lock", "file", "stage", "commit"}
Answered == {"ok", "error"}
HoldsMu == {"file", "stage", "commit"}
LoopHoldsMu == {"push", "pull", "pick", "retry"}
LoopIsFree == {"down", "check", "parked", "debounce", "pushed", "stamped",
               "failed", "counted", "cooloff"}

TypeOK ==
    /\ pc \in [Requests -> {"new"} \cup InFlight \cup Answered]
    /\ req \in [Requests -> Inputs \cup {NoInput}]
    /\ cancelled \in SUBSET Requests
    /\ mu \in Requests \cup {Free, PushLoop}
    /\ dirty \in BOOLEAN
    /\ pl \in LoopIsFree \cup LoopHoldsMu
    /\ consecPushFail \in 0..MaxFails
    /\ stale \in BOOLEAN
    /\ sawFailures \in SUBSET Probes
    /\ skipped \in SUBSET Requests
    /\ up \in BOOLEAN
    /\ cloned \in BOOLEAN
    /\ work \in Tree
    /\ index \in Tree
    /\ indexLock \in BOOLEAN
    /\ remote \in Seq(Commit)
    /\ synced \in 0..Len(remote)
    /\ pending \in Seq(Commit)
    /\ rebase \in Rebase
    /\ rebase.onto <= Len(remote)
    /\ reachable \in BOOLEAN
    /\ crashes \in 0..MaxCrashes
    /\ outages \in 0..MaxOutages
    /\ owed \in SUBSET Requests

Init ==
    /\ pc = [r \in Requests |-> "new"]
    /\ req = [r \in Requests |-> NoInput]
    /\ cancelled = {}
    /\ mu = Free
    /\ dirty = FALSE
    /\ pl = "down"
    /\ consecPushFail = 0
    /\ stale = FALSE
    /\ sawFailures = {}
    /\ skipped = {}
    /\ up = FALSE
    /\ cloned = FALSE
    /\ work = Empty
    /\ index = Empty
    /\ indexLock = FALSE
    /\ synced = 0
    /\ pending = <<>>
    /\ rebase = NoRebase
    /\ remote = <<>>
    /\ reachable = TRUE
    /\ crashes = 0
    /\ outages = 0
    /\ owed = {}

-----------------------------------------------------------------------------
(* handleSync, writePage, deletePage, purgeProject, moveSession            *)

Mutates(i) == i.op \in {"write_page", "delete", "purge_project"}

\* handleSync decodes the notify and routes it by op.  What needs no git is
\* answered here: move_session with 204, the rest with an error.
Receive(r) ==
    /\ up
    /\ pc[r] = "new"
    /\ \E i \in Inputs :
        /\ req' = [req EXCEPT ![r] = i]
        /\ pc' = [pc EXCEPT ![r] = IF Mutates(i) THEN "lock"
                                   ELSE IF i.op = "move_session" THEN "ok"
                                   ELSE "error"]
        /\ skipped' = IF i.op \in {"move_session", "unsupported"}
                      THEN skipped \cup {r} ELSE skipped
    /\ UNCHANGED <<cancelled, mu, loopVars, treeVars, branchVars, processVars,
                   remote, netVars, owed>>

\* The engine gives up on the request: r.Context() is cancelled.
Cancel(r) ==
    /\ pc[r] \in InFlight
    /\ r \notin cancelled
    /\ cancelled' = cancelled \cup {r}
    /\ UNCHANGED <<pc, req, skipped, mu, loopVars, treeVars, branchVars,
                   processVars, remote, netVars, owed>>

LeaveIndexLock == UNCHANGED indexLock                            \* mutant
clearStaleIndexLock == indexLock' = FALSE

\* m.mu.Lock(); m.clearStaleIndexLock().
Lock(r) ==
    /\ pc[r] = "lock"
    /\ mu = Free
    /\ mu' = r
    /\ clearStaleIndexLock
    /\ pc' = [pc EXCEPT ![r] = IF req[r].op = "write_page" THEN "file" ELSE "stage"]
    /\ UNCHANGED <<req, cancelled, skipped, loopVars, work, index, branchVars,
                   processVars, remote, netVars, owed>>

\* os.WriteFile: not under the request's context.
WriteFile(r) ==
    /\ pc[r] = "file"
    /\ work' = [p \in Pages |-> IF p \in req[r].pages THEN req[r].value ELSE work[p]]
    /\ pc' = [pc EXCEPT ![r] = "stage"]
    /\ UNCHANGED <<req, cancelled, skipped, mu, loopVars, index, indexLock,
                   branchVars, processVars, remote, netVars, owed>>

\* Deferred m.mu.Unlock() and the HTTP answer.
Answer(r, answer) ==
    /\ mu' = Free
    /\ pc' = [pc EXCEPT ![r] = answer]
    /\ UNCHANGED <<req, cancelled, skipped>>

\* os.MkdirAll or os.WriteFile fails, the latter before or after it truncated the
\* file.
WriteFails(r) ==
    /\ pc[r] = "file"
    /\ work' \in {work, [p \in Pages |-> IF p \in req[r].pages THEN Truncated ELSE work[p]]}
    /\ Answer(r, "error")
    /\ UNCHANGED <<loopVars, index, indexLock, branchVars, processVars, remote,
                   netVars, owed>>

\* What `git add` or `git rm -f --ignore-unmatch` changes: rm only matches
\* pages the index knows.
Matched(r) ==
    IF req[r].op = "write_page" THEN req[r].pages
    ELSE {p \in req[r].pages : index[p] # Absent \/ p \in rebase.unmerged}
StagedWork(r) ==
    IF req[r].op = "write_page" THEN work ELSE Overlay(work, Matched(r), Empty)
StageAll(r) ==
    /\ work' = StagedWork(r)
    /\ index' = Overlay(index, Matched(r), StagedWork(r))
    /\ rebase' = [rebase EXCEPT !.unmerged = @ \ Matched(r)]

Stage(r) ==
    /\ pc[r] = "stage"
    /\ r \notin cancelled
    /\ ~indexLock
    /\ StageAll(r)
    /\ pc' = [pc EXCEPT ![r] = "commit"]
    /\ UNCHANGED <<req, cancelled, skipped, mu, loopVars, indexLock, synced,
                   pending, processVars, remote, netVars, owed>>

\* exec.CommandContext kills git: before it started, after it created
\* index.lock (rm has then deleted some files), or just before it exits.  An
\* index.lock that was there already makes git fail at once.
StageFails(r) ==
    /\ pc[r] = "stage"
    /\ r \in cancelled \/ indexLock
    /\ \/ r \in cancelled /\ ~indexLock /\ StageAll(r) /\ UNCHANGED indexLock
       \/ /\ indexLock' \in {l \in BOOLEAN : indexLock => l}
          /\ \E gone \in SUBSET Matched(r) :
                /\ gone # {} => req[r].op # "write_page" /\ indexLock' /\ ~indexLock
                /\ work' = Overlay(work, gone, Empty)
          /\ UNCHANGED <<index, rebase>>
    /\ Answer(r, "error")
    /\ UNCHANGED <<loopVars, synced, pending, processVars, remote, netVars, owed>>

\* `git commit`: the whole index becomes a commit of whatever HEAD points to.
AddCommit(r) ==
    LET c == [id |-> r, tree |-> index] IN
    IF rebase.detached
    THEN /\ rebase' = [rebase EXCEPT !.replayed = Append(@, c)]
         /\ UNCHANGED pending
    ELSE /\ pending' = Append(pending, c)
         /\ UNCHANGED rebase

\* writePage commits with --allow-empty, commitDirty does not.
MakesCommit(r) ==
    /\ rebase.unmerged = {}
    /\ req[r].op = "write_page" \/ index # HeadTree

NotSignalled == pl                                               \* mutant
\* m.dirtyCond.Signal(): the only waiter is the push loop.
Signalled == IF pl = "parked" THEN "check" ELSE pl

GitCommit(r) ==
    /\ pc[r] = "commit"
    /\ r \notin cancelled
    /\ ~indexLock
    /\ MakesCommit(r)
    /\ AddCommit(r)
    /\ dirty' = TRUE
    /\ pl' = Signalled
    /\ owed' = owed \cup {r}
    /\ Answer(r, "ok")
    /\ UNCHANGED <<healthVars, treeVars, synced, processVars, remote, netVars>>

AnyRefusal == TRUE                                               \* mutant
\* The wording "nothing to commit", which the callers take for success, is that
\* of a clean work tree only; unmerged pages, leftover untracked files, unstaged
\* changes or an index.lock are reported in other words.
NothingToCommit == rebase.unmerged = {} /\ work = index /\ ~indexLock

\* git exits 1.
NoCommit(r) ==
    /\ pc[r] = "commit"
    /\ r \notin cancelled
    /\ ~MakesCommit(r) \/ indexLock
    /\ Answer(r, IF NothingToCommit THEN "ok" ELSE "error")
    /\ UNCHANGED <<loopVars, treeVars, branchVars, processVars, remote, netVars,
                   owed>>

\* git is killed before the commit exists, or after: then the branch has a
\* commit the handler reports as failed, and dirty stays as it was.
CommitKilled(r) ==
    /\ pc[r] = "commit"
    /\ r \in cancelled
    /\ \/ ~indexLock /\ MakesCommit(r) /\ AddCommit(r) /\ UNCHANGED indexLock
       \/ /\ indexLock' \in {l \in BOOLEAN : indexLock => l}
          /\ UNCHANGED <<pending, rebase>>
    /\ Answer(r, "error")
    /\ UNCHANGED <<loopVars, work, index, synced, processVars, remote, netVars,
                   owed>>

Handler(r) ==
    \/ Lock(r) \/ WriteFile(r) \/ WriteFails(r) \/ Stage(r) \/ StageFails(r)
    \/ GitCommit(r) \/ NoCommit(r) \/ CommitKilled(r)

-----------------------------------------------------------------------------
(* pushLoop                                                                *)

\* Under mu: `for !m.dirty { m.dirtyCond.Wait() }`.
CheckDirty ==
    /\ pl = "check"
    /\ mu = Free
    /\ pl' = IF dirty THEN "debounce" ELSE "parked"
    /\ UNCHANGED <<handlerVars, mu, dirty, healthVars, treeVars,
                   branchVars, processVars, remote, netVars, owed>>

\* The debounce timer fires; the loop takes mu and clears dirty.
StartPush ==
    /\ pl = "debounce"
    /\ mu = Free
    /\ mu' = PushLoop
    /\ dirty' = FALSE
    /\ pl' = "push"
    /\ UNCHANGED <<handlerVars, healthVars, treeVars, branchVars,
                   processVars, remote, netVars, owed>>

Forced == TRUE                                                   \* mutant: --force
\* git push without --force.
FastForward == synced = Len(remote)

\* err != nil: m.mu.Unlock(); the failure is counted after it.
FailPush ==
    /\ mu' = Free
    /\ pl' = "failed"
    /\ UNCHANGED <<dirty, healthVars>>

\* Mutant: the branch counts as published though the remote took nothing.
PublishNothing ==
    /\ synced' = Len(remote) + Len(pending)
    /\ pending' = <<>>
    /\ owed' = owed \ Ids(pending)
    /\ UNCHANGED <<remote, rebase>>

\* Mutant: the pushed commits stay pending and are pushed again.
PublishAgain ==
    /\ remote' = remote \o pending
    /\ synced' = Len(remote')
    /\ owed' = owed \ Ids(pending)
    /\ UNCHANGED <<pending, rebase>>

\* The remote branch becomes the local branch.
Publish ==
    /\ remote' = SubSeq(remote, 1, synced) \o pending
    /\ synced' = Len(remote')
    /\ pending' = <<>>
    /\ owed' = owed \ Ids(pending)
    /\ UNCHANGED rebase

\* m.mu.Unlock(); the success is stored after it.
Push ==
    /\ pl \in {"push", "retry"}
    /\ reachable
    /\ FastForward
    /\ Publish
    /\ mu' = Free
    /\ pl' = "pushed"
    /\ UNCHANGED <<handlerVars, dirty, healthVars, treeVars, processVars, netVars>>

\* The remote took the commits and the answer got lost.
PushAnswerLost ==
    /\ pl \in {"push", "retry"}
    /\ reachable
    /\ FastForward
    /\ pending # <<>>
    /\ Publish
    /\ FailPush
    /\ UNCHANGED <<handlerVars, treeVars, processVars, netVars>>

\* "rejected": the remote has commits the local branch has not.  The first
\* time the loop rebases, the second time it gives up.
PushRejected ==
    /\ pl \in {"push", "retry"}
    /\ reachable
    /\ ~FastForward
    /\ IF pl = "push"
       THEN pl' = "pull" /\ UNCHANGED <<mu, dirty, healthVars>>
       ELSE FailPush
    /\ UNCHANGED <<handlerVars, treeVars, branchVars, processVars, remote,
                   netVars, owed>>

PushUnreachable ==
    /\ pl \in {"push", "retry", "pull"}
    /\ ~reachable
    /\ FailPush
    /\ UNCHANGED <<handlerVars, treeVars, branchVars, processVars, remote,
                   netVars, owed>>

\* git pull --rebase starts only from a clean state, and does not overwrite an
\* untracked file.
CanPull ==
    /\ ~rebase.inProgress
    /\ ~indexLock
    /\ index = HeadTree
    /\ \A p \in Pages : \/ work[p] = index[p]
                        \/ Untracked(p) /\ RemoteTree(Len(remote))[p] = Absent

PullRefused ==
    /\ pl = "pull"
    /\ reachable
    /\ ~CanPull
    /\ FailPush
    /\ UNCHANGED <<handlerVars, treeVars, branchVars, processVars, remote,
                   netVars, owed>>

\* HEAD is detached at the fetched tip.
Pull ==
    /\ pl = "pull"
    /\ reachable
    /\ CanPull
    /\ rebase' = [NoRebase EXCEPT !.inProgress = TRUE, !.detached = TRUE,
                                  !.onto = Len(remote)]
    /\ index' = RemoteTree(Len(remote))
    /\ work' = [p \in Pages |-> IF Untracked(p) THEN work[p]
                                ELSE RemoteTree(Len(remote))[p]]
    /\ pl' = "pick"
    /\ UNCHANGED <<handlerVars, mu, dirty, healthVars, indexLock,
                   synced, pending, processVars, remote, netVars, owed>>

\* Git takes a page part by part, each from the side that changed it.  A page
\* that one side removed or both added has no parts to take.
Collide(base, ours, theirs) ==
    /\ ours # base /\ theirs # base /\ ours # theirs
    /\ \/ Absent \in {base, ours, theirs}
       \/ \E x \in Parts : ours[x] # base[x] /\ theirs[x] # base[x] /\ ours[x] # theirs[x]
Merge(base, ours, theirs) ==
    IF Absent \in {base, ours, theirs} THEN ours
    ELSE [x \in Parts |-> IF ours[x] # base[x] THEN ours[x] ELSE theirs[x]]

\* The commit to replay, what it changed, and what of it does not apply: a page
\* where its lines and those of HEAD collide, or one an untracked file is in the
\* way of.
Todo == pending[rebase.done + 1]
Parent == Tip(synced, SubSeq(pending, 1, rebase.done))
Changed == {p \in Pages : Todo.tree[p] # Parent[p]}
Conflicts == {p \in Changed : \/ Collide(Parent[p], Todo.tree[p], HeadTree[p])
                              \/ Untracked(p) /\ Todo.tree[p] # HeadTree[p]}

WholeTree == Todo.tree                                           \* mutant
\* The change of the commit, not its whole tree, is applied to HEAD.
ReplayedTree == [p \in Pages |->
    IF p \in Changed THEN Merge(Parent[p], Todo.tree[p], HeadTree[p]) ELSE HeadTree[p]]

\* A commit whose change is upstream already is dropped; one that was empty
\* from the start is kept.
Pick ==
    /\ pl = "pick"
    /\ rebase.done < Len(pending)
    /\ Conflicts = {}
    /\ LET t == ReplayedTree
           upstream == Changed # {} /\ t = HeadTree
       IN /\ rebase' = [rebase EXCEPT
                !.done = @ + 1,
                !.replayed = IF upstream THEN @
                             ELSE Append(@, [id |-> Todo.id, tree |-> t])]
          /\ owed' = IF upstream THEN owed \ {Todo.id} ELSE owed
          /\ index' = t
          /\ work' = Overlay(work, Changed, t)
    /\ UNCHANGED <<handlerVars, mu, loopVars, indexLock, synced, pending,
                   processVars, remote, netVars>>

\* Mutant: `git rebase --skip`.
SkipConflict ==
    /\ pl = "pick"
    /\ rebase.done < Len(pending)
    /\ Conflicts # {}
    /\ rebase' = [rebase EXCEPT !.done = @ + 1]
    /\ UNCHANGED <<handlerVars, mu, loopVars, treeVars, synced, pending,
                   processVars, remote, netVars, owed>>

\* The rebase stops: what applies is staged, the rest is unmerged, HEAD stays
\* detached.  pushLoop does not run `git rebase --abort`.  (The conflict
\* markers in an unmerged page are not modelled: git refuses to commit before
\* the page is staged anew.)
PickConflict ==
    /\ pl = "pick"
    /\ rebase.done < Len(pending)
    /\ Conflicts # {}
    /\ rebase' = [rebase EXCEPT !.unmerged = Conflicts]
    /\ index' = ReplayedTree
    /\ work' = Overlay(work, Changed, ReplayedTree)
    /\ FailPush
    /\ UNCHANGED <<handlerVars, indexLock, synced, pending, processVars, remote,
                   netVars, owed>>

\* All replayed: the branch moves to the detached HEAD and is pushed again.
PullDone ==
    /\ pl = "pick"
    /\ rebase.done = Len(pending)
    /\ synced' = rebase.onto
    /\ pending' = rebase.replayed
    /\ rebase' = NoRebase
    /\ pl' = "retry"
    /\ UNCHANGED <<handlerVars, mu, dirty, healthVars, treeVars,
                   processVars, remote, netVars, owed>>

LoopGoesOn(next) ==
    /\ pl' = next
    /\ UNCHANGED <<handlerVars, mu, dirty, sawFailures, treeVars, branchVars,
                   processVars, remote, netVars, owed>>

\* Mutant: the counter is reset first.
ForgiveFirst ==
    /\ pl = "pushed"
    /\ consecPushFail' = 0
    /\ LoopGoesOn("stamped")
    /\ UNCHANGED stale

\* lastPushOKUnix.Store(now), not under mu.
StampPush ==
    /\ pl = "pushed"
    /\ stale' = FALSE
    /\ LoopGoesOn("stamped")
    /\ UNCHANGED consecPushFail

\* consecPushFail.Store(0), not under mu.
ForgiveFailures ==
    /\ pl = "stamped"
    /\ consecPushFail' = 0
    /\ LoopGoesOn("check")
    /\ UNCHANGED stale

\* Mutant: the failure is logged, not counted.
LogFailure ==
    /\ pl = "failed"
    /\ LoopGoesOn("counted")
    /\ UNCHANGED <<consecPushFail, stale>>

\* consecPushFail.Add(1), not under mu.
CountFailure ==
    /\ pl = "failed"
    /\ consecPushFail' = IF consecPushFail < MaxFails THEN consecPushFail + 1
                                                      ELSE consecPushFail
    /\ LoopGoesOn("counted")
    /\ UNCHANGED stale

\* Mutant: a failed push is forgotten.
LeaveClean ==
    /\ pl = "counted"
    /\ mu = Free
    /\ LoopGoesOn("cooloff")
    /\ UNCHANGED <<consecPushFail, stale>>

\* A failed push leaves work to do: dirty again, then the 30 s cool-off.
MarkDirty ==
    /\ pl = "counted"
    /\ mu = Free
    /\ dirty' = TRUE
    /\ pl' = "cooloff"
    /\ UNCHANGED <<handlerVars, mu, healthVars, treeVars, branchVars, processVars,
                   remote, netVars, owed>>

CooledOff ==
    /\ pl = "cooloff"
    /\ mu = Free
    /\ pl' = "check"
    /\ UNCHANGED <<handlerVars, mu, dirty, healthVars, treeVars,
                   branchVars, processVars, remote, netVars, owed>>

LoopTakesMu == CheckDirty \/ StartPush \/ MarkDirty \/ CooledOff
LoopStores == StampPush \/ ForgiveFailures \/ CountFailure
LoopRunsGit == \/ Push \/ PushAnswerLost \/ PushRejected \/ PushUnreachable
               \/ PullRefused \/ Pull \/ Pick \/ PickConflict \/ PullDone

\* handleHealth: it reads the counter, then the time.  Without failures it answers
\* 200 whatever the time; with failures it answers 503 if the push is stale.
Healthy == ~(consecPushFail > 0 /\ stale)

ReadFailures(h) ==
    /\ up /\ h \notin sawFailures
    /\ consecPushFail > 0
    /\ sawFailures' = sawFailures \cup {h}
    /\ UNCHANGED <<handlerVars, mu, dirty, pl, consecPushFail, stale, treeVars,
                   branchVars, processVars, remote, netVars, owed>>

ReadAge(h) ==
    /\ h \in sawFailures
    /\ sawFailures' = sawFailures \ {h}
    /\ UNCHANGED <<handlerVars, mu, dirty, pl, consecPushFail, stale, treeVars,
                   branchVars, processVars, remote, netVars, owed>>

handleHealth == \E h \in Probes : ReadFailures(h) \/ ReadAge(h)

-----------------------------------------------------------------------------
(* The remote, time, and the life of the container                         *)

\* Another tool (scripts/git-mirror-backfill.py, an operator) pushes a commit.
ForeignPush(f) ==
    /\ f \notin Ids(remote)
    /\ \E p \in Pages, v \in Contents \cup {Absent} :
        LET t == [RemoteTree(Len(remote)) EXCEPT ![p] = v] IN
        remote' = Append(remote, [id |-> f, tree |-> t])
    /\ UNCHANGED <<handlerVars, mu, loopVars, treeVars, branchVars, processVars,
                   netVars, owed>>

Outage ==
    /\ reachable
    /\ outages < MaxOutages
    /\ reachable' = FALSE
    /\ outages' = outages + 1
    /\ UNCHANGED <<handlerVars, mu, loopVars, treeVars, branchVars, processVars,
                   remote, owed>>

Recovery ==
    /\ ~reachable
    /\ reachable' = TRUE
    /\ UNCHANGED <<handlerVars, mu, loopVars, treeVars, branchVars, processVars,
                   remote, outages, owed>>

\* staleFailThreshold (15 minutes) passes without a successful push.  No probe is
\* under way for so long, nor is the loop between its two stores.
Age ==
    /\ up
    /\ ~stale
    /\ pl # "stamped"
    /\ stale' = TRUE
    /\ sawFailures' = {}
    /\ UNCHANGED <<handlerVars, mu, dirty, pl, consecPushFail, treeVars, branchVars,
                   processVars, remote, netVars, owed>>

\* git holds index.lock while it runs one of these.
IndexOpRunning == pl = "pick" \/ \E r \in Requests : pc[r] \in {"stage", "commit"}

\* The process dies (OOM kill, node failure, shutdown: main ends without a last
\* push) and its memory with it.  The emptyDir survives a container restart,
\* not the deletion of the pod.
Crash ==
    /\ up
    /\ crashes < MaxCrashes
    /\ crashes' = crashes + 1
    /\ up' = FALSE
    /\ cloned' \in {TRUE, FALSE}
    /\ indexLock' \in {indexLock, indexLock \/ IndexOpRunning}
    /\ pc' = [r \in Requests |-> IF pc[r] \in InFlight THEN "error" ELSE pc[r]]
    /\ cancelled' = {}
    /\ mu' = Free
    /\ dirty' = FALSE
    /\ pl' = "down"
    /\ consecPushFail' = 0
    /\ stale' = FALSE
    /\ sawFailures' = {}
    /\ owed' = {}
    /\ UNCHANGED <<req, skipped, work, index, branchVars, remote, netVars>>

\* main starts the goroutines and serves.
Serve ==
    /\ up' = TRUE
    /\ cloned' = TRUE
    /\ pl' = "check"
    /\ UNCHANGED <<handlerVars, mu, dirty, healthVars, crashes, remote,
                   netVars, owed>>

\* The work tree and the index become the tree of the remote's tip; untracked
\* files the tip does not have stay.
ResetHard(keep) ==
    LET t == RemoteTree(Len(remote)) IN
    /\ index' = t
    /\ work' = [p \in Pages |-> IF p \in keep /\ t[p] = Absent THEN work[p] ELSE t[p]]

\* bootstrap without a .git: clone, or init and add the origin when the remote
\* does not answer.
Clone ==
    /\ ~up
    /\ ~cloned
    /\ IF reachable
       THEN synced' = Len(remote) /\ ResetHard({})
       ELSE synced' = 0 /\ index' = Empty /\ work' = Empty
    /\ pending' = <<>>
    /\ rebase' = NoRebase
    /\ indexLock' = FALSE
    /\ Serve

\* bootstrap over an existing .git when `git fetch origin <branch>` fails, or
\* when it succeeds and an index.lock makes both checkout and reset fail: their
\* errors are ignored.
KeepClone ==
    /\ ~up
    /\ cloned
    /\ ~reachable \/ remote = <<>> \/ indexLock
    /\ UNCHANGED <<treeVars, branchVars>>
    /\ Serve

\* `git checkout <branch>` leaves a stopped rebase only when it loses nothing.
CanCheckout ==
    \/ ~rebase.detached
    \/ /\ rebase.unmerged = {}
       /\ \A p \in Pages : HeadTree[p] = BranchTree[p]
                           \/ (work[p] = HeadTree[p] /\ index[p] = HeadTree[p])

\* fetch, checkout, `git reset --hard origin/<branch>`.  A checkout that fails
\* leaves HEAD detached, and the reset moves that HEAD, not the branch.
ResetClone ==
    /\ ~up
    /\ cloned
    /\ reachable
    /\ remote # <<>>
    /\ ~indexLock
    /\ ResetHard({p \in Pages : Untracked(p)})
    /\ IF CanCheckout
       THEN /\ synced' = Len(remote)
            /\ pending' = <<>>
            /\ rebase' = [NoRebase EXCEPT !.inProgress = rebase.inProgress]
       ELSE /\ rebase' = [rebase EXCEPT !.onto = Len(remote), !.replayed = <<>>,
                                        !.unmerged = {}]
            /\ UNCHANGED <<synced, pending>>
    /\ UNCHANGED indexLock
    /\ Serve

Bootstrap == Clone \/ KeepClone \/ ResetClone

-----------------------------------------------------------------------------

Next ==
    \/ \E r \in Requests : Receive(r) \/ Cancel(r) \/ Handler(r)
    \/ LoopTakesMu \/ LoopRunsGit \/ LoopStores
    \/ handleHealth
    \/ \E f \in Foreign : ForeignPush(f)
    \/ Outage \/ Recovery \/ Age
    \/ Crash \/ Bootstrap

Spec == Init /\ [][Next]_vars

\* Go's mutex hands itself over to a waiter that starves, so whoever asks for
\* mu again and again gets it; every git command ends; a dead container is
\* restarted; outages end and time passes.
Fairness ==
    /\ \A r \in Requests : SF_vars(Lock(r)) /\ WF_vars(Handler(r))
    /\ SF_vars(LoopTakesMu)
    /\ WF_vars(LoopRunsGit \/ LoopStores)
    /\ WF_vars(Recovery)
    /\ WF_vars(Age)
    /\ WF_vars(Bootstrap)

FairSpec == Spec /\ Fairness

-----------------------------------------------------------------------------
(* Properties                                                              *)

\* clearStaleIndexLock is safe, and enough, because every git command runs
\* under mu: whoever is between Lock and Unlock is alone, and no handler's git
\* meets an index.lock.
LockDiscipline ==
    /\ \A r \in Requests : pc[r] \in HoldsMu <=> mu = r
    /\ pl \in LoopHoldsMu <=> mu = PushLoop
    /\ \A r \in Requests : pc[r] \in HoldsMu => ~indexLock

\* No commit is forgotten and no wake-up lost: as long as an acknowledged
\* change is not on the remote, dirty is set or the loop is between clearing it
\* and setting it again, and the loop does not sleep.
OwedIsScheduled ==
    owed # {} => /\ pl # "parked"
                 /\ dirty \/ pl \in LoopHoldsMu \cup {"failed", "counted"}

\* While the process lives, an acknowledged change is on the remote or in a
\* commit of the local repository: no rebase, retry or failed push drops it.
OwedIsCommitted == owed \subseteq Ids(pending) \cup Ids(rebase.replayed)

\* A push whose answer got lost, and a rebase, publish no change twice.
PublishedOnce ==
    \A i, j \in DOMAIN remote : remote[i].id = remote[j].id => i = j

\* handleHealth's comment: 503 "only when there is a LIVE push-failure backlog".  A
\* request about to answer 503, though it reads two variables at two times and outside
\* of mu, says what is so at that moment: pushes are failing, and a push is due or under
\* way, or has just succeeded and is not recorded yet.
FailuresAreLive ==
    sawFailures # {} /\ stale =>
        /\ ~Healthy
        /\ dirty \/ pl \in LoopHoldsMu \cup {"failed", "counted", "pushed"}

\* A 204 for a page write, a delete or a purge means that HEAD has the change;
\* any other 204 is counted.
AckMeansCommitted ==
    [][\A r \in Requests : pc[r] # "ok" /\ pc'[r] = "ok" =>
        IF Mutates(req'[r])
        THEN \A p \in req[r].pages : HeadTree'[p] = req[r].value
        ELSE r \in skipped']_vars

\* The mirror publishes only what some notify asked for: of a page that a push
\* changes, each part that changes becomes as some request had it.  (Not the page:
\* git merges the parts of two writers into one that neither wrote.)  What another
\* tool pushed is not reverted.
PublishesOnlyNotifies ==
    [][\A p \in Pages, x \in Parts :
        LET before == Part(RemoteTree(Len(remote))[p], x)
            after == Part(RemoteTree(Len(remote))'[p], x)
        IN before # after =>
            \/ \E f \in Foreign : f \in Ids(remote') \ Ids(remote)
            \/ \E r \in Requests : p \in req[r].pages /\ Part(req[r].value, x) = after]_remote

\* The mirror keeps the promise of BackupLog.
Log == INSTANCE BackupLog WITH Changes <- Requests, NoWant <- NoInput, NoPage <- Absent,
                               log <- remote, want <- req
KeepsBackupLog == Log!Spec

\* bootstrap's comment on a clone that is there already: "Try to fast-forward"
\* (main.go:155).  A fast-forward keeps the commits that are not pushed yet.
\* Refuted: see the README.
RestartKeepsCommits ==
    [][~up /\ cloned /\ up' => Ids(pending) \subseteq Ids(pending') \cup Ids(remote)]_vars

\* The remote has moved and `git pull --rebase` refuses to start.
Stuck == ~FastForward /\ ~CanPull

\* With outages that end, a change that is never published is stuck behind a
\* pull that never succeeds; every other one reaches the remote.
PublishedUnlessStuck ==
    \A r \in Requests : <>[](r \in owed) => <>[]Stuck

\* A change that is never published makes /healthz fail, and it stays failed.
StuckIsReported ==
    \A r \in Requests : <>[](r \in owed) => <>[](~Healthy)

\* pushLoop's comment on the rebase (main.go:564-569): the remote having moved
\* ahead heals itself, the loop does not "spin-reject forever".  Refuted: see
\* the README.
SelfHeals == \A r \in Requests : r \in owed ~> r \notin owed

=============================================================================
