---------------------------- MODULE MirrorReconcile ----------------------------
(***************************************************************************)
(* images/git-mirror, reconcile: every reconcileInterval the mirror asks   *)
(* the engine for its projects and removes the directories of all others   *)
(* from the backup.  The inventory and the directories are read before mu  *)
(* is taken, so the engine and the webhook handlers move on in between.    *)
(*                                                                         *)
(* A handler holds mu from before its first write to the work tree until   *)
(* it answers, so at most one is past the lock; the others are the         *)
(* notifies still to be taken.  How it pushes is GitMirror's: here a push  *)
(* makes the backup what HEAD is.                                          *)
(***************************************************************************)
EXTENDS Naturals

CONSTANTS
    Projects,
    Names,            \* names of pages within a project
    Free, Sync, Rec,  \* holders of mu: nobody, a handler, reconcile
    NoNotify,
    Written,          \* bound: the pages that the engine writes, <<project, name>>
    MaxEngineOps,     \* bound: writes and purges in the engine
    MaxFaults         \* bound: failed git commands of reconcile, restarts

ASSUME ReconcileAssumption ==
    /\ Free # Sync /\ Free # Rec /\ Sync # Rec
    /\ MaxEngineOps \in Nat
    /\ MaxFaults \in Nat

VARIABLES
    live,       \* projects the engine has
    notifies,   \* notifies on their way to the mirror
    ops,        \* writes and purges so far
    mu,         \* holder of the mutex
    job,        \* the notify the handler that holds mu works on
    step,       \* where that handler is
    files,      \* pages in the work tree
    index,      \* pages in the git index
    head,       \* pages in HEAD
    remote,     \* pages in the backup
    rpc,        \* where reconcile is
    inventory,  \* the projects the engine answered with
    orphans,    \* directories reconcile has still to remove
    removed,    \* some git rm has succeeded in this pass
    faults,
    purged,     \* history: projects the engine has ever purged
    unknown     \* history: projects it did not have when it was last asked, or
                \* asked by a pass whose removals are not in the backup yet

engineVars == <<live, notifies, ops, purged>>
handlerVars == <<job, step>>
treeVars == <<files, index, head, remote>>
recVars == <<rpc, inventory, orphans, removed, unknown>>
vars == <<engineVars, mu, handlerVars, treeVars, recVars, faults>>

-----------------------------------------------------------------------------

Pages == Projects \X Names
PagesOf(p) == {p} \X Names

Notifies == [op : {"write_page"}, project : Projects, name : Names]
            \cup [op : {"purge_project"}, project : Projects]

TypeOK ==
    /\ live \in SUBSET Projects
    /\ notifies \in SUBSET Notifies
    /\ ops \in 0..MaxEngineOps
    /\ mu \in {Free, Sync, Rec}
    /\ job \in Notifies \cup {NoNotify}
    /\ step \in {"idle", "file", "stage", "commit"}
    /\ files \in SUBSET Pages
    /\ index \in SUBSET Pages
    /\ head \in SUBSET Pages
    /\ remote \in SUBSET Pages
    /\ rpc \in {"idle", "scan", "lock", "remove"}
    /\ inventory \in SUBSET Projects
    /\ orphans \in SUBSET Projects
    /\ removed \in BOOLEAN
    /\ faults \in 0..MaxFaults
    /\ purged \in SUBSET Projects
    /\ unknown \in SUBSET Projects

\* The backup is empty, so is the engine.
Init ==
    /\ live = {} /\ notifies = {} /\ ops = 0 /\ purged = {}
    /\ mu = Free /\ job = NoNotify /\ step = "idle"
    /\ files = {} /\ index = {} /\ head = {} /\ remote = {}
    /\ rpc = "idle" /\ inventory = {} /\ orphans = {} /\ removed = FALSE
    /\ unknown = {}
    /\ faults = 0

-----------------------------------------------------------------------------
(* The engine                                                              *)

\* A write creates the project it names.
EngineWrites(p, n) ==
    /\ <<p, n>> \in Written
    /\ ops < MaxEngineOps
    /\ ops' = ops + 1
    /\ live' = live \cup {p}
    /\ notifies' = notifies \cup {[op |-> "write_page", project |-> p, name |-> n]}
    /\ UNCHANGED <<purged, mu, handlerVars, treeVars, recVars, faults>>

\* Through the admission chain, or past it: a purge of the CLI on the data
\* directory, or a direct operation on the database.
EnginePurges(p) ==
    /\ p \in live
    /\ ops < MaxEngineOps
    /\ ops' = ops + 1
    /\ live' = live \ {p}
    /\ notifies' \in {notifies,
            notifies \cup {[op |-> "purge_project", project |-> p]}}
    /\ purged' = purged \cup {p}
    /\ UNCHANGED <<mu, handlerVars, treeVars, recVars, faults>>

\* Nobody repeats a notify that failed.
Lose(m) ==
    /\ m \in notifies
    /\ notifies' = notifies \ {m}
    /\ UNCHANGED <<live, ops, purged, mu, handlerVars, treeVars, recVars, faults>>

-----------------------------------------------------------------------------
(* writePage, purgeProject                                                 *)

\* Notifies are taken in any order.
Take(m) ==
    /\ mu = Free
    /\ m \in notifies
    /\ notifies' = notifies \ {m}
    /\ mu' = Sync
    /\ job' = m
    /\ step' = IF m.op = "write_page" THEN "file" ELSE "stage"
    /\ UNCHANGED <<live, ops, purged, treeVars, recVars, faults>>

Release == mu' = Free /\ job' = NoNotify /\ step' = "idle"

WriteFile ==
    /\ step = "file"
    /\ files' = files \cup {<<job.project, job.name>>}
    /\ step' = "stage"
    /\ UNCHANGED <<engineVars, mu, job, index, head, remote, recVars, faults>>

Stage ==
    /\ step = "stage"
    /\ IF job.op = "write_page"
       THEN /\ index' = index \cup {<<job.project, job.name>>}
            /\ UNCHANGED files
       ELSE /\ index' = index \ PagesOf(job.project)
            /\ files' = files \ (index \cap PagesOf(job.project))
    /\ step' = "commit"
    /\ UNCHANGED <<engineVars, mu, job, head, remote, recVars, faults>>

Commit ==
    /\ step = "commit"
    /\ head' = index
    /\ Release
    /\ UNCHANGED <<engineVars, files, index, remote, recVars, faults>>

\* The request is cancelled: git is killed, or not started, and what was done
\* so far stays; `git rm` may have deleted some of the files.
Abort ==
    /\ step \in {"stage", "commit"}
    /\ \E gone \in SUBSET (files \cap index) :
        /\ gone # {} => /\ step = "stage" /\ job.op = "purge_project"
                        /\ gone \subseteq PagesOf(job.project)
        /\ files' = files \ gone
    /\ Release
    /\ UNCHANGED <<engineVars, index, head, remote, recVars, faults>>

Handler == WriteFile \/ Stage \/ Commit \/ Abort

-----------------------------------------------------------------------------
(* reconcile                                                               *)

EndPass ==
    /\ rpc' = "idle"
    /\ inventory' = {}
    /\ orphans' = {}
    /\ removed' = FALSE

AnyInventory(answer) == TRUE                                     \* mutant
\* An engine that knows no project is freshly restored or misconfigured.
Trusted(answer) == answer # {}

\* A page of p is gone from the index or from HEAD and not yet from the backup.
RemovalPending(p) == PagesOf(p) \cap ((head \ index) \cup (remote \ head)) # {}

\* fetchLiveProjects.  An engine that cannot be reached ends the pass.
Fetch(answer) ==
    /\ rpc = "idle"
    /\ Trusted(answer)
    /\ rpc' = "scan"
    /\ inventory' = answer
    /\ unknown' = (Projects \ live) \cup {p \in unknown : RemovalPending(p)}
    /\ UNCHANGED <<engineVars, mu, handlerVars, treeVars, orphans, removed, faults>>

\* Mutant: paths of files.
OrphanFiles == {pg \in files : pg[1] \notin inventory}
\* findOrphans: the directories of the work tree, without mu.
FindOrphans == {pg[1] : pg \in files} \ inventory

Scan ==
    /\ rpc = "scan"
    /\ IF FindOrphans = {}
       THEN EndPass
       ELSE /\ rpc' = "lock"
            /\ orphans' = FindOrphans
            /\ UNCHANGED <<inventory, removed>>
    /\ UNCHANGED <<engineVars, mu, handlerVars, treeVars, unknown, faults>>

LockMu ==
    /\ rpc = "lock"
    /\ mu = Free
    /\ mu' = Rec
    /\ rpc' = "remove"
    /\ UNCHANGED <<engineVars, handlerVars, treeVars, inventory, orphans, removed,
                   unknown, faults>>

NotRecursive(p) == {}                                            \* mutant
\* `git rm -rf --ignore-unmatch`
Tracked(p) == index \cap PagesOf(p)

Remove(p) ==
    /\ rpc = "remove"
    /\ p \in orphans
    /\ orphans' = orphans \ {p}
    /\ index' = index \ Tracked(p)
    /\ files' = files \ Tracked(p)
    /\ removed' = TRUE
    /\ UNCHANGED <<engineVars, mu, handlerVars, head, remote, rpc, inventory, unknown,
                   faults>>

\* git fails: the next directory.
RemoveFails(p) ==
    /\ rpc = "remove"
    /\ p \in orphans
    /\ faults < MaxFaults
    /\ faults' = faults + 1
    /\ orphans' = orphans \ {p}
    /\ UNCHANGED <<engineVars, mu, handlerVars, treeVars, rpc, inventory, removed,
                   unknown>>

\* commitDirty records the whole index, whoever staged it.
CommitRemoved ==
    /\ rpc = "remove"
    /\ orphans = {}
    /\ head' = IF removed THEN index ELSE head
    /\ mu' = Free
    /\ EndPass
    /\ UNCHANGED <<engineVars, handlerVars, files, index, remote, unknown, faults>>

\* git fails: what is staged stays staged.
CommitFails ==
    /\ rpc = "remove"
    /\ orphans = {}
    /\ removed
    /\ faults < MaxFaults
    /\ faults' = faults + 1
    /\ mu' = Free
    /\ EndPass
    /\ UNCHANGED <<engineVars, handlerVars, treeVars, unknown>>

-----------------------------------------------------------------------------
(* pushLoop, bootstrap                                                     *)

\* Some time after a commit.
Push ==
    /\ mu = Free
    /\ remote # head
    /\ remote' = head
    /\ UNCHANGED <<engineVars, mu, handlerVars, files, index, head, recVars, faults>>

\* The process dies in the middle of whatever it does.  bootstrap goes back to the
\* backup (reset --hard, or a new clone), and what was not pushed is lost; or it keeps
\* the work tree, when the remote does not answer.
Restart ==
    /\ faults < MaxFaults
    /\ faults' = faults + 1
    /\ Release
    /\ EndPass
    /\ \/ UNCHANGED treeVars
       \/ /\ head' = remote
          /\ index' = remote
          /\ files' \in {remote, remote \cup (files \ index)}
          /\ UNCHANGED remote
    /\ UNCHANGED <<engineVars, unknown>>

-----------------------------------------------------------------------------

Engine == \/ \E p \in Projects, n \in Names : EngineWrites(p, n)
          \/ \E p \in Projects : EnginePurges(p)
          \/ \E m \in notifies : Lose(m)

UnderLock == (\E p \in orphans : Remove(p)) \/ CommitRemoved

Next ==
    \/ Engine
    \/ \E m \in notifies : Take(m)
    \/ Handler
    \/ \E answer \in {live, {}} : Fetch(answer)
    \/ Scan \/ LockMu \/ UnderLock
    \/ \E p \in orphans : RemoveFails(p)
    \/ CommitFails \/ Push \/ Restart

Spec == Init /\ [][Next]_vars

\* The loop runs for ever and the engine answers it; git commands end; Go's
\* mutex does not starve who waits for it.
Fairness ==
    /\ WF_vars(Handler)
    /\ SF_vars(Fetch(live))
    /\ WF_vars(Scan)
    /\ SF_vars(LockMu)
    /\ WF_vars(UnderLock)

FairSpec == Spec /\ Fairness

-----------------------------------------------------------------------------
(* Properties                                                              *)

\* What leaves the backup belongs to a project that was purged some time, or
\* that the engine did not have when reconcile last asked (or asked in a pass
\* whose removals were not published): leftovers of cancelled requests, failed
\* commands, resets and an engine that lists nothing cost no other project a page.
KeepsKnownProjects ==
    [][\A pg \in remote \ remote' : pg[1] \in purged \cup unknown]_remote

\* What reconcile is for (values.yaml: "prune any backup dir whose project no
\* longer exists"): the tracked pages of a project that stays purged go away,
\* whatever the notifies, as long as the engine has some other project.  (Of
\* pages whose file is gone already, or whose removal is staged but not
\* committed, nothing is promised: their directory is not there to be found.)
OrphansGo ==
    \A p \in Projects :
        <>[](p \notin live /\ live # {}) => <>[](PagesOf(p) \cap files \cap index = {})

\* reconcile's comment: it "prunes backup project directories the engine no
\* longer knows about (orphans from purges ...)" (main.go:797-798).  So a
\* project that was never purged keeps its pages.  Refuted: see the README.
PrunesOnlyPurged == [][\A pg \in remote \ remote' : pg[1] \in purged]_remote

=============================================================================
