------------------------ MODULE MirrorReconcileProofs ------------------------
(* Theorems about MirrorReconcile, for every value of its constants.       *)
EXTENDS MirrorReconcile, TLAPS

-----------------------------------------------------------------------------
(* The inductive invariant                                                 *)

\* mu is held by the handler or the pass that is past the lock.
LockInv ==
    /\ mu = Sync <=> step # "idle"
    /\ mu = Rec <=> rpc = "remove"

\* Only what was purged is told to be purged.
ToldInv ==
    /\ \A m \in notifies : m.op = "purge_project" => m.project \in purged
    /\ step # "idle" => job \in Notifies
    /\ step = "file" => job.op = "write_page"
    /\ step # "idle" /\ job.op = "purge_project" => job.project \in purged

\* What reconcile is about to remove the engine did not have.
OrphanInv ==
    /\ rpc = "scan" => Projects \ inventory \subseteq unknown
    /\ orphans \subseteq unknown
    /\ rpc \in {"idle", "scan"} => orphans = {}

\* Nor what anybody has removed and not committed, or committed and not pushed,
\* unless it was purged.
StagedInv ==
    \A pg \in (head \ index) \cup (remote \ head) : pg[1] \in purged \cup unknown

IInv == TypeOK /\ LockInv /\ ToldInv /\ OrphanInv /\ StagedInv

LEMMA PageShape ==
    /\ \A pg \in Pages : pg[1] \in Projects
    /\ \A p \in Projects, n \in Names : <<p, n>> \in Pages
    /\ \A p \in Projects : \A pg \in PagesOf(p) : pg \in Pages /\ pg[1] = p
  BY DEF Pages, PagesOf

LEMMA NotifyShape ==
    /\ \A m \in Notifies : /\ m.project \in Projects
                           /\ m.op \in {"write_page", "purge_project"}
                           /\ m.op = "write_page" => m.name \in Names
    /\ \A p \in Projects : [op |-> "purge_project", project |-> p] \in Notifies
    /\ \A p \in Projects, n \in Names :
          [op |-> "write_page", project |-> p, name |-> n] \in Notifies
  BY DEF Notifies

-----------------------------------------------------------------------------
(* The engine                                                              *)

LEMMA EngineStep == IInv /\ Engine => IInv'
<1> SUFFICES ASSUME IInv, Engine
             PROVE  IInv'
  OBVIOUS
<1>1. ASSUME NEW p \in Projects, NEW n \in Names, EngineWrites(p, n)
      PROVE  IInv'
  <2>1. ops' \in 0..MaxEngineOps
    BY <1>1, ReconcileAssumption DEF EngineWrites, IInv, TypeOK
  <2>2. QED
    BY <1>1, <2>1, NotifyShape
       DEF EngineWrites, handlerVars, treeVars, recVars, IInv, TypeOK, LockInv, ToldInv,
           OrphanInv, StagedInv
<1>2. ASSUME NEW p \in Projects, EnginePurges(p)
      PROVE  IInv'
  <2>1. ops' \in 0..MaxEngineOps
    BY <1>2, ReconcileAssumption DEF EnginePurges, IInv, TypeOK
  <2>2. QED
    BY <1>2, <2>1, NotifyShape
       DEF EnginePurges, handlerVars, treeVars, recVars, IInv, TypeOK, LockInv, ToldInv,
           OrphanInv, StagedInv
<1>3. ASSUME NEW m \in notifies, Lose(m)
      PROVE  IInv'
  BY <1>3 DEF Lose, handlerVars, treeVars, recVars, IInv, TypeOK, LockInv, ToldInv,
              OrphanInv, StagedInv
<1>4. QED
  BY <1>1, <1>2, <1>3 DEF Engine

-----------------------------------------------------------------------------
(* The handlers                                                            *)

LEMMA TakeStep == ASSUME IInv, NEW m \in notifies, Take(m) PROVE IInv'
<1>1. m \in Notifies /\ m.op \in {"write_page", "purge_project"}
  BY NotifyShape DEF IInv, TypeOK
<1>2. QED
  BY <1>1, ReconcileAssumption
     DEF Take, treeVars, recVars, IInv, TypeOK, LockInv, ToldInv, OrphanInv, StagedInv

LEMMA HandlerStep == IInv /\ Handler => IInv'
<1> SUFFICES ASSUME IInv, Handler
             PROVE  IInv'
  OBVIOUS
<1>1. CASE WriteFile
  <2>1. <<job.project, job.name>> \in Pages
    BY <1>1, NotifyShape, PageShape DEF WriteFile, IInv, ToldInv
  <2>2. QED
    BY <1>1, <2>1 DEF WriteFile, engineVars, recVars, IInv, TypeOK, LockInv, ToldInv,
                      OrphanInv, StagedInv
<1>2. CASE Stage
  <2>1. job \in Notifies /\ job.project \in Projects
    BY <1>2, NotifyShape DEF Stage, IInv, ToldInv
  <2>2. CASE job.op = "write_page"
    <3>1. <<job.project, job.name>> \in Pages
      BY <2>1, <2>2, NotifyShape, PageShape
    <3>2. QED
      BY <1>2, <2>1, <2>2, <3>1
         DEF Stage, engineVars, recVars, IInv, TypeOK, LockInv, ToldInv, OrphanInv, StagedInv
  <2>3. CASE job.op # "write_page"
    <3>1. job.project \in purged
      BY <1>2, <2>1, <2>3, NotifyShape DEF Stage, IInv, ToldInv
    <3>2. \A pg \in PagesOf(job.project) : pg[1] \in purged
      BY <2>1, <3>1, PageShape
    <3>3. /\ index' = index \ PagesOf(job.project) /\ files' \subseteq files
          /\ step = "stage" /\ step' = "commit"
          /\ UNCHANGED <<engineVars, mu, job, head, remote, recVars, faults>>
      BY <1>2, <2>3 DEF Stage
    <3>4. QED
      BY <2>1, <3>2, <3>3
         DEF engineVars, recVars, IInv, TypeOK, LockInv, ToldInv, OrphanInv, StagedInv
  <2>4. QED
    BY <2>2, <2>3
<1>3. CASE Commit
  BY <1>3, ReconcileAssumption
     DEF Commit, Release, engineVars, recVars, IInv, TypeOK, LockInv, ToldInv, OrphanInv, StagedInv
<1>4. CASE Abort
  BY <1>4, ReconcileAssumption
     DEF Abort, Release, engineVars, recVars, IInv, TypeOK, LockInv, ToldInv, OrphanInv, StagedInv
<1>5. QED
  BY <1>1, <1>2, <1>3, <1>4 DEF Handler

-----------------------------------------------------------------------------
(* reconcile                                                               *)

LEMMA FetchStep == ASSUME IInv, NEW answer \in {live, {}}, Fetch(answer) PROVE IInv'
<1>1. answer = live /\ inventory' = live /\ orphans' = {} /\ orphans = {}
  BY DEF Fetch, Trusted, IInv, OrphanInv
<1>2. unknown' = (Projects \ live) \cup {p \in unknown : RemovalPending(p)}
  BY DEF Fetch
<1>3. ASSUME NEW pg \in (head \ index) \cup (remote \ head)
      PROVE  pg[1] \in purged \cup unknown'
  <2>1. pg \in PagesOf(pg[1])
    BY <1>3 DEF IInv, TypeOK, Pages, PagesOf
  <2>2. RemovalPending(pg[1])
    BY <1>3, <2>1 DEF RemovalPending
  <2>3. QED
    BY <1>2, <1>3, <2>2 DEF IInv, StagedInv
<1>4. QED
  BY <1>1, <1>2, <1>3
     DEF Fetch, engineVars, handlerVars, treeVars, IInv, TypeOK, LockInv, ToldInv, OrphanInv,
         StagedInv

LEMMA PassStep ==
    ASSUME IInv, \/ Scan \/ LockMu \/ UnderLock \/ (\E p \in orphans : RemoveFails(p))
                 \/ CommitFails \/ Push \/ Restart
    PROVE  IInv'
<1>1. CASE Scan
  <2>1. FindOrphans \subseteq Projects \ inventory
    BY PageShape DEF FindOrphans, IInv, TypeOK
  <2>2. QED
    BY <1>1, <2>1, ReconcileAssumption
       DEF Scan, EndPass, engineVars, handlerVars, treeVars, IInv, TypeOK, LockInv, ToldInv,
           OrphanInv, StagedInv
<1>2. CASE LockMu
  BY <1>2, ReconcileAssumption
     DEF LockMu, engineVars, handlerVars, treeVars, IInv, TypeOK, LockInv, ToldInv, OrphanInv,
         StagedInv
<1>3. ASSUME NEW p \in orphans, Remove(p)
      PROVE  IInv'
  <2>1. \A pg \in Tracked(p) : pg[1] \in unknown
    BY PageShape DEF Tracked, IInv, TypeOK, OrphanInv
  <2>2. /\ index' = index \ Tracked(p) /\ files' = files \ Tracked(p) /\ orphans' = orphans \ {p}
        /\ removed' = TRUE /\ rpc = "remove"
        /\ UNCHANGED <<engineVars, mu, handlerVars, head, remote, rpc, inventory, unknown,
                       faults>>
    BY <1>3 DEF Remove
  <2>3. QED
    BY <2>1, <2>2
       DEF engineVars, handlerVars, IInv, TypeOK, LockInv, ToldInv, OrphanInv, StagedInv
<1>4. CASE CommitRemoved
  BY <1>4, ReconcileAssumption
     DEF CommitRemoved, EndPass, engineVars, handlerVars, IInv, TypeOK, LockInv, ToldInv,
         OrphanInv, StagedInv
<1>5. CASE \E p \in orphans : RemoveFails(p)
  <2>1. faults' \in 0..MaxFaults
    BY <1>5, ReconcileAssumption DEF RemoveFails, IInv, TypeOK
  <2>2. QED
    BY <1>5, <2>1
       DEF RemoveFails, engineVars, handlerVars, treeVars, IInv, TypeOK, LockInv, ToldInv,
           OrphanInv, StagedInv
<1>6. CASE CommitFails
  <2>1. faults' \in 0..MaxFaults
    BY <1>6, ReconcileAssumption DEF CommitFails, IInv, TypeOK
  <2>2. QED
    BY <1>6, <2>1, ReconcileAssumption
       DEF CommitFails, EndPass, engineVars, handlerVars, treeVars, IInv, TypeOK, LockInv,
           ToldInv, OrphanInv, StagedInv
<1>7. CASE Restart
  <2>1. faults' \in 0..MaxFaults
    BY <1>7, ReconcileAssumption DEF Restart, IInv, TypeOK
  <2>2. /\ \/ head' = head /\ index' = index
           \/ head' = remote /\ index' = remote
        /\ remote' = remote /\ files' \in SUBSET Pages
    BY <1>7 DEF Restart, treeVars, IInv, TypeOK
  <2>3. QED
    BY <1>7, <2>1, <2>2, ReconcileAssumption
       DEF Restart, Release, EndPass, engineVars, IInv, TypeOK, LockInv, ToldInv, OrphanInv,
           StagedInv
<1>8. CASE Push
  BY <1>8 DEF Push, engineVars, handlerVars, recVars, IInv, TypeOK, LockInv, ToldInv, OrphanInv,
              StagedInv
<1>9. QED
  BY <1>1, <1>2, <1>3, <1>4, <1>5, <1>6, <1>7, <1>8 DEF UnderLock

LEMMA InitIInv == Init => IInv
<1> SUFFICES ASSUME Init
             PROVE  IInv
  OBVIOUS
<1>1. 0 \in 0..MaxEngineOps /\ 0 \in 0..MaxFaults
  BY ReconcileAssumption
<1>2. TypeOK
  BY <1>1 DEF Init, TypeOK
<1>3. LockInv /\ ToldInv /\ OrphanInv /\ StagedInv
  BY ReconcileAssumption DEF Init, LockInv, ToldInv, OrphanInv, StagedInv
<1>4. QED
  BY <1>2, <1>3 DEF IInv

LEMMA StepIInv == IInv /\ [Next]_vars => IInv'
<1> SUFFICES ASSUME IInv, [Next]_vars
             PROVE  IInv'
  OBVIOUS
<1>1. CASE UNCHANGED vars
  BY <1>1 DEF vars, engineVars, handlerVars, treeVars, recVars, IInv, TypeOK, LockInv, ToldInv,
              OrphanInv, StagedInv
<1>2. QED
  BY <1>1, EngineStep, TakeStep, HandlerStep, FetchStep, PassStep DEF Next

-----------------------------------------------------------------------------
(* Theorems                                                                *)

\* What is staged for removal was purged, or unknown to the engine when it was asked.
THEOREM Invariance == Spec => []IInv
<1>1. QED
  BY InitIInv, StepIInv, PTL DEF Spec

\* Every variable keeps its type.
THEOREM TypeCorrect == Spec => []TypeOK
<1>1. IInv => TypeOK
  BY DEF IInv
<1>2. QED
  BY <1>1, Invariance, PTL

\* No project but these loses a page of the backup, by whoever's commit.
THEOREM KnownProjectsStay == Spec => KeepsKnownProjects
<1>1. IInv /\ [Next]_vars => [\A pg \in remote \ remote' : pg[1] \in purged \cup unknown]_remote
  <2> SUFFICES ASSUME IInv, [Next]_vars, remote' # remote, NEW pg \in remote \ remote'
               PROVE  pg[1] \in purged \cup unknown
    OBVIOUS
  <2>1. remote' = head
    BY DEF Next, Engine, EngineWrites, EnginePurges, Lose, Take, Handler, WriteFile, Stage, Commit,
           Abort, Fetch, Scan, LockMu, UnderLock, Remove, CommitRemoved, RemoveFails, CommitFails,
           Push, Restart, vars, treeVars
  <2>2. QED
    BY <2>1 DEF IInv, StagedInv
<1>2. QED
  BY <1>1, Invariance, PTL DEF Spec, KeepsKnownProjects

=============================================================================
