---------------------------- MODULE MirrorBackfill ----------------------------
(***************************************************************************)
(* scripts/git-mirror-backfill.py beside the mirror it repairs.  The       *)
(* mirror is not waited for, so notifies get lost and overtake each other; *)
(* moves are not sent to it at all; and a pod takes what it has not pushed *)
(* with it.  An operator runs the script: a snapshot of the engine, a      *)
(* clone of the backup, one commit that makes wiki/ the snapshot, one push *)
(* without force.                                                          *)
(*                                                                         *)
(* git-mirror itself is GitMirror; its steps are coarse here.  As there, a *)
(* page has parts, the lines that git merges apart from each other, and    *)
(* each part has the version of the change that it was last written by.    *)
(***************************************************************************)
EXTENDS Naturals, Sequences, SequencesExt

CONSTANTS
    Pages,
    Edits,        \* bound: parts that one change of a page rewrites
    Selections,   \* what --workspace and --project select: sets of pages
    MaxChanges,   \* bound: changes of the engine
    MaxFaults     \* bound: failures, restarts of the mirror, old snapshots

ASSUME BackfillAssumption ==
    /\ Edits \subseteq SUBSET {"front", "body"}
    /\ Selections \subseteq SUBSET Pages
    /\ MaxChanges \in Nat
    /\ MaxFaults \in Nat

VARIABLES
    clock,      \* changes of the engine so far, its versions
    wiki,       \* the engine: the version of each part of each page
    notifies,   \* admission notifies on their way to the mirror
    remote,     \* the trees of the backup's commits
    mirror,     \* the mirror's clone
    bf,         \* the script
    faults

vars == <<clock, wiki, notifies, remote, mirror, bf, faults>>

Parts == {"front", "body"}
\* The versions of a page's parts, 0 for no page.
None == [x \in Parts |-> 0]
Copies == {None} \cup [Parts -> 1..MaxChanges]
Versions == [Pages -> Copies]

\* The script copies the engine's files, the mirror renders pages itself: one
\* frontmatter has two forms.
NoLines == [v |-> 0, form |-> "none"]
Lines == {NoLines} \cup [v : 1..MaxChanges, form : {"json", "yaml", "text"}]
Absent == [x \in Parts |-> NoLines]
KeepsForm(c, form) == [x \in Parts |-> [v |-> c[x], form |-> form]]  \* mutant
File(c, form) ==
    IF c = None THEN Absent
    ELSE [x \in Parts |-> [v |-> c[x], form |-> IF x = "front" THEN form ELSE "text"]]
Tree == [Pages -> [Parts -> Lines]]
Empty == [p \in Pages |-> Absent]
TreeAt(n) == IF n = 0 THEN Empty ELSE remote[n]
Backup == TreeAt(Len(remote))

\* The mirror's branch: the first `base` commits of the remote, then `pending`.
\* `wedged`: a conflict stopped its rebase (GitMirror).
Mirrors == [base : Nat, pending : Seq(Tree), wedged : BOOLEAN]

\* `only`: what is selected; `snap`: the pages of the snapshot, taken at `at`;
\* `onto`: commits of the clone; `tree`: its files.
Scripts == [pc : {"idle", "clone", "commit", "push"}, only : Selections, snap : Versions,
            at : 0..MaxChanges, onto : Nat, tree : Tree]

TypeOK ==
    /\ clock \in 0..MaxChanges
    /\ wiki \in Versions
    /\ notifies \subseteq [page : Pages, copy : Copies]
    /\ remote \in Seq(Tree)
    /\ mirror \in Mirrors /\ mirror.base <= Len(remote)
    /\ bf \in Scripts /\ bf.onto <= Len(remote)
    /\ faults \in 0..MaxFaults

Init ==
    /\ clock = 0
    /\ wiki = [p \in Pages |-> None]
    /\ notifies = {}
    /\ remote = <<>>
    /\ mirror = [base |-> 0, pending |-> <<>>, wedged |-> FALSE]
    /\ \E only \in Selections :
          bf = [pc |-> "idle", only |-> only, snap |-> wiki, at |-> 0, onto |-> 0, tree |-> Empty]
    /\ faults = 0

Fault == faults < MaxFaults /\ faults' = faults + 1

-----------------------------------------------------------------------------
(* The engine and its notifies                                             *)

Tick == clock < MaxChanges /\ clock' = clock + 1

Notified(p, c) == notifies' = notifies \cup {[page |-> p, copy |-> c]}

\* A new page, or new lines in some parts of an old one.
Write(p) ==
    /\ Tick
    /\ \E written \in (IF wiki[p] = None THEN {Parts} ELSE Edits) :
          LET c == [x \in Parts |-> IF x \in written THEN clock' ELSE wiki[p][x]] IN
          /\ wiki' = [wiki EXCEPT ![p] = c]
          /\ Notified(p, c)
    /\ UNCHANGED <<remote, mirror, bf, faults>>

Delete(p) ==
    /\ Tick
    /\ wiki[p] # None
    /\ wiki' = [wiki EXCEPT ![p] = None]
    /\ Notified(p, None)
    /\ UNCHANGED <<remote, mirror, bf, faults>>

\* move_project, which the mirror is not subscribed to.
Move(p, q) ==
    /\ Tick
    /\ p # q /\ wiki[p] # None
    /\ wiki' = [wiki EXCEPT ![p] = None, ![q] = [x \in Parts |-> clock']]
    /\ UNCHANGED <<notifies, remote, mirror, bf, faults>>

Lose(n) ==
    /\ notifies' = notifies \ {n}
    /\ UNCHANGED <<clock, wiki, remote, mirror, bf, faults>>

-----------------------------------------------------------------------------
(* The mirror                                                              *)

Local == IF mirror.pending = <<>> THEN TreeAt(mirror.base) ELSE Last(mirror.pending)

\* writePage, deletePage: in the order in which the notifies arrive.  What a
\* wedged mirror commits is not on its branch.
Sync(n) ==
    /\ notifies' = notifies \ {n}
    /\ LET t == [Local EXCEPT ![n.page] = File(n.copy, "json")] IN
       mirror' = IF mirror.wedged \/ (n.copy = None /\ t = Local) THEN mirror
                 ELSE [mirror EXCEPT !.pending = Append(@, t)]
    /\ UNCHANGED <<clock, wiki, remote, bf, faults>>

MirrorPush ==
    /\ ~mirror.wedged /\ mirror.pending # <<>>
    /\ mirror.base = Len(remote)
    /\ remote' = remote \o mirror.pending
    /\ mirror' = [mirror EXCEPT !.base = Len(remote'), !.pending = <<>>]
    /\ UNCHANGED <<clock, wiki, notifies, bf, faults>>

\* One commit of `git pull --rebase`: the lines it changed are changed in the tip.
FromBase(i) == TreeAt(mirror.base)                               \* mutant
Before(i) == IF i = 1 THEN TreeAt(mirror.base) ELSE mirror.pending[i - 1]
Touched(i) == {px \in Pages \X Parts : mirror.pending[i][px[1]][px[2]] # Before(i)[px[1]][px[2]]}

\* Two changes of a page do not go together if they change one part of it, or add
\* or remove it.
Collide(base, ours, theirs) ==
    /\ ours # base /\ theirs # base /\ ours # theirs
    /\ \/ Absent \in {base, ours, theirs}
       \/ \E x \in Parts : ours[x] # base[x] /\ theirs[x] # base[x] /\ ours[x] # theirs[x]

TakesTree(r, i) ==                                               \* mutant
    [r EXCEPT !.out = Append(@, mirror.pending[i])]
Replay(r, i) ==
    LET tip == IF r.out = <<>> THEN Backup ELSE Last(r.out)
        new == [p \in Pages |-> [x \in Parts |->
                  IF <<p, x>> \in Touched(i) THEN mirror.pending[i][p][x] ELSE tip[p][x]]]
    IN [out |-> IF new = tip /\ Touched(i) # {} THEN r.out ELSE Append(r.out, new),
        ok |-> r.ok /\ \A p \in Pages : ~Collide(Before(i)[p], mirror.pending[i][p], tip[p])]

\* The rebase after its first i commits.
Rebase[i \in 0..Len(mirror.pending)] ==
    IF i = 0 THEN [out |-> <<>>, ok |-> TRUE] ELSE Replay(Rebase[i - 1], i)

\* The push was rejected: rebase, and the push that follows is MirrorPush.
MirrorRebase ==
    /\ ~mirror.wedged /\ mirror.pending # <<>>
    /\ mirror.base # Len(remote)
    /\ LET r == Rebase[Len(mirror.pending)]
       IN mirror' = IF r.ok THEN [base |-> Len(remote), pending |-> r.out, wedged |-> FALSE]
                    ELSE [mirror EXCEPT !.wedged = TRUE]
    /\ UNCHANGED <<clock, wiki, notifies, remote, bf, faults>>

\* A new pod clones again.
MirrorRestart ==
    /\ Fault
    /\ mirror' = [base |-> Len(remote), pending |-> <<>>, wedged |-> FALSE]
    /\ UNCHANGED <<clock, wiki, notifies, remote, bf>>

Mirror == (\E n \in notifies : Sync(n)) \/ MirrorPush \/ MirrorRebase

-----------------------------------------------------------------------------
(* The script                                                              *)

Script(s) == bf' = s /\ UNCHANGED <<clock, wiki, notifies, mirror>>

iter_pages(snap, only) == {p \in only : snap[p] # None}

\* Nothing selected: nothing to backfill, the backup stays as it is.
Enumerate(snap, only, at) ==
    Script([bf EXCEPT !.pc = IF iter_pages(snap, only) = {} THEN "idle" ELSE "clone",
                      !.only = only, !.snap = snap, !.at = at])

snapshot_pvc ==
    /\ bf.pc = "idle"
    /\ \E only \in Selections : Enumerate(wiki, only, clock)
    /\ UNCHANGED <<remote, faults>>

\* --snapshot: one that was kept.
ReuseSnapshot ==
    /\ bf.pc = "idle"
    /\ Fault
    /\ \E only \in Selections : Enumerate(bf.snap, only, bf.at)
    /\ UNCHANGED remote

\* The working directory is removed, whatever happened.
Finished == Script([bf EXCEPT !.pc = "idle", !.onto = 0, !.tree = Empty])

Cloned(n) == Script([bf EXCEPT !.pc = "commit", !.onto = n, !.tree = TreeAt(n)])

setup_workdir ==
    /\ bf.pc = "clone"
    /\ Cloned(Len(remote))
    /\ UNCHANGED <<remote, faults>>

\* Every clone fails, for whatever reason: `git init`, as for an empty remote.
CloneFails ==
    /\ bf.pc = "clone"
    /\ Fault
    /\ Cloned(0)
    /\ UNCHANGED remote

KeepTree(tree) == tree                                           \* mutant
clear_wiki_tree(tree) == Empty

write_pages ==
    LET chosen == iter_pages(bf.snap, bf.only) IN
    [p \in Pages |-> IF p \in chosen THEN File(bf.snap[p], "yaml")
                     ELSE clear_wiki_tree(bf.tree)[p]]

AlwaysDiffers == TRUE                                            \* mutant
\* git status --porcelain.
Differs == write_pages # bf.tree

Commit ==
    /\ bf.pc = "commit"
    /\ IF Differs THEN Script([bf EXCEPT !.pc = "push", !.tree = write_pages]) ELSE Finished
    /\ UNCHANGED <<remote, faults>>

AnyPush == TRUE                                                  \* mutant: --force
FastForward == bf.onto = Len(remote)

Published == SubSeq(remote, 1, bf.onto) \o <<bf.tree>>

Push ==
    /\ bf.pc = "push"
    /\ FastForward
    /\ remote' = Published
    /\ Finished
    /\ UNCHANGED faults

\* The remote has commits the clone has not: the script ends, it does not rebase.
PushRejected ==
    /\ bf.pc = "push"
    /\ ~FastForward
    /\ Finished
    /\ UNCHANGED <<remote, faults>>

\* A command fails or the script is killed, and its directory is removed; the
\* remote may have taken the push all the same.  --no-push ends likewise.
ScriptFails ==
    /\ bf.pc # "idle"
    /\ Fault
    /\ \/ UNCHANGED remote
       \/ bf.pc = "push" /\ FastForward /\ remote' = Published
    /\ Finished

Backfill == snapshot_pvc \/ setup_workdir \/ Commit \/ Push \/ PushRejected

Next ==
    \/ \E p, q \in Pages : Write(p) \/ Delete(p) \/ Move(p, q)
    \/ \E n \in notifies : Lose(n)
    \/ Mirror \/ MirrorRestart
    \/ Backfill \/ ReuseSnapshot \/ CloneFails \/ ScriptFails

Spec == Init /\ [][Next]_vars

\* The operator runs the script again and again; nothing is asked of the mirror.
FairSpec == Spec /\ WF_vars(Backfill)

-----------------------------------------------------------------------------
(* Properties                                                              *)

\* Neither of the two writers takes the other's commits out of the backup, whoever
\* of them is late, has lost its clone or has begun an empty one.
HistorySurvives == [][IsPrefix(remote, remote')]_vars

BackfillPushes == bf.pc = "push" /\ bf'.pc = "idle" /\ remote' # remote

\* A backfill that comes late takes back only what it was bound to miss: lines of the
\* backup make way for older ones, or vanish though the engine still has them, only if
\* the engine wrote them after the snapshot, and the mirror published them before the
\* clone.
RevertsWhatItMissed ==
    [][BackfillPushes =>
         \A p \in bf.only, x \in Parts :
            LET before == Backup[p][x].v
                after == remote'[Len(remote')][p][x].v
            IN after < before /\ (after # 0 \/ before = wiki[p][x]) =>
                  /\ before > bf.at
                  /\ Backup[p][x] = TreeAt(bf.onto)[p][x]]_vars

\* "Idempotent -- if no content changed since the last backfill the commit is
\* skipped": a backfill's commit never repeats the tree it follows.
BackfillIsIdempotent == [][BackfillPushes => remote'[Len(remote')] # Backup]_vars

MirrorChanged ==
    {px \in Pages \X Parts : \E i \in DOMAIN mirror.pending : px \in Touched(i)}

\* "pull --rebase" takes neither writer's work from the other: in the mirror's new tip
\* the lines its commits change are as it left them, and all others as the backup has
\* them by then, however many commits either of them made.  A page can so get lines
\* of both, which neither of them wrote as one page.
RebaseMerges ==
    [][MirrorRebase /\ ~mirror'.wedged =>
         Local' = [p \in Pages |-> [x \in Parts |->
            IF <<p, x>> \in MirrorChanged THEN Local[p][x] ELSE Backup[p][x]]]]_vars

\* The mirror gets stuck in a rebase only over a page that both have changed since it
\* last pushed, and not over what it changed twice itself.
WedgedByConflict ==
    [][MirrorRebase /\ mirror'.wedged =>
         \E px \in MirrorChanged : Backup[px[1]] # TreeAt(mirror.base)[px[1]]]_vars

Restored == \A p \in Pages, x \in Parts : Backup[p][x].v = wiki[p][x]

\* "After any of those, re-sync the backup with scripts/git-mirror-backfill.py":
\* once the engine rests, runs of the whole wiki end in a backup that holds exactly
\* its pages, whatever was lost, reordered, never sent, or stuck in a wedged
\* mirror.  A wiki without pages is not backfilled.
BackupConverges == <>[](Restored \/ iter_pages(wiki, Pages) = {})

=============================================================================
