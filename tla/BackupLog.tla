------------------------------ MODULE BackupLog ------------------------------
(***************************************************************************)
(* What images/git-mirror promises to whoever relies on the backup: a      *)
(* change it acknowledges is owed until it is part of the backup, the      *)
(* backup is a log of trees that only grows, and no change enters it       *)
(* twice.  A restart may forget what is owed; nothing else may.            *)
(***************************************************************************)
EXTENDS Naturals, Sequences

CONSTANTS
    Changes,    \* changes the mirror may be told of
    Parts,      \* parts of a page
    NoWant,     \* the change has not been announced
    NoPage      \* what a page is that is not there

VARIABLES
    log,        \* the published commits: [id, tree]
    owed,       \* acknowledged and not in the log
    want        \* what each change does: [pages, value, ...]

logVars == <<log, owed, want>>

Ids(s) == {s[i].id : i \in DOMAIN s}

Init ==
    /\ log = <<>>
    /\ owed = {}
    /\ want = [c \in Changes |-> NoWant]

Announce(c) ==
    /\ want[c] = NoWant
    /\ want'[c] # NoWant
    /\ want' = [want EXCEPT ![c] = want'[c]]
    /\ UNCHANGED <<log, owed>>

Accept(c) ==
    /\ want[c] # NoWant
    /\ c \notin owed \cup Ids(log)
    /\ owed' = owed \cup {c}
    /\ UNCHANGED <<log, want>>

\* The log grows by commits it did not have, the mirror's or another tool's.
Publish ==
    /\ Len(log) < Len(log')
    /\ SubSeq(log', 1, Len(log)) = log
    /\ \A i, j \in DOMAIN log' : log'[i].id = log'[j].id => i = j
    /\ owed' = owed \ Ids(log')
    /\ UNCHANGED want

Part(v, x) == IF v = NoPage THEN NoPage ELSE v[x]

\* The change adds nothing to page p: each part of it the log has, or began with, or
\* another change was to bring it.
Redundant(c, p) == \A x \in Parts :
    LET new == Part(want[c].value, x) IN
    \/ new = NoPage
    \/ \E i \in DOMAIN log : Part(log[i].tree[p], x) = new
    \/ \E d \in Changes \ {c} : p \in want[d].pages /\ Part(want[d].value, x) = new

\* A change that adds nothing to any of its pages need not be published.
Absorb(c) ==
    /\ c \in owed
    /\ \A p \in want[c].pages : Redundant(c, p)
    /\ owed' = owed \ {c}
    /\ UNCHANGED <<log, want>>

Forget ==
    /\ owed' = {}
    /\ UNCHANGED <<log, want>>

Next ==
    \/ \E c \in Changes : Announce(c) \/ Accept(c) \/ Absorb(c)
    \/ Publish
    \/ Forget

Spec == Init /\ [][Next]_logVars

=============================================================================
