----------------------------- MODULE MCGitMirror -----------------------------
(* Small instances of GitMirror for TLC.                                   *)
EXTENDS GitMirror, TLC

CONSTANT Old   \* a text

\* One project that holds every page.
WholeWiki == {Pages}

\* A page, and what two writers may make of one part of it.  Both together are the page
\* that a merge makes of their changes, and nobody writes.
Versions == {c \in [Parts -> Texts] : \E x \in Parts : \A y \in Parts \ {x} : c[y] = Old}
Short == [x \in Parts |-> CHOOSE t \in Texts : t # Old]

Symmetry == Permutations(Requests) \cup Permutations(Parts)

=============================================================================
