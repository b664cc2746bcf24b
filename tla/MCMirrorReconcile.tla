--------------------------- MODULE MCMirrorReconcile ---------------------------
(* An instance of MirrorReconcile for TLC: a project of two pages, and one  *)
(* of a single page.                                                        *)
EXTENDS MirrorReconcile

CONSTANTS p, q, m, n

ThreePages == {<<p, m>>, <<p, n>>, <<q, m>>}

=============================================================================
