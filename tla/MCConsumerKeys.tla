---------------------------- MODULE MCConsumerKeys ----------------------------
(* A small instance of ConsumerKeys for TLC.                               *)
EXTENDS ConsumerKeys, TLC

ReadOrAdmin == {{"read"}, {"admin"}}
Symmetry == Permutations(Requests) \cup Permutations(KeyIds)
            \cup Permutations(Owners)

=============================================================================
