--------------------------- MODULE MCMirrorBackfill ---------------------------
(* Two projects of a page each, for TLC.                                    *)
EXTENDS MirrorBackfill

CONSTANTS here, there

Whole == {{here, there}}
Bodies == {{"body"}, {"front", "body"}}

=============================================================================
