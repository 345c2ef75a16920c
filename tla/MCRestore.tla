----------------------------- MODULE MCRestore -----------------------------
(* The restore of a request; the run also evaluates the assumptions of *)
(* MCRestorePoints.                                                    *)
EXTENDS Restore, MCRestorePoints, TLC
=============================================================================
