--------------------------- MODULE MCBulkIssueUpdate ---------------------------
(* The instances of BulkIssueUpdate for TLC are in the .cfg files.  They check           *)
(* liveness, which symmetry would make unsound, so none is declared.       *)
EXTENDS BulkIssueUpdate
================================================================================
