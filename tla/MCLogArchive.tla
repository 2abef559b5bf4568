---------------------------- MODULE MCLogArchive ----------------------------
(* Two projects of one paid organization.                                  *)
EXTENDS LogArchive, TLC

MCOrgOf == [p \in Projects |-> 1]
MCMaxCrashes == [b \in Backends |-> IF b = "s3" THEN 1 ELSE 0]
ProjectSymmetry == Permutations(Projects)
=============================================================================
