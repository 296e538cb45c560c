----------------------------- MODULE MCScanJobs -----------------------------
(***************************************************************************)
(* Instances of ScanJobs for TLC.  Requests are interchangeable, so their  *)
(* permutations are a symmetry of the specification; the runs that use it  *)
(* check no liveness.                                                      *)
(***************************************************************************)
EXTENDS ScanJobs, TLC

JobSymmetry == Permutations(Jobs)

=============================================================================
