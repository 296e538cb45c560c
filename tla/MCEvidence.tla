----------------------------- MODULE MCEvidence -----------------------------
(* Uploads are interchangeable, and so are scans. *)
EXTENDS Evidence, TLC

RequestSymmetry == Permutations(Uploads) \cup Permutations(Scans)

=============================================================================
