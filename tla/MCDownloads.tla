---------------------------- MODULE MCDownloads ----------------------------
(* Instances of Downloads for TLC. *)
EXTENDS Downloads, TLC

\* Requests are interchangeable.
ReqSymmetry == Permutations(Req)
=============================================================================
