------------------------------ MODULE MCLogin ------------------------------
(* Login as it is: no symmetry, which liveness would not allow. *)
EXTENDS Login
=============================================================================
