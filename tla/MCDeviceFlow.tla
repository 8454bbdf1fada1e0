---------------------------- MODULE MCDeviceFlow ----------------------------
(* The logins of an instance differ in nothing but their names. *)
EXTENDS DeviceFlow, TLC

Symmetry == Permutations(Logins)
=============================================================================
