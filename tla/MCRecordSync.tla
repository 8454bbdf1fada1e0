---------------------------- MODULE MCRecordSync ----------------------------
(* Small instances of RecordSync for TLC: shares by a user who does not wait,  *)
(* and every kind by one who does, with a relay and without.                   *)
EXTENDS RecordSync

MCModes ==
  {[kind |-> k, calm |-> TRUE, relayed |-> r] :
     k \in {"follow", "share", "star", "subscription"}, r \in BOOLEAN}
  \union {[kind |-> "share", calm |-> FALSE, relayed |-> r] : r \in BOOLEAN}
=============================================================================
