---------------------------- MODULE MCRelayEvents ----------------------------
(* Small instances of RelayEvents for TLC. *)
EXTENDS RelayEventsInv, TLC

CONSTANT MaxMishaps

\* Connection slots are interchangeable, and so are emitters.
Symmetry == Permutations(Conn) \union Permutations(Emitter)

\* What a behaviour may meet in all: lost connections and restarts, events whose
\* handler failed, whose emit gave up, or that were purged.
Budget == breaks + Cardinality(failed \cup burned \cup purged) <= MaxMishaps

=============================================================================
