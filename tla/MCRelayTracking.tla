--------------------------- MODULE MCRelayTracking ---------------------------
(* Small instances of RelayTracking for TLC. *)
EXTENDS RelayTracking, TLC

\* Announcements are interchangeable.
Symmetry == Permutations(Slot)

\* An account with the records of two collections, one perhaps without a subject.
With(first, second, blank, errors) ==
  [of |-> [r \in Rkey |-> IF r = 1 THEN first ELSE second],
   blank |-> blank, failures |-> errors]

\* An error, a broken stream or a restart on a collection of two pages; without
\* them, records of two collections in and against the order of the crawl.
MCAccounts ==
  {With("share", "share", {}, 1),
   With("star", "follow", {}, 0),
   With("share", "subscription", {1}, 0),
   With("subscription", "star", {1}, 0)}

=============================================================================
