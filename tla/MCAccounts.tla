----------------------------- MODULE MCAccounts -----------------------------
(* Identity and Profile in one run.  They share no variable, so a behaviour of *)
(* both is one of each, and TLC looks at one at a time: a follow or a change   *)
(* of handle, or an edit of the profile, but not both.                         *)
EXTENDS Identity, Profile, TLC

Init == IdentityInit /\ ProfileInit

Next ==
  \/ edits + mishaps = 0 /\ IdentityNext /\ UNCHANGED profileVars
  \/ requests + changes = 0 /\ ProfileNext /\ UNCHANGED identityVars

Spec == Init /\ [][Next]_<<identityVars, profileVars>>

\* A mishap and an edit made in haste are not combined.
Budget == ~(hurried /\ mishaps > 0)

\* Queries: one that both sides match alike, one with a wildcard, which only the relay
\* heeds, and one with a space around it, which only the API cuts off, each with and
\* without display names that match.
MCQuery ==
  LET all == Handle \cup Nick IN
  {[here |-> m[1], there |-> m[2], names |-> names] :
     m \in {<<all, all>>, <<{}, all>>, <<all, {}>>},
     names \in {{}, Account}}

\* Both others are a full page, one of them leaves room for one of the relay's.
MCLimit == {2}

MCSymmetry ==
  Permutations(Account \ {Me}) \cup Permutations(Handle)
    \cup Permutations(Job) \cup Permutations(Text)
=============================================================================
