----------------------------- MODULE MCLibrary -----------------------------
EXTENDS Library, TLC

\* The file the user has at first: all feeds in one folder, or at the top, or none.
MCForeign ==
  {{<<t, f>> : f \in Feed} : t \in Title \cup {Root}} \cup {{}}

MCSymmetry == Permutations(Feed) \cup Permutations(Title) \cup Permutations(Call)
=============================================================================
