----------------------------- MODULE MCReading -----------------------------
EXTENDS Reading, TLC

\* The feeds may be exchanged, and so may the slots of the requests.
MCSymmetry == Permutations(Feeds) \cup Permutations(Jobs)
=============================================================================
