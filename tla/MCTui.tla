------------------------------- MODULE MCTui -------------------------------
EXTENDS Tui

\* One feed on its own and one in the folder, an entry in each.
MCFeedOf == [e \in Entries |-> IF e = "e1" THEN "f1" ELSE "f2"]
=============================================================================
