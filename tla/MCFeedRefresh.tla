--------------------------- MODULE MCFeedRefresh ---------------------------
EXTENDS FeedRefresh

CONSTANTS f1, f2, w1, r1

Of(workers, batch, fs, requests) ==
  [workers |-> workers, batch |-> batch, feeds |-> fs, requests |-> requests]

\* A batch too small for the feeds that are due, one that is not beside refreshes
\* of requests, and requests without a scheduler.
MCDeployments ==
  {Of({w1}, 1, {f1, f2}, {}), Of({w1}, 1, {f1}, {r1}), Of({}, 1, {f1, f2}, {r1})}
=============================================================================
