--------------------------- MODULE MC_LayeredCache ---------------------------
\* LayeredCache on a small instance: two processes that share a Redis.
EXTENDS LayeredCache, TLC

CONSTANTS p1, p2, r1, r2

TwoProcesses == {p1, p2}
TwoRequests  == {r1, r2}
Homes        == (r1 :> p1) @@ (r2 :> p2)
=============================================================================
