--------------------------- MODULE MCReliability ---------------------------
EXTENDS Reliability, TLC

CONSTANTS c1, c2, c3

\* The unit is one second.  config.yaml:
Repository == [retries |-> 3, backoff |-> 1, interval |-> 1, wait |-> 1,
               minCalls |-> 1, threshold |-> 100, permitted |-> 1]

\* TestRetryPattern, whose backoff of 10 ms is nothing here:
Tests == [Repository EXCEPT !.retries = 2, !.backoff = 0, !.threshold = 50]

\* A window that outlasts the calls, and two calls in half-open:
Wide == [Repository EXCEPT !.retries = 1, !.interval = 2, !.minCalls = 2, !.permitted = 2]

AllConfigs == {Repository, Tests, Wide}
=============================================================================
