--------------------------- MODULE MCRetrySchedule ---------------------------
EXTENDS RetrySchedule

\* A unit is a quarter of an hour.  The first policy is the default one.
MCPolicies ==
  {[renewBefore |-> 288, retryMin |-> 1, retryMax |-> 24, jitterMax |-> 1]}
  \cup [renewBefore : {192, 384}, retryMin : {1, 3, 5}, retryMax : {5, 24, 31},
        jitterMax : {0, 3}]
  \cup {[renewBefore |-> 192, retryMin |-> 2, retryMax |-> 8, jitterMax |-> 192]}
=============================================================================
