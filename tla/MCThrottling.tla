----------------------------- MODULE MCThrottling -----------------------------
(* Small instances of Throttling for TLC.                                  *)
EXTENDS Throttling, TLC

CONSTANTS r1, r2, r3, r4, k1, b1, b2, b3

\* Three requests share a bucket, one carries no session id.
BusyBucket == [r \in Requests |-> IF r = r4 THEN NoKey ELSE k1]

\* The three can be exchanged: nothing but their bucket tells them apart.
Interchangeable == Permutations({r1, r2, r3})

\* All requests share a bucket.
SharedBucket == [r \in Requests |-> k1]

=============================================================================
