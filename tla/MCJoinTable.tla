----------------------------- MODULE MCJoinTable -----------------------------
(* Four two-field keys in two buckets.  Three share a bucket: among them   *)
(* are two that agree on their first field, and two on their second.       *)
EXTENDS JoinTable

CollidingHash == [k \in Keys |-> k[1] * (1 - k[2])]
=============================================================================
