--------------------------- MODULE MCDistribution ---------------------------
(***************************************************************************)
(* Values of Distribution's constants for TLC: two distributions that      *)
(* share a shard's address over time, one voucher that is signed again for *)
(* another shard, and a second voucher.                                    *)
(***************************************************************************)
EXTENDS Distribution

CONSTANTS u1, u2, c1, c2, ann, ben, k1, k2, s1, s2, m1, m2

TwoUuids == {u1, u2}
TwoCosigners == {c1, c2}
TwoClaimants == {ann, ben}
TwoCouncils == {k1, k2}
TwoShards == {s1, s2}
TwoDigests == {m1, m2}

Address(u, c, d) == [uuid |-> u, cosigner_1 |-> c, cosigner_2 |-> d]

First == Address(u1, c1, c2)
Second == Address(u2, c2, c1)

TwoAddresses == {First, Second}

Request(d, k, s, n, m) ==
    [distribution |-> d, claimant |-> k, shard |-> s, amount |-> n, cosigned_msg |-> m]

\* The first request, its retry on another shard, and an unrelated one.
Retries == {Request(First, ann, s1, 1, m1), Request(First, ann, s2, 1, m1),
            Request(Second, ben, s2, 1, m2)}

Times == {0, 1}
=============================================================================
