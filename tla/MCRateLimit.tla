---------------------------- MODULE MCRateLimit ----------------------------
(* RateLimit with three requests of one visitor and one of another. *)
EXTENDS RateLimit, TLC

CONSTANTS r1, r2, r3, r4, ip1, ip2

MCRequests == {r1, r2, r3, r4}
MCIPs == {ip1, ip2}
MCIpOf == [r \in MCRequests |-> IF r = r4 THEN ip2 ELSE ip1]
Symm == Permutations({r1, r2, r3})
=============================================================================
