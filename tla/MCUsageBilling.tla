--------------------------- MODULE MCUsageBilling ---------------------------
(* Small instance of UsageBilling: two concurrent requests of one account. *)
EXTENDS UsageBilling, TLC

CONSTANTS r1, r2, k1, k2, detect, translate

MCUnits == detect :> 1 @@ translate :> 2
MCRequests == {r1, r2}
MCKeys == {k1, k2}
MCPayloads == {detect, translate}
MCGrants == {1}
MCResetBalances == {1}
MCSymmetry == Permutations(MCRequests)
=============================================================================
