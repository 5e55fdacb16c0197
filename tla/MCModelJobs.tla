----------------------------- MODULE MCModelJobs -----------------------------
(* Small instance of ModelJobs: two sessions of a user and two idempotency keys. *)
EXTENDS ModelJobs, TLC

CONSTANTS c1, c2, s1, s2, k1, k2, detect, inpaint, doc1, doc2, personal

MCKeys == {k1, k2}
MCUnits == detect :> 1 @@ inpaint :> 1
\* Detection is affordable, inpainting is not.
DearInpaint == detect :> 1 @@ inpaint :> 2
MCPayloads == {detect, inpaint}
MCScopes == {s1, s2}
MCPrints == {doc1, doc2, personal}
MCPayloadOf == doc1 :> detect @@ doc2 :> inpaint @@ personal :> NoPayload
MCCallers == {c1, c2}
OneCaller == {c1}
OneKey == {k1}
OneScope == {s1}
MCSymmetry == Permutations(MCCallers) \union Permutations(MCScopes) \union Permutations(MCKeys)
=============================================================================
