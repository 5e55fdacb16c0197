--------------------------- MODULE MCProjectPages ---------------------------
(* Small instance of ProjectPages: three pages of one project. *)
EXTENDS ProjectPages, TLC

CONSTANTS p1, p2, p3, a, b, r1, r2, r3

MCPages == {p1, p2, p3}
TwoContents == {a, b}
OneContent == {a}
TwoRequests == {r1, r2}
ThreeRequests == {r1, r2, r3}
OneRequest == {r1}
MCSymmetry == Permutations(MCPages) \union Permutations(TwoContents) \union Permutations(ThreeRequests)
=============================================================================
