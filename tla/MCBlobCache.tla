----------------------------- MODULE MCBlobCache -----------------------------
(* Small instance of BlobCache: a user with two pages, who may log out and in again. *)
EXTENDS BlobCache

CONSTANTS alice, k1, k2

OneUser == {alice}
TwoKeys == {k1, k2}
OneKey == {k1}
ThreeCalls == 1..3
OwnerOf == [k \in TwoKeys |-> alice]
=============================================================================
