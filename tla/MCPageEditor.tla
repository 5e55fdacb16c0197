---------------------------- MODULE MCPageEditor ----------------------------
(* Small instance of PageEditor. *)
EXTENDS PageEditor, TLC

CONSTANTS p1, p2, e1, e2, tab, toolbar

TwoPages == {p1, p2}
OneEdit == {e1}
TwoEdits == {e1, e2}
AllWays == {"stroke", "drag", "panel"}
TwoHosts == {tab, toolbar}
=============================================================================
