----------------------------- MODULE MCAiResults -----------------------------
(* Small instance of AiResults. *)
EXTENDS AiResults

CONSTANTS p1, p2, t1, r1, tab, toolbox

TwoPages == {p1, p2}
TextAndResult == {t1, r1}
OneResult == {r1}
OneText == {t1}
NoPages == {}
InPanels == {"panel"}
TwoHosts == {tab, toolbox}
TwoKinds == {"pipeline", "translate"}
=============================================================================
