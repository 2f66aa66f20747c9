----------------------------- MODULE MCTutorial -----------------------------
(* Every script alone, and two that are started in the same tab.           *)
EXTENDS Tutorial

CONSTANTS i1, i2

Pair(a, b) == [i \in {i1, i2} |-> IF i = i1 THEN a ELSE b]
MCStarts == {Pair(a, "none") : a \in Scripts}
            \cup {Pair("privacyPolicy", "bonusPayload")}
=============================================================================
