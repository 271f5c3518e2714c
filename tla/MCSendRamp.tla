----------------------------- MODULE MCSendRamp -----------------------------
(* Model checking module SendRamp: three messages of 30, 30 and 50 recipients *)
(* (or the first two of them) under ramps of two and of one day.              *)
EXTENDS SendRamp, TLC

CONSTANTS m1, m2, m3

AllUnits == (m1 :> 30) @@ (m2 :> 30) @@ (m3 :> 50)
MCUnits == [m \in Messages |-> AllUnits[m]]
TwoDays == {[start |-> 50, target |-> 100, days |-> 2]}
BothConfigs == {[start |-> 50, target |-> 100, days |-> 2], [start |-> 0, target |-> 60, days |-> 0]}
\* The domains are alike, and so are the two messages of 30 recipients.
Symmetric == {p @@ q : p \in Permutations(Domains), q \in Permutations({m1, m2})}
=============================================================================
