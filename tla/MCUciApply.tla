----------------------------- MODULE MCUciApply -----------------------------
(* Instances of UciApply for TLC: a reload of "network" also affects       *)
(* "firewall", as in the stock ucitrack.                                   *)
EXTENDS UciApply, TLC

MCConfigs == {"network", "firewall"}
MCAffects == [c \in MCConfigs |-> IF c = "network" THEN {"firewall"} ELSE {}]
MCSymmetry == Permutations(Applies) \cup Permutations(Values)
=============================================================================
