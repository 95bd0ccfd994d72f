----------------------------- MODULE MCHeaderRules -----------------------------
(* Two algorithms; times that go back, and times that make a target rise    *)
(* and fall.                                                                *)
EXTENDS VersionBits, TLC

MCPowLimit == (Slot1 :> 63) @@ (Slot3 :> 80)
MCTimeSteps == {-3, 5, 12}

================================================================================
