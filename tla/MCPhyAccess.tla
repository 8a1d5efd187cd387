----------------------------- MODULE MCPhyAccess -----------------------------
(***************************************************************************)
(* PhyAccess for TLC: a power below RoamingLowRssi, one above it that is   *)
(* within WIFI_ROAMING_RSSI_THRESH of the first, and a larger one.         *)
(***************************************************************************)
EXTENDS PhyAccess

LowRssi == -79
ThreePowers == {-81, -78, -70}
Either == {FALSE, TRUE}
Always == {TRUE}
Never == {FALSE}

=============================================================================
