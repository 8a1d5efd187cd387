----------------------------- MODULE MCLinkState -----------------------------
(***************************************************************************)
(* LinkState for TLC: the three cids of link-state.h (Wi-Fi 0, 5G NR 2,    *)
(* LTE 11).                                                                *)
(***************************************************************************)
EXTENDS LinkState

\* WIFI_CID, CELLULAR_NR_CID, CELLULAR_LTE_CID of link-state.h.
MCCids == {0, 2, 11}

=============================================================================
