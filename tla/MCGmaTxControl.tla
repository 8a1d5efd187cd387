--------------------------- MODULE MCGmaTxControl ---------------------------
(***************************************************************************)
(* GmaTxControl for TLC, with the cids of link-state.h.                    *)
(***************************************************************************)
EXTENDS GmaTxControl

ThreeLinks == <<0, 2, 11>>

\* All shares of the bursts of 4 and 8, some of the larger ones.
MCShares == 0 .. 8 \cup {11, 16, 21, 32, 43, 64, 85, 128}

=============================================================================
