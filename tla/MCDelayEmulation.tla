-------------------------- MODULE MCDelayEmulation --------------------------
(***************************************************************************)
(* DelayEmulation for TLC.  The largest change per TSU is 2 instead of 127 *)
(* so that the cap, the drain and its end are a few steps apart.           *)
(***************************************************************************)
EXTENDS DelayEmulation

TwoLinks == {0, 2}

=============================================================================
