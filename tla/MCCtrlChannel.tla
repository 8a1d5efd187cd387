---------------------------- MODULE MCCtrlChannel ----------------------------
(***************************************************************************)
(* CtrlChannel for TLC: a Wi-Fi and a cellular link.                       *)
(***************************************************************************)
EXTENDS CtrlChannel

TwoLinks == {0, 2}

Scenario(probes, decisions, powers, inFlight, preferLarge) ==
    [probes |-> probes, decisions |-> decisions, powers |-> powers,
     inFlight |-> inFlight, preferLarge |-> preferLarge]

\* A round of probes and a decision; two decisions whose messages may pass one
\* another; a decision and a loss of the Wi-Fi power.
MCScenarios ==
    {Scenario(1, 1, 0, 1, TRUE), Scenario(0, 2, 0, 2, TRUE),
     Scenario(0, 1, 1, 2, TRUE), Scenario(0, 1, 1, 2, FALSE)}

=============================================================================
