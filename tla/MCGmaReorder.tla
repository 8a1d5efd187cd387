---------------------------- MODULE MCGmaReorder ----------------------------
(***************************************************************************)
(* GmaReorder for TLC, with a small number space so that it wraps.         *)
(***************************************************************************)
EXTENDS GmaReorder

MCLinkSeq == <<0, 2, 11>>

Scenario(mode, firstSn, links, maxPackets, maxSteers, faults) ==
    [mode |-> mode, firstSn |-> firstSn, links |-> links, maxPackets |-> maxPackets,
     maxSteers |-> maxSteers, faults |-> faults]

AnyScenarios == {
    Scenario("split", 54, {0, 2}, 4, 0, {"loss", "timeout"}),
    Scenario("split", 0, {0, 2}, 3, 0, {"loss", "timeout", "linkdown"}),
    Scenario("split", 0, {0, 2, 11}, 5, 0, {"loss"}),
    Scenario("steer", 0, {0, 2}, 5, 4, {}),
    Scenario("steer", 0, {0, 2}, 3, 2, FaultKinds),
    Scenario("duplicate", 61, {0, 2}, 3, 0, {"loss", "timeout"})}

=============================================================================
