---------------------------- MODULE MCQosTesting ----------------------------
(***************************************************************************)
(* QosTesting for TLC: two clients of one access point, one of them        *)
(* steered by NetworkGym.                                                  *)
(***************************************************************************)
EXTENDS QosTesting

CONSTANTS c1, c2
TwoClients == {c1, c2}
OneClient == {c2}
OneChannel == {1}
SameAp == [c \in TwoClients |-> 1]

=============================================================================
