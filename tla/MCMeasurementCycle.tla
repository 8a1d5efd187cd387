------------------------- MODULE MCMeasurementCycle -------------------------
(***************************************************************************)
(* Two links with equal and with different delays, and one kind of trouble *)
(* in each behaviour.                                                      *)
(***************************************************************************)
EXTENDS MeasurementCycle

MCBaseDelays == {<<0, 2>>, <<2, 2>>}
MCBounds ==
    {[retx |-> 1, other |-> 0, unsampled |-> 0],
     [retx |-> 0, other |-> 1, unsampled |-> 0],
     [retx |-> 0, other |-> 0, unsampled |-> 1]}
=============================================================================
