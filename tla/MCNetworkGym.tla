----------------------------- MODULE MCNetworkGym -----------------------------
(* NetworkGym with three clients, two of them in one slice.               *)
EXTENDS NetworkGym

MCSlice == [c \in Clients |-> IF c = 2 THEN "s2" ELSE "s1"]
===============================================================================
