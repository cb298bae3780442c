------------------------------- MODULE MCSaga -------------------------------
(***************************************************************************)
(* Instances of Saga for TLC.                                              *)
(***************************************************************************)
EXTENDS Saga, TLC

\* Every step can be undone.
AllSteps == Steps

\* All but the second.
NotSecond == Steps \ {2}

DriverSymmetry == Permutations(Drivers)

=============================================================================
