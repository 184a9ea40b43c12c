---------------------------- MODULE MCTelemetry ----------------------------
(***************************************************************************)
(* A small instance of Telemetry for TLC: two requests of one              *)
(* context-pressure class, so that they may be interchanged.               *)
(***************************************************************************)
EXTENDS Telemetry, TLC

CONSTANTS r1, r2

MCHorizon == [r \in Req |-> 4096]

Symmetry == Permutations(Req)
=============================================================================
