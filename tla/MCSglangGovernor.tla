-------------------------- MODULE MCSglangGovernor --------------------------
(***************************************************************************)
(* Small instances of SglangGovernor for TLC: two ordinary requests of     *)
(* different context-pressure class, a third one, and a health check.      *)
(***************************************************************************)
EXTENDS SglangGovernor

CONSTANTS r1, r2, r3, h1

MCHorizon == [r \in Req |-> IF r = r2 THEN 16385 ELSE IF r = r3 THEN 4097 ELSE 4096]
=============================================================================
