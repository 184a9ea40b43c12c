--------------------------- MODULE MCControlPlane ---------------------------
(***************************************************************************)
(* Three calls of any kind, on a policy of two fields: enough for an       *)
(* update, a competitor that holds the same document, and a third call     *)
(* that meets the late reply or the freed slot.  One change of identity.   *)
(***************************************************************************)
EXTENDS ControlPlane

CONSTANTS c1, c2, c3

MCCalls == {c1, c2, c3}
MCFields == {"max_running", "max_waiting"}
MCInitial == [f \in MCFields |-> 2]

\* A valid running limit, one above the native bound, and a pause of admission.
MCPatches == {[f \in {"max_running"} |-> 1], [f \in {"max_running"} |-> 3],
              [f \in {"max_waiting"} |-> 0]}
MCNativeRunning == 2

=============================================================================
