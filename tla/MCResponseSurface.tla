-------------------------- MODULE MCResponseSurface --------------------------
(* A surface of two concurrencies, with a profile for one of them.           *)
EXTENDS ResponseSurface

\* Two requests at the reference rate, of pressure class 0.
MCProfiles ==
  LET rate == [tokens |-> 2, seconds |-> 2]
  IN {[key \in {<<2, 0>>} |-> [long |-> rate, short |-> Nothing, lower |-> rate]]}

\* The lighter cell at three times the reference.
MCLightProfiles ==
  LET rate == [tokens |-> 6, seconds |-> 2]
  IN {[key \in {<<1, 0>>} |-> [long |-> rate, short |-> Nothing, lower |-> rate]]}
=============================================================================
