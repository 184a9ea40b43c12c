-------------------------- MODULE MCProfileLifecycle --------------------------
(***************************************************************************)
(* A runtime whose capacity changes, and a document for another model; two *)
(* files for a path that changes while a server starts; time for a         *)
(* document to be exported, loaded and exported again until it is old.     *)
(***************************************************************************)
EXTENDS ProfileLifecycle, TLC

CONSTANTS i1, i2

MCStatics == {"s", "t"}
MCRuntimes ==
  {[static |-> "s", capacity |-> 1], [static |-> "s", capacity |-> 2],
   [static |-> "t", capacity |-> 1]}
MCMeasured == {<<1, 0>>, <<1, 1>>}

\* One document for the small runtime, and one for another model.
MCSeeds ==
  LET certified(i) ==
        [ cells |-> {[key |-> <<1, 3>>, at |-> 0, by |-> i]}, created |-> 1,
          until |-> 3, identity |-> i ]
  IN {certified([static |-> s, capacity |-> 1]) : s \in MCStatics}
Symmetry == Permutations(Inodes)
=============================================================================
