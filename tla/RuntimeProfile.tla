---------------------------- MODULE RuntimeProfile ----------------------------
(***************************************************************************)
(* Profile documents (pig_governor/profile.py) and the runtime identities  *)
(* they are bound to (pig_governor/identity.py).                           *)
(*                                                                         *)
(* An identity is a record of its static fields, one value here, and of    *)
(* the KV capacity probed at start; its digest is injective and stands for *)
(* nothing else, so that identities are compared themselves.  The same     *)
(* holds of a document and the digest that pins it.  A cell of a document  *)
(* is its key and, as history, when it was last measured and under which   *)
(* identity; what its numbers must satisfy is in ResponseSurface.  A file  *)
(* that is not JSON, or not of the schema, is Torn.                        *)
(***************************************************************************)
EXTENDS Naturals, FiniteSets

CONSTANTS
  MaxRunning,  \* native max_running_requests
  MaxCells,    \* the cells that fit into MAX_PROFILE_BYTES
  VALID_FOR,   \* valid_for_seconds of an exported document
  Statics,     \* the static settings a runtime can have
  Capacities   \* the KV capacities it can probe

ASSUME ProfileAssumption ==
  /\ MaxRunning \in Nat \ {0} /\ MaxCells \in Nat
  /\ VALID_FOR \in Nat \ {0}
  /\ Capacities \subseteq Nat

Identity == [static : Statics, capacity : Capacities]

Keys == (1 .. MaxRunning) \X (0 .. 3)
Cell == [key : Keys, at : Nat, by : Identity]
Document == [cells : SUBSET Cell, created : Nat, until : Nat, identity : Identity]

Torn == [torn |-> TRUE]
NoDocument == [absent |-> TRUE]

KeysOf(cells) == {c.key : c \in cells}

-----------------------------------------------------------------------------
(* Coverage.                                                               *)

\* k is at least as heavy as j in both dimensions.
Heavier(k, j) == k[1] >= j[1] /\ k[2] >= j[2]

\* coverage(): the reachable cells without exact or jointly heavier evidence.
Missing(keys) == {j \in Keys : ~\E k \in keys : Heavier(k, j)}
CoverageCount(keys) == 4 * MaxRunning - Cardinality(Missing(keys))

-----------------------------------------------------------------------------
(* Loading.                                                                *)

\* Mutant: the probed capacity must be the same.
Compatible_Exact(profile, current) == profile = current

\* A profile measured with no more capacity than there is now is conservative;
\* every other field is exact.
Compatible(profile, current) ==
  profile.static = current.static /\ current.capacity >= profile.capacity

\* validate_profile, for a document of the schema.
Valid(document, identity, wall) ==
  /\ document.created <= wall
  /\ document.created < document.until
  /\ wall < document.until
  /\ Compatible(document.identity, identity)

\* load_profile, once it has read the file: the size limit and the digest.
Authentic(data, pinned) ==
  /\ data # Torn /\ Cardinality(data.cells) <= MaxCells
  /\ data = pinned

-----------------------------------------------------------------------------
(* Exporting.                                                              *)

\* build_profile_document.
Built(identity, cells, wall) ==
  [cells |-> cells, created |-> wall, until |-> wall + VALID_FOR, identity |-> identity]

\* What profile_snapshot answers; a runtime with an online identity has no
\* document to give.
Envelope(identity, cells, online, wall) ==
  [ identity |-> identity,
    missing |-> Missing(KeysOf(cells)),
    count |-> CoverageCount(KeysOf(cells)),
    profile |-> IF online THEN NoDocument ELSE Built(identity, cells, wall) ]

\* _profile_envelope: the server process checks it again before it answers,
\* a document against itself and the summary against the document.
EnvelopeAccepted(envelope, wall) ==
  /\ envelope.count = 4 * MaxRunning - Cardinality(envelope.missing)
  /\ envelope.missing \subseteq Keys
  /\ envelope.profile # NoDocument =>
       /\ Valid(envelope.profile, envelope.profile.identity, wall)
       /\ envelope.profile.identity = envelope.identity
       /\ envelope.missing = Missing(KeysOf(envelope.profile.cells))
       /\ envelope.count = CoverageCount(KeysOf(envelope.profile.cells))
=============================================================================
