---------------------------- MODULE GovernorCore ----------------------------
(***************************************************************************)
(* The controller core as its callers see it: the Rust State behind the C  *)
(* ABI (rust/src/lib.rs) and the Governor object that owns its handle      *)
(* (python/pig_governor/core.py).  Every call is one transaction: it       *)
(* either commits a whole new state or, when the core refuses it, leaves   *)
(* the old one in place.                                                   *)
(*                                                                         *)
(* The state is split in two values.  A "core" record holds what decides   *)
(* whether a call is accepted: clock, active count, quarantine flag,       *)
(* revision, reference and epoch, with the cells of the response surface   *)
(* that hold evidence.  A "learned" record holds the running totals of     *)
(* that evidence: decode tokens, aggregate sequence-seconds, those that     *)
(* were older than the rolling window when they could have been recorded,  *)
(* and the sequence-seconds given to surface cells.  Rates are not         *)
(* modelled: an admission verdict is any verdict the evidence permits.     *)
(***************************************************************************)
EXTENDS Integers, FiniteSets

CONSTANTS
  NativeMaxRunning,   \* max_running_requests, the physical running capacity
  InitialReference,   \* the TPS reference given at start, 0 when disabled
  ProfileDeadline,    \* expiry of the profile given at start, 0 when none
  WINDOW_SECONDS,     \* length of the rolling window of the aggregate
  BUCKET_SECONDS      \* length of one of its buckets

ASSUME CoreAssumption ==
  /\ NativeMaxRunning \in Nat \ {0}
  /\ InitialReference \in Nat
  /\ ProfileDeadline \in Nat
  /\ WINDOW_SECONDS \in Nat
  /\ BUCKET_SECONDS \in Nat \ {0}

PRESSURE_CLASSES == 4
Classes == 0 .. PRESSURE_CLASSES - 1

\* Keys of the response surface: decode concurrency and context pressure.
Cells == (1 .. NativeMaxRunning) \X Classes

\* An instant that has not happened: Option::None in Rust, None in Python.
NoTime == -1
Time == Nat \cup {NoTime}

CoreState ==
  [ epoch       : Nat,                \* uuid of the surface epoch, as a count
    revision    : Nat \ {0},
    reference   : Nat,
    active      : 0 .. NativeMaxRunning,
    quarantined : BOOLEAN,
    last_time   : Time,
    deadline    : Nat,
    cells       : SUBSET Cells ]

NewCore ==
  [ epoch |-> 0, revision |-> 1, reference |-> InitialReference, active |-> 0,
    quarantined |-> FALSE,
    last_time |-> IF ProfileDeadline = 0 THEN NoTime ELSE 0,
    deadline |-> ProfileDeadline, cells |-> {} ]

\* "clipped" is history: the core does not keep what it leaves out.
NewLearned == [tokens |-> 0, exposure |-> 0, clipped |-> 0, surface_seconds |-> 0]

-----------------------------------------------------------------------------
(* Clock.  A call is refused when its time precedes the last one.          *)

ClockAccepts(c, now) == now >= c.last_time

\* Start of the oldest bucket that the rolling window still holds at "now".
Oldest(now) ==
  LET bucket == (now - WINDOW_SECONDS) \div BUCKET_SECONDS
  IN IF bucket > 0 THEN bucket * BUCKET_SECONDS ELSE 0

\* Where the recording of the interval since the last call starts.
StartOfRecord(c, now) == IF c.last_time < Oldest(now) THEN Oldest(now) ELSE c.last_time

Recording(c) == ~c.quarantined /\ c.last_time # NoTime

\* Mutant: the interval is recorded from the last call on, however old.
Accrued_Unclipped(c, now) == IF Recording(c) THEN c.active * (now - c.last_time) ELSE 0

\* Sequence-seconds since the last call, as far as the window reaches, and
\* those before it, which go nowhere.
Accrued(c, now) == IF Recording(c) THEN c.active * (now - StartOfRecord(c, now)) ELSE 0
Dropped(c, now) == IF Recording(c) THEN c.active * (StartOfRecord(c, now) - c.last_time) ELSE 0

AdvanceCore(c, now) == [c EXCEPT !.last_time = now]

AdvanceLearned(l, c, now) ==
  [l EXCEPT !.exposure = @ + Accrued(c, now), !.clipped = @ + Dropped(c, now)]

-----------------------------------------------------------------------------
(* Observations.                                                           *)

ObserveAccepts(c, now, active_after) ==
  ClockAccepts(c, now) /\ active_after <= NativeMaxRunning

ObserveCore(c, now, active_after) ==
  [AdvanceCore(c, now) EXCEPT !.active = active_after]

ObserveLearned(l, c, now, delta) ==
  [AdvanceLearned(l, c, now) EXCEPT !.tokens = @ + delta]

ObserveBatchAccepts(c, now, delta, seconds, cell, active_after) ==
  /\ ObserveAccepts(c, now, active_after)
  /\ cell \in Cells
  /\ delta > 0 => seconds > 0

ObserveBatchCore(c, now, cell, active_after) ==
  [ObserveCore(c, now, active_after) EXCEPT !.cells = @ \cup {cell}]

ObserveBatchLearned(l, c, now, delta, seconds) ==
  [ObserveLearned(l, c, now, delta) EXCEPT !.surface_seconds = @ + seconds]

\* Every request of the previous active set retired in one batch.
ObserveReplacementAccepts(c, now, delta, seconds, cell, active_after) ==
  /\ ObserveAccepts(c, now, active_after)
  /\ c.active # 0
  /\ cell[1] = c.active
  /\ seconds = 0 => delta = 0

ObserveReplacementCore(c, now, seconds, cell, active_after) ==
  IF seconds > 0 THEN ObserveBatchCore(c, now, cell, active_after)
  ELSE ObserveCore(c, now, active_after)

ObserveReplacementLearned(l, c, now, delta, seconds) ==
  IF seconds > 0 THEN ObserveBatchLearned(l, c, now, delta, seconds)
  ELSE ObserveLearned(l, c, now, 0)

\* The clock moves on without exposure while the active set is contaminated.
QuarantineCore(c, now, active_after, enabled) ==
  [c EXCEPT !.last_time = now, !.active = active_after, !.quarantined = enabled]

-----------------------------------------------------------------------------
(* Policy and identity.                                                    *)

\* Mutant: the revision is not compared.
UpdateReferenceAccepts_EpochOnly(c, expected_epoch, expected_revision) ==
  expected_epoch = c.epoch

UpdateReferenceAccepts(c, expected_epoch, expected_revision) ==
  expected_epoch = c.epoch /\ expected_revision = c.revision

UpdateReferenceCore(c, reference) ==
  [c EXCEPT !.revision = @ + 1, !.reference = reference]

\* rotate_surface_epoch: new uuid, all evidence and priors gone, the revision
\* and the reference kept.  The clock is set whatever it was.
RotateCore(c, now, active_after) ==
  [c EXCEPT !.epoch = @ + 1, !.active = active_after, !.quarantined = FALSE,
            !.last_time = now, !.deadline = 0, !.cells = {}]

-----------------------------------------------------------------------------
(* Admission.                                                              *)

\* Verdicts that admit.
FavourableReasons == {"fit", "reference_disabled", "cold_prior"}
CoreReasons ==
  FavourableReasons \cup {"tps_risk", "unknown", "aggregate_tps_risk"}

Verdict(reason, observed) == [reason |-> reason, observed |-> observed]

\* Some live cell at least as heavy as the requested one holds evidence.
Measured(c, concurrency, pressure_class) ==
  \E cell \in c.cells : cell[1] >= concurrency /\ cell[2] >= pressure_class

PriorActive(c, now) == now < c.deadline

CoreVerdicts(c, now, concurrency, pressure_class) ==
  LET measured == Measured(c, concurrency, pressure_class)
      prior == PriorActive(c, now)
      observable == IF c.cells = {} THEN {FALSE} ELSE BOOLEAN
  IN IF c.reference = 0
     THEN {Verdict("reference_disabled", observed) : observed \in observable}
     ELSE {Verdict("unknown", FALSE)}
            \cup (IF measured
                  THEN {Verdict("fit", TRUE), Verdict("tps_risk", TRUE)}
                  ELSE {})
            \cup (IF prior
                  THEN {Verdict("cold_prior", FALSE), Verdict("tps_risk", FALSE)}
                  ELSE {})
            \cup (IF (measured \/ prior) /\ c.active > 0
                  THEN {Verdict("aggregate_tps_risk", TRUE)}
                  ELSE {})
=============================================================================
