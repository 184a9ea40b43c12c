--------------------------- MODULE ResponseSurface ---------------------------
(***************************************************************************)
(* The evidence the controller core forecasts from (rust/src/lib.rs): one  *)
(* window of decode evidence for each cell of the response surface, the    *)
(* window of the active run, the prior cells of a profile, and the verdict *)
(* on a request.  A call is a function from state to state, as each is one *)
(* transaction.                                                            *)
(*                                                                         *)
(* Windows are the exact windows of ExactWindow, with one bucket to a unit *)
(* of time; RollingWindow shows that the rings of buckets implement them.  *)
(* A rate is a pair of tokens and sequence-seconds, and is compared by     *)
(* cross-multiplication.  The aggregate window, the prefill preference     *)
(* and the overflow of counters are left out.                              *)
(***************************************************************************)
EXTENDS Integers, FiniteSetsExt

CONSTANTS
  NativeMaxRunning,     \* max_running_requests
  InitialReference,     \* the TPS reference given at start
  Profiles,             \* the profile cells, by key, that may be given at start
  WINDOW, SHORT_WINDOW, \* lookbacks, in buckets
  MAX_SURFACE_AGE,      \* how long a cell stays qualified
  MIN_EXPOSURE,         \* sequence-seconds that qualify a cell
  TTL,                  \* lifetime of a loaded profile
  References,           \* the references an administrator sets
  Deltas,               \* bound: decode tokens of a batch
  LoadedClasses,        \* bound: pressure classes of the batches
  MaxTime, MaxRevision, MaxEpoch  \* bounds

ASSUME SurfaceAssumption ==
  /\ NativeMaxRunning \in Nat \ {0} /\ InitialReference \in Nat
  /\ WINDOW \in Nat /\ SHORT_WINDOW \in 0 .. WINDOW
  /\ MAX_SURFACE_AGE \in Nat /\ MIN_EXPOSURE \in Nat \ {0} /\ TTL \in Nat \ {0}
  /\ References \subseteq Nat
  /\ Deltas \subseteq Nat
  /\ LoadedClasses \subseteq 0 .. 3
  /\ MaxTime \in Nat /\ MaxRevision \in Nat /\ MaxEpoch \in Nat

VARIABLES
  state,        \* State, with the epoch its Governor object keeps
  surface_time, \* the scheduler's _surface_time: its last observation
  run_since     \* history: when the active run last began

vars == <<state, surface_time, run_since>>

Abstract ==
  INSTANCE GovernorCore WITH ProfileDeadline <- 0, WINDOW_SECONDS <- WINDOW, BUCKET_SECONDS <- 1

Keys == Abstract!Cells
NoTime == -1
Times == 0 .. MaxTime
Nothing == [tokens |-> 0, seconds |-> 0]
EMPTY == [t \in Times |-> Nothing]
NoCells == [key \in {} |-> Nothing]

Rates == [tokens : Nat, seconds : Nat]

\* The cells of a parsed profile hold rates, whatever their keys are.
ASSUME ProfilesAssumption ==
  \A cells \in Profiles : \A key \in DOMAIN cells :
    cells[key] \in [long : Rates, short : Rates, lower : Rates]

-----------------------------------------------------------------------------
(* Windows.                                                                *)

Evidence(window, now, lookback) ==
  LET S == {t \in Times : now - lookback <= t /\ t <= now}
  IN [ tokens |-> SumFunction([t \in S |-> window[t].tokens]),
       seconds |-> SumFunction([t \in S |-> window[t].seconds]) ]

\* Ticks that no later call reads are dropped.
Aged(window, now) == [t \in Times |-> IF t < now - WINDOW THEN Nothing ELSE window[t]]

Gained(window, now, delta, seconds) ==
  [window EXCEPT ![now] = [tokens |-> @.tokens + delta, seconds |-> @.seconds + seconds]]

-----------------------------------------------------------------------------
(* Rates.                                                                  *)

Known(rate) == rate.seconds > 0
AtLeast(r, s) == r.tokens * s.seconds >= s.tokens * r.seconds
Reaches(rate, reference) == rate.tokens >= reference * rate.seconds
Lower(r, s) == IF AtLeast(r, s) THEN s ELSE r

-----------------------------------------------------------------------------
(* Cells of the surface.                                                   *)

NewCell == [window |-> EMPTY, last_time |-> NoTime, last_qualified |-> NoTime]

CellObserve(cell, now, delta, seconds) ==
  LET window == Gained(cell.window, now, delta, seconds)
      exposed == seconds > 0 /\ Evidence(window, now, WINDOW).seconds >= MIN_EXPOSURE
  IN [ window |-> window,
       last_time |-> now,
       last_qualified |-> IF exposed THEN now ELSE cell.last_qualified ]

\* Mutant: a cell that once qualified stays so while it is young.
Qualified_Age(cell, now) ==
  cell.last_qualified # NoTime /\ now - cell.last_qualified <= MAX_SURFACE_AGE

Qualified(cell, now) ==
  /\ cell.last_qualified # NoTime
  /\ now - cell.last_qualified <= MAX_SURFACE_AGE
  /\ Evidence(cell.window, now, WINDOW).seconds >= MIN_EXPOSURE

\* Mutant: a slow end of the window is forgotten.
LowerBound_Long(cell, now) == Evidence(cell.window, now, WINDOW)

LowerBound(cell, now) ==
  LET long == Evidence(cell.window, now, WINDOW)
      short == Evidence(cell.window, now, SHORT_WINDOW)
  IN IF Known(short) THEN Lower(short, long) ELSE long

AdmissionBound(cell, now) ==
  LET short == Evidence(cell.window, now, SHORT_WINDOW)
  IN IF short.seconds >= MIN_EXPOSURE THEN short ELSE LowerBound(cell, now)

-----------------------------------------------------------------------------
(* The active run.                                                         *)

\* Bound of the evidence of the requests that decode now; Nothing for none.
RunBound(s, now) ==
  LET long == Evidence(s.run, now, WINDOW)
      short == Evidence(s.run, now, SHORT_WINDOW)
  IN IF s.active = 0 \/ ~s.run_has_tokens \/ long.seconds < MIN_EXPOSURE THEN Nothing
     ELSE IF short.seconds >= MIN_EXPOSURE THEN short
     ELSE IF Known(short) THEN Lower(short, long) ELSE long

ClearRun(s) == [s EXCEPT !.run = EMPTY, !.run_has_tokens = FALSE]

\* Mutant: evidence of an earlier run is kept.
UpdateActiveRun_Kept(s, active_after, now, delta) ==
  IF delta > 0 /\ (s.active > 0 \/ active_after > 0)
    THEN [s EXCEPT !.run = Gained(@, now, delta, 0), !.run_has_tokens = TRUE]
    ELSE s

UpdateActiveRun(s, active_after, now, delta) ==
  LET fresh == IF s.active = 0 /\ active_after > 0 THEN ClearRun(s) ELSE s
  IN IF delta > 0 /\ (s.active > 0 \/ active_after > 0)
       THEN [fresh EXCEPT !.run = Gained(@, now, delta, 0), !.run_has_tokens = TRUE]
       ELSE fresh

-----------------------------------------------------------------------------
(* Calls.                                                                  *)

New(reference) ==
  [ epoch |-> 0, revision |-> 1, reference |-> reference, active |-> 0,
    quarantined |-> FALSE, last_time |-> NoTime, deadline |-> 0,
    surface |-> NoCells, prior |-> NoCells, run |-> EMPTY, run_has_tokens |-> FALSE ]

Accepts(s, now) == now >= s.last_time

\* The run gains the exposure since the last call.
Exposed(s, now) ==
  [t \in Times |->
     [s.run[t] EXCEPT !.seconds =
        @ + IF s.last_time # NoTime /\ s.last_time <= t /\ t < now THEN s.active ELSE 0]]

\* The cells forget what has left their windows.
AgedCells(s, now) ==
  [key \in DOMAIN s.surface |-> [s.surface[key] EXCEPT !.window = Aged(@, now)]]

AdvanceClock(s, now, counting) ==
  [s EXCEPT !.last_time = now,
            !.run = Aged(IF counting THEN Exposed(s, now) ELSE @, now),
            !.surface = AgedCells(s, now)]

Advance(s, now) == AdvanceClock(s, now, ~s.quarantined)

ObserveInPlace(s, now, delta, active_after) ==
  [UpdateActiveRun(Advance(s, now), active_after, now, delta)
     EXCEPT !.active = active_after]

ObserveBatchAccepts(s, now, delta, seconds, key, active_after) ==
  /\ key \in Keys
  /\ active_after <= NativeMaxRunning
  /\ delta > 0 => seconds > 0
  /\ Accepts(s, now)

ObserveBatchInPlace(s, now, delta, seconds, key, active_after) ==
  LET ahead == Advance(s, now)
      cell == IF key \in DOMAIN s.surface THEN ahead.surface[key] ELSE NewCell
      observed == CellObserve(cell, now, delta, seconds)
      cells == [k \in DOMAIN s.surface \cup {key} |->
                  IF k = key THEN observed ELSE ahead.surface[k]]
  IN [UpdateActiveRun(ahead, active_after, now, delta)
        EXCEPT !.surface = cells, !.active = active_after]

ObserveReplacementAccepts(s, now, delta, seconds, key, active_after) ==
  /\ s.active # 0 /\ key[1] = s.active /\ key \in Keys
  /\ active_after <= NativeMaxRunning
  /\ delta > 0 => seconds > 0
  /\ Accepts(s, now)

\* Mutant: a cell is entered although the batch took no time.
ObserveReplacementInPlace_Entered(s, now, delta, seconds, key, active_after) ==
  ClearRun(ObserveBatchInPlace(s, now, delta, seconds, key, active_after))

ObserveReplacementInPlace(s, now, delta, seconds, key, active_after) ==
  ClearRun(IF seconds > 0
             THEN ObserveBatchInPlace(s, now, delta, seconds, key, active_after)
             ELSE ObserveInPlace(s, now, 0, active_after))

QuarantineInPlace(s, now, active_after, enabled) ==
  ClearRun([AdvanceClock(s, now, FALSE)
              EXCEPT !.active = active_after, !.quarantined = enabled])

\* Mutant: the cells outlive the epoch.
SurfaceEpoch_CellsKept(s, now, active_after) ==
  [New(s.reference)
     EXCEPT !.epoch = s.epoch + 1, !.revision = s.revision, !.last_time = now,
            !.active = active_after, !.surface = s.surface]

\* Evidence and prior go, the policy stays; the Governor takes a new epoch.
SurfaceEpoch(s, now, active_after) ==
  [New(s.reference)
     EXCEPT !.epoch = s.epoch + 1, !.revision = s.revision, !.last_time = now,
            !.active = active_after]

-----------------------------------------------------------------------------
(* Profiles.                                                               *)

Exportable(s, now) ==
  {key \in DOMAIN s.surface :
     Qualified(s.surface[key], now) /\ Known(LowerBound(s.surface[key], now))}

ProfileCell(cell, now) ==
  [ long |-> Evidence(cell.window, now, WINDOW),
    short |-> Evidence(cell.window, now, SHORT_WINDOW),
    lower |-> LowerBound(cell, now) ]

ExportProfile(s, now) ==
  [key \in Exportable(s, now) |-> ProfileCell(s.surface[key], now)]

\* ProfileCellV1.validate.
Validates(key, cell) ==
  /\ key \in Keys
  /\ cell.long.seconds >= MIN_EXPOSURE
  /\ cell.short.seconds <= cell.long.seconds
  /\ cell.short.tokens <= cell.long.tokens
  /\ cell.short.seconds = 0 => cell.short.tokens = 0
  /\ AtLeast(IF Known(cell.short) THEN Lower(cell.short, cell.long) ELSE cell.long,
             cell.lower)

NewWithProfile(reference, now, cells) ==
  [New(reference)
     EXCEPT !.prior = [key \in DOMAIN cells |-> cells[key].lower],
            !.last_time = now, !.deadline = now + TTL]

\* Mutant: a profile never expires.
PriorActive_Always(s, now) == s.deadline # 0

PriorActive(s, now) == now < s.deadline

-----------------------------------------------------------------------------
(* The verdict on a request of a concurrency and pressure class.           *)

Bound(rate, used_live, used_prior) ==
  [rate |-> rate, used_live |-> used_live, used_prior |-> used_prior]
NoBound == Bound(Nothing, FALSE, FALSE)

Live(s, now, key) ==
  IF key \in DOMAIN s.surface THEN AdmissionBound(s.surface[key], now) ELSE Nothing

Prior(s, now, key) ==
  IF PriorActive(s, now) /\ key \in DOMAIN s.prior THEN s.prior[key] ELSE Nothing

\* Mutant: more than one slot ahead of the run.
Reprobes_AnySlot(s, now, key, live, prior) ==
  /\ Known(live) /\ ~Reaches(live, s.reference)
  /\ Known(prior) /\ Reaches(prior, s.reference)
  /\ now - s.surface[key].last_time >= SHORT_WINDOW
  /\ Known(RunBound(s, now))

\* A slow cell that nobody occupies cannot measure its own recovery: its prior
\* is trusted again one slot ahead of a run that has evidence of its own.
Reprobes(s, now, key, live, prior) ==
  /\ Known(live) /\ ~Reaches(live, s.reference)
  /\ Known(prior) /\ Reaches(prior, s.reference)
  /\ now - s.surface[key].last_time >= SHORT_WINDOW
  /\ key[1] = s.active + 1
  /\ Known(RunBound(s, now))

BoundOf(live, prior, qualified, reprobes) ==
  CASE Known(live) /\ Known(prior) /\ ~AtLeast(live, prior) ->
         IF reprobes THEN Bound(prior, FALSE, TRUE) ELSE Bound(live, TRUE, FALSE)
    [] Known(live) /\ Known(prior) /\ AtLeast(live, prior) ->
         Bound(prior, qualified, TRUE)
    [] Known(live) /\ ~Known(prior) /\ qualified -> Bound(live, TRUE, FALSE)
    [] ~Known(live) /\ Known(prior) -> Bound(prior, FALSE, TRUE)
    [] OTHER -> NoBound

BoundForKey(s, now, key) ==
  LET live == Live(s, now, key)
      prior == Prior(s, now, key)
  IN BoundOf(live, prior,
             key \in DOMAIN s.surface /\ Qualified(s.surface[key], now),
             Reprobes(s, now, key, live, prior))

\* The order of a BTreeMap's keys.
Precedes(k, j) == k[1] < j[1] \/ (k[1] = j[1] /\ k[2] < j[2])

\* The lowest of the known bounds, the first of them when they are equal.
Lowest(bounds) ==
  LET known == {k \in DOMAIN bounds : Known(bounds[k].rate)}
      best(k) == \A j \in known \ {k} :
                   /\ AtLeast(bounds[j].rate, bounds[k].rate)
                   /\ AtLeast(bounds[k].rate, bounds[j].rate) => Precedes(k, j)
  IN IF known = {} THEN NoBound ELSE bounds[CHOOSE k \in known : best(k)]

\* The cell's own bound, or else the lowest of those at least as heavy.
Selected(s, now, key) ==
  LET own == BoundForKey(s, now, key)
      heavier == {k \in DOMAIN s.surface \cup DOMAIN s.prior :
                    k[1] >= key[1] /\ k[2] >= key[2]}
  IN IF Known(own.rate) THEN own
     ELSE Lowest([k \in heavier |-> BoundForKey(s, now, k)])

HasQualifiedLive(s, now) ==
  \E key \in DOMAIN s.surface :
    Qualified(s.surface[key], now) /\ Known(LowerBound(s.surface[key], now))

AdmissionVerdict(reference, observed, bound, run) ==
  IF reference = 0 THEN Abstract!Verdict("reference_disabled", observed)
  ELSE IF ~Known(bound.rate) THEN Abstract!Verdict("unknown", FALSE)
  ELSE IF ~Reaches(bound.rate, reference)
    THEN Abstract!Verdict("tps_risk", bound.used_live)
  ELSE IF Known(run) /\ ~Reaches(run, reference)
    THEN Abstract!Verdict("aggregate_tps_risk", TRUE)
  ELSE Abstract!Verdict(
         IF bound.used_prior /\ ~bound.used_live THEN "cold_prior" ELSE "fit",
         bound.used_live)

Admission(s, now, key) ==
  AdmissionVerdict(s.reference, HasQualifiedLive(s, now), Selected(s, now, key),
                   RunBound(s, now))

\* EXPLORATION_HEADROOM is 1.25.
HasHeadroom(rate, reference) == 4 * rate.tokens >= 5 * reference * rate.seconds

\* What the scheduler asks of the core before a probe may widen the run to a
\* cell that nothing is known of: the adjacent lighter cell admits, on live
\* evidence, with headroom.
ExpansionAllowed(s, now, key) ==
  LET lighter == <<key[1] - 1, key[2]>>
      lower == Admission(s, now, lighter)
  IN /\ key[1] > 1
     /\ Admission(s, now, key).reason = "unknown"
     /\ lower.reason \in Abstract!FavourableReasons
     /\ lower.observed
     /\ HasHeadroom(Selected(s, now, lighter).rate, s.reference)

-----------------------------------------------------------------------------
(* The Governor object and its calls.                                      *)

\* The server starts at time 0, with a profile or without.
Init ==
  /\ \/ state = New(InitialReference)
     \/ \E cells \in Profiles :
          /\ \A key \in DOMAIN cells : Validates(key, cells[key])
          /\ state = NewWithProfile(InitialReference, 0, cells)
  /\ surface_time = NoTime
  /\ run_since = NoTime

\* A run begins with the first active request, with a full replacement, and
\* with a quarantine.
Observed(now, fresh) ==
  /\ run_since' = IF fresh \/ (state.active = 0 /\ state'.active > 0) THEN now
                  ELSE run_since
  /\ surface_time' = now

\* The scheduler gives a batch the sequence-seconds of those that were
\* decoding since its last observation.
SequenceSeconds(now) ==
  IF surface_time = NoTime THEN 0 ELSE state.active * (now - surface_time)

Observe(now, active_after) ==
  /\ Accepts(state, now)
  /\ state' = ObserveInPlace(state, now, 0, active_after)
  /\ Observed(now, FALSE)

ObserveBatch(now, delta, key, active_after) ==
  LET seconds == SequenceSeconds(now) IN
    /\ seconds > 0
    /\ ObserveBatchAccepts(state, now, delta, seconds, key, active_after)
    /\ state' = ObserveBatchInPlace(state, now, delta, seconds, key, active_after)
    /\ Observed(now, FALSE)

ObserveReplacement(now, delta, key, active_after) ==
  LET seconds == SequenceSeconds(now) IN
    /\ ObserveReplacementAccepts(state, now, delta, seconds, key, active_after)
    /\ state' = ObserveReplacementInPlace(state, now, delta, seconds, key, active_after)
    /\ Observed(now, TRUE)

Quarantine(now, active_after, enabled) ==
  /\ Accepts(state, now)
  /\ state' = QuarantineInPlace(state, now, active_after, enabled)
  /\ Observed(now, TRUE)

\* snapshot, admit, choose, prefill and export leave the evidence alone.
Read(now) ==
  /\ Accepts(state, now)
  /\ state' = Advance(state, now)
  /\ UNCHANGED <<surface_time, run_since>>

UpdateReference(reference) ==
  /\ state.revision < MaxRevision
  /\ state' = [state EXCEPT !.revision = @ + 1, !.reference = reference]
  /\ UNCHANGED <<surface_time, run_since>>

StartSurfaceEpoch(now, active_after) ==
  /\ state.epoch < MaxEpoch
  /\ state' = SurfaceEpoch(state, now, active_after)
  /\ Observed(now, TRUE)

\* Calls come in any order that the core accepts, the scheduler's among them;
\* a batch names the concurrency that was decoding.
Next ==
  \/ \E now \in Times :
       \/ Read(now)
       \/ StartSurfaceEpoch(now, 0)
       \/ \E active_after \in 0 .. NativeMaxRunning :
            \/ Observe(now, active_after)
            \/ \E enabled \in BOOLEAN : Quarantine(now, active_after, enabled)
            \/ \E delta \in Deltas, class \in LoadedClasses :
                 LET key == <<state.active, class>> IN
                   \/ ObserveBatch(now, delta, key, active_after)
                   \/ ObserveReplacement(now, delta, key, active_after)
  \/ \E reference \in References : UpdateReference(reference)

Spec == Init /\ [][Next]_vars

-----------------------------------------------------------------------------
(* Properties.                                                             *)

Windows == [Times -> Rates]
SurfaceCells ==
  [window : Windows, last_time : Times, last_qualified : Times \cup {NoTime}]

\* Cells are observed at no time later than the last call, and keep no
\* evidence of a time at which they were not.
TypeOK ==
  /\ DOMAIN state.surface \subseteq Keys /\ DOMAIN state.prior \subseteq Keys
  /\ \A key \in DOMAIN state.surface :
       /\ state.surface[key] \in SurfaceCells
       /\ state.surface[key].last_time <= state.last_time
       /\ state.surface[key].last_qualified <= state.surface[key].last_time
       /\ \A t \in Times : state.surface[key].window[t] # Nothing =>
                             t <= state.surface[key].last_time
  /\ \A key \in DOMAIN state.prior : state.prior[key] \in Rates
  /\ state.run \in Windows
  /\ state.active \in 0 .. NativeMaxRunning
  /\ state.run_has_tokens \in BOOLEAN /\ state.quarantined \in BOOLEAN

CoreOf(s) ==
  [ epoch |-> s.epoch, revision |-> s.revision, reference |-> s.reference,
    active |-> s.active, quarantined |-> s.quarantined, last_time |-> s.last_time,
    deadline |-> s.deadline, cells |-> DOMAIN s.surface ]

\* Every verdict of the core on any request is one that GovernorCore permits
\* for what it keeps of the core: what the scheduler's properties assume of
\* forecasts, the core's arithmetic provides.
VerdictsPermitted ==
  \A key \in Keys :
    state.last_time # NoTime =>
      Admission(state, state.last_time, key)
        \in Abstract!CoreVerdicts(CoreOf(state), state.last_time, key[1], key[2])

\* A call of GovernorCore that takes c to d, at "now" with the given exposure.
CoreStep(c, d, now, seconds) ==
  \/ Abstract!ClockAccepts(c, now) /\ d = Abstract!AdvanceCore(c, now)
  \/ d = Abstract!RotateCore(c, now, 0)
  \/ \E reference \in References : d = Abstract!UpdateReferenceCore(c, reference)
  \/ \E active_after \in 0 .. NativeMaxRunning :
       \/ /\ Abstract!ObserveAccepts(c, now, active_after)
          /\ d = Abstract!ObserveCore(c, now, active_after)
       \/ \E enabled \in BOOLEAN :
            /\ Abstract!ObserveAccepts(c, now, active_after)
            /\ d = Abstract!QuarantineCore(c, now, active_after, enabled)
       \/ \E delta \in Deltas, class \in LoadedClasses :
            LET key == <<c.active, class>> IN
              \/ /\ seconds > 0
                 /\ Abstract!ObserveBatchAccepts(c, now, delta, seconds, key,
                                                  active_after)
                 /\ d = Abstract!ObserveBatchCore(c, now, key, active_after)
              \/ /\ Abstract!ObserveReplacementAccepts(c, now, delta, seconds, key,
                                                       active_after)
                 /\ d = Abstract!ObserveReplacementCore(c, now, seconds, key,
                                                       active_after)

\* The core's calls are those of GovernorCore, on which the scheduler is
\* checked: every step takes what GovernorCore keeps of the core to what its
\* call with the same arguments says, and only calls that it accepts are made.
ImplementsCore ==
  [][CoreStep(CoreOf(state), CoreOf(state'), state'.last_time,
              SequenceSeconds(state'.last_time))]_vars

\* A cell that is measured and slow is favourable only as a reprobe: for the
\* slot next to the run, backed by a prior, and while the run keeps up.  It
\* bounds the slot, not the requests: at the native capacity the projection
\* is capped (scheduler.py), and a second request may be forecast there too.
ReprobeSafe ==
  \A key \in DOMAIN state.surface :
    LET now == state.last_time
        verdict == Admission(state, now, key)
        slow == /\ Known(Live(state, now, key))
                /\ ~Reaches(Live(state, now, key), state.reference)
        trusted == \/ Qualified(state.surface[key], now)
                   \/ Known(Prior(state, now, key))
    IN state.reference > 0 /\ slow /\ trusted
         /\ verdict.reason \in Abstract!FavourableReasons =>
              /\ verdict.reason = "cold_prior"
              /\ key[1] = state.active + 1
              /\ Reaches(RunBound(state, now), state.reference)
              /\ Known(RunBound(state, now))

\* A probe widens the run only on qualified live evidence of the lighter cell,
\* or of a heavier one that bounds it; a prior alone cannot authorize it
\* (docs/INTEGRATION.md).
ExpansionIsEarned ==
  \A key \in Keys :
    ExpansionAllowed(state, state.last_time, key) =>
      \E k \in DOMAIN state.surface :
        /\ k[1] >= key[1] - 1 /\ k[2] >= key[2]
        /\ Qualified(state.surface[k], state.last_time)

\* What the core exports it also loads.
ExportLoads ==
  LET cells == ExportProfile(state, state.last_time)
  IN \A key \in DOMAIN cells : Validates(key, cells[key])

\* A server that starts with the profile its core would export now admits
\* nobody whom the measurements of that core refuse.
RestartConservative ==
  LET now == state.last_time
      restarted == NewWithProfile(state.reference, now, ExportProfile(state, now))
  IN now # NoTime /\ state.reference > 0 /\ ~PriorActive(state, now) =>
       \A key \in Keys :
         Admission(restarted, now, key).reason \in Abstract!FavourableReasons =>
           Admission(state, now, key).reason \in {"fit", "aggregate_tps_risk"}

\* The veto of the active run rests on that run alone: nothing in it is older.
RunIsCurrent ==
  state.active > 0 =>
    \A t \in Times : state.run[t] # Nothing => t >= run_since
=============================================================================
