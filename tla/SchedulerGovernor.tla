------------------------- MODULE SchedulerGovernor -------------------------
(***************************************************************************)
(* SchedulerGovernor (python/pig_governor/scheduler.py): the ledger of     *)
(* admitted requests, the decode progress attached to each of them, the    *)
(* mutable limits and the evidence handed to the core.                     *)
(*                                                                         *)
(* Its methods run under one reentrant lock, so each is one atomic step.   *)
(* A subclass runs refresh_identity first inside the same lock section;    *)
(* the operators therefore take a "view" v of the four values a refresh    *)
(* may have replaced by the time the method body runs:                     *)
(*    v.core, v.learned, v.evidence and v.paused.                          *)
(***************************************************************************)
EXTENDS GovernorCore, FiniteSetsExt

CONSTANTS
  Req,                  \* native request objects; an object is used once
  HealthReq,            \* those that are internal health checks
  Horizon,              \* input plus maximal output tokens of each request
  MAX_WAITING_LIMIT,
  EXPLORATION_INTERVAL,
  PENDING_HORIZON,      \* age at which unmatched decode tokens are dropped
  OnlineExploration

ASSUME SchedulerAssumption ==
  /\ IsFiniteSet(Req)
  /\ HealthReq \subseteq Req
  /\ Horizon \in [Req -> Nat]
  /\ MAX_WAITING_LIMIT \in Nat
  /\ EXPLORATION_INTERVAL \in Nat
  /\ PENDING_HORIZON \in Nat
  /\ OnlineExploration \in BOOLEAN

VARIABLES
  core, learned,  \* the controller core, see GovernorCore
  policy,         \* max_running and max_waiting
  ledger,         \* outstanding reservations and what they stand for
  decode,         \* number of decoding requests, in all and by class
  evidence,       \* decode tokens not yet given to the core, and its clock
  reservation,    \* governor_reservation of each request
  progress        \* governor_progress of each request

schedulerVars ==
  <<core, learned, policy, ledger, decode, evidence, reservation, progress>>

-----------------------------------------------------------------------------
(* Types.                                                                  *)

Policies ==
  [max_running : 1 .. NativeMaxRunning, max_waiting : 0 .. MAX_WAITING_LIMIT]

Ledgers ==
  [ outstanding : Nat, admitted : [Classes -> Nat], exploring : BOOLEAN,
    last_exploration : Time, health : Nat ]

DecodeSets == [active : 0 .. NativeMaxRunning, pressure : [Classes -> Nat]]

AdmittingReasons ==
  FavourableReasons \cup {"online_exploration", "health_check"}

\* "at" and "epoch" are history: when, and under which surface epoch, the
\* reservation was made.  The pressure class and the health flag are
\* functions of the request.
Reservations ==
  [ status : {"none", "live", "released"}, reason : AdmittingReasons \cup {"none"},
    at : Time, epoch : Nat ]

NoReservation ==
  [status |-> "none", reason |-> "none", at |-> NoTime, epoch |-> 0]

Progresses ==
  [ attached : BOOLEAN, output_tokens : Nat, decoding : BOOLEAN,
    terminal : BOOLEAN, last_time : Time ]

NoProgress ==
  [ attached |-> FALSE, output_tokens |-> 0, decoding |-> FALSE,
    terminal |-> FALSE, last_time |-> NoTime ]

NoPending == [cell \in {} |-> [tokens |-> 0, at |-> 0]]

SchedulerInit ==
  /\ core = NewCore
  /\ learned = NewLearned
  /\ policy \in Policies
  /\ ledger = [ outstanding |-> 0, admitted |-> [k \in Classes |-> 0],
                exploring |-> FALSE, last_exploration |-> NoTime, health |-> 0 ]
  /\ decode = [active |-> 0, pressure |-> [k \in Classes |-> 0]]
  /\ evidence = [pending |-> NoPending, surface_time |-> NoTime, dirty |-> FALSE]
  /\ reservation = [r \in Req |-> NoReservation]
  /\ progress = [r \in Req |-> NoProgress]

-----------------------------------------------------------------------------
(* Admission.                                                              *)

NoCount == -1     \* the caller supplies no native waiting count

ContextUppers == <<4096, 16384, 65536>>

RequestPressureClass(r) ==
  Cardinality({i \in 1 .. 3 : Horizon[r] > ContextUppers[i]})

Busy == ledger.outstanding > 0 \/ decode.active > 0

OutstandingAfter == ledger.outstanding + 1

ProjectedConcurrency ==
  IF OutstandingAfter <= NativeMaxRunning THEN OutstandingAfter ELSE NativeMaxRunning

\* The heaviest class among the reserved requests and the candidate.
ProjectedPressureClass(k) ==
  LET heavier == {i \in Classes : i > k /\ ledger.admitted[i] > 0}
  IN IF heavier = {} THEN k ELSE Max(heavier)

\* Mutant: the candidate is not counted.
ProjectedWaiting_WithoutCandidate(waiting) ==
  LET logical == IF OutstandingAfter > policy.max_running
                 THEN OutstandingAfter - policy.max_running ELSE 0
  IN IF waiting > logical THEN waiting ELSE logical

ProjectedWaiting(waiting) ==
  LET logical == IF OutstandingAfter > policy.max_running
                 THEN OutstandingAfter - policy.max_running ELSE 0
  IN IF waiting # NoCount /\ waiting + 1 > logical THEN waiting + 1 ELSE logical

HealthFits(r, waiting, v) ==
  /\ r \in HealthReq
  /\ ~v.paused
  /\ OutstandingAfter <= policy.max_running
  /\ ProjectedWaiting(waiting) <= policy.max_waiting

CooledDown(now) ==
  \/ ledger.last_exploration = NoTime
  \/ now - ledger.last_exploration >= EXPLORATION_INTERVAL

\* "qualifies": the adjacent lighter cell is fit, live and has headroom.
ExplorationAllowed(now, waiting, qualifies) ==
  /\ OnlineExploration
  /\ ~ledger.exploring
  /\ OutstandingAfter <= policy.max_running
  /\ waiting \in {NoCount, 0}
  /\ waiting = NoCount => ledger.outstanding = 0
  /\ CooledDown(now)
  /\ IF ProjectedConcurrency = 1 THEN ledger.outstanding = 0
     ELSE ProjectedConcurrency = ledger.outstanding + 1 /\ qualifies

\* A measured risk may be probed again after full drain and a quiet interval.
IdleRecoveryAllowed(observed, now, waiting, qualifies, v) ==
  /\ ~Busy
  /\ ledger.health = 0 /\ ~v.evidence.dirty
  /\ observed
  /\ v.evidence.surface_time # NoTime
  /\ now - v.evidence.surface_time >= EXPLORATION_INTERVAL
  /\ ExplorationAllowed(now, waiting, qualifies)

\* The core forecasts the projected cell with the state the caller left.
CoreAtAdmission(r, now, waiting, v) ==
  AdvanceCore(IF HealthFits(r, waiting, v)
              THEN QuarantineCore(v.core, now, decode.active, TRUE) ELSE v.core, now)

LearnedAtAdmission(r, now, waiting, v) ==
  IF HealthFits(r, waiting, v) THEN v.learned
  ELSE AdvanceLearned(v.learned, v.core, now)

ForecastClass(r) == ProjectedPressureClass(RequestPressureClass(r))

LighterQualifies(c, r) ==
  IF ProjectedConcurrency > 1 /\ Measured(c, ProjectedConcurrency - 1, ForecastClass(r))
  THEN BOOLEAN ELSE {FALSE}

\* The forecast's reason, or what the scheduler composes in its place.
ForecastReason(r, now, waiting, v, verdict, qualifies) ==
  IF v.paused THEN "identity_transition"
  ELSE IF r \in HealthReq THEN "health_check"
  ELSE IF \/ /\ verdict.reason = "tps_risk"
             /\ IdleRecoveryAllowed(verdict.observed, now, waiting, qualifies, v)
          \/ /\ verdict.reason = "unknown"
             /\ ExplorationAllowed(now, waiting, qualifies)
       THEN "online_exploration"
  ELSE verdict.reason

\* The waiting limit is looked at only once the forecast is favourable.
FinalReason(r, waiting, reason) ==
  IF /\ reason \in AdmittingReasons
     /\ \/ ProjectedWaiting(waiting) > policy.max_waiting
        \/ r \in HealthReq /\ OutstandingAfter > policy.max_running
  THEN "waiting_limit" ELSE reason

\* Every reason the decision on r may carry.
Decisions(r, now, waiting, v) ==
  LET c == CoreAtAdmission(r, now, waiting, v)
  IN { FinalReason(r, waiting, ForecastReason(r, now, waiting, v, verdict, qualifies)) :
         verdict \in CoreVerdicts(c, now, ProjectedConcurrency, ForecastClass(r)),
         qualifies \in LighterQualifies(c, r) }

LedgerWith(r, now, reason) ==
  LET exploration == reason = "online_exploration"
  IN [ outstanding |-> OutstandingAfter,
       admitted |-> [ledger.admitted EXCEPT ![RequestPressureClass(r)] = @ + 1],
       exploring |-> ledger.exploring \/ exploration,
       last_exploration |-> IF exploration THEN now ELSE ledger.last_exploration,
       health |-> ledger.health + IF r \in HealthReq THEN 1 ELSE 0 ]

EvidenceWith(r, e) ==
  IF r \in HealthReq THEN [e EXCEPT !.dirty = TRUE, !.pending = NoPending] ELSE e

AdmitAccepts(now, v) == ClockAccepts(v.core, now)

\* admit_request for a request without a reservation, decided with "reason".
AdmitRequest(r, now, waiting, v, reason) ==
  /\ reservation[r].status = "none"
  /\ AdmitAccepts(now, v)
  /\ reason \in Decisions(r, now, waiting, v)
  /\ core' = CoreAtAdmission(r, now, waiting, v)
  /\ learned' = LearnedAtAdmission(r, now, waiting, v)
  /\ IF reason \in AdmittingReasons
     THEN /\ ledger' = LedgerWith(r, now, reason)
          /\ evidence' = EvidenceWith(r, v.evidence)
          /\ reservation' =
               [reservation EXCEPT ![r] =
                  [ status |-> "live", reason |-> reason, at |-> now,
                    epoch |-> v.core.epoch ]]
     ELSE evidence' = v.evidence /\ UNCHANGED <<ledger, reservation>>
  /\ UNCHANGED <<policy, decode, progress>>

\* Mutants: the probe's slot is not given back; a probe rolled back before it
\* ran gives its interval back.
LedgerWithout_ProbeSlotKept(r) ==
  [ outstanding |-> ledger.outstanding - 1,
    admitted |-> [ledger.admitted EXCEPT ![RequestPressureClass(r)] = @ - 1],
    exploring |-> ledger.exploring,
    last_exploration |-> ledger.last_exploration,
    health |-> ledger.health - IF r \in HealthReq THEN 1 ELSE 0 ]

LedgerWithout_IntervalRefunded(r) ==
  [LedgerWithout_ProbeSlotKept(r) EXCEPT
     !.exploring = @ /\ reservation[r].reason # "online_exploration",
     !.last_exploration = IF reservation[r].reason = "online_exploration"
                             /\ ~progress[r].attached
                          THEN NoTime ELSE @]

LedgerWithout(r) ==
  [ outstanding |-> ledger.outstanding - 1,
    admitted |-> [ledger.admitted EXCEPT ![RequestPressureClass(r)] = @ - 1],
    exploring |-> ledger.exploring /\ reservation[r].reason # "online_exploration",
    last_exploration |-> ledger.last_exploration,
    health |-> ledger.health - IF r \in HealthReq THEN 1 ELSE 0 ]

\* Mutant: a reservation whose request never ran is kept.
ReleaseRequest_StartedOnly(r) ==
  /\ IF reservation[r].status = "live" /\ progress[r].attached
     THEN /\ ledger' = LedgerWithout(r)
          /\ reservation' = [reservation EXCEPT ![r].status = "released"]
     ELSE UNCHANGED <<ledger, reservation>>
  /\ UNCHANGED <<core, learned, policy, decode, evidence, progress>>

\* release_request: exactly once, a second call returns False.
ReleaseRequest(r) ==
  /\ IF reservation[r].status = "live"
     THEN /\ ledger' = LedgerWithout(r)
          /\ reservation' = [reservation EXCEPT ![r].status = "released"]
     ELSE UNCHANGED <<ledger, reservation>>
  /\ UNCHANGED <<core, learned, policy, decode, evidence, progress>>

-----------------------------------------------------------------------------
(* Committing a forward batch.  "upd" maps each request of the batch to    *)
(* its committed output length and whether it is terminal.                 *)

Counted(upd) == {r \in DOMAIN upd : ~progress[r].terminal}

Entering(upd) ==
  {r \in Counted(upd) : ~progress[r].decoding /\ upd[r].output > 0 /\ ~upd[r].terminal}

\* Mutant: a request that ends with its prefill leaves a set it never entered.
Leaving_AnyTerminal(upd) == {r \in Counted(upd) : upd[r].terminal}

Leaving(upd) == {r \in Counted(upd) : progress[r].decoding /\ upd[r].terminal}

\* Decode tokens of r in this batch; the first token belongs to prefill.
Delta(upd, r) ==
  IF progress[r].decoding THEN upd[r].output - progress[r].output_tokens
  ELSE IF upd[r].terminal \/ upd[r].output = 0 THEN 0
  ELSE upd[r].output - 1

TotalDelta(upd) == SumFunction([r \in Counted(upd) |-> Delta(upd, r)])
EnteringDelta(upd) == SumFunction([r \in Entering(upd) |-> Delta(upd, r)])

OfClass(S, k) == {r \in S : RequestPressureClass(r) = k}

ActiveAfter(upd) ==
  decode.active + Cardinality(Entering(upd)) - Cardinality(Leaving(upd))

PressureAfter(upd) ==
  [k \in Classes |-> decode.pressure[k] + Cardinality(OfClass(Entering(upd), k))
                                        - Cardinality(OfClass(Leaving(upd), k))]

Heaviest(pressure) ==
  LET held == {k \in Classes : pressure[k] > 0}
  IN IF held = {} THEN 0 ELSE Max(held)

CellBefore == <<decode.active, Heaviest(decode.pressure)>>
CellAfter(upd) == <<ActiveAfter(upd), Heaviest(PressureAfter(upd))>>

Elapsed(e, now) == IF e.surface_time = NoTime THEN 0 ELSE now - e.surface_time

SequenceSeconds(e, now) == Elapsed(e, now) * decode.active

\* All of the old active set retires, whether or not others enter.
FullReplacement(upd) ==
  decode.active > 0 /\ Cardinality(Leaving(upd)) = decode.active

FreshPending(e, now) ==
  Restrict(e.pending, {cell \in DOMAIN e.pending : now - e.pending[cell].at <= PENDING_HORIZON})

PendingAt(pending, cell) ==
  IF cell \in DOMAIN pending THEN pending[cell].tokens ELSE 0

PutPending(pending, cell, tokens, now) ==
  [x \in DOMAIN pending \cup {cell} |->
     IF x = cell THEN [tokens |-> tokens, at |-> now] ELSE pending[x]]

\* Mutant: tokens given to the core stay pending.
DropPending_Kept(pending, cell) == pending

DropPending(pending, cell) == Restrict(pending, DOMAIN pending \ {cell})

\* Tokens that reach the core with this batch.
CoreDelta(upd, e, now) ==
  LET carried == PendingAt(FreshPending(e, now), CellBefore)
  IN IF SequenceSeconds(e, now) = 0 THEN 0
     ELSE IF FullReplacement(upd) THEN TotalDelta(upd) - EnteringDelta(upd) + carried
     ELSE TotalDelta(upd) + carried

\* Tokens kept for the cell whose exposure has not been seen yet.
PendingAfter(upd, e, now) ==
  LET fresh == FreshPending(e, now)
      kept == IF decode.active = 0 THEN NoPending ELSE fresh
      cell == IF decode.active = 0 THEN CellAfter(upd) ELSE CellBefore
  IN IF ActiveAfter(upd) = 0 THEN NoPending
     ELSE IF FullReplacement(upd)
       THEN IF EnteringDelta(upd) > 0
            THEN PutPending(NoPending, CellAfter(upd), EnteringDelta(upd), now)
            ELSE NoPending
     ELSE IF SequenceSeconds(e, now) > 0 THEN DropPending(fresh, CellBefore)
     ELSE IF TotalDelta(upd) > 0
       THEN PutPending(kept, cell, PendingAt(kept, cell) + TotalDelta(upd), now)
     ELSE kept

Contaminated(quarantine, e) == quarantine \/ ledger.health > 0 \/ e.dirty

\* The core call of an uncontaminated batch, one of three.
ObservedCore(upd, now, v) ==
  LET seconds == SequenceSeconds(v.evidence, now)
  IN IF FullReplacement(upd)
     THEN ObserveReplacementCore(v.core, now, seconds, CellBefore, ActiveAfter(upd))
     ELSE IF seconds > 0 THEN ObserveBatchCore(v.core, now, CellBefore, ActiveAfter(upd))
     ELSE ObserveCore(v.core, now, ActiveAfter(upd))

ObservedLearned(upd, now, v) ==
  LET seconds == SequenceSeconds(v.evidence, now)
      delta == CoreDelta(upd, v.evidence, now)
  IN IF FullReplacement(upd)
     THEN ObserveReplacementLearned(v.learned, v.core, now, delta, seconds)
     ELSE IF seconds > 0
          THEN ObserveBatchLearned(v.learned, v.core, now, delta, seconds)
     ELSE ObserveLearned(v.learned, v.core, now, 0)

ObservedAccepts(upd, now, v) ==
  LET seconds == SequenceSeconds(v.evidence, now)
      delta == CoreDelta(upd, v.evidence, now)
  IN /\ Elapsed(v.evidence, now) >= 0
     /\ IF FullReplacement(upd)
        THEN ObserveReplacementAccepts(v.core, now, delta, seconds, CellBefore, ActiveAfter(upd))
        ELSE IF seconds > 0
             THEN ObserveBatchAccepts(v.core, now, delta, seconds, CellBefore, ActiveAfter(upd))
        ELSE ObserveAccepts(v.core, now, ActiveAfter(upd))

\* Nothing raises: neither the batch's own checks nor the core.
CommitAccepts(upd, now, quarantine, v) ==
  /\ \A r \in Counted(upd) : progress[r].decoding => now >= progress[r].last_time
  /\ IF Contaminated(quarantine, v.evidence)
     THEN ObserveAccepts(v.core, now, ActiveAfter(upd))
     ELSE ObservedAccepts(upd, now, v)

ProgressAfter(upd, now) ==
  [r \in Req |->
     IF r \in Counted(upd)
     THEN LET decoding == ~upd[r].terminal /\ (progress[r].decoding \/ upd[r].output > 0)
          IN [ attached |-> TRUE, output_tokens |-> upd[r].output, decoding |-> decoding,
               terminal |-> upd[r].terminal,
               last_time |-> IF decoding THEN now ELSE NoTime ]
     ELSE progress[r]]

\* Mutants: the last health check ends the contamination at once; the clock
\* of the cells stays behind the contaminated interval.
QuarantinedEvidence_Clean(now) ==
  [pending |-> NoPending, surface_time |-> now, dirty |-> FALSE]

QuarantinedEvidence_OldClock(now) ==
  [pending |-> NoPending, surface_time |-> evidence.surface_time, dirty |-> ledger.health > 0]

QuarantinedEvidence(now) ==
  [pending |-> NoPending, surface_time |-> now, dirty |-> ledger.health > 0]

ObservedEvidence(upd, e, now) ==
  [pending |-> PendingAfter(upd, e, now), surface_time |-> now, dirty |-> FALSE]

\* commit_batch, when nothing raises.  Progress is published last.
CommitBatch(upd, now, quarantine, v) ==
  /\ CommitAccepts(upd, now, quarantine, v)
  /\ IF Contaminated(quarantine, v.evidence)
     THEN /\ core' = QuarantineCore(v.core, now, ActiveAfter(upd), ledger.health > 0)
          /\ learned' = v.learned
          /\ evidence' = QuarantinedEvidence(now)
     ELSE /\ core' = ObservedCore(upd, now, v)
          /\ learned' = ObservedLearned(upd, now, v)
          /\ evidence' = ObservedEvidence(upd, v.evidence, now)
  /\ decode' = [active |-> ActiveAfter(upd), pressure |-> PressureAfter(upd)]
  /\ progress' = ProgressAfter(upd, now)
  /\ UNCHANGED <<policy, ledger, reservation>>

-----------------------------------------------------------------------------
(* Policy.                                                                 *)

\* The core owns the compare-and-set; the limits follow only its success.
UpdatePolicy(expected_epoch, expected_revision, reference, limits, v) ==
  IF ~v.paused /\ UpdateReferenceAccepts(v.core, expected_epoch, expected_revision)
  THEN core' = UpdateReferenceCore(v.core, reference) /\ policy' = limits
  ELSE core' = v.core /\ UNCHANGED policy
=============================================================================
