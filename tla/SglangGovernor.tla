--------------------------- MODULE SglangGovernor ---------------------------
(***************************************************************************)
(* SglangGovernor (python/pig_governor/sglang.py) inside the native        *)
(* scheduler that owns the requests (patches/sglang/v0.5.20).  It adds the *)
(* runtime identity, whose change pauses admission until the old work has  *)
(* drained and then starts a new surface epoch, and it turns the result of *)
(* each native batch into one commit and a series of releases.             *)
(*                                                                         *)
(* Two kinds of actor take steps.  The scheduler thread admits requests,   *)
(* runs batches and aborts; after_result is several lock sections, so it   *)
(* is several steps, with "task" holding its local variables.  Control     *)
(* calls read, patch and refresh.  The shipped scheduler serves them in    *)
(* its own event loop, between tasks; ConcurrentControl lets them come     *)
(* from other threads, as the lock is there to allow.                      *)
(***************************************************************************)
EXTENDS SchedulerGovernor

CONSTANTS
  Identities,         \* runtime identities the provider can return
  Clients,            \* administrators that read the policy and patch it
  References,         \* TPS references they may ask for
  WaitingKnown,       \* the native waiting count is given to admit_request
  ConcurrentControl,  \* control calls may interleave with a scheduler task
  Retraction,         \* the native scheduler may retract a running request
  MaxGain,            \* tokens one batch can add to one request
  MaxTokens,          \* bound: tokens of one request
  MaxClock,           \* bound: clock
  MaxEpoch,           \* bound: identity changes stop at this epoch
  MaxRevision         \* bound: policy patches stop at this revision

ASSUME SglangAssumption ==
  /\ Identities # {}
  /\ References \subseteq Nat
  /\ WaitingKnown \in BOOLEAN /\ ConcurrentControl \in BOOLEAN /\ Retraction \in BOOLEAN
  /\ {MaxGain, MaxTokens, MaxClock, MaxEpoch, MaxRevision} \subseteq Nat

VARIABLES
  identity,        \* runtime_identity, _admission_paused, and the pending one
  provider,        \* what the identity provider returns now
  last_admission,  \* reason of the last decision, "none" when forgotten
  seen,            \* policy each client read last
  native,          \* phase and output length of each native request
  clock,           \* the monotonic clock
  task,            \* what the scheduler thread is doing
  fault            \* an exception that left the scheduler thread

vars ==
  <<schedulerVars, identity, provider, last_admission, seen, native, clock, task, fault>>

-----------------------------------------------------------------------------
(* Types and initial state.                                                *)

NoIdentity == "no identity"

Phases == {"new", "waiting", "chunked", "running", "retracted", "over"}

DecisionReasons ==
  CoreReasons \cup AdmittingReasons \cup {"waiting_limit", "identity_transition", "none"}

Steps == {"idle", "refresh", "collect", "commit", "terminate", "release", "prefill"}

PolicyView ==
  [epoch |-> core.epoch, revision |-> core.revision, reference |-> core.reference, limits |-> policy]

\* Committed output length and terminal flag of one request.
Update == [output : Nat, terminal : BOOLEAN]

NoUpdates == [r \in {} |-> [output |-> 0, terminal |-> FALSE]]

IdleTask ==
  [ at |-> "idle", now |-> 0, batch |-> {}, finished |-> {}, extend |-> FALSE,
    contaminated |-> FALSE, updates |-> NoUpdates, release |-> {} ]

Init ==
  /\ SchedulerInit
  /\ \E i \in Identities :
       /\ provider = i
       /\ identity = [runtime |-> i, paused |-> FALSE, pending |-> NoIdentity]
  /\ last_admission = "none"
  /\ seen = [cl \in Clients |-> PolicyView]
  /\ native = [r \in Req |-> [phase |-> "new", output |-> 0]]
  /\ clock = 0
  /\ task = IdleTask
  /\ fault = "none"

-----------------------------------------------------------------------------
(* refresh_identity, the first thing most methods do under the lock.       *)

IdentityMoves == identity.paused \/ provider # identity.runtime

\* Mutants: reserved requests do not hold a rotation back; a pause that has
\* begun does not end; only decoding requests hold admission back.
Rotates_WithReserved == IdentityMoves /\ decode.active = 0
Rotates_UnlessPaused == IdentityMoves /\ ~Busy /\ ~identity.paused
Pauses_Decoding == IdentityMoves /\ decode.active > 0

Rotates == IdentityMoves /\ ~Busy
Pauses == IdentityMoves /\ Busy

CurrentView ==
  [core |-> core, learned |-> learned, evidence |-> evidence, paused |-> identity.paused]

RotatedView(now) ==
  [ core |-> RotateCore(core, now, decode.active),
    learned |-> NewLearned,
    evidence |-> [pending |-> NoPending, surface_time |-> now, dirty |-> FALSE],
    paused |-> FALSE ]

\* What the rest of the method finds after the refresh.
RefreshedView(now) ==
  IF Rotates THEN RotatedView(now) ELSE [CurrentView EXCEPT !.paused = Pauses]

RefreshedIdentity ==
  IF Rotates THEN [runtime |-> provider, paused |-> FALSE, pending |-> NoIdentity]
  ELSE IF Pauses THEN [identity EXCEPT !.paused = TRUE, !.pending = provider]
  ELSE identity

\* Forgotten when a pause begins and when it ends.
RefreshedAdmission ==
  IF Rotates \/ (Pauses /\ ~identity.paused) THEN "none" ELSE last_admission

Refresh(now) ==
  LET v == RefreshedView(now)
  IN /\ core' = v.core /\ learned' = v.learned /\ evidence' = v.evidence
     /\ identity' = RefreshedIdentity
     /\ last_admission' = RefreshedAdmission
     /\ UNCHANGED <<policy, ledger, decode, reservation, progress>>

-----------------------------------------------------------------------------
(* The native scheduler around the hooks.                                  *)

InPhase(S) == {r \in Req : native[r].phase \in S}

Running == InPhase({"running"})
Chunked == InPhase({"chunked"})

\* Queue, grammar queue and chunked request together.
WaitingOwners == InPhase({"waiting", "retracted", "chunked"})

Owners == Running \cup WaitingOwners

\* Mutant: selection does not look at the cap.
ExtendBatches_Uncapped == {B \in SUBSET WaitingOwners : B # {} /\ Chunked \subseteq B}

\* Prefill selection under the hot cap.  A chunked request is continued
\* whatever the cap; new owners are added only below it.
ExtendBatches ==
  { B \in SUBSET WaitingOwners :
      /\ B # {} /\ Chunked \subseteq B
      /\ B = Chunked \/ Cardinality(Running) + Cardinality(B) <= policy.max_running }

DecodeBatches == IF Running = {} THEN {} ELSE {Running}

\* Tokens a batch may add.  One request per batch may be left in chunks, and
\* its next chunk is the last.
Gains(B, extend) ==
  { g \in [B -> (IF extend THEN 0 ELSE 1) .. MaxGain] :
      /\ \A r \in B : native[r].output + g[r] <= MaxTokens
      /\ \A r \in B : r \in HealthReq => g[r] = 1
      /\ \A r \in B \cap Chunked : g[r] > 0
      /\ \A r, s \in B : g[r] = 0 /\ g[s] = 0 => r = s }

\* Requests the batch finishes, by length or abort; the longest must end.
Finishes(B, g) ==
  { F \in SUBSET B :
      \A r \in B : r \in HealthReq \/ native[r].output + g[r] = MaxTokens => r \in F }

NativeAfter(B, g) ==
  [r \in Req |->
     IF r \in B
     THEN [ phase |-> IF g[r] = 0 THEN "chunked" ELSE "running",
            output |-> native[r].output + g[r] ]
     ELSE native[r]]

Idle == fault = "none" /\ task.at = "idle"

RunBatch(extend) ==
  /\ Idle
  /\ \E B \in (IF extend THEN ExtendBatches ELSE DecodeBatches) :
       \E g \in Gains(B, extend) : \E F \in Finishes(B, g) :
         /\ native' = NativeAfter(B, g)
         /\ task' = [IdleTask EXCEPT !.at = "refresh", !.now = clock, !.batch = B,
                                     !.finished = F, !.extend = extend]
  /\ UNCHANGED <<schedulerVars, identity, provider, last_admission, seen, clock, fault>>

\* Memory pressure sends a running request back to the queue.  No hook runs:
\* retraction alone is not terminal.
Retract(r) ==
  /\ Idle
  /\ Retraction
  /\ native[r].phase = "running"
  /\ native' = [native EXCEPT ![r].phase = "retracted"]
  /\ UNCHANGED <<schedulerVars, identity, provider, last_admission, seen, clock, task, fault>>

-----------------------------------------------------------------------------
(* Admission.                                                              *)

\* The caller reads the clock before it takes the lock.
Readings == IF ConcurrentControl /\ clock > 0 THEN {clock - 1, clock} ELSE {clock}

WaitingCount == IF WaitingKnown THEN Cardinality(WaitingOwners) ELSE NoCount

\* An admitted request is queued, or its enqueue fails and rolls it back.
Enqueue(r) ==
  \/ /\ native' = [native EXCEPT ![r].phase = "waiting"]
     /\ UNCHANGED task
  \/ /\ UNCHANGED native
     /\ task' = [IdleTask EXCEPT !.at = "release", !.release = {r}]

AdmitNew(r) ==
  /\ Idle
  /\ native[r].phase = "new"
  /\ \E now \in Readings :
       \E reason \in Decisions(r, now, WaitingCount, RefreshedView(now)) :
         /\ AdmitRequest(r, now, WaitingCount, RefreshedView(now), reason)
         /\ identity' = RefreshedIdentity
         /\ last_admission' = reason
         /\ IF reason \in AdmittingReasons THEN Enqueue(r) ELSE UNCHANGED <<native, task>>
  /\ UNCHANGED <<provider, seen, clock, fault>>

\* A request that already holds a reservation gets its first decision back.
AdmitAgain(r) ==
  /\ Idle
  /\ reservation[r].status = "live"
  /\ \E now \in Readings :
       /\ core' = RefreshedView(now).core /\ learned' = RefreshedView(now).learned
       /\ evidence' = RefreshedView(now).evidence
  /\ identity' = RefreshedIdentity
  /\ last_admission' = reservation[r].reason
  /\ UNCHANGED <<policy, ledger, decode, reservation, progress>>
  /\ UNCHANGED <<provider, seen, native, clock, task, fault>>

\* The forecast is refused: another caller has moved the core's clock on.
AdmitRaises(r) ==
  /\ Idle
  /\ native[r].phase = "new"
  /\ \E now \in Readings :
       /\ ~AdmitAccepts(now, RefreshedView(now))
       /\ Refresh(now)
  /\ fault' = "clock"
  /\ UNCHANGED <<provider, seen, native, clock, task>>

-----------------------------------------------------------------------------
(* after_result: refresh, collect, commit, release each, prefill.          *)

AtStep(step) == fault = "none" /\ task.at = step

RefreshResult ==
  /\ AtStep("refresh")
  /\ Refresh(task.now)
  /\ task' = [task EXCEPT !.at = "collect"]
  /\ UNCHANGED <<provider, seen, native, clock, fault>>

\* The requests whose progress this batch commits.
Reported == {r \in task.batch \ HealthReq : ~progress[r].terminal}

BatchUpdates ==
  [r \in Reported |-> [output |-> native[r].output, terminal |-> r \in task.finished]]

\* Mutant: a request that ends with its first token is not released.
TerminalRequests_Decoding == {r \in task.finished : progress[r].decoding}

TerminalRequests ==
  {r \in task.finished : IF r \in HealthReq THEN reservation[r].status = "live" ELSE r \in Reported}

BatchContaminated ==
  ledger.health > 0 \/ evidence.dirty \/ task.batch \cap HealthReq # {}

\* Health flags are read, and Progress objects attached, outside the lock.
CollectUpdates ==
  /\ AtStep("collect")
  /\ progress' = [r \in Req |-> IF r \in Reported THEN [progress[r] EXCEPT !.attached = TRUE]
                                ELSE progress[r]]
  /\ task' = [task EXCEPT !.at = IF Reported # {} \/ BatchContaminated THEN "commit" ELSE "release",
                          !.contaminated = BatchContaminated, !.updates = BatchUpdates,
                          !.release = TerminalRequests, !.batch = {}, !.finished = {}]
  /\ UNCHANGED <<core, learned, policy, ledger, decode, evidence, reservation>>
  /\ UNCHANGED <<identity, provider, last_admission, seen, native, clock, fault>>

CommitResult ==
  /\ AtStep("commit")
  /\ CommitBatch(task.updates, task.now, task.contaminated, CurrentView)
  /\ task' = [task EXCEPT !.at = "release", !.updates = NoUpdates]
  /\ UNCHANGED <<identity, provider, last_admission, seen, native, clock, fault>>

\* Why a commit or a prefill report raises.
FaultOf(updates) == IF ActiveAfter(updates) > NativeMaxRunning THEN "capacity" ELSE "clock"

CommitRaises ==
  /\ AtStep("commit")
  /\ ~CommitAccepts(task.updates, task.now, task.contaminated, CurrentView)
  /\ fault' = FaultOf(task.updates)
  /\ UNCHANGED <<schedulerVars, identity, provider, last_admission, seen, native, clock, task>>

ReleaseNext(r) ==
  /\ AtStep("release")
  /\ r \in task.release
  /\ ReleaseRequest(r)
  /\ native' = [native EXCEPT ![r].phase = "over"]
  /\ task' = IF task.release # {r} THEN [task EXCEPT !.release = @ \ {r}]
             ELSE IF task.extend /\ ~task.contaminated THEN [IdleTask EXCEPT !.at = "prefill", !.now = task.now]
             ELSE IdleTask
  /\ UNCHANGED <<identity, provider, last_admission, seen, clock, fault>>

NothingToRelease ==
  /\ AtStep("release")
  /\ task.release = {}
  /\ task' = IF task.extend /\ ~task.contaminated THEN [IdleTask EXCEPT !.at = "prefill", !.now = task.now]
             ELSE IdleTask
  /\ UNCHANGED <<schedulerVars, identity, provider, last_admission, seen, native, clock, fault>>

AdvanceTo(now) ==
  /\ core' = AdvanceCore(core, now)
  /\ learned' = AdvanceLearned(learned, core, now)
  /\ UNCHANGED <<policy, ledger, decode, evidence, reservation, progress>>

PrefillCompleted ==
  /\ AtStep("prefill")
  /\ ClockAccepts(core, task.now)
  /\ AdvanceTo(task.now)
  /\ task' = IdleTask
  /\ UNCHANGED <<identity, provider, last_admission, seen, native, clock, fault>>

PrefillRaises ==
  /\ AtStep("prefill")
  /\ ~ClockAccepts(core, task.now)
  /\ fault' = "clock"
  /\ UNCHANGED <<schedulerVars, identity, provider, last_admission, seen, native, clock, task>>

-----------------------------------------------------------------------------
(* on_abort_emitted: a queued request is aborted.                          *)

\* Mutant: the progress of an aborted request is forgotten.
Abort_ReleaseOnly(r) ==
  /\ Idle
  /\ native[r].phase \in {"waiting", "retracted"}
  /\ task' = [IdleTask EXCEPT !.at = "release", !.now = clock, !.release = {r}]
  /\ UNCHANGED <<schedulerVars, identity, provider, last_admission, seen, native, clock, fault>>

Abort(r) ==
  /\ Idle
  /\ native[r].phase \in {"waiting", "retracted"}
  /\ task' = [IdleTask EXCEPT !.at = IF progress[r].attached THEN "terminate" ELSE "release",
                              !.now = clock, !.release = {r}]
  /\ UNCHANGED <<schedulerVars, identity, provider, last_admission, seen, native, clock, fault>>

\* The length already accounted for is committed again, as terminal.
TerminalUpdate ==
  [r \in task.release |-> [output |-> progress[r].output_tokens, terminal |-> TRUE]]

Terminated ==
  /\ AtStep("terminate")
  /\ CommitBatch(TerminalUpdate, task.now, FALSE, CurrentView)
  /\ task' = [task EXCEPT !.at = "release"]
  /\ UNCHANGED <<identity, provider, last_admission, seen, native, clock, fault>>

TerminateRaises ==
  /\ AtStep("terminate")
  /\ ~CommitAccepts(TerminalUpdate, task.now, FALSE, CurrentView)
  /\ fault' = FaultOf(TerminalUpdate)
  /\ UNCHANGED <<schedulerVars, identity, provider, last_admission, seen, native, clock, task>>

-----------------------------------------------------------------------------
(* Control calls.                                                          *)

ControlMayRun == fault = "none" /\ (ConcurrentControl \/ task.at = "idle")

RefreshIdentity ==
  /\ ControlMayRun
  /\ Refresh(clock)
  /\ UNCHANGED <<provider, seen, native, clock, task, fault>>

\* Every read of the core moves its clock on, and with it the exposure.
PolicySnapshot(cl) ==
  LET v == RefreshedView(clock)
  IN /\ ControlMayRun
     /\ core' = AdvanceCore(v.core, clock)
     /\ learned' = AdvanceLearned(v.learned, v.core, clock)
     /\ evidence' = v.evidence
     /\ identity' = RefreshedIdentity
     /\ last_admission' = RefreshedAdmission
     /\ seen' = [seen EXCEPT ![cl] = [PolicyView EXCEPT !.epoch = v.core.epoch]]
     /\ UNCHANGED <<policy, ledger, decode, reservation, progress>>
     /\ UNCHANGED <<provider, native, clock, task, fault>>

\* telemetry_snapshot reads without refreshing the identity.  Its caller has
\* read the clock before; an outdated reading is refused without effect.
TelemetrySnapshot ==
  /\ ControlMayRun
  /\ \E now \in Readings : ClockAccepts(core, now) /\ AdvanceTo(now)
  /\ UNCHANGED <<identity, provider, last_admission, seen, native, clock, task, fault>>

\* A PATCH carries the epoch and revision its client read last.
PatchPolicy(cl) ==
  /\ ControlMayRun
  /\ core.revision < MaxRevision
  /\ \E reference \in References, limits \in Policies :
       UpdatePolicy(seen[cl].epoch, seen[cl].revision, reference, limits, RefreshedView(clock))
  /\ learned' = RefreshedView(clock).learned
  /\ evidence' = RefreshedView(clock).evidence
  /\ identity' = RefreshedIdentity
  /\ last_admission' = RefreshedAdmission
  /\ UNCHANGED <<ledger, decode, reservation, progress>>
  /\ UNCHANGED <<provider, seen, native, clock, task, fault>>

-----------------------------------------------------------------------------
(* The environment: model and configuration changes, and time.             *)

ChangeIdentity(i) ==
  /\ ControlMayRun
  /\ core.epoch < MaxEpoch
  /\ provider # i
  /\ provider' = i
  /\ UNCHANGED <<schedulerVars, identity, last_admission, seen, native, clock, task, fault>>

Tick ==
  /\ ControlMayRun
  /\ clock < MaxClock
  /\ clock' = clock + 1
  /\ UNCHANGED <<schedulerVars, identity, provider, last_admission, seen, native, task, fault>>

ResultStep ==
  \/ RefreshResult \/ CollectUpdates \/ CommitResult \/ CommitRaises
  \/ Terminated \/ TerminateRaises
  \/ (\E r \in Req : ReleaseNext(r)) \/ NothingToRelease
  \/ PrefillCompleted \/ PrefillRaises

Next ==
  \/ \E r \in Req : AdmitNew(r) \/ AdmitAgain(r) \/ AdmitRaises(r) \/ Abort(r) \/ Retract(r)
  \/ \E extend \in BOOLEAN : RunBatch(extend)
  \/ ResultStep
  \/ \E cl \in Clients : PolicySnapshot(cl) \/ PatchPolicy(cl)
  \/ TelemetrySnapshot \/ RefreshIdentity
  \/ \E i \in Identities : ChangeIdentity(i)
  \/ Tick

Spec == Init /\ [][Next]_vars

\* The event loop keeps finishing what it began and, in turn, runs batches of
\* either kind; the administrators' polling keeps refreshing the identity.
FairSpec ==
  /\ Spec
  /\ WF_vars(ResultStep)
  /\ SF_vars(RunBatch(TRUE)) /\ SF_vars(RunBatch(FALSE))
  /\ SF_vars(RefreshIdentity)

-----------------------------------------------------------------------------
(* What is known of the state.                                             *)

Live == {r \in Req : reservation[r].status = "live"}
Decoding == {r \in Req : progress[r].decoding}
Probes == {r \in Req : reservation[r].reason = "online_exploration"}

\* Type of the control state.  The sums of decode tokens are left to
\* TokensConserved.
TypeOK ==
  /\ core \in CoreState
  /\ policy \in Policies
  /\ ledger \in Ledgers
  /\ decode \in DecodeSets
  /\ evidence.surface_time \in Time /\ evidence.dirty \in BOOLEAN
  /\ DOMAIN evidence.pending \subseteq Cells
  /\ reservation \in [Req -> Reservations]
  /\ progress \in [Req -> Progresses]
  /\ identity \in [runtime : Identities, paused : BOOLEAN, pending : Identities \cup {NoIdentity}]
  /\ provider \in Identities
  /\ last_admission \in DecisionReasons
  /\ native \in [Req -> [phase : Phases, output : Nat]]
  /\ clock \in Nat
  /\ task.at \in Steps /\ task.now \in Nat
  /\ {task.extend, task.contaminated} \subseteq BOOLEAN
  /\ {task.batch, task.finished, task.release} \subseteq SUBSET Req
  /\ DOMAIN task.updates \subseteq Req
  /\ \A r \in DOMAIN task.updates : task.updates[r] \in Update
  /\ fault \in {"none", "clock", "capacity"}

\* The counters of the ledger are what the attached reservations say: every
\* admission is released exactly once, whatever path ends it, and a probe
\* holds the only exploration slot.
LedgerExact ==
  /\ ledger.outstanding = Cardinality(Live)
  /\ \A k \in Classes : ledger.admitted[k] = Cardinality(OfClass(Live, k))
  /\ ledger.health = Cardinality(Live \cap HealthReq)
  /\ ledger.exploring <=> Live \cap Probes # {}
  /\ \A r, s \in Live \cap Probes : r = s

\* The scheduler's counts, the core's count and the Progress objects agree
\* on who is decoding, although each is kept by its own code.
ActiveExact ==
  /\ decode.active = Cardinality(Decoding)
  /\ \A k \in Classes : decode.pressure[k] = Cardinality(OfClass(Decoding, k))
  /\ core.active = decode.active

\* Between tasks exactly the requests the native scheduler still owns hold a
\* reservation, and only they can be decoding: nothing leaks and nothing is
\* freed early across rollback, completion, abort and retraction.
ReservationsMatchOwners ==
  Idle => Live = Owners /\ Decoding \subseteq Owners

\* Requests in the system and in the queue stay within the hard limits, also
\* when the limits are patched while requests are in flight.
LoadBounded ==
  /\ ledger.outstanding <= NativeMaxRunning + MAX_WAITING_LIMIT
  /\ Cardinality(Running) <= NativeMaxRunning
  /\ WaitingKnown => Cardinality(InPhase({"waiting"})) <= MAX_WAITING_LIMIT

\* The core ignores evidence exactly while the scheduler still holds the
\* interval for contaminated, and it does so while any health check lives.
QuarantineAgrees ==
  /\ core.quarantined = evidence.dirty
  /\ ledger.health > 0 => evidence.dirty

\* All work in flight belongs to the surface epoch its evidence goes to: a
\* new epoch starts only after the old work has drained.
EpochPure ==
  \A r \in Live \cup Decoding : reservation[r].epoch = core.epoch

PendingTokens ==
  SumFunction([cell \in DOMAIN evidence.pending |-> evidence.pending[cell].tokens])

DecodeTokens(r) ==
  IF progress[r].output_tokens > 0 THEN progress[r].output_tokens - 1 ELSE 0

\* No decode token is given to the core twice, not even one that waits for
\* its exposure, and none survives from an earlier epoch.
TokensConserved ==
  LET learning == {r \in Req \ HealthReq : reservation[r].epoch = core.epoch}
  IN learned.tokens + PendingTokens <= SumFunction([r \in learning |-> DecodeTokens(r)])

\* The two clocks account for the same time, however reads and commits
\* interleave.  A commit gives its cell all of the time since the last one;
\* the aggregate records every call's part of it, except what was already
\* older than the rolling window when the call came.  So what the cells have,
\* plus what the next commit will give, is never more than what the
\* aggregate has recorded and left out, and without health checks the two
\* are equal.
ExposureAccounted ==
  LET next == IF evidence.dirty \/ evidence.surface_time = NoTime THEN 0
              ELSE decode.active * (core.last_time - evidence.surface_time)
      passed == learned.exposure + learned.clipped
  IN /\ learned.surface_seconds + next <= passed
     /\ HealthReq = {} => learned.surface_seconds + next = passed

\* Probes start at least one interval apart over the whole history, rolled
\* back probes and earlier epochs included.
ProbesSpaced ==
  \A r, s \in Probes : r # s =>
    \/ reservation[r].at - reservation[s].at >= EXPLORATION_INTERVAL
    \/ reservation[s].at - reservation[r].at >= EXPLORATION_INTERVAL

\* No call of the scheduler thread is refused by the core: time never runs
\* backwards for it and its active count fits the native capacity.
NeverRefused == fault = "none"

\* Every reservation is released in the end, also those that queue behind a
\* cap or are caught by a transition.
EveryReservationEnds ==
  \A r \in Req : reservation[r].status = "live" ~> reservation[r].status = "released"

\* A transition does not lock admission out for good: it ends.
TransitionsEnd == identity.paused ~> ~identity.paused

\* A patch succeeds only on top of the policy and epoch its client has read.
NoLostUpdate ==
  [][core'.revision # core.revision =>
       \E cl \in Clients :
         seen[cl] = [PolicyView EXCEPT !.epoch = core'.epoch]]_vars

\* Admission forecasts with evidence of the identity that serves: whoever is
\* admitted is admitted under the identity the provider reports.
AdmittedUnderServedIdentity ==
  [][ledger'.outstanding > ledger.outstanding =>
       identity'.runtime = provider /\ ~identity'.paused]_vars

\* An admission never takes the system over the limits in force, and is
\* refused for a transition only while old work remains.
AdmissionWithinLimits ==
  [][/\ ledger'.outstanding > ledger.outstanding =>
          /\ ledger'.outstanding <= policy.max_running + policy.max_waiting
          /\ WaitingKnown => Cardinality(WaitingOwners) < policy.max_waiting
     /\ last_admission' = "identity_transition" /\ last_admission # last_admission' =>
          Busy]_vars
=============================================================================
