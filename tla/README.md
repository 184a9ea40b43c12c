# Verification of phala-inference-governor

TLA+ specifications of the governor, TLC runs on small instances and TLAPS
proofs for all instances. The governor decides whether a large language model
server admits a request. It learns decode throughput from the batches the server
commits and forecasts what one more request would do to it.

Contents: [the system](#the-system), [the modules](#the-modules),
[the runs](#the-runs), [the proofs](#the-proofs),
[what is left out](#what-is-left-out), [plan](#plan).

## The system

| Component | State it keeps | Operations | Modelled in |
|---|---|---|---|
| Controller core, `rust/src/lib.rs` behind `python/pig_governor/core.py` | clock, active count, quarantine flag, reference and revision, epoch, rings of evidence (aggregate, one per surface cell, active run), profile prior | `observe`, `observe_batch`, `observe_replacement`, `quarantine`, `prefill`, `snapshot`, `admit`, `choose`, `update_reference`, `rotate_surface_epoch`, export | `GovernorCore` (what later calls depend on), `ResponseSurface` (evidence and verdicts), `RollingWindow` (the aggregate ring) |
| `SchedulerGovernor`, `scheduler.py` | reservations, class counts, probe slot, health count, decode counts, pending evidence, surface clock, limits | `admit_request`, `release_request`, `commit_batch`, `terminated`, `prefill_completed`, `update_policy`, `policy_snapshot` | `SchedulerGovernor` |
| `SglangGovernor`, `sglang.py` | runtime identity, pause flag, pending identity, last admission, admission counters, loaded profile | `create`, `refresh_identity`, `after_result`, `on_abort_emitted`, `telemetry_snapshot`, `profile_snapshot` and the calls above behind a refresh | `SglangGovernor`, `Telemetry` (counters), `ProfileLifecycle` (profiles) |
| Native scheduler hooks, `patches/sglang/v0.5.20` | queues and batches of the server | admission, enqueue roll-back, hot running cap, result and abort hooks, policy read and patch | `SglangGovernor` |
| HTTP control plane, `http.py`, `admin.py` | the control task and the callers that wait for it | GET and PATCH of the policy, GET of the profile, each in one to three rounds with the scheduler | `ControlPlane`, `AtomicPolicy` |
| Runtime identity and profile files, `identity.py`, `profile.py` | a file and the digest that pins it | build, compare, load, validate, cover, export | `RuntimeProfile`, `ProfileLifecycle` |
| Metrics collector, `metrics.py` | published counters and gauges | `publish` | `Telemetry` |
| Admission diagnostics, `diagnostics.py` | a ring of decisions, its bounds | `record`, `snapshot` | `Telemetry` |

How they interact. The native scheduler calls `admit_request` when a request
arrives, `after_result` when a batch has run and the abort hook when a queued
request is cancelled. These run in its event loop. `SglangGovernor` first asks
the identity provider which runtime serves (`refresh_identity`), then runs the
`SchedulerGovernor` method; both are in one section of a reentrant lock.
`SchedulerGovernor` calls the core, whose calls are transactions: they commit a
new state or refuse and keep the old one. Administrators read and patch the
policy through messages the scheduler serves between tasks.

What is hard here:

* The same fact is kept in three places by different code: who is decoding is in
  the Progress objects, in the scheduler's counts and in the core's active count.
* A reservation can end by roll-back of a failed enqueue, by completion, by
  abort in the queue, or after retraction; each must happen exactly once.
* `after_result` is not one lock section but many: refresh, the health flags
  (read outside the lock), the commit, one release per request, the prefill
  report. Other threads may come in between.
* Decode tokens and the sequence-seconds they took reach the core by different
  routes, and tokens may have to wait for their seconds in `_pending`.
* The identity may change at any time. Work of the old identity drains first,
  while admission pauses. The pause has to end.
* An administrator's call gives up after five seconds while its control task goes on:
  the reply comes late, the update may be made after the caller was told that its
  outcome is unknown, and the next caller finds the slot taken.
* A profile measured by one server is the prior of the next. In between the runtime, its
  memory and the file may change, at any step of the load, and what was a prior must not
  become evidence.
* Counters, the capture of decisions and the metrics sample are written by calls that may
  raise half way; a reader must be able to reconcile them.
* The core accepts calls in clock order only and never more decoding requests than
  the native capacity; a refusal is an exception inside the server's event loop.

The full list, line by line, is under `hazards` in `PROJECT.json`.

## The modules

```
GovernorCore --> SchedulerGovernor --> SglangGovernor --> MCSglangGovernor   (TLC)
                                                    \--> SglangGovernorProofs --> SglangWorkProofs (TLAPS)
SglangGovernor --> Telemetry --> MCTelemetry                                 (TLC)
       Telemetry, SglangWorkProofs --> TelemetryProofs                       (TLAPS)
RuntimeProfile --> ProfileLifecycle --> MCProfileLifecycle                   (TLC)
                                   \--> ProfileLifecycleProofs               (TLAPS)
GovernorCore <== refined by == ResponseSurface --> MCResponseSurface         (TLC)
                                              \--> ResponseSurfaceProofs     (TLAPS)
ExactWindow <== refined by == RollingWindow --> MCRollingWindow              (TLC)
                                           \--> RollingWindowProofs          (TLAPS)
AtomicPolicy <== refined by == ControlPlane --> MCControlPlane               (TLC)
                                           \--> ControlPlaneProofs           (TLAPS)
SetSums: lemmas on sums over finite sets, for SglangWorkProofs, RollingWindowProofs,
         ResponseSurfaceProofs and TelemetryProofs                           (TLAPS)
```

**GovernorCore** has no variables. It defines, on a record, what each call of the
core requires and what it changes: acceptance (`...Accepts`), the state that
decides acceptance (`...Core`) and the running totals of evidence (`...Learned`).
A call that comes after a gap longer than the rolling window gives the aggregate only the part
of the gap that the window still holds (`StartOfRecord`); `clipped` is a history of the rest.
The keys of the response surface are cells, pairs of concurrency and context-pressure
class. Throughput is not part of it: a forecast is *any* verdict that the
recorded evidence permits (`CoreVerdicts`), so that every property is shown for
whatever the measurements say. `unknown` is always permitted, since evidence
ages; a measured verdict requires a cell with evidence at least as heavy as the
forecast's; a cold prior requires an unexpired profile.

**ResponseSurface** is the same core with the numbers from which it forecasts: a window of
evidence for each cell, the window of the active run, the prior cells of a profile and its deadline.
`Admission` is the verdict, `Reprobes` the one case in which a prior outweighs a slow
measurement, `ExportProfile` and `Validates` the two ends of a profile. Windows are exact,
as `RollingWindow` justifies; a rate is a pair of tokens and seconds, compared by
cross-multiplication. It shows two things to `SchedulerGovernor`: each of its calls is the call
of `GovernorCore` with the same arguments (`ImplementsCore`, under the mapping `CoreOf`, which
forgets the numbers), and each of its verdicts is one of `CoreVerdicts` (`VerdictsPermitted`). What
is checked of the scheduler for any permitted verdict thus holds for the core's own.
`run_since` is a history variable. `ExpansionAllowed` is the question the scheduler asks of the core
before a probe may widen the run.

**SchedulerGovernor** holds the variables of `scheduler.py`: `core` and `learned`
(the record above), `policy`, `ledger`, `decode`, `evidence` (`_pending`, the
surface clock and the dirty flag), and per request `reservation` and `progress`,
the two attributes the code attaches to request objects. Methods are action
operators (`AdmitRequest`, `ReleaseRequest`, `CommitBatch`, `UpdatePolicy`). A
subclass refreshes the identity in the same lock section before the method body
runs, so they take a *view*: the core, totals, evidence and pause flag as the
refresh leaves them. A batch is a function from requests to committed output
length and terminal flag. The pressure class of a request comes from its token
horizon by the code's thresholds.

**SglangGovernor** composes them with the identity, the native scheduler and the
administrators, and has the specification.

| Actions | Code |
|---|---|
| `AdmitNew`, `AdmitAgain`, `AdmitRaises` | `admit_request`: a decision with its enqueue or roll-back, the repeated call, the exception |
| `RunBatch(extend)` | the native scheduler runs a prefill or a decode batch; prefill selection obeys the hot cap, except for a chunked owner |
| `RefreshResult`, `CollectUpdates`, `CommitResult`, `ReleaseNext`, `NothingToRelease`, `PrefillCompleted` | the lock sections of `after_result`, in order, with `task` as its local variables |
| `CommitRaises`, `TerminateRaises`, `PrefillRaises` | the core refuses; the exception leaves the scheduler thread (`fault`) |
| `Abort`, `Terminated` | the abort hook of a queued request, and its terminal commit |
| `Retract` | memory pressure sends a running request back to the queue |
| `PolicySnapshot`, `PatchPolicy`, `TelemetrySnapshot`, `RefreshIdentity` | control calls |
| `ChangeIdentity`, `Tick` | the environment |

`ConcurrentControl` chooses between the shipped event loop, which serves control
calls between tasks, and control calls on other threads, which the lock is there
for. In the second case the clock a caller read before it took the lock may be
behind the clock the core has seen.

**Telemetry** is laid over `SglangGovernor`. `stats` are the counters of
`SglangGovernor.admit_request`, `capture` is `AdmissionDiagnostics`, `metrics` is what
the registry as another process that scrapes it finds it. Each of the admission actions is conjoined with what
the call counts and captures (`AttemptNew`, `AttemptAgain`, `AttemptRaises`). `Publish` is one
reading of the telemetry, or its failure, and only plans the writes; each `Write` sets one metric, in the
order of the code: gauges, totals, reasons and last that the sample is valid, or, after a failure, first that it
is not. Until the last of them the scheduler thread does nothing else (`Quiet`), but control calls on other threads may,
and a scrape may come between any two, which is what an invariant of every state says.
A capture is enabled throughout. An event carries, as history, the number of its call.

**RuntimeProfile** has the pure parts of a profile's life: a document with its cells, times and
identity, `Missing` (coverage), `Compatible`, `Valid`, what an export builds, and the check
of the envelope in the server process. An identity is its static fields and the probed KV capacity;
digests are injective, so that the things themselves are compared. A cell
remembers, as history, when and under which identity it was measured.

**ProfileLifecycle** is that life. A server starts (`StartOnline`, `StartWithProfile`,
`Misconfigured`) and loads its profile in the steps of `load_profile`: `Lstat`, `Open`, `CheckOpened`,
`Read`, `Validate`, then `Create`, with `loading` as the local variables. Between any two the
operator may replace, link or rewrite the file (`Place`, `Rewrite`; a file being
rewritten is `Torn`), the runtime may change and time may pass. Up, the server admits and drains
(`busy`), measures cells, follows the runtime (`Poll`, `Admit` and `ReadProfile` all refresh the identity first),
hands out documents (`ReadProfile`), and may crash (`Stop`). `live` and `prior` are the core's, `mirror` is the copy
that `Governor` keeps of the prior's count and deadline. Only a starting server
looks at the file, so that what became of it before is chosen at the start. Time begins at
`FirstClock`, so that the seeds may be documents of any age.

**RollingWindow** is the ring of buckets in which the core keeps its aggregate
evidence; a bucket belongs to the tick written in it and is emptied when another
tick falls on its slot. **ExactWindow** is what the ring promises: for each tick
still in the window, exactly the tokens recorded and the sequence-seconds that
passed in it. The ring implements it under the mapping that reads each tick's
slot (`ImplementsExactWindow`). Time is counted in units of a tick. Machine
integers appear as `MAX_COUNT`: an addition that passes it is refused, as
`checked_add` refuses it.

**ControlPlane** is the path of an administrator's call. `control` is
`manager._pig_control_task`, with the round it is in; `wire` and `replies` are the
messages between the server process and the scheduler; `results` is what the task
returned for a coroutine that still waits. `Dismiss` and `Start` are the two ends of
`endpoint` and `profile_endpoint`, `Deliver` and `GiveUp` the two ends of
`asyncio.wait_for(asyncio.shield(task))`. `Transmit`, `TransportFails` and the
`Receive...` actions are the task between its awaits. `ServeGet` and
`ServeSet` are the scheduler's handlers. Callers build their PATCH from any document they ever got.

**AtomicPolicy** is what `docs/INTEGRATION.md` promises of those calls: a policy that is
read and updated atomically, by compare-and-swap on epoch and revision. An answer is a
claim about history. `200` to a PATCH: the update was made, once, and the document shows it
and nobody else's. `409` and every other refusal: it is never made. `control_unavailable`:
either. A document is never older than its call. `ControlPlane` implements it under the
identity mapping; `effects`, which counts the updates made for a call, is its one history
variable.

Definitions named `X_Something`, placed before the definition `X` and marked
*Mutant*, are plausible mistakes in the code of `X`. No specification uses them:
each is substituted for `X` to confirm that a property is able to fail.
`PROJECT.json` says which.

## The runs

| Run | Asks | Bounds |
|---|---|---|
| `MCLedger` | do ledger, counts, native owners and core agree, is load bounded, is the core ever made to refuse | three requests of three classes, capacity 2, all orders of admission, roll-back, chunking, batches, abort; one patch moves the limits at any moment |
| `MCEvidence` | is every token and second learnt at most once and in its epoch, do probes keep their interval | two requests, up to three tokens, two per batch, clock to 3 with interval, pending horizon and rolling window of 2 (so that a gap may pass the window), one rotation by a change of identity |
| `MCPolicy` | can a patch be lost, does admission keep to limits that move, is anyone admitted under an identity that does not serve | two administrators, two patches, two requests, one rotation by a change of identity |
| `MCConcurrent` | do quarantine, epochs, exposure and reservations survive control calls, health checks and retraction between the steps of a result | two requests and a health check, stale clock readings, retraction and abort in the queue, one rotation by a change of identity, no waiting count from the caller |
| `MCRetractionRefused` | *violated*: is the core ever made to refuse when requests are retracted | three requests, capacity 2 |
| `MCDrain` | does every reservation end, does every transition end | fair specification, two requests, capacity 2, one rotation by a change of identity, one patch that may lower the caps below what runs |
| `MCRollingWindow` | does the ring implement the exact window, does reading ever overflow | three buckets of two units, a window of two ticks, calls at any of ten times, so that the ring wraps and gaps exceed the window |
| `MCResponseSurface` | does the core's arithmetic implement `GovernorCore`, who is admitted to a slow cell, does what is exported load, is a restarted core cautious, is the run's veto current | two cells (one pressure class), five instants, a window of two and a short one of one, a profile that expires at the last instant, one epoch change, one change of reference from 0 to 1 |
| `MCExpansion` | *violated*: does a probe widen the run on qualified live evidence only | a profile for the lighter cell, batches that take less than the exposure that qualifies |
| `MCControlPlane` | is every answer one an atomic policy could give, can a late reply reach the wrong call, is the slot always given back | three calls of any kind, two fields, three patches (valid, above the native bound, another field), one change of epoch |
| `MCProfileLifecycle` | is a prior in use recent, of this runtime, of the pinned file and reported as it is, does a good document load | two files, three runtimes (two capacities, another model), two certified documents, clock from 1 to 4 with a lifetime of 2, a window of 1 and a start of 1, one or two measured cells with a reader that takes one |
| `MCTelemetry` | is each admission call counted once, has the capture gaps, what may a scrape conclude | two interchangeable requests, four admission calls, a ring of two, a capture of three or of one time unit, stale clock readings, one rotation by a change of identity |

Why the bounds suffice. Three requests at capacity two (or two at capacity one)
are the least that fill the capacity while another one waits, and give a probe
next to other work. Request classes differ so that a wrong class counter shows.
Two tokens per batch separate a prefill token from decode tokens in one update. The clock
passes the probe interval and the pending horizon. The provider's answer moves
between two identities, and back during a transition, until the epoch has rotated once. The bounds `MaxTokens`, `MaxGain`,
`MaxClock`, `MaxEpoch` and `MaxRevision` cap the environment only: the code's own
transitions are never disabled by them, except that no patch is sent at the last
revision.

What they show. In `MCLedger` the ledger's counters are what the attached
reservations say (`LedgerExact`), the three records of decoding agree
(`ActiveExact`), the requests with a reservation are those the server owns
(`ReservationsMatchOwners`), and without retraction the core never refuses
(`NeverRefused`). `LoadBounded` holds although a patch lowers the limits below the present load or
raises them again: it is stated against the hard limits. `TokensConserved` is an inequality since tokens are dropped on
purpose: at quarantine, past the horizon, when the set empties.
`ExposureAccounted` is an equality as long as no health check interferes: the
seconds given to cells, with those the next commit will give, are the seconds that
the aggregate recorded and those it left out, although reads advance one clock and commits the other.
What it left out is the difference between the two in the code: after a gap longer than the window the
aggregate starts at the oldest bucket it still holds (`lib.rs:369-370`), while `commit_batch` gives the cell all
of the time since the last commit (`scheduler.py:476-479`), so the cell may get more than
the aggregate has. A read in the middle of the gap moves the one clock and not the other, and changes how much is left out.
`MCResponseSurface` has the least times that separate its four horizons: a cell may have a
slow long window and a fast short one, go unqualified by age or by exposure, stay
unoccupied for a short window, and see its prior expire. Three tokens on a batch of one
or two sequence-seconds make rates on both sides of the reference and equal to it.
The model allows every order of calls that the core accepts, which includes the
scheduler's. `RestartConservative` says what a profile is for: whoever the restarted core
would admit on it, the measurements it came from would not have refused; only the
active run, which a restart ends, may have.

In `MCProfileLifecycle` the clock allows a document to be exported, loaded, and what the second
server would export to be loaded again after the first measurement has expired: if a prior were exported
along with live cells, `PriorFresh` would fail, as its mutant shows. `PriorFits` is stated while no
transition is pending. It rests on two things together: a load compares the document with the
identity the server saw first, and a runtime that has moved since makes the first call rotate. A change
that comes and goes between two refreshes is not seen by the code; it is no
exception, since the runtime that serves is then the one that was compared.
`ExportsLoad` is the converse. It names every cause of a refused start: a file that was touched, a document that
expired, a runtime that differs, and a document larger than the reader accepts. The last is no fault
of the operator. `load_profile` refuses more than 64 KiB (`profile.py:373-374`), the exporter never looks at
the size, and `docs/INTEGRATION.md:99-100` promises a "loadable profile document" without a limit; at about 200 bytes a
cell, a well filled surface for a capacity above about 75 is too large. The run has both kinds of document.

In `MCTelemetry` the ring wraps, the capture stops by number or by time, and a caller with an older
clock comes after the stop. `AttemptsExact` would be false of a request that is admitted
twice. `ScrapesSound` says what an operator may conclude from a scrape at any moment. Between two
writes of a publication that is little: no counter is ahead of the calls, rejects and reuses are among the attempts, the
reasons are among the rejects (totals are written before reasons), and while the sample is marked valid no gauge is
unknown. New gauges do stand beside old counters there, with the mark of the last sample still
on them, and reasons may add up to less than the rejects. Only a scrape that overlaps no publication reads one
moment, and goes on reading it while the governor moves on.
`ReprobeSafe` in `MCResponseSurface` bounds the slot at which a slow cell may be
favourable, one ahead of a healthy run. It does not bound the requests that meet it: at the native capacity the
projection is capped (`scheduler.py:225-227`), so that a second request may be forecast at the same cell.

In `MCControlPlane` three calls are an update, a competitor that holds the same
document, and a third that meets the late reply or the freed slot. `OneRound` is the
comment in `_control` ("do not let a cancelled waiter misattribute a late reply to the next
call"); without `asyncio.shield` it fails, as its mutant shows.

The expected violations. A retracted request keeps its place among the decoding
ones (`scheduler.py`: "retraction alone is not terminal"), while the queue
selection fills its slot with another owner; `docs/NATIVE_RUNNING_POLICY_CANDIDATE.md`
says retracted work simply uses the same queue selection cap. When a full
native batch contains fewer of the counted requests than the capacity, the sum
passes `max_running_requests`, the core answers `INVALID` and `commit_batch` raises out of
`after_result`. `MCRetractionRefused` shows it with two slots and three requests. Where
retraction is possible, `NeverRefused` is therefore not claimed; the theorems below
hold all the same, as a refused commit changes nothing.

`docs/INTEGRATION.md` says that concurrency expands only on qualified live evidence of the lighter
cell and that "a prior alone cannot authorize expansion". `_exploration_blocker` looks at `observed` of the
lighter cell's verdict, and the core sets it for any live evidence that undercuts a prior, qualified or
not; without the prior the same evidence yields no bound. `MCExpansion` shows one batch, too short to
qualify the cell, after which the heavier cell may be probed. Everything else about probes is unaffected: one
at a time, spaced, never with somebody waiting.

Fairness. In `MCDrain`: weak fairness of `ResultStep`: a task that has
begun is finished by its thread. Strong fairness of each kind of `RunBatch`: the
event loop alternates between prefill and decode whenever it has work, although
administrators' calls and admissions intervene. Strong fairness of `RefreshIdentity`:
reads of the policy refresh the identity, and the server is polled. Nothing is
assumed of arrivals, aborts or patches. In `MCControlPlane`: the event loop runs the
control task (`Transmit`, `Receive`) and the scheduler serves every command (`Serve`),
each weakly fair; nothing is assumed of timeouts, callers or the transport. A scheduler that
never answers keeps the slot for good: `_control` does not bound the task, only the wait. The cfgs without `CHECK_DEADLOCK FALSE` never
deadlock; in those that have it, a raised exception stops the scheduler
thread for good (`MCConcurrent`, `MCRetractionRefused`, `MCTelemetry`), or every call has been made and
answered (`MCControlPlane`).

## The proofs

`SglangGovernorProofs` proves, for every set of requests, every assignment of
horizons, every capacity and limit, with or without retraction and concurrent
control:

| Theorem | Property |
|---|---|
| `TypeCorrect` | `TypeOK` (no run repeats it) |
| `LedgerIsExact` | `LedgerExact` |
| `ActiveIsExact` | `ActiveExact` |
| `QuarantineIsExact` | `QuarantineAgrees` |
| `ServedIdentityAdmits` | `AdmittedUnderServedIdentity` |
| `LimitsHold` | `AdmissionWithinLimits` |
| `PatchesAreNotLost` | `NoLostUpdate` |

Assumptions are those the modules name: `CoreAssumption` (the capacity is positive),
`SchedulerAssumption` (finitely many requests, natural horizons and limits) and
`SglangAssumption` (the types of the remaining constants).

The argument. `IInv` is the conjunction of `CoreOK`, `LedgerOK`, `DecodeOK`,
`IdentityOK`, `NativeOK` and `TaskOK`, one per group of variables, and its proof has one
lemma per operation rather than per action. `CoreOK(c, e)` is stated of any
core and evidence, because most actions first refresh: `CoreRefresh` shows that the
refreshed pair satisfies it, and the operation starts from there. What makes it
inductive:

* A rotation empties the evidence and clears the quarantine, which is sound only if no
  health check lives. It happens only when nothing is outstanding, and then
  `LedgerExact` says that no request is live: agreement of the core needs exactness
  of the ledger.
* An admission quarantines the core *before* the decision is known. `DecisionFacts`
  shows that this guess is right: the quarantine is set exactly when a health check is admitted.
* A commit adds those that enter and subtracts those that leave; `CountBatch` shows that
  this is the cardinality of the new set, since entering requests were not decoding and leaving
  ones were.
* A commit's cell is a cell of the surface because a batch that has exposure had
  somebody decoding.

The action properties follow from `IInv` and one fact each: an admission needs a view without a
pause, and a view without a pause means that the provider agrees. `PatchesAreNotLost` adds
`SeenOK`: what a client holds was in force at its revision, and revisions grow.

`SglangWorkProofs` goes on from there, under the same assumptions, to the work that a reservation
stands for:

| Theorem | Property |
|---|---|
| `WorkInvariance` | `WorkInv`, the invariant the others start from |
| `OwnersHoldReservations` | `ReservationsMatchOwners` |
| `EpochsArePure` | `EpochPure` |
| `LoadStaysBounded` | `LoadBounded` |
| `ProbesAreSpaced` | `ProbesSpaced` |
| `ExposureIsAccounted` | `ExposureAccounted` |
| `TokensAreConserved` | `TokensConserved` |
| `CallsAreNeverRefused` | `NeverRefused`, if `~Retraction` and `~ConcurrentControl` |

`ReservationsMatchOwners` speaks of the moments between tasks only, and is not inductive: in between,
`after_result` keeps what it has yet to release in local variables. `WorkOK` says, for each of its steps, what these
hold (at `commit`, whoever is to be released is reported terminal; at `release`, nobody who
is left still decodes), and `OwnersOK` that a reservation without an owner is one whose enqueue has just
failed. `WorkInv` is `IInv` with these two, `EpochPure` and `TimeOK`. Steps are classified twice,
by what they do to requests (`StepKinds`) and by what they do to core and evidence (`CoreKinds`), so that every later
proof has a handful of cases instead of one per action.

* `EpochsArePure` is the reverse side of `ReservationsMatchOwners`: a rotation happens only with nothing
  outstanding, hence with nobody decoding, hence with nothing pending.
* `LoadStaysBounded` adds `LoadOK`, which counts the chunked request with the running
  ones: a batch may only continue what runs, or start what the hot cap leaves room for.
* `ExposureIsAccounted` adds `ExposedOK`. `Uncounted` is what a commit at this moment would
  still give; a read moves the aggregate clock and `Uncounted` together, a commit turns it
  into exposure of a cell. What a call adds to the aggregate and what the window leaves out of it are together the whole gap
  (`lib.rs:369-370`), for every length of window and bucket. Equality is lost when a health check makes the evidence dirty, and only then.
* `TokensAreConserved` adds `TokensOK`, a sum over all requests of the epoch: tokens given and tokens kept
  never exceed the tokens generated. A commit moves tokens from one summand to the next or drops them.
* `CallsAreNeverRefused` adds `CalmOK`: between the lock sections of one `after_result` the clock stands
  still for the core. Both hypotheses are needed: with retraction the property is false (`MCRetractionRefused`),
  and control calls on other threads may move the core's clock past the one the task has read.
  The second holds of the shipped event loop, which serves control calls between tasks; the first of a server whose
  memory never forces a running request back into the queue.

`ControlPlaneProofs` proves, for every set of calls, every set of fields and patches and
every native bound:

| Theorem | Property |
|---|---|
| `TypeCorrect` | `TypeOK` (no run repeats it) |
| `RoundsAreSeparate` | `OneRound` |
| `UpdatesAreNotLost` | `NoLostUpdate` |
| `AnswersAreAtomic` | `IsAtomic`, that is, `Spec` implements `AtomicPolicy!Spec` |

It assumes what `ControlPlane` names: patches change some fields and only existing ones,
one of which is `max_running`, and the initial policy respects the native bound. `IInv` here is
`TypeOK`, `OneRound` and `NoLostUpdate` with `AskedOK` (requests keep what they
asked), `HistoryOK` (an update was made over an earlier revision), `SlotOK` and `ResultsOK`.

* `OneRound` alone is inductive only with the types. From it, `Whereabouts` says where the
  message is: nowhere, on the wire, or the reply on its way back. So a handler serves the call in the slot.
* `SlotOK` says what the rounds behind the slot's call have done: nothing before a positive
  reply to the write, and `Applied` after it. `Applied` survives because the scheduler changes the
  mutable policy only for the call in the slot, and a rotation keeps it.
* `ResultsOK` says that a result stays true while it waits for its caller: revisions grow,
  and a document of an old revision is not contradicted by a new one (`TruthStays`).
* `PromiseStep` maps each action: `Start` to `Ask`, `Dismiss` to a dismissed one, `ServeSet` to
  `TakeEffect` when it accepts, `Rotate` to `NewEpoch`, `Deliver` and `GiveUp` to `Answer`,
  everything else to a stutter.

`ProfileLifecycleProofs` proves, for every set of files, runtimes and documents, every
lifetime, window and native capacity, and any number of servers:

| Theorem | Property |
|---|---|
| `Typing` | `TypeOK` (no run repeats it) |
| `Freshness` | `PriorFresh` |
| `Fitness` | `PriorFits` |
| `Reporting` | `PriorReported` |
| `Pinning` | `PinnedIsLoaded` |
| `ExportsAreLoadable` | `ExportsLoad` |
| `CompleteCoverage` | the coverage of a profile is complete exactly when its heaviest cell is measured |

It assumes `ProfileAssumption`, `LifecycleAssumption` (an envelope reaches the server process before the
document in it expires: `CONTROL_TIMEOUT` is seconds, `VALID_FOR` at least one minute) and
`SeedsAreCertified`: the documents certified before the first server say what was measured when they were
made. `IInv` has five parts, and the argument goes around with the document:

* `MeasuredOK`: while no transition is pending, every measured cell is of the server's identity. A batch may be
  measured while the runtime has moved already, but its own refresh has begun the transition by then.
* Hence `BuiltIsCertified`: an exported document is `Certified`. `DocumentsOK` carries this through the
  operator's hands, `LoadingOK` through each step of a load.
* `PriorOK`: a server's prior is that of a certified document that was compared with the identity
  it still has, and the mirror agrees with it. `Freshness` adds up the window of the
  cell, the lifetime of the document and the time of the start.
* `ExportsAreLoadable` needs `LoadsOK` in addition: a document has one cell to a key and was created in the past, and the load
  of an untouched file sees one file throughout. Nothing is assumed of the size of a document: one that
  the reader finds too large is a cause of its own.

`TelemetryProofs` builds on both modules about `SglangGovernor`:

| Theorem | Property |
|---|---|
| `CountersAreExact` | `AttemptsExact` |
| `CaptureIsAPrefix` | `CaptureIsPrefix` |
| `EveryScrapeIsSound` | `ScrapesSound` |
| `CaptureMatchesCounters` | `CaptureReconciles` |

The lemma `WatchedIsGoverned` (every action of `Telemetry` is one of `SglangGovernor`'s or leaves it alone, by
the way the module is built) gives the governor's invariants to the watched one: the counters need that a live
reservation was admitted, a sample needs that what is outstanding is what the ledger counts.
`EveryScrapeIsSound` rests on `RegistryOK`, which tells three situations apart. Between publications the registry is
settled: of one moment. While a sample is under way, what it will write is settled and still what the governor
counts, and what has been written agrees with it; so a half written registry mixes two settled ones in the order of the writes,
and the reasons cannot overtake their total. While an invalidation is under way, no counter moves and the mark of validity
has gone first.
`CaptureIsAPrefix` needs to know that the capture has its shape whatever the order of the clocks that its callers read.
`CaptureMatchesCounters` needs `RecordsOK`, which ties the events to the admitted requests: as long as nothing
is missing, each admitted request has exactly one event that admitted it, and its reuses come later.

`RollingWindowProofs` proves, for every number and length of buckets, every window shorter than the ring and
every `MAX_COUNT`, from `RingAssumption`:

| Theorem | Property |
|---|---|
| `RingStaysSound` | `RingOK`, the invariant |
| `RingImplementsWindow` | `ImplementsExactWindow` |
| `EvidenceIsTheWindow` | `EvidenceExact` |
| `EvidenceNeverOverflows` | `EvidenceFits` |

`RingOK` says that a bucket bears a tick of its own slot and none of the future. The heart is `SlotInjective`: ticks
less than a ring apart do not share a slot, so that a slot which is claimed for a tick belongs to that
tick or to one that has left the window. From this follow the refinement, call by call, and
that the sum over slots is the sum over ticks: the slots outside the window hold nothing that counts.
A call that only moves the clock drops ticks from the window, and a part is no more than the whole; this is why what was
accepted once is never too large later.

`ResponseSurfaceProofs` proves, for every native capacity, every profile, all horizons, thresholds and
references:

| Theorem | Property |
|---|---|
| `SurfaceIsTyped` | `TypeOK` |
| `RunStaysCurrent` | `RunIsCurrent` |
| `SurfaceImplementsCore` | `ImplementsCore`, that is, each call is that of `GovernorCore` |
| `VerdictsArePermitted` | `VerdictsPermitted` |
| `ReprobesAreSafe` | `ReprobeSafe` |
| `SurfaceExportsLoad` | `ExportLoads` |
| `RestartsAreConservative` | `RestartConservative` |

It assumes `SurfaceAssumption` (the short window is no longer than the long one; capacity, exposure and
lifetime are positive) and `ProfilesAssumption` (the cells of a profile hold rates, which `ProfileCellV1::validate`
enforces). `SurfaceInv` says that cells were observed no later than the last call, qualified no
later than observed and hold nothing later, that no tokens come without seconds, that the scheduler observes with no clock ahead of
the core's, and that the run's window holds nothing from before the run. There is one lemma per call for the
state (`Observes...`, `StartsEpoch`) and one per action (`...Steps`), which shows both that `SurfaceInv` is kept and that
the action is a call of `GovernorCore`.

* With `SurfaceImplementsCore` and `VerdictsArePermitted`, what the two modules above prove of the scheduler
  for *any* permitted verdict is proved of the verdicts the arithmetic gives.
* Rates are compared by cross-multiplication, which is total, and transitive by way of a
  rate that is known (`AtLeastTotal`, `AtLeastTransitive`). The seconds of unknown rates are zero, and the order fails for them;
  that the code never compares one is part of what `BoundCases` shows.
* The lowest bound of the cells at least as heavy is a `CHOOSE`; `FirstOf` shows that it exists, since a strict order
  has a first element in every finite set.
* `SurfaceExportsLoad`: the lookback is a sum over a part of the window, so that what qualifies has seconds.
* `RestartsAreConservative` compares two cores. They know the same qualified cells, and in each the
  bound for admission is at least the lower bound exported; `SelectedCases` and `VerdictCases` split the rest.

`SetSums` proves what these need of sums over finite sets: of the empty set, of one more element, of a part, of two functions, of
functions that agree. The library's induction theorems are out of reach, as they take an operator. But its
theorems about well-founded orders take sets, and give a smallest counterexample
(`SmallestSubset`, from which `SetInduction` follows for a *set* of good subsets); sums are written with `SumFunction`
throughout the models for this reason, a fold that needs no recursive operator.

What is only model-checked. Every safety property that a passing run checks (invariants, action properties and
refinements) is stated by a theorem. Liveness is not: `EveryReservationEnds` and `TransitionsEnd` (`MCDrain`) and
`ControlIsFreed` (`MCControlPlane`) rest on fairness, and with it on `ENABLED`, which TLAPS does not reason about.
The two properties of the violation runs are false as stated there.

## What is left out

* `choose` and `prefer_decode`, with the prefill preference; the `observed` flag of a snapshot.
  `ResponseSurface` leaves the aggregate window and overflow to `RollingWindow`; its rates are exact
  where the code divides floats.
* The time of a call is read before the lock is taken. In the shipped event loop no control call comes in between;
  `ConcurrentControl` lets one, and the core then refuses the older reading. `NeverRefused` is not claimed there.
* The shipped admission hook passes no health-check flag, so that health checks are
  modelled from `scheduler.py`'s interface and its tests rather than from the hook.
* `prefill_completed` is called only for a positive wall time; the model calls it always.
* `before_prefill`, which forwards to `choose`; requeue failure in the native scheduler:
  when the native queue limit turns a retracted request away, the hook releases its reservation and leaves its Progress
  decoding, so that it would be counted for ever. Only the first enqueue of a request fails here.
* Of telemetry: gauges of policy, throughput and coverage; the rotation counter; the keyed hash of a request
  id; a deployment in which the capture is disabled, or the Governor, for which `publish` marks an empty sample as valid.
  Faults of the Prometheus client in `.set` and `.inc`, which are outside the `try` of `publish`, and of `record` in the
  diagnostics: nothing here says that they cannot reach admission. A scrape that takes gauges and counters at
  different instants is not one state of the registry and concludes less. Counters that move
  backwards, which `publish` refuses, do not occur with one governor object. Writes that change nothing are left out.
  The second test of the event limit in `record` is never reached, since the capture stops at its last event.
* Of profiles: steps of the wall clock. A lifetime is computed from the wall clock when a server starts
  and then counted on the monotonic one; the two advance together here. Nothing in the code detects a wall clock that
  was wrong at the start. `MaxCells` stands for the 64 KiB limit of the reader, as a number of cells. The operator's file operations are the model's, not the
  repository's: `Available` lets the operator store the document read last or a certified one. The
  check in the server process is merged with the read, between which only time passes.
* Credentials, headers and JSON: `Dismiss` may turn any
  request away. A deployment without a Governor or with several ranks, which answers
  `governor_unavailable` or a conflict.
* Cancellation of the control task by the server's own shutdown.
* Syntax of identities, environment variables and timestamps; canonical JSON and hashing; FFI
  marshalling; packaging scripts: no protocol state.

## Plan

1. `choose` and the prefill preference; two pressure classes in `MCResponseSurface`.
2. Requeue failure in the native scheduler.
3. Composition of `ControlPlane` with `ProfileLifecycle`: the epoch a client expects against the document it gets.
4. Proofs of what 1 to 3 add; the prefill preference of `choose` as a function of the verdicts proved permitted.
