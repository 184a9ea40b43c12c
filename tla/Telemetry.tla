----------------------------- MODULE Telemetry -----------------------------
(***************************************************************************)
(* What an operator sees of SglangGovernor: the admission counters         *)
(* (sglang.py), the metrics sample published from them (metrics.py) and    *)
(* the opt-in capture of admission decisions (diagnostics.py).  The module *)
(* is laid over SglangGovernor: it reads its state and adds its own.  The  *)
(* scheduler thread publishes the sample itself, one metric at a time, and *)
(* does nothing else meanwhile; other processes scrape at any moment.      *)
(***************************************************************************)
EXTENDS SglangGovernor, Sequences

CONSTANTS
  CAPACITY,     \* capacity of the ring of captured decisions
  MAX_EVENTS,   \* decisions after which the capture stops
  DURATION,     \* time after which the capture stops
  MaxAttempts   \* bound: admission calls

ASSUME TelemetryAssumption ==
  /\ {CAPACITY, MAX_EVENTS, DURATION} \subseteq Nat \ {0}
  /\ MaxAttempts \in Nat

VARIABLES
  stats,    \* admission_attempts, _rejects, _reuses, _reject_reasons
  capture,  \* AdmissionDiagnostics
  metrics,  \* the registry: the value of each metric that a scrape finds
  writes    \* what the publication under way has still to write

telemetryVars == <<stats, capture, metrics, writes>>

allVars == <<vars, telemetryVars>>

-----------------------------------------------------------------------------
(* State.                                                                  *)

RejectReasons == DecisionReasons \ (AdmittingReasons \cup {"none"})

NoAttempts ==
  [attempts |-> 0, rejects |-> 0, reuses |-> 0, reasons |-> [x \in RejectReasons |-> 0]]

NoCapture ==
  [events |-> <<>>, recorded |-> 0, overwritten |-> 0, start |-> NoTime, stopped |-> "none"]

Gauges == {"outstanding", "active", "waiting"}

Totals == {"attempts", "rejects", "reuses"}

Metrics == {"state_valid"} \cup Gauges \cup Totals \cup RejectReasons

\* NaN
NoValue == -1

NewRegistry == [m \in Metrics |-> IF m \in Gauges THEN NoValue ELSE 0]

\* "left" has positions in the order of the writes of "values".
NoWrites == [left |-> {}, values |-> NewRegistry]

\* No publication is under way.
Quiet == writes.left = {}

TelemetryInit ==
  /\ Init
  /\ stats = NoAttempts
  /\ capture = NoCapture
  /\ metrics = NewRegistry
  /\ writes = NoWrites

-----------------------------------------------------------------------------
(* Admission calls.                                                        *)

StatsAfter(reason, reused) ==
  LET one(b) == IF b THEN 1 ELSE 0
  IN [ attempts |-> stats.attempts + 1,
       rejects  |-> stats.rejects + one(reason \in RejectReasons),
       reuses   |-> stats.reuses + one(reused),
       reasons  |-> [x \in RejectReasons |-> stats.reasons[x] + one(x = reason)] ]

\* One captured decision.  "attempt" is history: which call it was.
Event(r, reason, reused) ==
  [ sequence |-> capture.recorded + 1, attempt |-> stats.attempts + 1, request |-> r,
    allowed |-> reason \notin RejectReasons, reused |-> reused ]

\* deque(maxlen = CAPACITY).append
Push(events, event) ==
  Append(IF Len(events) = CAPACITY THEN Tail(events) ELSE events, event)

CaptureStart(now) == IF capture.start = NoTime THEN now ELSE capture.start

\* Mutant: the end of the capture is not remembered.
Recorded_Resumed(event, now) ==
  IF now - CaptureStart(now) >= DURATION \/ capture.recorded = MAX_EVENTS THEN capture
  ELSE [ events |-> Push(capture.events, event), recorded |-> capture.recorded + 1,
         overwritten |-> capture.overwritten + (IF Len(capture.events) = CAPACITY THEN 1 ELSE 0),
         start |-> CaptureStart(now), stopped |-> "none" ]

\* The capture after a decision.  It never starts again once it has stopped.
Recorded(event, now) ==
  IF capture.stopped # "none" THEN capture
  ELSE IF now - CaptureStart(now) >= DURATION
    THEN [capture EXCEPT !.start = CaptureStart(now), !.stopped = "duration"]
  ELSE [ events |-> Push(capture.events, event), recorded |-> capture.recorded + 1,
         overwritten |-> capture.overwritten + (IF Len(capture.events) = CAPACITY THEN 1 ELSE 0),
         start |-> CaptureStart(now),
         stopped |-> IF capture.recorded + 1 = MAX_EVENTS THEN "event_limit" ELSE "none" ]

Account(r, reason, reused, now) ==
  /\ stats' = StatsAfter(reason, reused)
  /\ capture' = Recorded(Event(r, reason, reused), now)
  /\ UNCHANGED <<metrics, writes>>

\* Mutant: whether the call reuses a reservation is read after the decision.
AttemptNew_ReadLate(r) ==
  /\ Quiet
  /\ stats.attempts < MaxAttempts
  /\ AdmitNew(r)
  /\ Account(r, last_admission', reservation'[r].status = "live", core'.last_time)

\* The core's clock is left at the time of the call.
AttemptNew(r) ==
  /\ Quiet
  /\ stats.attempts < MaxAttempts
  /\ AdmitNew(r)
  /\ Account(r, last_admission', FALSE, core'.last_time)

\* A live reservation holds rotations back, so the time is seen by the
\* capture alone.
AttemptAgain(r) ==
  /\ Quiet
  /\ stats.attempts < MaxAttempts
  /\ AdmitAgain(r)
  /\ \E now \in Readings : Account(r, last_admission', TRUE, now)

\* Mutant: the call is counted before it is decided.
AttemptRaises_Counted(r) ==
  /\ Quiet
  /\ stats.attempts < MaxAttempts
  /\ AdmitRaises(r)
  /\ stats' = [stats EXCEPT !.attempts = @ + 1]
  /\ UNCHANGED <<capture, metrics, writes>>

\* A call that raises is neither counted nor captured.
AttemptRaises(r) == Quiet /\ AdmitRaises(r) /\ UNCHANGED telemetryVars

-----------------------------------------------------------------------------
(* GovernorMetrics.publish, on the scheduler's periodic accounting path.   *)

\* telemetry_snapshot: everything is read in one lock section.
Sample ==
  [ m \in Metrics |->
      CASE m = "state_valid" -> 1
        [] m = "outstanding" -> ledger.outstanding
        [] m = "active"      -> decode.active
        [] m = "waiting"     -> Cardinality(WaitingOwners)
        [] m \in Totals      -> stats[m]
        [] OTHER             -> stats.reasons[m] ]

\* _invalidate: the gauges say nothing, the counters stay.
Unavailable ==
  [ m \in Metrics |->
      IF m = "state_valid" THEN 0 ELSE IF m \in Gauges THEN NoValue ELSE metrics[m] ]

\* The order in which publish writes a sample: gauges, totals, reasons, and
\* that the sample is valid.
PublishOrder ==
  << "outstanding", "active", "waiting", "attempts", "rejects", "reuses",
     "tps_risk", "unknown", "waiting_limit", "aggregate_tps_risk", "identity_transition",
     "state_valid" >>

\* Mutant: the flag is cleared after the gauges.
InvalidateOrder_FlagLast == <<"outstanding", "active", "waiting", "state_valid">>

InvalidateOrder == <<"state_valid", "outstanding", "active", "waiting">>

WriteOrder(values) == IF values.state_valid = 1 THEN PublishOrder ELSE InvalidateOrder

\* The writes that bring the registry to these values.  Those that would
\* change nothing are left out.
WritesOf(values) ==
  LET order == WriteOrder(values)
      left == {i \in DOMAIN order : metrics[order[i]] # values[order[i]]}
  IN IF left = {} THEN NoWrites ELSE [left |-> left, values |-> values]

\* The read fails when another caller has moved the core's clock on; the
\* scheduler goes on all the same.
Publish ==
  /\ Idle /\ Quiet
  /\ \/ TelemetrySnapshot /\ writes' = WritesOf(Sample)
     \/ /\ \E now \in Readings : ~ClockAccepts(core, now)
        /\ writes' = WritesOf(Unavailable)
        /\ UNCHANGED vars
  /\ UNCHANGED <<stats, capture, metrics>>

\* The next metric is set; a counter is incremented by what it lacks.
Write ==
  \E i \in writes.left :
    /\ \A j \in writes.left : i <= j
    /\ LET name == WriteOrder(writes.values)[i]
       IN metrics' = [metrics EXCEPT ![name] = writes.values[name]]
    /\ writes' = IF writes.left = {i} THEN NoWrites ELSE [writes EXCEPT !.left = @ \ {i}]
    /\ UNCHANGED <<vars, stats, capture>>

-----------------------------------------------------------------------------

\* Everything that is no admission call and no read of the telemetry.  The
\* scheduler thread waits for its publication to end.
Unwatched ==
  \/ /\ Quiet
     /\ \/ \E r \in Req : Abort(r) \/ Retract(r)
        \/ \E extend \in BOOLEAN : RunBatch(extend)
        \/ ResultStep
  \/ /\ Quiet \/ ConcurrentControl
     /\ \/ \E cl \in Clients : PolicySnapshot(cl) \/ PatchPolicy(cl)
        \/ RefreshIdentity
        \/ \E i \in Identities : ChangeIdentity(i)
        \/ Tick

TelemetryNext ==
  \/ \E r \in Req : AttemptNew(r) \/ AttemptAgain(r) \/ AttemptRaises(r)
  \/ Publish \/ Write
  \/ Unwatched /\ UNCHANGED telemetryVars

TelemetrySpec == TelemetryInit /\ [][TelemetryNext]_allVars

-----------------------------------------------------------------------------
(* What the operator may conclude.                                         *)

Admitted == {r \in Req : reservation[r].status # "none"}

\* Every admission call is counted once, as a reject, as a reuse or as the
\* one admission of its request, whatever becomes of that request and
\* however often identities change (sglang.py admit_request).
AttemptsExact ==
  stats.attempts = stats.rejects + stats.reuses + Cardinality(Admitted)

\* The captured decisions are the latest of the first calls: without gaps,
\* and no call after the capture has stopped is among them, also when a
\* caller with an older reading of the clock follows (diagnostics.py record).
CaptureIsPrefix ==
  /\ capture.recorded = capture.overwritten + Len(capture.events)
  /\ capture.overwritten > 0 => Len(capture.events) = CAPACITY
  /\ \A i \in DOMAIN capture.events :
       /\ capture.events[i].sequence = capture.overwritten + i
       /\ capture.events[i].attempt = capture.events[i].sequence
  /\ capture.recorded <= stats.attempts
  /\ capture.stopped = "none" => capture.recorded = stats.attempts

EventsWhere(Test(_)) == {i \in DOMAIN capture.events : Test(capture.events[i])}

\* A collector can reconcile the capture with the counters: a complete one
\* yields the same numbers, and a reuse is never seen before the admission
\* it reuses (docs/ADMISSION_DIAGNOSTICS.md).
CaptureReconciles ==
  LET rejected == EventsWhere(LAMBDA e : ~e.allowed)
      reused == EventsWhere(LAMBDA e : e.reused)
      admitting == EventsWhere(LAMBDA e : e.allowed /\ ~e.reused)
  IN /\ capture.overwritten = 0 /\ capture.recorded = stats.attempts =>
          /\ Cardinality(rejected) = stats.rejects
          /\ Cardinality(reused) = stats.reuses
     /\ \A i, j \in DOMAIN capture.events :
          capture.events[i].request = capture.events[j].request =>
            /\ i \in admitting /\ j \in admitting => i = j
            /\ i \in reused /\ j \notin reused => j < i
     /\ capture.overwritten = 0 =>
          \A i \in reused : \E j \in admitting :
            j < i /\ capture.events[j].request = capture.events[i].request

\* Scrapes come at any moment, also between two writes of a publication.
\* Whenever they come, no counter is ahead of the calls, rejects and reuses
\* are among the attempts, the reasons are among the rejects, and a valid
\* sample has no unknown gauge.  A scrape that overlaps no publication reads
\* one moment: the reasons add up, and the requests that valid gauges show in
\* the system are among those counted as admitted (metrics.py publish and
\* _invalidate, sglang.py telemetry_snapshot).
ScrapesSound ==
  LET reasons == SumFunctionOnSet(metrics, RejectReasons)
      admitted == metrics.attempts - metrics.rejects - metrics.reuses
      valid == metrics.state_valid = 1
  IN /\ \A m \in Totals : metrics[m] <= stats[m]
     /\ \A x \in RejectReasons : metrics[x] <= stats.reasons[x]
     /\ reasons <= metrics.rejects /\ admitted >= 0
     /\ valid => \A m \in Gauges : metrics[m] # NoValue
     /\ Quiet =>
          /\ reasons = metrics.rejects
          /\ admitted <= Cardinality(Admitted)
          /\ valid => /\ metrics.outstanding <= admitted
                      /\ metrics.active <= metrics.outstanding
                      /\ metrics.waiting <= metrics.outstanding
=============================================================================
