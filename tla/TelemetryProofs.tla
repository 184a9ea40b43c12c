-------------------------- MODULE TelemetryProofs --------------------------
(***************************************************************************)
(* Proofs about Telemetry: the counters are exact, the capture is a prefix *)
(* of the calls that a collector can reconcile with the counters, and a    *)
(* scrape finds what it may conclude from at every moment of a             *)
(* publication, for every set of requests and every bound of the capture.  *)
(***************************************************************************)
EXTENDS Telemetry, SglangWorkProofs

-----------------------------------------------------------------------------
(* Telemetry beside admission.                                             *)

\* Every step of the watched system is a step of the governor or leaves it
\* as it was.
LEMMA WatchedStep == [TelemetryNext]_allVars => [Next]_vars
<1> SUFFICES ASSUME [TelemetryNext]_allVars PROVE [Next]_vars
  OBVIOUS
<1>1. ASSUME NEW r \in Req, AttemptNew(r) \/ AttemptAgain(r) \/ AttemptRaises(r)
      PROVE  Next
  BY <1>1 DEF AttemptNew, AttemptAgain, AttemptRaises, Next
<1>2. CASE Publish \/ Write
  BY <1>2 DEF Publish, Write, Next
<1>3. CASE Unwatched
  BY <1>3 DEF Unwatched, Next
<1>4. CASE UNCHANGED allVars
  BY <1>4 DEF allVars
<1> QED
  BY <1>1, <1>2, <1>3, <1>4 DEF TelemetryNext

\* So the invariants of SglangGovernor hold of the watched system too.
LEMMA WatchedIsGoverned == TelemetrySpec => Spec
<1>1. TelemetryInit => Init
  BY DEF TelemetryInit
<1> QED
  BY <1>1, WatchedStep, PTL DEF TelemetrySpec, Spec

\* What holds of the governor holds of the watched one.
LEMMA WatchedInvariance == TelemetrySpec => []IInv
BY WatchedIsGoverned, Invariance, PTL

-----------------------------------------------------------------------------
(* Counters.                                                               *)

StatsOK ==
  /\ {stats.attempts, stats.rejects, stats.reuses} \subseteq Nat
  /\ AttemptsExact

\* Admitted requests are requests, so they can be counted.
LEMMA AdmittedCounts == IsFiniteSet(Admitted) /\ Cardinality(Admitted) \in Nat
<1>1. Admitted \in SUBSET Req
  BY DEF Admitted
<1> QED
  BY <1>1, Countable

\* A first decision either rejects and reserves nothing, or admits and
\* reserves for this request alone.
LEMMA AdmissionReserves ==
  ASSUME IInv, NEW r \in Req, AdmitNew(r)
  PROVE  \/ last_admission' \in RejectReasons /\ Admitted' = Admitted
         \/ /\ last_admission' \notin RejectReasons
            /\ r \notin Admitted /\ Admitted' = Admitted \cup {r}
<1>1. PICK now \in Readings :
        \E reason \in Decisions(r, now, WaitingCount, RefreshedView(now)) :
          /\ AdmitRequest(r, now, WaitingCount, RefreshedView(now), reason)
          /\ last_admission' = reason
  BY DEF AdmitNew
<1>2. PICK reason \in Decisions(r, now, WaitingCount, RefreshedView(now)) :
        /\ AdmitRequest(r, now, WaitingCount, RefreshedView(now), reason)
        /\ last_admission' = reason
  BY <1>1
<1>3. /\ policy \in Policies /\ ledger \in Ledgers /\ decode \in DecodeSets
      /\ reservation \in [Req -> Reservations] /\ WaitingCount \in Int
  BY AdmissionInputs DEF IInv, NativeOK, LedgerOK, DecodeOK
<1>4. reason \in CoreReasons \cup AdmittingReasons
                   \cup {"waiting_limit", "identity_transition"}
  <2>1. PICK verdict \in CoreVerdicts(CoreAtAdmission(r, now, WaitingCount, RefreshedView(now)), now,
                                      ProjectedConcurrency, ForecastClass(r)),
             qualifies \in LighterQualifies(CoreAtAdmission(r, now, WaitingCount, RefreshedView(now)), r) :
          reason = FinalReason(r, WaitingCount,
                     ForecastReason(r, now, WaitingCount, RefreshedView(now), verdict, qualifies))
    BY DEF Decisions
  <2>2. verdict.reason \in CoreReasons
    BY VerdictReasons
  <2> QED
    BY <2>1, <2>2 DEF FinalReason, ForecastReason, AdmittingReasons
<1>5. reason \in AdmittingReasons \/ reason \in RejectReasons
  BY <1>4 DEF RejectReasons, DecisionReasons, AdmittingReasons, CoreReasons, FavourableReasons
<1>6. CASE reason \in AdmittingReasons
  <2>1. reservation[r].status = "none" /\ reservation'[r].status = "live"
        /\ \A s \in Req \ {r} : reservation'[s] = reservation[s]
    BY <1>2, <1>3, <1>6 DEF AdmitRequest
  <2>2. reason \notin RejectReasons
    BY <1>6 DEF RejectReasons
  <2> QED
    BY <1>2, <2>1, <2>2 DEF Admitted
<1>7. CASE reason \notin AdmittingReasons
  <2>1. reservation' = reservation
    BY <1>2, <1>7 DEF AdmitRequest
  <2> QED
    BY <1>2, <1>5, <1>7, <2>1 DEF Admitted
<1> QED
  BY <1>6, <1>7

\* Nothing but a first decision admits, and nothing un-admits.
LEMMA OtherwiseAdmittedKept ==
  ASSUME IInv,
         \/ \E r \in Req : AttemptAgain(r) \/ AttemptRaises(r)
         \/ Publish \/ Write \/ Unwatched \/ UNCHANGED allVars
  PROVE  Admitted' = Admitted
<1>1. reservation \in [Req -> Reservations]
  BY DEF IInv, LedgerOK
<1>2. ASSUME reservation' = reservation PROVE Admitted' = Admitted
  BY <1>2 DEF Admitted
<1>3. ASSUME NEW r \in Req, ReleaseRequest(r) PROVE Admitted' = Admitted
  <2>1. CASE reservation[r].status = "live"
    <3>1. reservation' = [reservation EXCEPT ![r].status = "released"]
      BY <1>3, <2>1 DEF ReleaseRequest
    <3>2. \A s \in Req : reservation'[s].status # "none" <=> reservation[s].status # "none"
      BY <1>1, <2>1, <3>1 DEF Reservations
    <3> QED
      BY <3>2 DEF Admitted
  <2>2. CASE reservation[r].status # "live"
    BY <1>2, <1>3, <2>2 DEF ReleaseRequest
  <2> QED
    BY <2>1, <2>2
<1>4. ASSUME NEW r \in Req, AttemptAgain(r) \/ AttemptRaises(r) \/ Abort(r) \/ Retract(r)
      PROVE  reservation' = reservation
  BY <1>4 DEF AttemptAgain, AdmitAgain, AttemptRaises, AdmitRaises, Refresh, Abort, Retract,
     schedulerVars
<1>5. ASSUME NEW extend \in BOOLEAN, RunBatch(extend) PROVE reservation' = reservation
  BY <1>5 DEF RunBatch, schedulerVars
<1>6. ASSUME ResultStep, \A r \in Req : ~ReleaseNext(r) PROVE reservation' = reservation
  BY <1>6 DEF ResultStep, RefreshResult, Refresh, CollectUpdates, CommitResult, CommitBatch,
     CommitRaises, Terminated, TerminateRaises, NothingToRelease, PrefillCompleted,
     PrefillRaises, AdvanceTo, schedulerVars
<1>7. ASSUME NEW r \in Req, ReleaseNext(r) PROVE Admitted' = Admitted
  BY <1>3, <1>7 DEF ReleaseNext
<1>8. ASSUME NEW cl \in Clients, PolicySnapshot(cl) \/ PatchPolicy(cl)
      PROVE  reservation' = reservation
  BY <1>8 DEF PolicySnapshot, PatchPolicy
<1>9. ASSUME Publish \/ Write \/ RefreshIdentity \/ Tick \/ UNCHANGED allVars
      PROVE  reservation' = reservation
  BY <1>9 DEF Publish, Write, TelemetrySnapshot, AdvanceTo, RefreshIdentity, Refresh, Tick, allVars,
     vars, schedulerVars
<1>10. ASSUME NEW i \in Identities, ChangeIdentity(i) PROVE reservation' = reservation
  BY <1>10 DEF ChangeIdentity, schedulerVars
<1> QED
  BY <1>2, <1>4, <1>5, <1>6, <1>7, <1>8, <1>9, <1>10 DEF Unwatched

\* The sums of the counters survive every step.
LEMMA StatsStep ==
  ASSUME IInv, StatsOK, [TelemetryNext]_allVars
  PROVE  StatsOK'
<1>1. /\ {stats.attempts, stats.rejects, stats.reuses} \subseteq Nat
      /\ stats.attempts = stats.rejects + stats.reuses + Cardinality(Admitted)
      /\ Cardinality(Admitted) \in Nat /\ Admitted \in SUBSET Req
  BY AdmittedCounts DEF StatsOK, AttemptsExact, Admitted
<1>2. ASSUME NEW r \in Req, AttemptNew(r) PROVE StatsOK'
  <2>1. AdmitNew(r) /\ stats' = StatsAfter(last_admission', FALSE)
    BY <1>2 DEF AttemptNew, Account
  <2>2. CASE last_admission' \in RejectReasons /\ Admitted' = Admitted
    <3>1. /\ stats'.attempts = stats.attempts + 1 /\ stats'.rejects = stats.rejects + 1
          /\ stats'.reuses = stats.reuses + 0
      BY <2>1, <2>2 DEF StatsAfter
    <3> QED
      BY <1>1, <2>2, <3>1 DEF StatsOK, AttemptsExact
  <2>3. CASE /\ last_admission' \notin RejectReasons
             /\ r \notin Admitted /\ Admitted' = Admitted \cup {r}
    <3>1. /\ stats'.attempts = stats.attempts + 1 /\ stats'.rejects = stats.rejects + 0
          /\ stats'.reuses = stats.reuses + 0
      BY <2>1, <2>3 DEF StatsAfter
    <3>2. Cardinality(Admitted') = Cardinality(Admitted) + 1
      BY <1>1, <2>3, CountJoin
    <3> QED
      BY <1>1, <3>1, <3>2 DEF StatsOK, AttemptsExact
  <2> QED
    BY <2>1, <2>2, <2>3, AdmissionReserves
<1>3. ASSUME NEW r \in Req, AttemptAgain(r) PROVE StatsOK'
  <2>1. reservation[r].reason = last_admission' /\ reservation[r].status = "live"
    BY <1>3 DEF AttemptAgain, AdmitAgain
  <2>2. stats' = StatsAfter(last_admission', TRUE)
    BY <1>3 DEF AttemptAgain, Account
  <2>3. last_admission' \notin RejectReasons
    BY <2>1 DEF IInv, LedgerOK, Reservations, RejectReasons
  <2>4. /\ stats'.attempts = stats.attempts + 1 /\ stats'.rejects = stats.rejects + 0
        /\ stats'.reuses = stats.reuses + 1
    BY <2>2, <2>3 DEF StatsAfter
  <2>5. Admitted' = Admitted
    BY <1>3, OtherwiseAdmittedKept
  <2> QED
    BY <1>1, <2>4, <2>5 DEF StatsOK, AttemptsExact
<1>4. CASE \/ \E r \in Req : AttemptRaises(r)
           \/ Publish \/ Write \/ (Unwatched /\ UNCHANGED telemetryVars) \/ UNCHANGED allVars
  <2>1. stats' = stats
    BY <1>4 DEF AttemptRaises, Publish, Write, telemetryVars, allVars
  <2>2. Admitted' = Admitted
    BY <1>4, OtherwiseAdmittedKept
  <2> QED
    BY <1>1, <2>1, <2>2 DEF StatsOK, AttemptsExact
<1> QED
  BY <1>2, <1>3, <1>4 DEF TelemetryNext

\* Every admission call is counted exactly once, as what it was.
THEOREM CountersAreExact == TelemetrySpec => []AttemptsExact
<1>1. TelemetryInit => StatsOK
  <2> SUFFICES ASSUME TelemetryInit PROVE StatsOK
    OBVIOUS
  <2>1. Admitted = {}
    BY DEF TelemetryInit, Init, SchedulerInit, NoReservation, Admitted
  <2> QED
    BY <2>1, FS_EmptySet DEF TelemetryInit, NoAttempts, StatsOK, AttemptsExact
<1>2. StatsOK => AttemptsExact
  BY DEF StatsOK
<1> QED
  BY <1>1, <1>2, StatsStep, WatchedInvariance, PTL DEF TelemetrySpec

-----------------------------------------------------------------------------
(* The capture.                                                            *)

Events == [sequence : Nat, attempt : Nat, request : Req, allowed : BOOLEAN, reused : BOOLEAN]

CaptureOK ==
  /\ stats.attempts \in Nat
  /\ {capture.recorded, capture.overwritten} \subseteq Nat
  /\ capture.events \in Seq(Events)
  /\ Len(capture.events) <= CAPACITY
  /\ CaptureIsPrefix

\* What appending to the ring leaves in it.
LEMMA PushFacts ==
  ASSUME NEW events \in Seq(Events), NEW e \in Events, Len(events) <= CAPACITY
  PROVE  /\ Push(events, e) \in Seq(Events)
         /\ Len(Push(events, e)) = IF Len(events) = CAPACITY THEN CAPACITY ELSE Len(events) + 1
         /\ Push(events, e)[Len(Push(events, e))] = e
         /\ \A i \in 1 .. Len(Push(events, e)) - 1 :
              Push(events, e)[i] = events[IF Len(events) = CAPACITY THEN i + 1 ELSE i]
<1>1. CAPACITY \in Nat \ {0} /\ Len(events) \in Nat
  BY TelemetryAssumption DEF TelemetryAssumption
<1>2. CASE Len(events) = CAPACITY
  <2>1. events # <<>>
    BY <1>1, <1>2
  <2>2. /\ Tail(events) \in Seq(Events) /\ Len(Tail(events)) = CAPACITY - 1
        /\ \A i \in 1 .. CAPACITY - 1 : Tail(events)[i] = events[i + 1]
    BY <1>1, <1>2, <2>1
  <2> QED
    BY <1>1, <1>2, <2>2 DEF Push
<1>3. CASE Len(events) # CAPACITY
  BY <1>1, <1>3 DEF Push
<1> QED
  BY <1>2, <1>3

\* A call that is accounted for keeps the capture a prefix of the calls.
LEMMA CaptureAccounts ==
  ASSUME CaptureOK, NEW r \in Req, NEW reason, NEW reused \in BOOLEAN, NEW now,
         Account(r, reason, reused, now)
  PROVE  CaptureOK'
<1> DEFINE e == Event(r, reason, reused)
           ring == Push(capture.events, e)
<1>1. /\ stats.attempts \in Nat /\ capture.recorded \in Nat /\ capture.overwritten \in Nat
      /\ capture.events \in Seq(Events) /\ Len(capture.events) <= CAPACITY
      /\ CAPACITY \in Nat \ {0} /\ Len(capture.events) \in Nat
  BY TelemetryAssumption DEF CaptureOK, TelemetryAssumption
<1>2. /\ capture.recorded = capture.overwritten + Len(capture.events)
      /\ capture.overwritten > 0 => Len(capture.events) = CAPACITY
      /\ \A i \in DOMAIN capture.events :
           /\ capture.events[i].sequence = capture.overwritten + i
           /\ capture.events[i].attempt = capture.events[i].sequence
      /\ capture.recorded <= stats.attempts
      /\ capture.stopped = "none" => capture.recorded = stats.attempts
  BY DEF CaptureOK, CaptureIsPrefix
<1>3. stats'.attempts = stats.attempts + 1 /\ capture' = Recorded(e, now)
  BY DEF Account, StatsAfter
<1>4. CASE /\ capture'.events = capture.events /\ capture'.recorded = capture.recorded
           /\ capture'.overwritten = capture.overwritten /\ capture'.stopped # "none"
  BY <1>1, <1>2, <1>3, <1>4 DEF CaptureOK, CaptureIsPrefix
<1>5. CASE /\ capture'.events = ring /\ capture'.recorded = capture.recorded + 1
           /\ capture'.overwritten =
                capture.overwritten + IF Len(capture.events) = CAPACITY THEN 1 ELSE 0
           /\ capture.stopped = "none"
  <2>1. /\ e \in Events /\ e.sequence = capture.recorded + 1 /\ e.attempt = stats.attempts + 1
    BY <1>1 DEF Event, Events
  <2> HIDE DEF e
  <2>2. /\ ring \in Seq(Events) /\ ring[Len(ring)] = e
        /\ Len(ring) = IF Len(capture.events) = CAPACITY THEN CAPACITY ELSE Len(capture.events) + 1
        /\ \A i \in 1 .. Len(ring) - 1 :
             ring[i] = capture.events[IF Len(capture.events) = CAPACITY THEN i + 1 ELSE i]
    BY <1>1, <2>1, PushFacts
  <2> HIDE DEF ring
  <2>3. /\ {capture'.recorded, capture'.overwritten} \subseteq Nat
        /\ Len(ring) <= CAPACITY /\ Len(ring) \in Nat \ {0}
        /\ capture'.recorded = capture'.overwritten + Len(ring)
        /\ capture'.overwritten > 0 => Len(ring) = CAPACITY
        /\ capture'.recorded = stats'.attempts
    BY <1>1, <1>2, <1>3, <1>5, <2>2
  <2>4. ASSUME NEW i \in 1 .. Len(ring)
        PROVE  ring[i].sequence = capture'.overwritten + i /\ ring[i].attempt = ring[i].sequence
    <3>1. CASE i = Len(ring)
      BY <1>1, <1>2, <1>5, <2>1, <2>2, <2>3, <3>1
    <3>2. CASE i # Len(ring) /\ Len(capture.events) = CAPACITY
      <4>1. i + 1 \in 1 .. Len(capture.events) /\ ring[i] = capture.events[i + 1]
        BY <1>1, <2>2, <2>4, <3>2
      <4>2. i + 1 \in DOMAIN capture.events
        BY <1>1, <4>1
      <4>3. /\ ring[i].sequence = capture.overwritten + (i + 1)
            /\ ring[i].attempt = ring[i].sequence
        BY <1>2, <4>1, <4>2
      <4>4. capture'.overwritten = capture.overwritten + 1
        BY <1>5, <3>2
      <4>5. i \in Int /\ capture.overwritten \in Int
        BY <1>1, <2>3, <2>4
      <4>6. capture.overwritten + (i + 1) = (capture.overwritten + 1) + i
        BY ONLY <4>5
      <4> QED
        BY <4>3, <4>4, <4>6
    <3>3. CASE i # Len(ring) /\ Len(capture.events) # CAPACITY
      <4>1. i \in 1 .. Len(capture.events) /\ ring[i] = capture.events[i]
        BY <1>1, <2>2, <2>4, <3>3
      <4>2. i \in DOMAIN capture.events
        BY <1>1, <4>1
      <4>3. /\ ring[i].sequence = capture.overwritten + i
            /\ ring[i].attempt = ring[i].sequence
        BY <1>2, <4>1, <4>2
      <4>4. capture'.overwritten = capture.overwritten
        BY <1>1, <1>5, <3>3
      <4> QED
        BY <4>3, <4>4
    <3> QED
      BY <3>1, <3>2, <3>3
  <2>5. DOMAIN ring = 1 .. Len(ring)
    BY <2>2
  <2> QED
    BY <1>1, <1>3, <1>5, <2>2, <2>3, <2>4, <2>5 DEF CaptureOK, CaptureIsPrefix
<1> HIDE DEF e
<1> QED
  BY <1>3, <1>4, <1>5 DEF Recorded

\* No capture runs at first.
LEMMA CaptureInit == TelemetryInit => CaptureOK
BY TelemetryAssumption
DEF TelemetryInit, NoAttempts, NoCapture, CaptureOK, CaptureIsPrefix, TelemetryAssumption

\* Every step keeps a capture a prefix of the decisions.
LEMMA CaptureStep == CaptureOK /\ [TelemetryNext]_allVars => CaptureOK'
<1> SUFFICES ASSUME CaptureOK, [TelemetryNext]_allVars PROVE CaptureOK'
  OBVIOUS
<1>1. ASSUME NEW r \in Req, AttemptNew(r) \/ AttemptAgain(r) PROVE CaptureOK'
  BY <1>1, CaptureAccounts DEF AttemptNew, AttemptAgain
<1>2. CASE \/ \E r \in Req : AttemptRaises(r)
           \/ Publish \/ Write \/ (Unwatched /\ UNCHANGED telemetryVars) \/ UNCHANGED allVars
  <2>1. UNCHANGED <<stats, capture>>
    BY <1>2 DEF AttemptRaises, Publish, Write, telemetryVars, allVars
  <2> QED
    BY <2>1 DEF CaptureOK, CaptureIsPrefix
<1> QED
  BY <1>1, <1>2 DEF TelemetryNext

\* The captured decisions are the latest of the first calls, for every
\* capacity, bound and order of clock readings.
THEOREM CaptureIsAPrefix == TelemetrySpec => []CaptureIsPrefix
<1>1. CaptureOK => CaptureIsPrefix
  BY DEF CaptureOK
<1> QED
  BY <1>1, CaptureInit, CaptureStep, PTL DEF TelemetrySpec

-----------------------------------------------------------------------------
(* The published sample.                                                   *)

\* The reject reasons add up to the rejects.
CountsOK ==
  /\ stats.reasons \in [RejectReasons -> Nat]
  /\ stats.rejects = SumFunctionOnSet(stats.reasons, RejectReasons)

\* There are finitely many reasons.
LEMMA ReasonsFinite == IsFiniteSet(RejectReasons)
<1> DEFINE a == {"tps_risk"} \cup {"unknown"}
           b == a \cup {"aggregate_tps_risk"}
           c == b \cup {"waiting_limit"}
           d == c \cup {"identity_transition"}
<1>1. IsFiniteSet({"tps_risk"})
  BY FS_Singleton
<1>2. IsFiniteSet(a)
  BY <1>1, FS_AddElement
<1>3. IsFiniteSet(b)
  <2> HIDE DEF a
  <2> QED
    BY <1>2, FS_AddElement
<1>4. IsFiniteSet(c)
  <2> HIDE DEF b
  <2> QED
    BY <1>3, FS_AddElement
<1>5. IsFiniteSet(d)
  <2> HIDE DEF c
  <2> QED
    BY <1>4, FS_AddElement
<1>6. RejectReasons \subseteq d
  BY DEF RejectReasons, DecisionReasons, CoreReasons, AdmittingReasons, FavourableReasons
<1> HIDE DEF d
<1> QED
  BY <1>5, <1>6, FS_Subset

\* One more of one reason is one more in all, and of no reason none.
LEMMA OneMoreReason ==
  ASSUME NEW f \in [RejectReasons -> Nat], NEW g, NEW reason,
         \A x \in RejectReasons : g[x] = f[x] + (IF x = reason THEN 1 ELSE 0)
  PROVE  SumFunctionOnSet(g, RejectReasons) =
           SumFunctionOnSet(f, RejectReasons) + (IF reason \in RejectReasons THEN 1 ELSE 0)
<1> DEFINE R == RejectReasons
           h == [x \in R |-> IF x = reason THEN 1 ELSE 0]
<1>1. IsFiniteSet(R)
  BY ReasonsFinite
<1>2. \A x \in R : f[x] \in Int /\ h[x] \in Int /\ g[x] = f[x] + h[x]
  OBVIOUS
<1>3. \A x \in R \ {reason} : h[x] = 0
  OBVIOUS
<1>4. reason \in R => h[reason] = 1
  OBVIOUS
<1>5. IsFiniteSet(R \ {reason})
  BY <1>1, FS_Subset
<1> HIDE DEF h, R
<1>6. SumFunctionOnSet(g, R) = SumFunctionOnSet(f, R) + SumFunctionOnSet(h, R)
  BY <1>1, <1>2, SumOfSums
<1>7. SumFunctionOnSet(h, R \ {reason}) = 0
  BY <1>3, <1>5, SumOfZeros
<1>8. SumFunctionOnSet(h, R) = IF reason \in R THEN 1 ELSE 0
  <2>1. CASE reason \in R
    <3>1. SumFunctionOnSet(h, R) = h[reason] + SumFunctionOnSet(h, R \ {reason})
      BY <1>1, <1>2, <2>1, SumTake
    <3> QED
      BY <1>4, <1>7, <2>1, <3>1
  <2>2. CASE reason \notin R
    <3>1. R \ {reason} = R
      BY <2>2
    <3> QED
      BY <1>7, <2>2, <3>1
  <2> QED
    BY <2>1, <2>2
<1> QED
  BY <1>6, <1>8 DEF R

\* Every decision is counted once, under its reason.
LEMMA CountsStep ==
  ASSUME CountsOK, [TelemetryNext]_allVars
  PROVE  CountsOK'
<1>1. ASSUME NEW r \in Req, NEW reason, NEW reused \in BOOLEAN,
             stats' = StatsAfter(reason, reused)
      PROVE  CountsOK'
  <2> DEFINE f == stats.reasons
             g == [x \in RejectReasons |-> f[x] + (IF x = reason THEN 1 ELSE 0)]
             one == IF reason \in RejectReasons THEN 1 ELSE 0
  <2>1. stats'.rejects = stats.rejects + one /\ stats'.reasons = g
    BY <1>1 DEF StatsAfter
  <2>2. f \in [RejectReasons -> Nat] /\ stats.rejects = SumFunctionOnSet(f, RejectReasons)
    BY DEF CountsOK
  <2>3. g \in [RejectReasons -> Nat]
    BY <2>2
  <2>4. \A x \in RejectReasons : g[x] = f[x] + (IF x = reason THEN 1 ELSE 0)
    OBVIOUS
  <2> HIDE DEF f, g
  <2>5. SumFunctionOnSet(g, RejectReasons) = SumFunctionOnSet(f, RejectReasons) + one
    BY <2>2, <2>4, OneMoreReason
  <2> QED
    BY <2>1, <2>2, <2>3, <2>5 DEF CountsOK
<1>2. ASSUME NEW r \in Req, AttemptNew(r) \/ AttemptAgain(r) PROVE CountsOK'
  BY <1>1, <1>2 DEF AttemptNew, AttemptAgain, Account
<1>3. CASE \/ \E r \in Req : AttemptRaises(r)
           \/ Publish \/ Write \/ (Unwatched /\ UNCHANGED telemetryVars) \/ UNCHANGED allVars
  <2>1. stats' = stats
    BY <1>3 DEF AttemptRaises, Publish, Write, telemetryVars, allVars
  <2> QED
    BY <2>1 DEF CountsOK
<1> QED
  BY <1>2, <1>3 DEF TelemetryNext

\* Once admitted, a request stays counted.
LEMMA AdmittedGrows ==
  ASSUME IInv, [TelemetryNext]_allVars
  PROVE  Admitted \subseteq Admitted' /\ Cardinality(Admitted) <= Cardinality(Admitted')
<1>1. Admitted \subseteq Admitted'
  <2>1. ASSUME NEW r \in Req, AttemptNew(r) PROVE Admitted \subseteq Admitted'
    BY <2>1, AdmissionReserves DEF AttemptNew
  <2>2. CASE \/ \E r \in Req : AttemptAgain(r) \/ AttemptRaises(r)
             \/ Publish \/ Write \/ (Unwatched /\ UNCHANGED telemetryVars) \/ UNCHANGED allVars
    BY <2>2, OtherwiseAdmittedKept
  <2> QED
    BY <2>1, <2>2 DEF TelemetryNext
<1>2. IsFiniteSet(Admitted')
  <2>1. Admitted' \in SUBSET Req
    BY DEF Admitted
  <2> QED
    BY <2>1, Countable
<1> QED
  BY <1>1, <1>2, FS_Subset

Counters == Totals \cup RejectReasons

\* The value of a counter of the governor.
TotalOf(m) == IF m \in Totals THEN stats[m] ELSE stats.reasons[m]

\* Counters that are of one moment.
CountersSettled(values) ==
  /\ SumFunctionOnSet(values, RejectReasons) = values.rejects
  /\ values.attempts - values.rejects - values.reuses \in 0 .. Cardinality(Admitted)

\* Gauges that are of the moment of the counters.
GaugesSettled(values) ==
  /\ \A m \in Gauges : values[m] \in Nat
  /\ values.outstanding <= values.attempts - values.rejects - values.reuses
  /\ values.active <= values.outstanding /\ values.waiting <= values.outstanding

Settled(values) == CountersSettled(values) /\ (values.state_valid = 1 => GaugesSettled(values))

\* What has been written, at positions of the order no longer left.
Written(order) ==
  \A i \in DOMAIN order : i \notin writes.left => metrics[order[i]] = writes.values[order[i]]

\* A sample on its way is of one moment, and the counters stand still.
SampleUnderWay ==
  /\ writes.values \in [Metrics -> Int] /\ writes.values.state_valid = 1
  /\ \A m \in Counters : writes.values[m] = TotalOf(m)
  /\ Settled(writes.values)
  /\ writes.left \subseteq DOMAIN PublishOrder /\ Written(PublishOrder)

\* An invalidation touches no counter.
InvalidationUnderWay ==
  /\ writes.values \in [Metrics -> Int] /\ writes.values.state_valid = 0
  /\ CountersSettled(metrics)
  /\ writes.left \subseteq DOMAIN InvalidateOrder /\ Written(InvalidateOrder)

\* What every scrape finds.
Scraped ==
  /\ metrics \in [Metrics -> Int]
  /\ \A m \in Counters : metrics[m] \in Nat /\ metrics[m] <= TotalOf(m)
  /\ SumFunctionOnSet(metrics, RejectReasons) <= metrics.rejects
  /\ metrics.attempts - metrics.rejects - metrics.reuses >= 0
  /\ metrics.state_valid = 1 => \A m \in Gauges : metrics[m] # NoValue

RegistryOK ==
  /\ Scraped
  /\ writes = [left |-> writes.left, values |-> writes.values]
  /\ \/ Quiet /\ Settled(metrics)
     \/ ~Quiet /\ SampleUnderWay
     \/ ~Quiet /\ InvalidationUnderWay

LEMMA RegistrySound == RegistryOK => ScrapesSound
<1> SUFFICES ASSUME RegistryOK PROVE ScrapesSound
  OBVIOUS
<1>1. /\ \A m \in Totals : metrics[m] <= stats[m]
      /\ \A x \in RejectReasons : metrics[x] <= stats.reasons[x]
  <2>1. \A x \in RejectReasons : x \notin Totals
    BY DEF RejectReasons, DecisionReasons, CoreReasons, AdmittingReasons, FavourableReasons, Totals
  <2> QED
    BY <2>1 DEF RegistryOK, Scraped, Counters, TotalOf
<1>2. Quiet => Settled(metrics)
  BY DEF RegistryOK
<1>3. Totals \subseteq Counters
  BY DEF Counters
<1>4. {metrics.attempts, metrics.rejects, metrics.reuses} \subseteq Nat
  BY <1>3 DEF RegistryOK, Scraped, Totals
<1>5. Quiet =>
        /\ SumFunctionOnSet(metrics, RejectReasons) = metrics.rejects
        /\ metrics.attempts - metrics.rejects - metrics.reuses <= Cardinality(Admitted)
        /\ metrics.state_valid = 1 =>
             /\ metrics.outstanding <= metrics.attempts - metrics.rejects - metrics.reuses
             /\ metrics.active <= metrics.outstanding /\ metrics.waiting <= metrics.outstanding
  <2>1. Cardinality(Admitted) \in Nat
    BY AdmittedCounts
  <2> QED
    BY <1>2, <2>1 DEF Settled, CountersSettled, GaugesSettled
<1> QED
  BY <1>1, <1>5 DEF RegistryOK, Scraped, ScrapesSound

\* The kinds of metric are apart, and both orders name each of theirs.
LEMMA MetricNames ==
  /\ Counters \cap Gauges = {} /\ "state_valid" \notin Counters \cup Gauges
  /\ Totals \cap RejectReasons = {}
  /\ Metrics = {"state_valid"} \cup Gauges \cup Counters
  /\ Counters \subseteq Metrics
BY DEF Metrics, Counters, Totals, Gauges, RejectReasons, DecisionReasons, CoreReasons,
       AdmittingReasons, FavourableReasons

LEMMA PublishPositions ==
  /\ DOMAIN PublishOrder = 1 .. 12
  /\ \A i \in 1 .. 3 : PublishOrder[i] \in Gauges
  /\ PublishOrder[4] = "attempts" /\ PublishOrder[5] = "rejects" /\ PublishOrder[6] = "reuses"
  /\ \A i \in 7 .. 11 : PublishOrder[i] \in RejectReasons
  /\ PublishOrder[12] = "state_valid"
  /\ \A m \in Metrics : \E i \in 1 .. 12 : PublishOrder[i] = m
  /\ \A m \in Gauges : \E i \in 1 .. 3 : PublishOrder[i] = m
<1>1. DOMAIN PublishOrder = 1 .. 12
  BY DEF PublishOrder
<1>2. /\ PublishOrder[1] = "outstanding" /\ PublishOrder[2] = "active"
      /\ PublishOrder[3] = "waiting" /\ PublishOrder[4] = "attempts"
      /\ PublishOrder[5] = "rejects" /\ PublishOrder[6] = "reuses"
      /\ PublishOrder[7] = "tps_risk" /\ PublishOrder[8] = "unknown"
      /\ PublishOrder[9] = "waiting_limit" /\ PublishOrder[10] = "aggregate_tps_risk"
      /\ PublishOrder[11] = "identity_transition" /\ PublishOrder[12] = "state_valid"
  BY DEF PublishOrder
<1>3. RejectReasons =
        {"tps_risk", "unknown", "waiting_limit", "aggregate_tps_risk", "identity_transition"}
  BY DEF RejectReasons, DecisionReasons, CoreReasons, AdmittingReasons, FavourableReasons
<1>4. \A i \in 1 .. 3 : i = 1 \/ i = 2 \/ i = 3
  OBVIOUS
<1>5. \A i \in 7 .. 11 : i = 7 \/ i = 8 \/ i = 9 \/ i = 10 \/ i = 11
  OBVIOUS
<1>6. {1, 2, 3} \subseteq 1 .. 3 /\ {1, 2, 3, 4, 5, 6, 7, 8, 9, 10, 11, 12} \subseteq 1 .. 12
  OBVIOUS
<1> HIDE DEF PublishOrder
<1>7. \A m \in Gauges : \E i \in {1, 2, 3} : PublishOrder[i] = m
  BY <1>2 DEF Gauges
<1>8. \A m \in Metrics : \E i \in {1, 2, 3, 4, 5, 6, 7, 8, 9, 10, 11, 12} : PublishOrder[i] = m
  BY <1>2, <1>3 DEF Metrics, Gauges, Totals
<1>9. \A i \in 7 .. 11 : PublishOrder[i] \in RejectReasons
  BY <1>2, <1>3, <1>5
<1>10. \A i \in 1 .. 3 : PublishOrder[i] \in Gauges
  BY <1>2, <1>4 DEF Gauges
<1> QED
  BY <1>1, <1>2, <1>6, <1>7, <1>8, <1>9, <1>10

LEMMA InvalidatePositions ==
  /\ DOMAIN InvalidateOrder = 1 .. 4
  /\ InvalidateOrder[1] = "state_valid"
  /\ \A i \in 2 .. 4 : InvalidateOrder[i] \in Gauges
BY DEF InvalidateOrder, Gauges

\* The values a read takes are of one moment: the requests of the ledger, the
\* queue and the decoding set are admitted requests.
LEMMA SampleTaken ==
  ASSUME WorkInv, StatsOK, CountsOK, Idle
  PROVE  /\ Sample \in [Metrics -> Int] /\ Sample.state_valid = 1
         /\ \A m \in Counters : Sample[m] = TotalOf(m)
         /\ Settled(Sample)
<1>1. /\ ledger.outstanding = Cardinality(Live) /\ decode.active = Cardinality(Decoding)
      /\ Live = Owners /\ Decoding \subseteq Owners
  BY DEF WorkInv, IInv, LedgerOK, LedgerExact, DecodeOK, OwnIInv, OwnersOK, WorkOK, Idle
<1>2. Live \subseteq Admitted /\ Decoding \subseteq Live /\ WaitingOwners \subseteq Live
  BY <1>1 DEF Live, Admitted, Owners
<1>3. /\ Cardinality(Live) <= Cardinality(Admitted) /\ Cardinality(Decoding) <= Cardinality(Live)
      /\ Cardinality(WaitingOwners) <= Cardinality(Live)
      /\ {Cardinality(Live), Cardinality(Decoding), Cardinality(WaitingOwners)} \subseteq Nat
  <2>1. Admitted \in SUBSET Req /\ Live \in SUBSET Req
    BY DEF Admitted, Live
  <2>2. IsFiniteSet(Admitted) /\ IsFiniteSet(Live)
    BY <2>1, Countable
  <2>3. Decoding \in SUBSET Req /\ WaitingOwners \in SUBSET Req
    BY <1>2, <2>1
  <2> QED
    BY <1>2, <2>1, <2>2, <2>3, FS_Subset, Countable
<1>4. /\ {stats.attempts, stats.rejects, stats.reuses} \subseteq Nat
      /\ stats.attempts = stats.rejects + stats.reuses + Cardinality(Admitted)
      /\ Cardinality(Admitted) \in Nat
  BY AdmittedCounts DEF StatsOK, AttemptsExact
<1>5. /\ Sample.state_valid = 1 /\ Sample.outstanding = Cardinality(Live)
      /\ Sample.active = Cardinality(Decoding) /\ Sample.waiting = Cardinality(WaitingOwners)
      /\ Sample.attempts = stats.attempts /\ Sample.rejects = stats.rejects
      /\ Sample.reuses = stats.reuses
      /\ \A x \in RejectReasons : Sample[x] = stats.reasons[x]
      /\ DOMAIN Sample = Metrics
  <2>1. /\ {"state_valid", "outstanding", "active", "waiting", "attempts", "rejects", "reuses"}
             \subseteq Metrics
        /\ RejectReasons \subseteq Metrics
    BY DEF Metrics, Gauges, Totals
  <2>2. \A x \in RejectReasons : x \notin {"state_valid", "outstanding", "active", "waiting"}
                                 /\ x \notin Totals
    BY MetricNames DEF Gauges, Counters
  <2> QED
    BY <1>1, <2>1, <2>2 DEF Sample, Totals
<1>6. stats.reasons \in [RejectReasons -> Nat]
      /\ stats.rejects = SumFunctionOnSet(stats.reasons, RejectReasons)
  BY DEF CountsOK
<1>7. \A m \in Counters : Sample[m] = TotalOf(m) /\ Sample[m] \in Nat
  BY <1>4, <1>5, <1>6, MetricNames DEF Counters, TotalOf, Totals
<1>8. \A m \in Gauges : Sample[m] \in Nat
  BY <1>3, <1>5 DEF Gauges
<1>9. Sample = [m \in Metrics |-> Sample[m]]
  BY DEF Sample
<1> HIDE DEF Sample
<1>10. Sample \in [Metrics -> Int]
  <2>1. \A m \in Metrics : Sample[m] \in Int
    BY <1>5, <1>7, <1>8, MetricNames
  <2> QED
    BY <1>9, <2>1
<1>11. SumFunctionOnSet(Sample, RejectReasons) = Sample.rejects
  BY <1>5, <1>6, ReasonsFinite, SumCongruence
<1>12. Sample.attempts - Sample.rejects - Sample.reuses = Cardinality(Admitted)
  BY <1>4, <1>5
<1>13. CountersSettled(Sample)
  BY <1>4, <1>11, <1>12 DEF CountersSettled
<1>14. GaugesSettled(Sample)
  BY <1>3, <1>5, <1>8, <1>12 DEF GaugesSettled
<1> QED
  BY <1>5, <1>7, <1>10, <1>13, <1>14 DEF Settled

\* A sample that has been read is on its way, or was there already.
LEMMA SampleBegins ==
  ASSUME WorkInv, StatsOK, CountsOK, Idle, RegistryOK, Quiet, metrics' = metrics, stats' = stats,
         Admitted' = Admitted, writes' = WritesOf(Sample)
  PROVE  RegistryOK'
<1> DEFINE left == {i \in DOMAIN PublishOrder : metrics[PublishOrder[i]] # Sample[PublishOrder[i]]}
<1>1. /\ Sample \in [Metrics -> Int] /\ Sample.state_valid = 1
      /\ \A m \in Counters : Sample[m] = TotalOf(m)
      /\ Settled(Sample)
  BY SampleTaken
<1> HIDE DEF Sample
<1>2. writes' = IF left = {} THEN NoWrites ELSE [left |-> left, values |-> Sample]
  BY <1>1 DEF WritesOf, WriteOrder
<1>3. Scraped /\ Settled(metrics) /\ writes' = [left |-> writes'.left, values |-> writes'.values]
  BY <1>2 DEF RegistryOK, NoWrites
<1>4. Scraped' /\ Settled(metrics)'
  BY <1>3 DEF Scraped, TotalOf, Settled, CountersSettled, GaugesSettled
<1>5. CASE left = {}
  <2>1. Quiet'
    BY <1>2, <1>5 DEF Quiet, NoWrites
  <2> QED
    BY <1>3, <1>4, <2>1 DEF RegistryOK
<1>6. CASE left # {}
  <2>1. writes'.left = left /\ writes'.values = Sample
    BY <1>2, <1>6
  <2>2. left \subseteq DOMAIN PublishOrder
        /\ \A i \in DOMAIN PublishOrder : i \notin left => metrics[PublishOrder[i]] = Sample[PublishOrder[i]]
    OBVIOUS
  <2> HIDE DEF left
  <2>3. SampleUnderWay'
    BY <1>1, <2>1, <2>2
    DEF SampleUnderWay, TotalOf, Settled, CountersSettled, GaugesSettled, Written
  <2>4. ~Quiet'
    BY <1>6, <2>1 DEF Quiet
  <2> QED
    BY <1>3, <1>4, <2>3, <2>4 DEF RegistryOK
<1> QED
  BY <1>5, <1>6

\* After a failed read the sample there is on its way to be no sample.
LEMMA InvalidationBegins ==
  ASSUME RegistryOK, Quiet, metrics' = metrics, stats' = stats, Admitted' = Admitted,
         writes' = WritesOf(Unavailable)
  PROVE  RegistryOK'
<1> DEFINE left == {i \in DOMAIN InvalidateOrder :
                      metrics[InvalidateOrder[i]] # Unavailable[InvalidateOrder[i]]}
<1>1. Scraped /\ Settled(metrics)
  BY DEF RegistryOK
<1>2. Unavailable \in [Metrics -> Int] /\ Unavailable.state_valid = 0
  BY <1>1 DEF Scraped, Unavailable, Metrics, NoValue
<1> HIDE DEF Unavailable
<1>3. writes' = IF left = {} THEN NoWrites ELSE [left |-> left, values |-> Unavailable]
  BY <1>2 DEF WritesOf, WriteOrder
<1>4. Scraped' /\ Settled(metrics)'
  BY <1>1 DEF Scraped, TotalOf, Settled, CountersSettled, GaugesSettled
<1>7. writes' = [left |-> writes'.left, values |-> writes'.values]
  BY <1>3 DEF NoWrites
<1>5. CASE left = {}
  <2>1. Quiet'
    BY <1>3, <1>5 DEF Quiet, NoWrites
  <2> QED
    BY <1>4, <1>7, <2>1 DEF RegistryOK
<1>6. CASE left # {}
  <2>1. writes'.left = left /\ writes'.values = Unavailable
    BY <1>3, <1>6
  <2>2. left \subseteq DOMAIN InvalidateOrder
        /\ \A i \in DOMAIN InvalidateOrder :
             i \notin left => metrics[InvalidateOrder[i]] = Unavailable[InvalidateOrder[i]]
    OBVIOUS
  <2> HIDE DEF left
  <2>3. InvalidationUnderWay'
    BY <1>2, <1>4, <2>1, <2>2 DEF InvalidationUnderWay, Settled, Written
  <2>4. ~Quiet'
    BY <1>6, <2>1 DEF Quiet
  <2> QED
    BY <1>4, <1>7, <2>3, <2>4 DEF RegistryOK
<1> QED
  BY <1>5, <1>6

\* One write of a sample.
LEMMA SampleWritten ==
  ASSUME RegistryOK, ~Quiet, SampleUnderWay, CountsOK, Write
  PROVE  RegistryOK'
<1> DEFINE v == writes.values
<1>1. PICK i \in writes.left :
        /\ \A j \in writes.left : i <= j
        /\ metrics' = [metrics EXCEPT ![PublishOrder[i]] = v[PublishOrder[i]]]
        /\ writes' = IF writes.left = {i} THEN NoWrites ELSE [writes EXCEPT !.left = @ \ {i}]
        /\ UNCHANGED <<vars, stats, capture>>
  BY DEF Write, WriteOrder, SampleUnderWay
<1>2. stats' = stats /\ Admitted' = Admitted
  BY <1>1 DEF vars, schedulerVars, Admitted
<1>3. /\ v \in [Metrics -> Int] /\ v.state_valid = 1
      /\ \A m \in Counters : v[m] = TotalOf(m)
      /\ Settled(v)
      /\ writes.left \subseteq 1 .. 12
      /\ \A j \in 1 .. 12 : j \notin writes.left => metrics[PublishOrder[j]] = v[PublishOrder[j]]
  BY PublishPositions DEF SampleUnderWay, Written
<1>4. Scraped
  BY DEF RegistryOK
<1>5. i \in 1 .. 12 /\ PublishOrder[i] \in Metrics /\ metrics \in [Metrics -> Int]
  BY <1>1, <1>3, <1>4, PublishPositions, MetricNames DEF Scraped, Counters, Totals
<1> DEFINE name == PublishOrder[i]
<1>6. \A m \in Metrics : metrics'[m] = IF m = name THEN v[m] ELSE metrics[m]
  BY <1>1, <1>5
<1>7. metrics' \in [Metrics -> Int]
  BY <1>1, <1>3, <1>5
<1>8. \A j \in 1 .. i - 1 : metrics[PublishOrder[j]] = v[PublishOrder[j]]
  <2>1. \A j \in 1 .. i - 1 : j \in 1 .. 12 /\ j \notin writes.left
    BY <1>1, <1>5
  <2> QED
    BY <1>3, <2>1
<1>9. \A m \in Counters : /\ metrics[m] \in Nat /\ metrics'[m] \in Nat /\ v[m] \in Nat
                          /\ metrics[m] <= metrics'[m] /\ metrics'[m] <= v[m] /\ v[m] = TotalOf(m)
  <2>1. \A m \in Counters : metrics[m] \in Nat /\ metrics[m] <= v[m] /\ v[m] = TotalOf(m) /\ m \in Metrics
    BY <1>3, <1>4, MetricNames DEF Scraped
  <2>2. \A m \in Counters : v[m] \in Nat
    BY <1>3, <2>1
  <2> QED
    BY <1>6, <2>1, <2>2
<1>10. \A m \in Counters : metrics'[m] <= TotalOf(m)'
  BY <1>2, <1>9 DEF TotalOf
<1>11. {"attempts", "rejects", "reuses"} \cup RejectReasons \subseteq Counters
  BY DEF Counters, Totals
<1>12. /\ SumFunctionOnSet(v, RejectReasons) = v.rejects
       /\ v.attempts - v.rejects - v.reuses >= 0
  <2>1. v.attempts - v.rejects - v.reuses \in 0 .. Cardinality(Admitted)
    BY <1>3 DEF Settled, CountersSettled
  <2> QED
    BY <1>3, <2>1 DEF Settled, CountersSettled
<1>13. SumFunctionOnSet(metrics', RejectReasons) <= SumFunctionOnSet(v, RejectReasons)
       /\ SumFunctionOnSet(metrics', RejectReasons) \in Int
  BY <1>9, <1>11, ReasonsFinite, SumMonotone, SumType
<1>14. SumFunctionOnSet(metrics', RejectReasons) <= metrics'.rejects
  <2>1. CASE i >= 6
    <3>1. metrics.rejects = v.rejects
      BY <1>5, <1>8, <2>1, PublishPositions
    <3>2. metrics'.rejects = v.rejects
      BY <1>6, <1>11, <3>1, MetricNames
    <3> QED
      BY <1>12, <1>13, <3>2
  <2>2. CASE i <= 5
    <3>1. \A x \in RejectReasons : name # x
      <4>1. i \in 1 .. 3 \/ i = 4 \/ i = 5
        BY <1>5, <2>2
      <4> QED
        BY <1>11, <4>1, PublishPositions, MetricNames DEF Totals
    <3>2. \A x \in RejectReasons : metrics'[x] = metrics[x]
      BY <1>6, <1>11, <3>1, MetricNames
    <3>3. SumFunctionOnSet(metrics', RejectReasons) = SumFunctionOnSet(metrics, RejectReasons)
      BY <1>9, <1>11, <3>2, ReasonsFinite, SumCongruence
    <3> QED
      BY <1>4, <1>9, <1>11, <1>13, <3>3 DEF Scraped
  <2> QED
    BY <1>5, <2>1, <2>2
<1>15. metrics'.attempts - metrics'.rejects - metrics'.reuses >= 0
  <2>1. CASE i >= 5
    <3>1. metrics.attempts = v.attempts
      BY <1>5, <1>8, <2>1, PublishPositions
    <3>2. metrics'.attempts = v.attempts
      BY <1>6, <1>11, <3>1, MetricNames
    <3> QED
      BY <1>9, <1>11, <1>12, <3>2
  <2>2. CASE i <= 4
    <3>1. name # "rejects" /\ name # "reuses"
      <4>1. i \in 1 .. 3 \/ i = 4
        BY <1>5, <2>2
      <4> QED
        BY <1>11, <4>1, PublishPositions, MetricNames
    <3>2. metrics'.rejects = metrics.rejects /\ metrics'.reuses = metrics.reuses
      BY <1>6, <1>11, <3>1, MetricNames
    <3> QED
      BY <1>4, <1>9, <1>11, <3>2 DEF Scraped
  <2> QED
    BY <1>5, <2>1, <2>2
<1>16. \A m \in Gauges : v[m] \in Nat
  BY <1>3 DEF Settled, GaugesSettled
<1>17. metrics'.state_valid = 1 => \A m \in Gauges : metrics'[m] # NoValue
  <2>1. CASE i = 12
    <3>1. \A m \in Gauges : metrics[m] = v[m]
      <4>1. \A m \in Gauges : \E j \in 1 .. i - 1 : PublishOrder[j] = m
        BY <2>1, PublishPositions
      <4> QED
        BY <1>8, <4>1
    <3>2. \A m \in Gauges : metrics'[m] = v[m]
      BY <1>6, <3>1, MetricNames
    <3> QED
      BY <1>16, <3>2 DEF NoValue
  <2>2. CASE i # 12
    <3>1. name # "state_valid"
      <4>1. i \in 1 .. 3 \/ i = 4 \/ i = 5 \/ i = 6 \/ i \in 7 .. 11
        BY <1>5, <2>2
      <4> QED
        BY <1>11, <4>1, PublishPositions, MetricNames
    <3>2. metrics'.state_valid = metrics.state_valid
      BY <1>6, <3>1, MetricNames
    <3>3. \A m \in Gauges : metrics'[m] = metrics[m] \/ metrics'[m] = v[m]
      BY <1>6, MetricNames
    <3> QED
      BY <1>4, <1>16, <3>2, <3>3 DEF Scraped, NoValue
  <2> QED
    BY <2>1, <2>2
<1>18. Scraped'
  BY <1>7, <1>9, <1>10, <1>14, <1>15, <1>17 DEF Scraped
<1>19. CASE writes.left = {i}
  <2>1. Quiet'
    BY <1>1, <1>19 DEF Quiet, NoWrites
  <2>2. \A m \in Metrics : metrics'[m] = v[m]
    <3>1. \A j \in 1 .. 12 : j = i \/ metrics[PublishOrder[j]] = v[PublishOrder[j]]
      BY <1>3, <1>19
    <3> QED
      BY <1>6, <3>1, PublishPositions
  <2>3. metrics' = v
    BY <1>3, <1>7, <2>2
  <2>4. Settled(metrics)'
    BY <1>2, <1>3, <2>3 DEF Settled, CountersSettled, GaugesSettled
  <2> QED
    BY <1>1, <1>18, <1>19, <2>1, <2>4 DEF RegistryOK, NoWrites
<1>20. CASE writes.left # {i}
  <2>1. writes' = [writes EXCEPT !.left = @ \ {i}]
    BY <1>1, <1>20
  <2>2. writes'.left = writes.left \ {i} /\ writes'.values = v
    BY <2>1 DEF RegistryOK
  <2>3. ~Quiet'
    BY <1>1, <1>20, <2>2 DEF Quiet
  <2>4. \A j \in 1 .. 12 : j \notin writes'.left => metrics'[PublishOrder[j]] = v[PublishOrder[j]]
    <3>1. \A j \in 1 .. 12 : PublishOrder[j] \in Metrics
      <4>1. \A j \in 1 .. 12 :
              j \in 1 .. 3 \/ j = 4 \/ j = 5 \/ j = 6 \/ j \in 7 .. 11 \/ j = 12
        OBVIOUS
      <4> QED
        BY <1>11, <4>1, PublishPositions, MetricNames
    <3> QED
      BY <1>3, <1>6, <2>2, <3>1
  <2>5. SampleUnderWay'
    BY <1>2, <1>3, <2>2, <2>4, PublishPositions
    DEF SampleUnderWay, Written, TotalOf, Settled, CountersSettled, GaugesSettled
  <2> QED
    BY <1>18, <2>1, <2>3, <2>5 DEF RegistryOK
<1> QED
  BY <1>19, <1>20

\* One write of an invalidation.
LEMMA InvalidationWritten ==
  ASSUME RegistryOK, ~Quiet, InvalidationUnderWay, Write
  PROVE  RegistryOK'
<1> DEFINE v == writes.values
<1>0. WriteOrder(v) = InvalidateOrder
  BY DEF WriteOrder, InvalidationUnderWay
<1>1. PICK i \in writes.left :
        /\ \A j \in writes.left : i <= j
        /\ metrics' = [metrics EXCEPT ![InvalidateOrder[i]] = v[InvalidateOrder[i]]]
        /\ writes' = IF writes.left = {i} THEN NoWrites ELSE [writes EXCEPT !.left = @ \ {i}]
        /\ UNCHANGED <<vars, stats, capture>>
  BY <1>0, Zenon DEF Write
<1>2. stats' = stats /\ Admitted' = Admitted
  BY <1>1 DEF vars, schedulerVars, Admitted
<1>3. /\ v \in [Metrics -> Int] /\ v.state_valid = 0
      /\ CountersSettled(metrics)
      /\ writes.left \subseteq 1 .. 4
      /\ \A j \in 1 .. 4 : j \notin writes.left => metrics[InvalidateOrder[j]] = v[InvalidateOrder[j]]
  BY InvalidatePositions DEF InvalidationUnderWay, Written
<1>4. Scraped /\ metrics \in [Metrics -> Int]
  BY DEF RegistryOK, Scraped
<1> DEFINE name == InvalidateOrder[i]
<1>5. i \in 1 .. 4 /\ name \in Metrics /\ name \notin Counters
  <2>1. i = 1 \/ i \in 2 .. 4
    BY <1>1, <1>3
  <2> QED
    BY <1>1, <1>3, <2>1, InvalidatePositions, MetricNames
<1>6. \A m \in Metrics : metrics'[m] = IF m = name THEN v[m] ELSE metrics[m]
  BY <1>1, <1>4
<1>7. metrics' \in [Metrics -> Int]
  BY <1>1, <1>3, <1>4, <1>5
<1>8. \A m \in Counters : metrics'[m] = metrics[m]
  BY <1>5, <1>6, MetricNames
<1>9. SumFunctionOnSet(metrics', RejectReasons) = SumFunctionOnSet(metrics, RejectReasons)
  BY <1>4, <1>8, ReasonsFinite, SumCongruence DEF Scraped, Counters
<1>10. metrics'.state_valid = 0
  <2>1. CASE i = 1
    BY <1>3, <1>5, <1>6, <2>1, InvalidatePositions
  <2>2. CASE i # 1
    <3>1. 1 \notin writes.left /\ 1 \in 1 .. 4
      BY <1>1, <1>5, <2>2
    <3>2. metrics.state_valid = 0
      BY <1>3, <3>1, InvalidatePositions
    <3> QED
      BY <1>3, <1>6, <3>2, MetricNames
  <2> QED
    BY <2>1, <2>2
<1>11. {"attempts", "rejects", "reuses"} \subseteq Counters
  BY DEF Counters, Totals
<1>12. metrics'.attempts = metrics.attempts /\ metrics'.rejects = metrics.rejects
       /\ metrics'.reuses = metrics.reuses
  BY <1>8, <1>11
<1>13. Scraped'
  <2>1. \A m \in Counters : metrics'[m] \in Nat /\ metrics'[m] <= TotalOf(m)'
    BY <1>2, <1>4, <1>8 DEF Scraped, TotalOf
  <2> QED
    BY <1>4, <1>7, <1>9, <1>10, <1>12, <2>1 DEF Scraped
<1>14. CountersSettled(metrics)'
  BY <1>2, <1>3, <1>9, <1>12 DEF CountersSettled
<1>15. CASE writes.left = {i}
  <2>1. Quiet' /\ writes' = NoWrites
    BY <1>1, <1>15 DEF Quiet, NoWrites
  <2>2. Settled(metrics)'
    BY <1>10, <1>14 DEF Settled
  <2> QED
    BY <1>13, <2>1, <2>2 DEF RegistryOK, NoWrites
<1>16. CASE writes.left # {i}
  <2>1. writes' = [writes EXCEPT !.left = @ \ {i}]
    BY <1>1, <1>16
  <2>2. writes'.left = writes.left \ {i} /\ writes'.values = v
    BY <2>1 DEF RegistryOK
  <2>3. ~Quiet'
    BY <1>1, <1>16, <2>2 DEF Quiet
  <2>4. \A j \in 1 .. 4 :
          j \notin writes'.left => metrics'[InvalidateOrder[j]] = v[InvalidateOrder[j]]
    <3>1. \A j \in 1 .. 4 : InvalidateOrder[j] \in Metrics
      <4>1. \A j \in 1 .. 4 : j = 1 \/ j \in 2 .. 4
        OBVIOUS
      <4> QED
        BY <4>1, InvalidatePositions, MetricNames
    <3> QED
      BY <1>3, <1>6, <2>2, <3>1
  <2>5. InvalidationUnderWay'
    BY <1>3, <1>14, <2>2, <2>4, InvalidatePositions DEF InvalidationUnderWay, Written
  <2> QED
    BY <1>13, <2>1, <2>3, <2>5 DEF RegistryOK
<1> QED
  BY <1>15, <1>16

\* Calls go on when no publication is under way, and requests are admitted:
\* the registry stays right meanwhile.
LEMMA RegistryKept ==
  ASSUME RegistryOK, UNCHANGED <<metrics, writes>>,
         Quiet \/ stats' = stats,
         \A m \in Counters : TotalOf(m) \in Nat /\ TotalOf(m)' \in Nat /\ TotalOf(m) <= TotalOf(m)',
         Cardinality(Admitted) \in Nat, Cardinality(Admitted') \in Nat,
         Cardinality(Admitted) <= Cardinality(Admitted')
  PROVE  RegistryOK'
<1>1. Scraped'
  <2>1. \A m \in Counters : metrics[m] \in Nat /\ metrics[m] <= TotalOf(m)
    BY DEF RegistryOK, Scraped
  <2>2. \A m \in Counters : metrics[m] <= TotalOf(m)'
    BY <2>1
  <2> QED
    BY <2>2 DEF RegistryOK, Scraped
<1>3. CountersSettled(metrics) => CountersSettled(metrics)'
  BY DEF CountersSettled
<1>4. CountersSettled(writes.values) => CountersSettled(writes.values)'
  BY DEF CountersSettled
<1>5. CASE Quiet /\ Settled(metrics)
  BY <1>1, <1>3, <1>5 DEF RegistryOK, Quiet, Settled, GaugesSettled
<1>6. CASE ~Quiet /\ SampleUnderWay
  <2>1. \A m \in Counters : writes'.values[m] = TotalOf(m)'
    BY <1>6 DEF SampleUnderWay, TotalOf
  <2>2. Settled(writes.values)'
    BY <1>4, <1>6 DEF SampleUnderWay, Settled, GaugesSettled
  <2> QED
    BY <1>1, <1>6, <2>1, <2>2 DEF RegistryOK, Quiet, SampleUnderWay, Written
<1>7. CASE ~Quiet /\ InvalidationUnderWay
  BY <1>1, <1>3, <1>7 DEF RegistryOK, Quiet, InvalidationUnderWay, Written
<1> QED
  BY <1>5, <1>6, <1>7 DEF RegistryOK

\* The counters of the governor never go back.
LEMMA CountersGrow ==
  ASSUME StatsOK, CountsOK, StatsOK', CountsOK', [TelemetryNext]_allVars
  PROVE  \A m \in Counters : TotalOf(m) \in Nat /\ TotalOf(m)' \in Nat /\ TotalOf(m) <= TotalOf(m)'
<1>1. \A m \in Counters : TotalOf(m) \in Nat /\ TotalOf(m)' \in Nat
  BY DEF Counters, TotalOf, Totals, StatsOK, CountsOK
<1>2. ASSUME NEW reason, NEW reused \in BOOLEAN, stats' = StatsAfter(reason, reused)
      PROVE  \A m \in Counters : TotalOf(m) <= TotalOf(m)'
  <2>1. /\ stats'.attempts = stats.attempts + 1
        /\ stats'.rejects = stats.rejects + (IF reason \in RejectReasons THEN 1 ELSE 0)
        /\ stats'.reuses = stats.reuses + (IF reused THEN 1 ELSE 0)
        /\ \A x \in RejectReasons : stats'.reasons[x] = stats.reasons[x] + (IF x = reason THEN 1 ELSE 0)
    BY <1>2 DEF StatsAfter
  <2>2. \A m \in Totals : stats[m] <= stats'[m]
    BY <2>1 DEF StatsOK, Totals
  <2>3. \A x \in RejectReasons : stats.reasons[x] <= stats'.reasons[x]
    BY <2>1 DEF CountsOK
  <2> QED
    BY <2>2, <2>3 DEF Counters, TotalOf
<1>3. ASSUME NEW r \in Req, AttemptNew(r) \/ AttemptAgain(r)
      PROVE  \A m \in Counters : TotalOf(m) <= TotalOf(m)'
  BY <1>2, <1>3 DEF AttemptNew, AttemptAgain, Account
<1>4. CASE stats' = stats
  BY <1>1, <1>4 DEF TotalOf
<1> QED
  BY <1>1, <1>3, <1>4
  DEF TelemetryNext, AttemptRaises, Publish, Write, telemetryVars, allVars

\* The watched engine has its work in order.
LEMMA WatchedWork == TelemetrySpec => []WorkInv
BY WatchedIsGoverned, WorkInvariance, PTL

\* Every step leaves the registry right for the next scrape.
LEMMA RegistryStep ==
  ASSUME WorkInv, StatsOK, CountsOK, StatsOK', CountsOK', RegistryOK, [TelemetryNext]_allVars
  PROVE  RegistryOK'
<1>1. IInv
  BY DEF WorkInv
<1>2. /\ Cardinality(Admitted) <= Cardinality(Admitted')
      /\ Cardinality(Admitted) \in Nat /\ Cardinality(Admitted') \in Nat
  <2>1. Admitted \in SUBSET Req /\ Admitted' \in SUBSET Req
    BY DEF Admitted
  <2> QED
    BY <1>1, <2>1, AdmittedGrows, Countable
<1>3. CASE Publish
  <2>1. Admitted' = Admitted /\ UNCHANGED <<stats, metrics>> /\ Idle /\ Quiet
    BY <1>1, <1>3, OtherwiseAdmittedKept DEF Publish
  <2> QED
    BY <1>3, <2>1, SampleBegins, InvalidationBegins DEF Publish
<1>4. CASE Write
  <2>1. ~Quiet
    BY <1>4 DEF Write, Quiet
  <2> QED
    BY <1>4, <2>1, SampleWritten, InvalidationWritten DEF RegistryOK
<1>5. CASE ~Publish /\ ~Write
  <2>1. UNCHANGED <<metrics, writes>> /\ (Quiet \/ stats' = stats)
    BY <1>5 DEF TelemetryNext, AttemptNew, AttemptAgain, AttemptRaises, Account, telemetryVars,
                allVars
  <2> QED
    BY <1>2, <2>1, CountersGrow, RegistryKept
<1> QED
  BY <1>3, <1>4, <1>5

\* Scrapes come at any moment, also between two writes of a publication: no
\* counter is ahead of the calls, the parts are within their totals, a valid
\* sample has no unknown gauge, and a scrape that overlaps no publication
\* reads one moment, for every set of requests and whatever reads fail
\* (metrics.py publish).
THEOREM EveryScrapeIsSound == TelemetrySpec => []ScrapesSound
<1>1. TelemetryInit => StatsOK /\ CountsOK /\ RegistryOK
  <2> SUFFICES ASSUME TelemetryInit PROVE StatsOK /\ CountsOK /\ RegistryOK
    OBVIOUS
  <2>1. Admitted = {} /\ Cardinality(Admitted) = 0
    BY FS_EmptySet DEF TelemetryInit, Init, SchedulerInit, NoReservation, Admitted
  <2> DEFINE zero == [x \in RejectReasons |-> 0]
  <2>2. /\ stats.attempts = 0 /\ stats.rejects = 0 /\ stats.reuses = 0
        /\ stats.reasons = zero /\ metrics = NewRegistry /\ writes = NoWrites
    BY DEF TelemetryInit, NoAttempts
  <2>3. SumFunctionOnSet(zero, RejectReasons) = 0 /\ zero \in [RejectReasons -> Nat]
    BY ReasonsFinite, SumOfZeros
  <2>4. \A x \in RejectReasons : stats.reasons[x] = 0
    BY <2>2
  <2> HIDE DEF zero
  <2>5. StatsOK /\ CountsOK
    BY <2>1, <2>2, <2>3 DEF StatsOK, AttemptsExact, CountsOK
  <2>6. \A m \in Counters : metrics[m] = 0 /\ TotalOf(m) = 0
    BY <2>2, <2>4, MetricNames DEF NewRegistry, TotalOf, Counters, Totals
  <2>7. /\ metrics \in [Metrics -> Int] /\ metrics.state_valid = 0
    BY <2>2, MetricNames DEF NewRegistry, NoValue
  <2>8. SumFunctionOnSet(metrics, RejectReasons) = 0
    BY <2>6, ReasonsFinite, SumOfZeros DEF Counters
  <2>9. metrics.attempts = 0 /\ metrics.rejects = 0 /\ metrics.reuses = 0
    BY <2>6 DEF Counters, Totals
  <2>10. Scraped
    BY <2>6, <2>7, <2>8, <2>9 DEF Scraped
  <2>11. Settled(metrics)
    BY <2>1, <2>7, <2>8, <2>9 DEF Settled, CountersSettled
  <2> QED
    BY <2>2, <2>5, <2>10, <2>11 DEF RegistryOK, Quiet, NoWrites
<1>2. WorkInv /\ StatsOK /\ CountsOK /\ RegistryOK /\ [TelemetryNext]_allVars
      => StatsOK' /\ CountsOK' /\ RegistryOK'
  <2> SUFFICES ASSUME WorkInv, StatsOK, CountsOK, RegistryOK, [TelemetryNext]_allVars
               PROVE  StatsOK' /\ CountsOK' /\ RegistryOK'
    OBVIOUS
  <2>1. IInv
    BY DEF WorkInv
  <2>2. StatsOK' /\ CountsOK'
    BY <2>1, StatsStep, CountsStep
  <2> QED
    BY <2>2, RegistryStep
<1> QED
  BY <1>1, <1>2, RegistrySound, WatchedWork, PTL DEF TelemetrySpec

-----------------------------------------------------------------------------
(* The capture against the counters.                                       *)

Rejected == {i \in DOMAIN capture.events : ~capture.events[i].allowed}

Reused == {i \in DOMAIN capture.events : capture.events[i].reused}

Admitting ==
  {i \in DOMAIN capture.events : capture.events[i].allowed /\ ~capture.events[i].reused}

\* No decision is missing from the capture.
Complete == capture.overwritten = 0 /\ capture.recorded = stats.attempts

\* CaptureReconciles, with what ties the captured decisions to the admitted
\* requests: an allowed one is of an admitted request, and as long as nothing
\* is missing every admitted request has the decision that admitted it.
RecordsOK ==
  /\ Complete =>
       /\ Cardinality(Rejected) = stats.rejects
       /\ Cardinality(Reused) = stats.reuses
       /\ \A r \in Admitted : \E j \in Admitting : capture.events[j].request = r
  /\ \A i \in DOMAIN capture.events :
       /\ capture.events[i].allowed => capture.events[i].request \in Admitted
       /\ capture.events[i].reused => capture.events[i].allowed
  /\ \A i, j \in DOMAIN capture.events :
       capture.events[i].request = capture.events[j].request =>
         /\ i \in Admitting /\ j \in Admitting => i = j
         /\ i \in Reused /\ j \notin Reused => j < i
  /\ capture.overwritten = 0 =>
       \A i \in Reused : \E j \in Admitting :
         j < i /\ capture.events[j].request = capture.events[i].request

\* Records that are decisions in order reconcile with the counters.
LEMMA RecordsReconcile == RecordsOK => CaptureReconciles
<1>1. /\ EventsWhere(LAMBDA e : ~e.allowed) = Rejected
      /\ EventsWhere(LAMBDA e : e.reused) = Reused
      /\ EventsWhere(LAMBDA e : e.allowed /\ ~e.reused) = Admitting
  BY DEF EventsWhere, Rejected, Reused, Admitting
<1> QED
  BY <1>1 DEF RecordsOK, Complete, CaptureReconciles

\* A counted call that is not recorded: some call is missing from then on.
Missed ==
  /\ capture'.events = capture.events /\ capture'.overwritten = capture.overwritten
  /\ capture'.recorded # stats'.attempts

\* A recorded call is the last of the n in the ring, and the others have moved
\* by the k that were overwritten.
Captured(event, k, n) ==
  /\ capture'.overwritten = capture.overwritten + k
  /\ Complete' => k = 0
  /\ capture.recorded = stats.attempts
  /\ DOMAIN capture'.events = 1 .. n
  /\ capture'.events[n] = event
  /\ DOMAIN capture.events = 1 .. n - 1 + k
  /\ \A i \in 1 .. n - 1 : capture'.events[i] = capture.events[i + k]

\* Every counted call does one of the two to the capture.
LEMMA CaptureMoves ==
  ASSUME CaptureOK, NEW r \in Req, NEW reason, NEW reused \in BOOLEAN, NEW now,
         Account(r, reason, reused, now)
  PROVE  Missed \/ \E k \in {0, 1}, n \in Nat \ {0} : Captured(Event(r, reason, reused), k, n)
<1> DEFINE e == Event(r, reason, reused)
           ring == Push(capture.events, e)
           k == IF Len(capture.events) = CAPACITY THEN 1 ELSE 0
<1>1. /\ stats.attempts \in Nat /\ capture.recorded \in Nat /\ capture.overwritten \in Nat
      /\ capture.events \in Seq(Events) /\ Len(capture.events) <= CAPACITY
      /\ CAPACITY \in Nat \ {0} /\ Len(capture.events) \in Nat
      /\ capture.recorded <= stats.attempts
      /\ capture.stopped = "none" => capture.recorded = stats.attempts
  BY TelemetryAssumption DEF CaptureOK, CaptureIsPrefix, TelemetryAssumption
<1>2. stats'.attempts = stats.attempts + 1 /\ capture' = Recorded(e, now)
  BY DEF Account, StatsAfter
<1>3. CASE /\ capture'.events = capture.events /\ capture'.recorded = capture.recorded
           /\ capture'.overwritten = capture.overwritten
  BY <1>1, <1>2, <1>3 DEF Missed
<1>4. CASE /\ capture'.events = ring /\ capture'.recorded = capture.recorded + 1
           /\ capture'.overwritten = capture.overwritten + k
           /\ capture.stopped = "none"
  <2>1. e \in Events
    BY <1>1 DEF Event, Events
  <2> HIDE DEF e
  <2>2. /\ ring \in Seq(Events) /\ ring[Len(ring)] = e
        /\ Len(ring) = IF Len(capture.events) = CAPACITY THEN CAPACITY ELSE Len(capture.events) + 1
        /\ \A i \in 1 .. Len(ring) - 1 :
             ring[i] = capture.events[IF Len(capture.events) = CAPACITY THEN i + 1 ELSE i]
    BY <1>1, <2>1, PushFacts
  <2> HIDE DEF ring
  <2>3. Len(ring) \in Nat \ {0} /\ DOMAIN ring = 1 .. Len(ring)
    BY <1>1, <2>2
  <2>4. DOMAIN capture.events = 1 .. Len(ring) - 1 + k
    BY <1>1, <2>2
  <2>5. \A i \in 1 .. Len(ring) - 1 : ring[i] = capture.events[i + k]
    BY <2>2, <2>3
  <2>6. k \in {0, 1}
    OBVIOUS
  <2>7. Complete' => k = 0
    BY <1>1, <1>4, <2>6 DEF Complete
  <2>8. capture.recorded = stats.attempts
    BY <1>1, <1>4
  <2> HIDE DEF k
  <2>9. Captured(e, k, Len(ring))
    BY <1>4, <2>2, <2>3, <2>4, <2>5, <2>7, <2>8 DEF Captured
  <2> QED
    BY <2>3, <2>6, <2>9 DEF e
<1> HIDE DEF e
<1> QED
  BY <1>2, <1>3, <1>4 DEF Recorded

\* A counted call is either the first of its request to be decided, which may
\* admit it, or the reuse of a reservation.
Decides(r, reason, reused) ==
  \/ /\ ~reused /\ r \notin Admitted
     /\ Admitted' = IF reason \in RejectReasons THEN Admitted ELSE Admitted \cup {r}
  \/ reused /\ reason \notin RejectReasons /\ r \in Admitted /\ Admitted' = Admitted

\* A counted call keeps the capture and the counters reconciled.
LEMMA RecordsAccount ==
  ASSUME CaptureOK, StatsOK, RecordsOK, NEW r \in Req, NEW reason, NEW reused \in BOOLEAN, NEW now,
         Account(r, reason, reused, now), Decides(r, reason, reused)
  PROVE  RecordsOK'
<1> DEFINE e == Event(r, reason, reused)
           old == capture.events
           new == capture'.events
<1>1. /\ e.request = r /\ e.reused = reused
      /\ e.allowed <=> reason \notin RejectReasons
  BY DEF Event
<1>2. /\ Complete =>
           /\ Cardinality(Rejected) = stats.rejects
           /\ Cardinality(Reused) = stats.reuses
           /\ \A s \in Admitted : \E j \in Admitting : old[j].request = s
      /\ \A i \in DOMAIN old :
           /\ old[i].allowed => old[i].request \in Admitted
           /\ old[i].reused => old[i].allowed
      /\ \A i, j \in DOMAIN old :
           old[i].request = old[j].request =>
             /\ i \in Admitting /\ j \in Admitting => i = j
             /\ i \in Reused /\ j \notin Reused => j < i
      /\ capture.overwritten = 0 =>
           \A i \in Reused : \E j \in Admitting : j < i /\ old[j].request = old[i].request
  BY DEF RecordsOK
<1>3. Admitted \subseteq Admitted'
  BY DEF Decides
<1>4. CASE Missed
  <2>1. ~Complete'
    BY <1>4 DEF Missed, Complete
  <2>2. Reused' = Reused /\ Admitting' = Admitting
    BY <1>4 DEF Missed, Reused, Admitting
  <2> QED
    BY <1>2, <1>3, <1>4, <2>1, <2>2 DEF Missed, RecordsOK
<1>5. ASSUME NEW k \in {0, 1}, NEW n \in Nat \ {0}, Captured(e, k, n)
      PROVE  RecordsOK'
  <2> HIDE DEF e
  <2>1. /\ capture'.overwritten = capture.overwritten + k
        /\ Complete' => k = 0
        /\ capture.recorded = stats.attempts
        /\ DOMAIN new = 1 .. n /\ new[n] = e
        /\ DOMAIN old = 1 .. n - 1 + k
        /\ \A i \in 1 .. n - 1 : new[i] = old[i + k]
    BY <1>5 DEF Captured
  <2>2. ASSUME NEW i \in 1 .. n - 1
        PROVE  /\ i \in DOMAIN new /\ i + k \in DOMAIN old /\ new[i] = old[i + k]
               /\ i \in Admitting' <=> i + k \in Admitting
               /\ i \in Reused' <=> i + k \in Reused
    <3>1. i \in Nat /\ k \in Nat /\ i <= n - 1 /\ 1 <= i /\ k \in {0, 1}
      BY <1>5, <2>2
    <3>2. i \in 1 .. n /\ i + k \in 1 .. n - 1 + k
      BY <3>1
    <3>3. i \in DOMAIN new /\ i + k \in DOMAIN old /\ new[i] = old[i + k]
      BY <2>1, <2>2, <3>2
    <3> QED
      BY <3>3 DEF Admitting, Reused
  <2>3. /\ n \in DOMAIN new
        /\ n \in Admitting' <=> reason \notin RejectReasons /\ ~reused
        /\ n \in Reused' <=> reused
        /\ n \in Rejected' <=> reason \in RejectReasons
    <3>1. n \in DOMAIN new
      BY <2>1
    <3> QED
      BY <1>1, <2>1, <3>1 DEF Admitting, Reused, Rejected
  <2>4. \A i \in DOMAIN new : i = n \/ i \in 1 .. n - 1
    BY <2>1
  <2>5. \A i \in Admitting \cup Reused : i \in DOMAIN old /\ old[i].request \in Admitted
    BY <1>2 DEF Admitting, Reused
  <2>6. Complete' => Complete /\ k = 0
    <3>1. capture.overwritten \in Nat
      BY DEF CaptureOK
    <3> QED
      BY <2>1, <3>1 DEF Complete
  <2>7. capture'.overwritten = 0 => Complete /\ k = 0
    <3>1. capture.overwritten \in Nat
      BY DEF CaptureOK
    <3> QED
      BY <2>1, <3>1 DEF Complete
  <2>8. ASSUME NEW i \in DOMAIN new
        PROVE  /\ new[i].allowed => new[i].request \in Admitted'
               /\ new[i].reused => new[i].allowed
    <3>1. CASE i = n
      BY <1>1, <2>1, <3>1 DEF Decides
    <3>2. CASE i \in 1 .. n - 1
      BY <1>2, <1>3, <2>2, <3>2
    <3> QED
      BY <2>4, <2>8, <3>1, <3>2
  <2>9. ASSUME NEW i \in DOMAIN new, NEW j \in DOMAIN new, new[i].request = new[j].request
        PROVE  /\ i \in Admitting' /\ j \in Admitting' => i = j
               /\ i \in Reused' /\ j \notin Reused' => j < i
    <3>1. ASSUME NEW m \in 1 .. n - 1, new[m].request = r, m \in Admitting' \cup Reused'
          PROVE  reused
      BY <2>2, <2>5, <3>1 DEF Decides
    <3>2. CASE i = n /\ j = n
      BY <3>2
    <3>3. CASE i = n /\ j \in 1 .. n - 1
      <4>1. new[j].request = r
        BY <1>1, <2>1, <2>9, <3>3
      <4>2. j < i
        BY <3>3
      <4> QED
        BY <2>3, <3>1, <3>3, <4>1, <4>2
    <3>4. CASE i \in 1 .. n - 1 /\ j = n
      <4>1. new[i].request = r
        BY <1>1, <2>1, <2>9, <3>4
      <4> QED
        BY <2>3, <3>1, <3>4, <4>1
    <3>5. CASE i \in 1 .. n - 1 /\ j \in 1 .. n - 1
      <4>1. /\ i + k \in Admitting /\ j + k \in Admitting => i + k = j + k
            /\ i + k \in Reused /\ j + k \notin Reused => j + k < i + k
        BY <1>2, <2>2, <2>9, <3>5
      <4>2. (i + k = j + k => i = j) /\ (j + k < i + k => j < i)
        BY <3>5
      <4> QED
        BY <2>2, <3>5, <4>1, <4>2
    <3> QED
      BY <2>4, <2>9, <3>2, <3>3, <3>4, <3>5
  <2>10. ASSUME capture'.overwritten = 0, NEW i \in Reused'
        PROVE  \E j \in Admitting' : j < i /\ new[j].request = new[i].request
    <3>1. Complete /\ k = 0 /\ capture.overwritten = 0
      BY <2>7, <2>10 DEF Complete
    <3>2. \A m \in DOMAIN old : m \in 1 .. n - 1 /\ m + k = m
      BY <2>1, <3>1
    <3>3. CASE i = n
      <4>1. reused /\ r \in Admitted
        BY <2>3, <2>10, <3>3 DEF Decides
      <4>2. PICK j \in Admitting : old[j].request = r
        BY <1>2, <3>1, <4>1
      <4>3. j \in 1 .. n - 1 /\ j + k = j
        BY <2>5, <3>2
      <4>4. j \in Admitting' /\ new[j].request = r /\ j < n
        BY <2>2, <4>2, <4>3
      <4> QED
        BY <1>1, <2>1, <3>3, <4>4
    <3>4. CASE i \in 1 .. n - 1
      <4>1. i + k = i /\ i \in Reused
        BY <2>2, <2>10, <3>1, <3>4
      <4>2. PICK j \in Admitting : j < i /\ old[j].request = old[i].request
        BY <1>2, <3>1, <4>1
      <4>3. j \in 1 .. n - 1 /\ j + k = j
        BY <2>5, <3>2
      <4>4. j \in Admitting' /\ new[j] = old[j] /\ new[i] = old[i]
        BY <2>2, <3>4, <4>1, <4>3
      <4> QED
        BY <4>2, <4>4
    <3>5. i \in DOMAIN new
      BY <2>10 DEF Reused
    <3> QED
      BY <2>4, <3>3, <3>4, <3>5
  <2>11. ASSUME Complete'
         PROVE  /\ Cardinality(Rejected') = stats'.rejects
                /\ Cardinality(Reused') = stats'.reuses
                /\ \A s \in Admitted' : \E j \in Admitting' : new[j].request = s
    <3>1. Complete /\ k = 0
      BY <2>6, <2>11
    <3>2. DOMAIN old = 1 .. n - 1 /\ \A m \in 1 .. n - 1 : new[m] = old[m]
      BY <2>1, <3>1
    <3>3. DOMAIN new = DOMAIN old \cup {n} /\ n \notin DOMAIN old
      BY <2>1, <3>2
    <3>4. /\ Rejected' = IF reason \in RejectReasons THEN Rejected \cup {n} ELSE Rejected
          /\ Reused' = IF reused THEN Reused \cup {n} ELSE Reused
          /\ n \notin Rejected /\ n \notin Reused
      BY <2>3, <3>2, <3>3 DEF Rejected, Reused
    <3>5. IsFiniteSet(Rejected) /\ IsFiniteSet(Reused)
      <4>1. IsFiniteSet(1 .. n - 1)
        BY FS_Interval
      <4>2. Rejected \subseteq 1 .. n - 1 /\ Reused \subseteq 1 .. n - 1
        BY <3>2 DEF Rejected, Reused
      <4> QED
        BY <4>1, <4>2, FS_Subset
    <3>6. /\ Cardinality(Rejected \cup {n}) = Cardinality(Rejected) + 1
          /\ Cardinality(Reused \cup {n}) = Cardinality(Reused) + 1
      BY <3>4, <3>5, FS_AddElement
    <3>7. /\ stats'.rejects = stats.rejects + (IF reason \in RejectReasons THEN 1 ELSE 0)
          /\ stats'.reuses = stats.reuses + (IF reused THEN 1 ELSE 0)
      BY DEF Account, StatsAfter
    <3>8. stats.rejects \in Nat /\ stats.reuses \in Nat
      BY DEF StatsOK
    <3>9. Cardinality(Rejected) = stats.rejects /\ Cardinality(Reused) = stats.reuses
      BY <1>2, <3>1
    <3>10. Cardinality(Rejected') = stats'.rejects
      BY <3>4, <3>6, <3>7, <3>8, <3>9
    <3>11. Cardinality(Reused') = stats'.reuses
      BY <3>4, <3>6, <3>7, <3>8, <3>9
    <3>12. ASSUME NEW s \in Admitted'
           PROVE  \E j \in Admitting' : new[j].request = s
      <4>1. CASE s \in Admitted
        <5>1. PICK j \in Admitting : old[j].request = s
          BY <1>2, <3>1, <4>1
        <5>2. j \in 1 .. n - 1 /\ j + k = j
          BY <2>5, <3>1, <3>2
        <5> QED
          BY <2>2, <5>1, <5>2
      <4>2. CASE s \notin Admitted
        <5>1. s = r /\ ~reused /\ reason \notin RejectReasons
          BY <3>12, <4>2 DEF Decides
        <5> QED
          BY <1>1, <2>1, <2>3, <5>1
      <4> QED
        BY <4>1, <4>2
    <3> QED
      BY <3>10, <3>11, <3>12
  <2> QED
    BY <2>8, <2>9, <2>10, <2>11 DEF RecordsOK
<1> HIDE DEF e
<1>6. Missed \/ \E k \in {0, 1}, n \in Nat \ {0} : Captured(e, k, n)
  BY CaptureMoves DEF e
<1> QED
  BY <1>4, <1>5, <1>6

\* The capture and the counters stay reconciled.
LEMMA RecordsStep ==
  ASSUME IInv, StatsOK, CaptureOK, RecordsOK, [TelemetryNext]_allVars
  PROVE  RecordsOK'
<1>1. ASSUME NEW r \in Req, AttemptNew(r) PROVE RecordsOK'
  <2>1. r \notin Admitted
    BY <1>1 DEF AttemptNew, AdmitNew, AdmitRequest, Admitted
  <2>2. Decides(r, last_admission', FALSE)
    <3>1. \/ last_admission' \in RejectReasons /\ Admitted' = Admitted
          \/ last_admission' \notin RejectReasons /\ Admitted' = Admitted \cup {r}
      BY <1>1, AdmissionReserves DEF AttemptNew
    <3> QED
      BY <2>1, <3>1 DEF Decides
  <2>3. Account(r, last_admission', FALSE, core'.last_time)
    BY <1>1 DEF AttemptNew
  <2> QED
    BY <2>2, <2>3, RecordsAccount
<1>2. ASSUME NEW r \in Req, AttemptAgain(r) PROVE RecordsOK'
  <2>1. reservation[r].reason = last_admission' /\ reservation[r].status = "live"
    BY <1>2 DEF AttemptAgain, AdmitAgain
  <2>2. last_admission' \notin RejectReasons
    BY <2>1 DEF IInv, LedgerOK, Reservations, RejectReasons
  <2>3. Decides(r, last_admission', TRUE)
    BY <1>2, <2>1, <2>2, OtherwiseAdmittedKept DEF Decides, Admitted
  <2>4. PICK now : Account(r, last_admission', TRUE, now)
    BY <1>2 DEF AttemptAgain
  <2> QED
    BY <2>3, <2>4, RecordsAccount
<1>3. CASE \/ \E r \in Req : AttemptRaises(r)
           \/ Publish \/ Write \/ (Unwatched /\ UNCHANGED telemetryVars) \/ UNCHANGED allVars
  <2>1. stats' = stats /\ capture' = capture
    BY <1>3 DEF AttemptRaises, Publish, Write, telemetryVars, allVars
  <2>2. Admitted' = Admitted
    BY <1>3, OtherwiseAdmittedKept
  <2> QED
    BY <2>1, <2>2 DEF RecordsOK, Complete, Rejected, Reused, Admitting
<1> QED
  BY <1>1, <1>2, <1>3 DEF TelemetryNext

\* A collector can reconcile the captured decisions with the counters: a
\* complete capture yields the same numbers, and no reuse is captured before
\* the admission it reuses, for every capacity, bound and set of requests.
THEOREM CaptureMatchesCounters == TelemetrySpec => []CaptureReconciles
<1>1. TelemetryInit => StatsOK /\ CaptureOK /\ RecordsOK
  <2> SUFFICES ASSUME TelemetryInit PROVE StatsOK /\ CaptureOK /\ RecordsOK
    OBVIOUS
  <2>1. Admitted = {}
    BY DEF TelemetryInit, Init, SchedulerInit, NoReservation, Admitted
  <2>2. CaptureOK
    BY CaptureInit
  <2>3. DOMAIN capture.events = {} /\ stats.rejects = 0 /\ stats.reuses = 0
    BY DEF TelemetryInit, NoCapture, NoAttempts
  <2>4. Rejected = {} /\ Reused = {} /\ Admitting = {}
    BY <2>3 DEF Rejected, Reused, Admitting
  <2>5. RecordsOK
    BY <2>1, <2>3, <2>4, FS_EmptySet DEF RecordsOK
  <2> QED
    BY <2>1, <2>2, <2>5, FS_EmptySet DEF TelemetryInit, NoAttempts, StatsOK, AttemptsExact
<1>2. IInv /\ StatsOK /\ CaptureOK /\ RecordsOK /\ [TelemetryNext]_allVars
      => StatsOK' /\ CaptureOK' /\ RecordsOK'
  BY StatsStep, CaptureStep, RecordsStep
<1> QED
  BY <1>1, <1>2, RecordsReconcile, WatchedInvariance, PTL DEF TelemetrySpec
=============================================================================
