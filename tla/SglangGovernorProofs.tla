------------------------ MODULE SglangGovernorProofs ------------------------
(***************************************************************************)
(* Proofs about SglangGovernor for every set of requests, every capacity   *)
(* and every clock.                                                        *)
(***************************************************************************)
EXTENDS SglangGovernor, FiniteSetTheorems, TLAPS

-----------------------------------------------------------------------------
(* Counting requests.                                                      *)

\* Every request has one of the four context-pressure classes.
LEMMA PressureClassType == \A r \in Req : RequestPressureClass(r) \in Classes
<1> SUFFICES ASSUME NEW r \in Req PROVE RequestPressureClass(r) \in Classes
  OBVIOUS
<1> DEFINE over == {i \in 1 .. 3 : Horizon[r] > ContextUppers[i]}
<1>1. IsFiniteSet(1 .. 3) /\ Cardinality(1 .. 3) = 3 - 1 + 1
  <2>1. 1 \in Int /\ 3 \in Int /\ ~(1 > 3)
    OBVIOUS
  <2> QED
    BY ONLY <2>1, FS_Interval
<1>2. IsFiniteSet(over) /\ Cardinality(over) <= 3
  BY <1>1, FS_Subset
<1>3. Cardinality(over) \in Nat
  BY <1>2, FS_CardinalityType
<1> QED
  BY <1>2, <1>3 DEF RequestPressureClass, Classes, PRESSURE_CLASSES

\* Sets of requests are finite, and so is what is counted of them.
LEMMA Countable ==
  ASSUME NEW S \in SUBSET Req
  PROVE  IsFiniteSet(S) /\ Cardinality(S) \in Nat
BY SchedulerAssumption, FS_Subset, FS_CardinalityType DEF SchedulerAssumption

\* One request joins a set it was not in.
LEMMA CountJoin ==
  ASSUME NEW S \in SUBSET Req, NEW r \in Req, r \notin S
  PROVE  Cardinality(S \cup {r}) = Cardinality(S) + 1
BY Countable, FS_AddElement

\* One request leaves the set it was in.
LEMMA CountLeave ==
  ASSUME NEW S \in SUBSET Req, NEW r \in S
  PROVE  Cardinality(S \ {r}) = Cardinality(S) - 1
BY Countable, FS_RemoveElement

\* A batch in which some requests join and some leave.
LEMMA CountBatch ==
  ASSUME NEW S \in SUBSET Req, NEW E \in SUBSET Req, NEW L \in SUBSET S,
         S \cap E = {}
  PROVE  Cardinality((S \cup E) \ L) = Cardinality(S) + Cardinality(E) - Cardinality(L)
<1>1. IsFiniteSet(S) /\ IsFiniteSet(E) /\ IsFiniteSet(L) /\ IsFiniteSet(S \cup E)
  BY Countable
<1>2. Cardinality(S \cup E) = Cardinality(S) + Cardinality(E) - Cardinality(S \cap E)
  BY <1>1, FS_Union
<1>3. Cardinality(S \cap E) = 0
  BY FS_EmptySet
<1>4. Cardinality((S \cup E) \ L) = Cardinality(S \cup E) - Cardinality((S \cup E) \cap L)
  BY <1>1, FS_Difference
<1>5. (S \cup E) \cap L = L
  OBVIOUS
<1>6. Cardinality(S) \in Nat /\ Cardinality(E) \in Nat /\ Cardinality(L) \in Nat
  BY Countable
<1>7. Cardinality(S \cup E) = Cardinality(S) + Cardinality(E)
  BY <1>2, <1>3, <1>6
<1>8. Cardinality((S \cup E) \ L) = Cardinality(S \cup E) - Cardinality(L)
  BY <1>4, <1>5
<1> QED
  BY ONLY <1>6, <1>7, <1>8

-----------------------------------------------------------------------------
(* What a decision may be.                                                 *)

\* The core only returns reasons of its own.
LEMMA VerdictReasons ==
  ASSUME NEW c, NEW now, NEW n, NEW k, NEW verdict \in CoreVerdicts(c, now, n, k)
  PROVE  verdict.reason \in CoreReasons
<1>1. \A reason, observed : Verdict(reason, observed).reason = reason
  BY DEF Verdict
<1>2. CASE c.reference = 0
  <2>1. PICK observed : verdict = Verdict("reference_disabled", observed)
    BY <1>2 DEF CoreVerdicts
  <2> QED
    BY <1>1, <2>1 DEF CoreReasons, FavourableReasons
<1>3. CASE c.reference # 0
  <2>1. \/ verdict = Verdict("unknown", FALSE)
        \/ verdict = Verdict("fit", TRUE) \/ verdict = Verdict("tps_risk", TRUE)
        \/ verdict = Verdict("cold_prior", FALSE) \/ verdict = Verdict("tps_risk", FALSE)
        \/ verdict = Verdict("aggregate_tps_risk", TRUE)
    <3> DEFINE measured == Measured(c, n, k)
    <3> DEFINE prior == PriorActive(c, now)
    <3>1. verdict \in {Verdict("unknown", FALSE)}
            \cup (IF measured THEN {Verdict("fit", TRUE), Verdict("tps_risk", TRUE)} ELSE {})
            \cup (IF prior THEN {Verdict("cold_prior", FALSE), Verdict("tps_risk", FALSE)} ELSE {})
            \cup (IF (measured \/ prior) /\ c.active > 0
                  THEN {Verdict("aggregate_tps_risk", TRUE)} ELSE {})
      BY <1>3 DEF CoreVerdicts
    <3> HIDE DEF measured, prior
    <3> QED
      BY <3>1
  <2> QED
    <3>1. \/ verdict.reason = "unknown" \/ verdict.reason = "fit"
          \/ verdict.reason = "tps_risk" \/ verdict.reason = "cold_prior"
          \/ verdict.reason = "aggregate_tps_risk"
      BY <2>1 DEF Verdict
    <3> QED
      BY <3>1 DEF CoreReasons, FavourableReasons
<1> QED
  BY <1>2, <1>3

\* A decision is one of the known reasons; it admits nobody during a
\* transition, probes only when no probe is out, and admits a health check
\* exactly when the core has been quarantined for it.
LEMMA DecisionFacts ==
  ASSUME policy \in Policies, ledger \in Ledgers, decode \in DecodeSets,
         NEW r \in Req, NEW now, NEW waiting \in Int, NEW v,
         NEW reason \in Decisions(r, now, waiting, v)
  PROVE  /\ reason \in DecisionReasons
         /\ reason \in AdmittingReasons => ~v.paused
         /\ reason = "online_exploration" => ~ledger.exploring
         /\ (r \in HealthReq /\ reason \in AdmittingReasons) <=> HealthFits(r, waiting, v)
         /\ reason \in AdmittingReasons => ProjectedWaiting(waiting) <= policy.max_waiting
         /\ reason = "identity_transition" => v.paused
<1>1. PICK verdict \in CoreVerdicts(CoreAtAdmission(r, now, waiting, v), now,
                                    ProjectedConcurrency, ForecastClass(r)),
           qualifies \in LighterQualifies(CoreAtAdmission(r, now, waiting, v), r) :
        reason = FinalReason(r, waiting, ForecastReason(r, now, waiting, v, verdict, qualifies))
  BY DEF Decisions
<1> DEFINE forecast == ForecastReason(r, now, waiting, v, verdict, qualifies)
<1>2. verdict.reason \in CoreReasons
  BY VerdictReasons
<1>3. /\ forecast \in CoreReasons \cup {"identity_transition", "health_check", "online_exploration"}
      /\ v.paused => forecast = "identity_transition"
      /\ ~v.paused /\ r \in HealthReq => forecast = "health_check"
      /\ forecast = "online_exploration" => ~ledger.exploring
  BY <1>2 DEF ForecastReason, IdleRecoveryAllowed, ExplorationAllowed, CoreReasons, FavourableReasons
<1>4. reason = FinalReason(r, waiting, forecast)
  BY <1>1
<1> HIDE DEF forecast
<1>5. reason \in {forecast, "waiting_limit"}
  BY <1>4 DEF FinalReason
<1>6. reason \in DecisionReasons
  BY <1>3, <1>5 DEF DecisionReasons, AdmittingReasons
<1>7. reason \in AdmittingReasons => ~v.paused
  BY <1>3, <1>5 DEF AdmittingReasons, FavourableReasons
<1>8. reason = "online_exploration" => ~ledger.exploring
  BY <1>3, <1>5
<1>9. (r \in HealthReq /\ reason \in AdmittingReasons) <=> HealthFits(r, waiting, v)
  <2>1. /\ ProjectedWaiting(waiting) \in Int /\ OutstandingAfter \in Int
        /\ policy.max_waiting \in Int /\ policy.max_running \in Int
    BY CoreAssumption, SchedulerAssumption
    DEF ProjectedWaiting, OutstandingAfter, NoCount, Policies, Ledgers, CoreAssumption,
        SchedulerAssumption
  <2>2. reason \in AdmittingReasons =>
          /\ reason = forecast
          /\ r \in HealthReq =>
               /\ OutstandingAfter <= policy.max_running
               /\ ProjectedWaiting(waiting) <= policy.max_waiting
    BY <1>4, <2>1 DEF FinalReason, AdmittingReasons, FavourableReasons
  <2>3. HealthFits(r, waiting, v) => reason = "health_check"
    BY <1>3, <1>4, <2>1 DEF FinalReason, HealthFits
  <2> QED
    BY <1>7, <2>2, <2>3 DEF HealthFits, AdmittingReasons
<1>10. reason \in AdmittingReasons => ProjectedWaiting(waiting) <= policy.max_waiting
  <2>1. /\ ProjectedWaiting(waiting) \in Int /\ policy.max_waiting \in Int
    BY CoreAssumption, SchedulerAssumption
    DEF ProjectedWaiting, OutstandingAfter, NoCount, Policies, Ledgers, CoreAssumption,
        SchedulerAssumption
  <2> QED
    BY <1>4, <2>1 DEF FinalReason, AdmittingReasons, FavourableReasons
<1>11. reason = "identity_transition" => v.paused
  <2>1. forecast = "identity_transition" => v.paused
    BY <1>2 DEF forecast, ForecastReason, CoreReasons, FavourableReasons
  <2> QED
    BY <1>5, <2>1
<1> QED
  BY <1>6, <1>7, <1>8, <1>9, <1>10, <1>11

-----------------------------------------------------------------------------
(* The inductive invariant, by the variables its parts speak of.           *)

\* What a batch commits, for some requests.
Updates == UNION {[D -> Update] : D \in SUBSET Req}

\* The local variables of after_result.
Tasks ==
  [ at : Steps, now : Nat, batch : SUBSET Req, finished : SUBSET Req, extend : BOOLEAN,
    contaminated : BOOLEAN, updates : Updates, release : SUBSET Req ]

\* A core and an evidence record that agree with the ledger and the counts.
CoreOK(c, e) ==
  /\ c \in CoreState
  /\ c.active = decode.active
  /\ e = [pending |-> e.pending, surface_time |-> e.surface_time, dirty |-> e.dirty]
  /\ e.surface_time \in Time
  /\ e.dirty \in BOOLEAN
  /\ DOMAIN e.pending \subseteq Cells
  /\ c.quarantined = e.dirty
  /\ ledger.health > 0 => e.dirty

LedgerOK ==
  /\ ledger \in Ledgers
  /\ reservation \in [Req -> Reservations]
  /\ LedgerExact

DecodeOK ==
  /\ decode \in DecodeSets
  /\ progress \in [Req -> Progresses]
  /\ decode.active = Cardinality(Decoding)
  /\ \A k \in Classes : decode.pressure[k] = Cardinality(OfClass(Decoding, k))

IdentityOK ==
  /\ identity \in [runtime : Identities, paused : BOOLEAN, pending : Identities \cup {NoIdentity}]
  /\ provider \in Identities

NativeOK ==
  /\ policy \in Policies
  /\ native \in [Req -> [phase : Phases, output : Nat]]
  /\ clock \in Nat

TaskOK ==
  /\ task \in Tasks
  /\ last_admission \in DecisionReasons
  /\ fault \in {"none", "clock", "capacity"}

IInv == CoreOK(core, evidence) /\ LedgerOK /\ DecodeOK /\ IdentityOK /\ NativeOK /\ TaskOK

\* The invariant has the properties the runs check as its consequences.
LEMMA IInvImplies == IInv => TypeOK /\ LedgerExact /\ ActiveExact /\ QuarantineAgrees
<1> SUFFICES ASSUME IInv PROVE TypeOK /\ LedgerExact /\ ActiveExact /\ QuarantineAgrees
  OBVIOUS
<1>1. /\ task.at \in Steps /\ task.now \in Nat
      /\ {task.extend, task.contaminated} \subseteq BOOLEAN
      /\ {task.batch, task.finished, task.release} \subseteq SUBSET Req
      /\ DOMAIN task.updates \subseteq Req
      /\ \A r \in DOMAIN task.updates : task.updates[r] \in Update
  BY DEF IInv, TaskOK, Tasks, Updates
<1> QED
  BY <1>1 DEF IInv, CoreOK, LedgerOK, DecodeOK, IdentityOK, NativeOK, TaskOK, TypeOK,
              ActiveExact, QuarantineAgrees

-----------------------------------------------------------------------------
(* The ledger.                                                             *)

\* A reservation that is made is counted.
LEMMA LedgerAdmit ==
  ASSUME LedgerOK, NEW r \in Req, reservation[r].status = "none",
         NEW now \in Nat, NEW reason \in AdmittingReasons, NEW epoch \in Nat,
         reason = "online_exploration" => ~ledger.exploring,
         ledger' = LedgerWith(r, now, reason),
         reservation' = [reservation EXCEPT ![r] =
                           [status |-> "live", reason |-> reason, at |-> now, epoch |-> epoch]]
  PROVE  LedgerOK'
<1> USE DEF LedgerOK
<1>1. reservation' \in [Req -> Reservations]
  BY DEF Reservations, Time
<1>2. Live \in SUBSET Req /\ r \notin Live
  BY DEF Live
<1>3. Live' = Live \cup {r}
  BY DEF Live, Reservations
<1>4. RequestPressureClass(r) \in Classes
  BY PressureClassType
<1>5. \A k \in Classes : OfClass(Live, k) \in SUBSET Req
  BY <1>2 DEF OfClass
<1>6. Cardinality(Live') = Cardinality(Live) + 1
  BY <1>2, <1>3, CountJoin
<1>7. ASSUME NEW k \in Classes
      PROVE  ledger'.admitted[k] = Cardinality(OfClass(Live, k)')
  <2>1. ledger.admitted[k] = Cardinality(OfClass(Live, k))
    BY DEF LedgerExact
  <2>2. CASE k = RequestPressureClass(r)
    <3>1. OfClass(Live, k)' = OfClass(Live, k) \cup {r}
      BY <1>3, <2>2 DEF OfClass, RequestPressureClass
    <3>2. Cardinality(OfClass(Live, k) \cup {r}) = Cardinality(OfClass(Live, k)) + 1
      BY <1>2, <1>5, CountJoin DEF OfClass
    <3> QED
      BY <2>1, <2>2, <3>1, <3>2 DEF LedgerWith, Ledgers
  <2>3. CASE k # RequestPressureClass(r)
    <3>1. OfClass(Live, k)' = OfClass(Live, k)
      BY <1>3, <2>3 DEF OfClass, RequestPressureClass
    <3> QED
      BY <2>1, <2>3, <3>1 DEF LedgerWith, Ledgers
  <2> QED
    BY <2>2, <2>3
<1>8. ledger'.health = Cardinality((Live \cap HealthReq)')
  <2>1. ledger.health = Cardinality(Live \cap HealthReq)
    BY DEF LedgerExact
  <2>2. CASE r \in HealthReq
    <3>1. (Live \cap HealthReq)' = (Live \cap HealthReq) \cup {r}
      BY <1>3, <2>2
    <3>2. Cardinality((Live \cap HealthReq) \cup {r}) = Cardinality(Live \cap HealthReq) + 1
      BY <1>2, CountJoin
    <3> QED
      BY <2>1, <2>2, <3>1, <3>2 DEF LedgerWith
  <2>3. CASE r \notin HealthReq
    <3>1. (Live \cap HealthReq)' = Live \cap HealthReq
      BY <1>3, <2>3
    <3>2. ledger.health \in Nat
      BY DEF Ledgers
    <3>3. ledger'.health = ledger.health
      BY <2>3, <3>2 DEF LedgerWith
    <3> QED
      BY <2>1, <3>1, <3>3
  <2> QED
    BY <2>2, <2>3
<1>9. /\ ledger'.exploring <=> (Live \cap Probes # {})'
      /\ (\A x, y \in Live \cap Probes : x = y)'
  <2>1. \A x \in Req \ {r} : x \in Probes' <=> x \in Probes
    BY DEF Probes, Reservations
  <2>2. r \in Probes' <=> reason = "online_exploration"
    BY DEF Probes, Reservations
  <2>3. /\ ledger.exploring <=> Live \cap Probes # {}
        /\ \A x, y \in Live \cap Probes : x = y
    BY DEF LedgerExact
  <2>4. ledger'.exploring <=> (ledger.exploring \/ reason = "online_exploration")
    BY DEF LedgerWith
  <2>5. CASE reason = "online_exploration"
    <3>1. (Live \cap Probes)' = {r}
      BY <1>2, <1>3, <2>1, <2>2, <2>3, <2>5
    <3> QED
      BY <2>4, <2>5, <3>1
  <2>6. CASE reason # "online_exploration"
    <3>1. (Live \cap Probes)' = Live \cap Probes
      BY <1>2, <1>3, <2>1, <2>2, <2>6
    <3> QED
      BY <2>3, <2>4, <2>6, <3>1
  <2> QED
    BY <2>5, <2>6
<1>10. ledger' \in Ledgers
  <2>1. ledger'.outstanding \in Nat
    BY DEF LedgerWith, OutstandingAfter, Ledgers
  <2>2. ledger'.admitted \in [Classes -> Nat]
    BY <1>4 DEF LedgerWith, Ledgers
  <2>3. ledger'.health \in Nat
    BY DEF LedgerWith, Ledgers
  <2>4. ledger'.exploring \in BOOLEAN /\ ledger'.last_exploration \in Time
    BY DEF LedgerWith, Ledgers, Time
  <2> QED
    BY <2>1, <2>2, <2>3, <2>4 DEF LedgerWith, Ledgers
<1>11. LedgerExact'
  BY <1>6, <1>7, <1>8, <1>9 DEF LedgerExact, LedgerWith, OutstandingAfter
<1> QED
  BY <1>1, <1>10, <1>11

\* A reservation that is released is no longer counted, and only once.
LEMMA LedgerRelease ==
  ASSUME LedgerOK, NEW r \in Req, ReleaseRequest(r)
  PROVE  LedgerOK'
<1> USE DEF LedgerOK
<1>1. CASE reservation[r].status # "live"
  <2>1. UNCHANGED <<ledger, reservation>>
    BY <1>1 DEF ReleaseRequest
  <2> QED
    BY <2>1 DEF LedgerExact, Live, Probes, OfClass, RequestPressureClass
<1>2. CASE reservation[r].status = "live"
  <2> USE <1>2
  <2>1. /\ ledger' = LedgerWithout(r)
        /\ reservation' = [reservation EXCEPT ![r].status = "released"]
    BY DEF ReleaseRequest
  <2>2. reservation' \in [Req -> Reservations]
    BY <2>1 DEF Reservations
  <2>3. Live \in SUBSET Req /\ r \in Live
    BY DEF Live
  <2>4. Live' = Live \ {r}
    BY <2>1 DEF Live, Reservations
  <2>5. RequestPressureClass(r) \in Classes
    BY PressureClassType
  <2>6. Cardinality(Live') = Cardinality(Live) - 1
    BY <2>3, <2>4, CountLeave
  <2>7. ASSUME NEW k \in Classes
        PROVE  ledger'.admitted[k] = Cardinality(OfClass(Live, k)')
    <3>1. ledger.admitted[k] = Cardinality(OfClass(Live, k))
      BY DEF LedgerExact
    <3>2. CASE k = RequestPressureClass(r)
      <4>1. OfClass(Live, k)' = OfClass(Live, k) \ {r}
        BY <2>4 DEF OfClass, RequestPressureClass
      <4>2. OfClass(Live, k) \in SUBSET Req /\ r \in OfClass(Live, k)
        BY <2>3, <3>2 DEF OfClass
      <4>3. Cardinality(OfClass(Live, k) \ {r}) = Cardinality(OfClass(Live, k)) - 1
        BY <4>2, CountLeave
      <4> QED
        BY <2>1, <3>1, <3>2, <4>1, <4>3 DEF LedgerWithout, Ledgers
    <3>3. CASE k # RequestPressureClass(r)
      <4>1. OfClass(Live, k)' = OfClass(Live, k)
        BY <2>3, <2>4, <3>3 DEF OfClass, RequestPressureClass
      <4> QED
        BY <2>1, <3>1, <3>3, <4>1 DEF LedgerWithout, Ledgers
    <3> QED
      BY <3>2, <3>3
  <2>8. ledger'.health = Cardinality((Live \cap HealthReq)')
    <3>1. ledger.health = Cardinality(Live \cap HealthReq) /\ ledger.health \in Nat
      BY DEF LedgerExact, Ledgers
    <3>2. CASE r \in HealthReq
      <4>1. (Live \cap HealthReq)' = (Live \cap HealthReq) \ {r}
        BY <2>4
      <4>2. Cardinality((Live \cap HealthReq) \ {r}) = Cardinality(Live \cap HealthReq) - 1
        BY <2>3, <3>2, CountLeave
      <4>3. ledger'.health = ledger.health - 1
        BY <2>1, <3>2 DEF LedgerWithout
      <4> QED
        BY <3>1, <4>1, <4>2, <4>3
    <3>3. CASE r \notin HealthReq
      <4>1. (Live \cap HealthReq)' = Live \cap HealthReq
        BY <2>4, <3>3
      <4>2. ledger'.health = ledger.health
        BY <2>1, <3>1, <3>3 DEF LedgerWithout
      <4> QED
        BY <3>1, <4>1, <4>2
    <3> QED
      BY <3>2, <3>3
  <2>9. /\ ledger'.exploring <=> (Live \cap Probes # {})'
        /\ (\A x, y \in Live \cap Probes : x = y)'
    <3>1. Probes' = Probes
      BY <2>1 DEF Probes, Reservations
    <3>2. (Live \cap Probes)' = (Live \cap Probes) \ {r}
      BY <2>4, <3>1
    <3>3. /\ ledger.exploring <=> Live \cap Probes # {}
          /\ \A x, y \in Live \cap Probes : x = y
      BY DEF LedgerExact
    <3>4. ledger'.exploring <=> (ledger.exploring /\ r \notin Probes)
      BY <2>1 DEF LedgerWithout, Probes
    <3> QED
      BY <2>3, <3>2, <3>3, <3>4
  <2>10. Cardinality(Live') \in Nat /\ Cardinality((Live \cap HealthReq)') \in Nat
    BY <2>3, <2>4, Countable
  <2>11. \A k \in Classes : Cardinality(OfClass(Live, k)') \in Nat
    <3>1. \A k : OfClass(Live, k)' \in SUBSET Req
      BY <2>3, <2>4 DEF OfClass
    <3> QED
      BY <3>1, Countable
  <2>12. ledger' \in Ledgers
    <3>1. ledger'.outstanding = Cardinality(Live')
      BY <2>1, <2>6 DEF LedgerWithout, LedgerExact
    <3>2. ledger'.admitted \in [Classes -> Nat]
      BY <2>1, <2>7, <2>11 DEF LedgerWithout, Ledgers
    <3>3. ledger'.exploring \in BOOLEAN /\ ledger'.last_exploration \in Time
      BY <2>1 DEF LedgerWithout, Ledgers
    <3> QED
      BY <2>1, <2>8, <2>10, <3>1, <3>2, <3>3 DEF LedgerWithout, Ledgers
  <2>13. LedgerExact'
    BY <2>1, <2>6, <2>7, <2>8, <2>9 DEF LedgerExact, LedgerWithout
  <2> QED
    BY <2>2, <2>12, <2>13
<1> QED
  BY <1>1, <1>2

\* A step that leaves the ledger and the reservations alone.
LEMMA LedgerSame ==
  ASSUME LedgerOK, UNCHANGED <<ledger, reservation>>
  PROVE  LedgerOK'
BY DEF LedgerOK, LedgerExact, Live, Probes, OfClass, RequestPressureClass

-----------------------------------------------------------------------------
(* The decode counts.                                                      *)

\* After a batch the counts are those of the requests that decode then.
LEMMA DecodeCommit ==
  ASSUME DecodeOK, NEW upd \in Updates, NEW now \in Nat,
         ActiveAfter(upd) <= NativeMaxRunning,
         decode' = [active |-> ActiveAfter(upd), pressure |-> PressureAfter(upd)],
         progress' = ProgressAfter(upd, now)
  PROVE  DecodeOK'
<1> USE DEF DecodeOK
<1>1. /\ DOMAIN upd \in SUBSET Req
      /\ \A r \in DOMAIN upd : upd[r].output \in Nat /\ upd[r].terminal \in BOOLEAN
  BY DEF Updates, Update
<1>2. progress' \in [Req -> Progresses]
  <2>1. ASSUME NEW r \in Req PROVE ProgressAfter(upd, now)[r] \in Progresses
    <3>1. CASE r \in Counted(upd)
      BY <1>1, <3>1 DEF ProgressAfter, Counted, Progresses, Time
    <3>2. CASE r \notin Counted(upd)
      BY <3>2 DEF ProgressAfter
    <3> QED
      BY <3>1, <3>2
  <2> QED
    BY <2>1 DEF ProgressAfter
<1>3. Decoding \in SUBSET Req /\ Entering(upd) \in SUBSET Req /\ Leaving(upd) \in SUBSET Decoding
  BY <1>1 DEF Decoding, Entering, Leaving, Counted
<1>4. Decoding \cap Entering(upd) = {}
  BY DEF Decoding, Entering
<1>5. Decoding' = (Decoding \cup Entering(upd)) \ Leaving(upd)
  <2>1. ASSUME NEW r \in Req
        PROVE  progress'[r].decoding <=>
                 (r \in Decoding \/ r \in Entering(upd)) /\ r \notin Leaving(upd)
    <3>1. CASE r \in Counted(upd)
      BY <1>1, <3>1 DEF ProgressAfter, Counted, Decoding, Entering, Leaving
    <3>2. CASE r \notin Counted(upd)
      BY <3>2 DEF ProgressAfter, Decoding, Entering, Leaving
    <3> QED
      BY <3>1, <3>2
  <2> QED
    BY <1>3, <2>1 DEF Decoding
<1>6. decode'.active = Cardinality(Decoding')
  BY <1>3, <1>4, <1>5, CountBatch DEF ActiveAfter
<1>7. ASSUME NEW k \in Classes
      PROVE  decode'.pressure[k] = Cardinality(OfClass(Decoding, k)')
  <2>1. OfClass(Decoding, k)' =
          (OfClass(Decoding, k) \cup OfClass(Entering(upd), k)) \ OfClass(Leaving(upd), k)
    BY <1>5 DEF OfClass, RequestPressureClass
  <2>2. /\ OfClass(Decoding, k) \in SUBSET Req /\ OfClass(Entering(upd), k) \in SUBSET Req
        /\ OfClass(Leaving(upd), k) \in SUBSET OfClass(Decoding, k)
        /\ OfClass(Decoding, k) \cap OfClass(Entering(upd), k) = {}
    BY <1>3, <1>4 DEF OfClass
  <2>3. Cardinality((OfClass(Decoding, k) \cup OfClass(Entering(upd), k)) \ OfClass(Leaving(upd), k))
          = Cardinality(OfClass(Decoding, k)) + Cardinality(OfClass(Entering(upd), k))
              - Cardinality(OfClass(Leaving(upd), k))
    BY <2>2, CountBatch
  <2> QED
    BY <2>1, <2>3 DEF PressureAfter
<1>8. decode' \in DecodeSets
  <2>1. Decoding' \in SUBSET Req
    BY <1>3, <1>5
  <2>2. Cardinality(Decoding') \in Nat
    BY <2>1, Countable
  <2>3. \A k \in Classes : Cardinality(OfClass(Decoding, k)') \in Nat
    <3>1. \A k : OfClass(Decoding, k)' \in SUBSET Req
      BY <2>1 DEF OfClass
    <3> QED
      BY <3>1, Countable
  <2>4. decode'.active \in 0 .. NativeMaxRunning
    BY <1>6, <2>2, CoreAssumption DEF CoreAssumption
  <2>5. decode'.pressure \in [Classes -> Nat]
    BY <1>7, <2>3 DEF PressureAfter
  <2> QED
    BY <2>4, <2>5 DEF DecodeSets
<1> QED
  BY <1>2, <1>6, <1>7, <1>8

\* A step that changes neither the counts nor which request decodes.
LEMMA DecodeSame ==
  ASSUME DecodeOK, UNCHANGED decode, progress' \in [Req -> Progresses],
         \A r \in Req : progress'[r].decoding = progress[r].decoding
  PROVE  DecodeOK'
<1>1. Decoding' = Decoding
  BY DEF Decoding
<1>2. \A k : OfClass(Decoding, k)' = OfClass(Decoding, k)
  BY <1>1 DEF OfClass, RequestPressureClass
<1> QED
  BY <1>1, <1>2 DEF DecodeOK

-----------------------------------------------------------------------------
(* The core and its evidence.                                              *)

\* The heaviest class that is held, or the lightest one, is a class.
LEMMA HeaviestType == \A pressure : Heaviest(pressure) \in Classes
<1> SUFFICES ASSUME NEW pressure PROVE Heaviest(pressure) \in Classes
  OBVIOUS
<1> DEFINE held == {k \in Classes : pressure[k] > 0}
<1>1. CASE held = {}
  BY <1>1 DEF Heaviest, Classes, PRESSURE_CLASSES
<1>2. CASE held # {}
  <2>1. \E m \in held : \A k \in held : m >= k
    <3>1. held \subseteq 0 .. 3
      BY DEF Classes, PRESSURE_CLASSES
    <3>2. CASE 3 \in held
      BY <3>1, <3>2
    <3>3. CASE 3 \notin held /\ 2 \in held
      BY <3>1, <3>3
    <3>4. CASE 3 \notin held /\ 2 \notin held /\ 1 \in held
      BY <3>1, <3>4
    <3>5. CASE 3 \notin held /\ 2 \notin held /\ 1 \notin held
      BY <1>2, <3>1, <3>5
    <3> QED
      BY <3>2, <3>3, <3>4, <3>5
  <2>2. Max(held) \in held
    BY <2>1 DEF Max
  <2> QED
    BY <1>2, <2>2 DEF Heaviest
<1> QED
  BY <1>1, <1>2

\* A nonempty set of decoding requests selects a cell of the surface.
LEMMA CellTypes ==
  ASSUME NEW n \in 1 .. NativeMaxRunning, NEW pressure
  PROVE  <<n, Heaviest(pressure)>> \in Cells
BY HeaviestType DEF Cells

\* After a refresh, core and evidence still agree: a new epoch is clean, and
\* it starts only when no health check is outstanding.
LEMMA CoreRefresh ==
  ASSUME CoreOK(core, evidence), LedgerOK, DecodeOK, IdentityOK, NEW now \in Nat
  PROVE  /\ CoreOK(RefreshedView(now).core, RefreshedView(now).evidence)
         /\ RefreshedView(now).paused \in BOOLEAN
<1>1. CASE Rotates
  <2>1. RefreshedView(now) = RotatedView(now)
    BY <1>1 DEF RefreshedView
  <2>2. decode.active \in 0 .. NativeMaxRunning /\ ledger.outstanding \in Nat
    BY DEF DecodeOK, DecodeSets, LedgerOK, Ledgers
  <2>3. RotateCore(core, now, decode.active) \in CoreState
    <3>1. core \in CoreState
      BY DEF CoreOK
    <3>2. core.epoch + 1 \in Nat /\ now \in Time
      BY <3>1 DEF CoreState, Time
    <3> QED
      BY ONLY <2>2, <3>1, <3>2 DEF CoreState, RotateCore
  <2>4. ledger.outstanding = 0
    BY <1>1, <2>2 DEF Rotates, Busy
  <2>5. Live = {}
    <3>1. Live \in SUBSET Req
      BY DEF Live
    <3> QED
      BY <2>4, <3>1, Countable, FS_EmptySet DEF LedgerOK, LedgerExact
  <2>6. ledger.health = 0
    <3>1. Live \cap HealthReq = {}
      BY <2>5
    <3> QED
      BY <3>1, FS_EmptySet DEF LedgerOK, LedgerExact
  <2>7. /\ RotateCore(core, now, decode.active).active = decode.active
        /\ RotateCore(core, now, decode.active).quarantined = FALSE
    BY DEF RotateCore, CoreOK, CoreState
  <2> DEFINE clean == [pending |-> NoPending, surface_time |-> now, dirty |-> FALSE]
  <2>8. /\ RotatedView(now).core = RotateCore(core, now, decode.active)
        /\ RotatedView(now).evidence = clean
        /\ RotatedView(now).paused = FALSE
    BY DEF RotatedView
  <2>9. CoreOK(RotateCore(core, now, decode.active), clean)
    <3>1. /\ DOMAIN clean.pending = {} /\ clean.surface_time \in Time
          /\ clean.dirty = FALSE
          /\ clean = [pending |-> clean.pending, surface_time |-> clean.surface_time,
                      dirty |-> clean.dirty]
      BY DEF NoPending, Time
    <3>2. ~(ledger.health > 0)
      BY <2>6
    <3> HIDE DEF clean
    <3> QED
      BY ONLY <2>3, <2>7, <3>1, <3>2 DEF CoreOK
  <2> QED
    BY <2>1, <2>8, <2>9
<1>2. CASE ~Rotates
  <2>1. /\ RefreshedView(now).core = core
        /\ RefreshedView(now).evidence = evidence
        /\ RefreshedView(now).paused = Pauses
    BY <1>2 DEF RefreshedView, CurrentView
  <2> QED
    BY <2>1 DEF Pauses
<1> QED
  BY <1>1, <1>2

\* An admission quarantines the core exactly when it admits a health check.
LEMMA CoreAdmit ==
  ASSUME LedgerOK, DecodeOK, policy \in Policies,
         NEW r \in Req, NEW now \in Nat, NEW waiting \in Int, NEW v, NEW reason,
         CoreOK(v.core, v.evidence),
         AdmitRequest(r, now, waiting, v, reason)
  PROVE  CoreOK(core, evidence)'
<1>1. reason \in Decisions(r, now, waiting, v)
  BY DEF AdmitRequest
<1>2. (r \in HealthReq /\ reason \in AdmittingReasons) <=> HealthFits(r, waiting, v)
  BY <1>1, DecisionFacts DEF LedgerOK, DecodeOK
<1>3. core' = CoreAtAdmission(r, now, waiting, v) /\ UNCHANGED decode
  BY DEF AdmitRequest
<1>4. v.core \in CoreState /\ v.core.active = decode.active
  BY DEF CoreOK
<1>5. CASE HealthFits(r, waiting, v)
  <2>1. core' = AdvanceCore(QuarantineCore(v.core, now, decode.active, TRUE), now)
    BY <1>3, <1>5 DEF CoreAtAdmission
  <2>2. core' \in CoreState /\ core'.active = decode.active /\ core'.quarantined = TRUE
    BY <1>4, <2>1 DEF AdvanceCore, QuarantineCore, CoreState, Time
  <2>3. evidence' = [v.evidence EXCEPT !.dirty = TRUE, !.pending = NoPending]
    BY <1>2, <1>5 DEF AdmitRequest, EvidenceWith
  <2>4. evidence' = [pending |-> NoPending, surface_time |-> v.evidence.surface_time, dirty |-> TRUE]
    BY <2>3 DEF CoreOK
  <2> QED
    BY <1>3, <2>2, <2>4 DEF CoreOK, NoPending
<1>6. CASE ~HealthFits(r, waiting, v)
  <2>1. core' = AdvanceCore(v.core, now)
    BY <1>3, <1>6 DEF CoreAtAdmission
  <2>2. core' \in CoreState /\ core'.active = decode.active /\ core'.quarantined = v.core.quarantined
    BY <1>4, <2>1 DEF AdvanceCore, CoreState, Time
  <2>3. evidence' = v.evidence
    BY <1>2, <1>6 DEF AdmitRequest, EvidenceWith
  <2>4. ledger'.health = ledger.health
    <3>1. ledger.health \in Nat
      BY DEF LedgerOK, Ledgers
    <3>2. CASE reason \in AdmittingReasons
      <4>1. r \notin HealthReq /\ ledger' = LedgerWith(r, now, reason)
        BY <1>2, <1>6, <3>2 DEF AdmitRequest
      <4> QED
        BY <3>1, <4>1 DEF LedgerWith
    <3>3. CASE reason \notin AdmittingReasons
      BY <3>3 DEF AdmitRequest
    <3> QED
      BY <3>2, <3>3
  <2> QED
    BY <1>3, <2>2, <2>3, <2>4 DEF CoreOK
<1> QED
  BY <1>5, <1>6

\* Tokens that wait for exposure wait under cells of the surface.
LEMMA PendingCells ==
  ASSUME DecodeOK, NEW upd, ActiveAfter(upd) \in 0 .. NativeMaxRunning,
         NEW e, DOMAIN e.pending \subseteq Cells, NEW now
  PROVE  DOMAIN PendingAfter(upd, e, now) \subseteq Cells
<1>1. DOMAIN NoPending = {}
  BY DEF NoPending
<1>2. \A pending, cell, tokens :
        DOMAIN PutPending(pending, cell, tokens, now) = DOMAIN pending \cup {cell}
  BY DEF PutPending
<1>3. DOMAIN FreshPending(e, now) \subseteq Cells
  BY DEF FreshPending, Restrict
<1>4. \A cell : DOMAIN DropPending(FreshPending(e, now), cell) \subseteq Cells
  BY <1>3 DEF DropPending, Restrict
<1>5. decode.active # 0 => CellBefore \in Cells
  <2>1. decode.active \in 0 .. NativeMaxRunning
    BY DEF DecodeOK, DecodeSets
  <2>2. ASSUME decode.active # 0 PROVE decode.active \in 1 .. NativeMaxRunning
    BY <2>1, <2>2
  <2> QED
    BY <2>2, CellTypes DEF CellBefore
<1>6. ActiveAfter(upd) # 0 => CellAfter(upd) \in Cells
  <2>1. ASSUME ActiveAfter(upd) # 0 PROVE ActiveAfter(upd) \in 1 .. NativeMaxRunning
    BY <2>1
  <2> QED
    BY <2>1, CellTypes DEF CellAfter
<1> DEFINE fresh == FreshPending(e, now)
<1> DEFINE kept == IF decode.active = 0 THEN NoPending ELSE fresh
<1> DEFINE cell == IF decode.active = 0 THEN CellAfter(upd) ELSE CellBefore
<1>7. CASE ActiveAfter(upd) = 0
  BY <1>1, <1>7 DEF PendingAfter
<1>8. CASE ActiveAfter(upd) # 0
  <2>1. cell \in Cells /\ CellAfter(upd) \in Cells /\ DOMAIN kept \subseteq Cells
    BY <1>1, <1>3, <1>5, <1>6, <1>8
  <2>2. \/ PendingAfter(upd, e, now) = PutPending(NoPending, CellAfter(upd), EnteringDelta(upd), now)
        \/ PendingAfter(upd, e, now) = NoPending
        \/ PendingAfter(upd, e, now) = DropPending(fresh, CellBefore)
        \/ PendingAfter(upd, e, now) = PutPending(kept, cell, PendingAt(kept, cell) + TotalDelta(upd), now)
        \/ PendingAfter(upd, e, now) = kept
    BY <1>8 DEF PendingAfter
  <2> HIDE DEF fresh, kept, cell
  <2>3. DOMAIN DropPending(fresh, CellBefore) \subseteq Cells
    BY <1>4 DEF fresh
  <2>4. /\ DOMAIN PutPending(NoPending, CellAfter(upd), EnteringDelta(upd), now) \subseteq Cells
        /\ DOMAIN PutPending(kept, cell, PendingAt(kept, cell) + TotalDelta(upd), now) \subseteq Cells
    <3>1. DOMAIN PutPending(NoPending, CellAfter(upd), EnteringDelta(upd), now) = {CellAfter(upd)}
      BY <1>1 DEF PutPending
    <3>2. DOMAIN PutPending(kept, cell, PendingAt(kept, cell) + TotalDelta(upd), now)
            = DOMAIN kept \cup {cell}
      BY <1>2
    <3> QED
      BY <2>1, <3>1, <3>2
  <2>5. DOMAIN NoPending \subseteq Cells
    BY <1>1
  <2> QED
    BY ONLY <2>1, <2>2, <2>3, <2>4, <2>5
<1> QED
  BY <1>7, <1>8

\* A committed batch is within the physical capacity.
LEMMA CommitFits ==
  ASSUME NEW upd, NEW now, NEW quarantine, NEW v, CommitAccepts(upd, now, quarantine, v)
  PROVE  ActiveAfter(upd) <= NativeMaxRunning
BY DEF CommitAccepts, ObservedAccepts, ObserveReplacementAccepts, ObserveBatchAccepts, ObserveAccepts

\* Core and evidence agree after a commit, contaminated or not.
LEMMA CoreCommit ==
  ASSUME CoreOK(core, evidence), LedgerOK, DecodeOK, NEW upd \in Updates, NEW now \in Nat,
         NEW quarantine, CommitBatch(upd, now, quarantine, CurrentView)
  PROVE  CoreOK(core, evidence)' /\ DecodeOK'
<1>1. CommitAccepts(upd, now, quarantine, CurrentView)
  BY DEF CommitBatch
<1>2. decode' = [active |-> ActiveAfter(upd), pressure |-> PressureAfter(upd)]
      /\ progress' = ProgressAfter(upd, now) /\ ledger' = ledger
  BY DEF CommitBatch
<1>3. DecodeOK'
  BY <1>1, <1>2, CommitFits, DecodeCommit
<1>4. ActiveAfter(upd) \in 0 .. NativeMaxRunning /\ decode'.active = ActiveAfter(upd)
  BY <1>2, <1>3 DEF DecodeOK, DecodeSets
<1>5. core \in CoreState /\ now \in Time
  BY DEF CoreOK, Time
<1>6. CurrentView.core = core /\ CurrentView.evidence = evidence
  BY DEF CurrentView
<1>7. CASE Contaminated(quarantine, evidence)
  <2>1. /\ core' = QuarantineCore(core, now, ActiveAfter(upd), ledger.health > 0)
        /\ evidence' = QuarantinedEvidence(now)
    BY <1>6, <1>7 DEF CommitBatch
  <2> DEFINE held == ledger.health > 0
  <2>2. held \in BOOLEAN
    OBVIOUS
  <2>3. /\ core' = QuarantineCore(core, now, ActiveAfter(upd), held)
        /\ evidence' = [pending |-> NoPending, surface_time |-> now, dirty |-> held]
    BY <2>1 DEF QuarantinedEvidence
  <2>4. ledger'.health > 0 => held
    BY <1>2
  <2> HIDE DEF held
  <2>5. core' \in CoreState /\ core'.active = ActiveAfter(upd) /\ core'.quarantined = held
    BY ONLY <1>4, <1>5, <2>2, <2>3 DEF QuarantineCore, CoreState
  <2>6. /\ evidence' = [pending |-> evidence'.pending, surface_time |-> evidence'.surface_time,
                        dirty |-> evidence'.dirty]
        /\ evidence'.surface_time = now /\ evidence'.dirty = held
        /\ DOMAIN evidence'.pending \subseteq Cells
    BY ONLY <2>3 DEF NoPending
  <2> QED
    BY ONLY <1>3, <1>4, <1>5, <2>2, <2>4, <2>5, <2>6 DEF CoreOK
<1>8. CASE ~Contaminated(quarantine, evidence)
  <2>1. /\ core' = ObservedCore(upd, now, CurrentView)
        /\ evidence' = ObservedEvidence(upd, evidence, now)
        /\ ObservedAccepts(upd, now, CurrentView)
    BY <1>1, <1>6, <1>8 DEF CommitBatch, CommitAccepts
  <2>2. ~(ledger.health > 0) /\ evidence.dirty = FALSE /\ core.quarantined = FALSE
    BY <1>8 DEF Contaminated, CoreOK
  <2>3. core' \in CoreState /\ core'.active = ActiveAfter(upd) /\ core'.quarantined = FALSE
    <3>1. ObserveCore(core, now, ActiveAfter(upd)) \in CoreState
      BY <1>4, <1>5 DEF ObserveCore, AdvanceCore, CoreState
    <3>2. /\ ObserveCore(core, now, ActiveAfter(upd)).active = ActiveAfter(upd)
          /\ ObserveCore(core, now, ActiveAfter(upd)).quarantined = FALSE
      BY <1>5, <2>2 DEF ObserveCore, AdvanceCore, CoreState
    <3>3. ASSUME CellBefore \in Cells
          PROVE  /\ ObserveBatchCore(core, now, CellBefore, ActiveAfter(upd)) \in CoreState
                 /\ ObserveBatchCore(core, now, CellBefore, ActiveAfter(upd)).active = ActiveAfter(upd)
                 /\ ObserveBatchCore(core, now, CellBefore, ActiveAfter(upd)).quarantined = FALSE
      BY <3>1, <3>2, <3>3 DEF ObserveBatchCore, CoreState
    <3>4. \/ core' = ObserveCore(core, now, ActiveAfter(upd))
          \/ /\ core' = ObserveBatchCore(core, now, CellBefore, ActiveAfter(upd))
             /\ CellBefore \in Cells
      <4>1. CASE FullReplacement(upd)
        <5>1. decode.active \in 0 .. NativeMaxRunning /\ decode.active > 0
          BY <4>1 DEF FullReplacement, DecodeOK, DecodeSets
        <5>2. decode.active \in 1 .. NativeMaxRunning
          BY <5>1
        <5>3. CellBefore \in Cells
          BY <5>2, CellTypes DEF CellBefore
        <5> QED
          BY <1>6, <2>1, <4>1, <5>3 DEF ObservedCore, ObserveReplacementCore
      <4>2. CASE ~FullReplacement(upd) /\ SequenceSeconds(evidence, now) > 0
        BY <1>6, <2>1, <4>2 DEF ObservedCore, ObservedAccepts, ObserveBatchAccepts
      <4>3. CASE ~FullReplacement(upd) /\ ~(SequenceSeconds(evidence, now) > 0)
        BY <1>6, <2>1, <4>3 DEF ObservedCore
      <4> QED
        BY <4>1, <4>2, <4>3
    <3> QED
      BY <3>1, <3>2, <3>3, <3>4
  <2>4. /\ evidence' = [pending |-> PendingAfter(upd, evidence, now), surface_time |-> now,
                        dirty |-> FALSE]
        /\ DOMAIN PendingAfter(upd, evidence, now) \subseteq Cells
    BY <1>4, <2>1, PendingCells DEF ObservedEvidence, CoreOK
  <2>5. /\ evidence' = [pending |-> evidence'.pending, surface_time |-> evidence'.surface_time,
                        dirty |-> evidence'.dirty]
        /\ evidence'.surface_time = now /\ evidence'.dirty = FALSE
        /\ DOMAIN evidence'.pending \subseteq Cells
    BY <2>4
  <2>6. ~(ledger'.health > 0)
    BY <1>2, <2>2
  <2> QED
    BY ONLY <1>3, <1>4, <1>5, <2>3, <2>5, <2>6 DEF CoreOK
<1> QED
  BY <1>3, <1>7, <1>8

\* A step that keeps the pair of core and evidence and holds no more health
\* checks than before.
LEMMA CoreSame ==
  ASSUME NEW c, NEW e, CoreOK(c, e), core' = c, evidence' = e,
         decode'.active = decode.active, ledger'.health > 0 => ledger.health > 0
  PROVE  CoreOK(core, evidence)'
BY DEF CoreOK

\* Reading the core, or changing its policy, touches neither the counts nor
\* the quarantine.
LEMMA CoreTouched ==
  ASSUME NEW c, NEW e, CoreOK(c, e), NEW now \in Nat, NEW reference \in Nat
  PROVE  CoreOK(AdvanceCore(c, now), e) /\ CoreOK(UpdateReferenceCore(c, reference), e)
<1>1. c \in CoreState
  BY DEF CoreOK
<1>2. now \in Time /\ c.revision + 1 \in Nat \ {0}
  BY <1>1 DEF CoreState, Time
<1>3. /\ AdvanceCore(c, now) \in CoreState
      /\ AdvanceCore(c, now).active = c.active
      /\ AdvanceCore(c, now).quarantined = c.quarantined
  BY ONLY <1>1, <1>2 DEF AdvanceCore, CoreState
<1>4. /\ UpdateReferenceCore(c, reference) \in CoreState
      /\ UpdateReferenceCore(c, reference).active = c.active
      /\ UpdateReferenceCore(c, reference).quarantined = c.quarantined
  BY ONLY <1>1, <1>2, reference \in Nat DEF UpdateReferenceCore, CoreState
<1> QED
  BY <1>3, <1>4 DEF CoreOK

-----------------------------------------------------------------------------
(* Identity, tasks and inputs.                                             *)

\* A refresh installs or queues what the provider returned.
LEMMA IdentityRefresh ==
  ASSUME IdentityOK, identity' = RefreshedIdentity, provider' = provider
  PROVE  IdentityOK'
<1> DEFINE rotated == [runtime |-> provider, paused |-> FALSE, pending |-> NoIdentity]
<1> DEFINE paused == [identity EXCEPT !.paused = TRUE, !.pending = provider]
<1> DEFINE Types == [runtime : Identities, paused : BOOLEAN, pending : Identities \cup {NoIdentity}]
<1>1. identity \in Types /\ provider \in Identities
  BY DEF IdentityOK
<1>2. rotated \in Types /\ paused \in Types
  BY ONLY <1>1
<1>3. RefreshedIdentity \in {rotated, paused, identity}
  BY DEF RefreshedIdentity
<1> HIDE DEF rotated, paused
<1>4. identity' \in Types
  BY <1>1, <1>2, <1>3
<1> QED
  BY <1>1, <1>4 DEF IdentityOK

\* What a refresh remembers of the last decision is a decision.
LEMMA AdmissionRefresh ==
  last_admission \in DecisionReasons => RefreshedAdmission \in DecisionReasons
BY DEF RefreshedAdmission, DecisionReasons

\* The clock readings and waiting counts an admission is given are numbers.
LEMMA AdmissionInputs ==
  ASSUME NativeOK
  PROVE  Readings \subseteq Nat /\ WaitingCount \in Int
<1>1. Readings \subseteq Nat
  BY DEF NativeOK, Readings
<1>2. WaitingOwners \in SUBSET Req
  BY DEF WaitingOwners, InPhase
<1>3. WaitingCount \in Int
  BY <1>2, Countable DEF WaitingCount, NoCount
<1> QED
  BY <1>1, <1>3

\* The empty task is a task.
LEMMA IdleTaskType == IdleTask \in Tasks /\ NoUpdates \in Updates
<1>1. NoUpdates \in Updates
  <2>1. NoUpdates \in [{} -> Update]
    BY DEF NoUpdates
  <2> QED
    BY <2>1 DEF Updates
<1> QED
  BY <1>1 DEF IdleTask, Tasks, Steps

\* Both batches that are committed hold a length and a flag for each request.
LEMMA UpdateTypes ==
  ASSUME TaskOK, NativeOK, DecodeOK
  PROVE  BatchUpdates \in Updates /\ TerminalUpdate \in Updates
<1>1. Reported \in SUBSET Req /\ task.release \in SUBSET Req
  BY DEF Reported, TaskOK, Tasks
<1>2. BatchUpdates \in [Reported -> Update]
  BY <1>1 DEF Update, BatchUpdates, NativeOK
<1>3. TerminalUpdate \in [task.release -> Update]
  BY <1>1 DEF Update, TerminalUpdate, DecodeOK, Progresses
<1> QED
  BY <1>1, <1>2, <1>3 DEF Updates

\* A step of the native scheduler alone.
LEMMA SchedulerSame ==
  ASSUME IInv, UNCHANGED schedulerVars
  PROVE  CoreOK(core, evidence)' /\ LedgerOK' /\ DecodeOK'
<1>1. UNCHANGED <<core, ledger, decode, evidence, reservation, progress>>
  BY DEF schedulerVars
<1>2. CoreOK(core, evidence)'
  BY <1>1, CoreSame DEF IInv
<1>3. LedgerOK'
  BY <1>1, LedgerSame DEF IInv
<1>4. DecodeOK'
  BY <1>1, DecodeSame DEF IInv, DecodeOK
<1> QED
  BY <1>2, <1>3, <1>4

\* A refresh of the identity, whoever asks for it.
LEMMA RefreshStep ==
  ASSUME IInv, NEW now \in Nat, Refresh(now), UNCHANGED provider
  PROVE  CoreOK(core, evidence)' /\ LedgerOK' /\ DecodeOK' /\ IdentityOK'
         /\ last_admission' \in DecisionReasons
<1>1. /\ core' = RefreshedView(now).core /\ evidence' = RefreshedView(now).evidence
      /\ identity' = RefreshedIdentity /\ last_admission' = RefreshedAdmission
      /\ UNCHANGED <<policy, ledger, decode, reservation, progress>>
  BY DEF Refresh
<1>2. CoreOK(RefreshedView(now).core, RefreshedView(now).evidence)
  BY CoreRefresh DEF IInv
<1>3. CoreOK(core, evidence)'
  BY <1>1, <1>2, CoreSame
<1>4. LedgerOK'
  BY <1>1, LedgerSame DEF IInv
<1>5. DecodeOK'
  BY <1>1, DecodeSame DEF IInv, DecodeOK
<1>6. IdentityOK'
  BY <1>1, IdentityRefresh DEF IInv
<1>7. last_admission' \in DecisionReasons
  BY <1>1, AdmissionRefresh DEF IInv, TaskOK
<1> QED
  BY <1>3, <1>4, <1>5, <1>6, <1>7

\* The initial states satisfy the invariant.
LEMMA InvariantInit == Init => IInv
<1> SUFFICES ASSUME Init PROVE IInv
  OBVIOUS
<1> USE DEF Init, SchedulerInit
<1>1. Live = {} /\ Decoding = {} /\ Live \in SUBSET Req /\ Decoding \in SUBSET Req
  BY DEF Live, Decoding, NoReservation, NoProgress
<1>2. \A k : OfClass(Live, k) = {} /\ OfClass(Decoding, k) = {}
  BY <1>1 DEF OfClass
<1>3. Cardinality({}) = 0
  BY FS_EmptySet
<1>4. NoTime \in Time
  BY DEF Time
<1>5. CoreOK(core, evidence)
  <2>1. NewCore \in CoreState /\ NewCore.active = 0 /\ NewCore.quarantined = FALSE
    BY CoreAssumption, <1>4 DEF NewCore, CoreState, CoreAssumption, Time
  <2>2. /\ evidence = [pending |-> evidence.pending, surface_time |-> evidence.surface_time,
                       dirty |-> evidence.dirty]
        /\ evidence.surface_time \in Time /\ evidence.dirty = FALSE
        /\ DOMAIN evidence.pending \subseteq Cells
    BY <1>4 DEF NoPending
  <2>3. core = NewCore /\ decode.active = 0 /\ ~(ledger.health > 0)
    OBVIOUS
  <2> QED
    BY ONLY <2>1, <2>2, <2>3 DEF CoreOK
<1>6. LedgerOK
  <2>1. ledger \in Ledgers
    BY <1>4 DEF Ledgers
  <2>2. reservation \in [Req -> Reservations]
    BY <1>4 DEF Reservations, NoReservation
  <2>3. LedgerExact
    BY <1>1, <1>2, <1>3 DEF LedgerExact
  <2> QED
    BY <2>1, <2>2, <2>3 DEF LedgerOK
<1>7. DecodeOK
  <2>1. decode \in DecodeSets
    BY CoreAssumption DEF DecodeSets, CoreAssumption
  <2>2. progress \in [Req -> Progresses]
    BY <1>4 DEF Progresses, NoProgress
  <2> QED
    BY <1>1, <1>2, <1>3, <2>1, <2>2 DEF DecodeOK
<1>8. IdentityOK
  BY DEF IdentityOK
<1>9. NativeOK
  BY DEF NativeOK, Phases
<1>10. TaskOK
  BY IdleTaskType DEF TaskOK, DecisionReasons
<1> QED
  BY <1>5, <1>6, <1>7, <1>8, <1>9, <1>10 DEF IInv

\* An admission, favourable or not.
LEMMA AdmitNewStep ==
  ASSUME IInv, NEW r \in Req, AdmitNew(r)
  PROVE  IInv'
<1>1. PICK now \in Readings :
        \E reason \in Decisions(r, now, WaitingCount, RefreshedView(now)) :
          /\ AdmitRequest(r, now, WaitingCount, RefreshedView(now), reason)
          /\ identity' = RefreshedIdentity
          /\ last_admission' = reason
          /\ IF reason \in AdmittingReasons THEN Enqueue(r) ELSE UNCHANGED <<native, task>>
  BY DEF AdmitNew
<1>2. PICK reason \in Decisions(r, now, WaitingCount, RefreshedView(now)) :
        /\ AdmitRequest(r, now, WaitingCount, RefreshedView(now), reason)
        /\ identity' = RefreshedIdentity
        /\ last_admission' = reason
        /\ IF reason \in AdmittingReasons THEN Enqueue(r) ELSE UNCHANGED <<native, task>>
  BY <1>1
<1>3. now \in Nat /\ WaitingCount \in Int
  BY AdmissionInputs DEF IInv
<1>4. UNCHANGED <<provider, seen, clock, fault, policy, decode, progress>>
  BY <1>2 DEF AdmitNew, AdmitRequest
<1>5. CoreOK(RefreshedView(now).core, RefreshedView(now).evidence)
  BY <1>3, CoreRefresh DEF IInv
<1>6. LedgerOK /\ DecodeOK /\ policy \in Policies /\ IdentityOK
  BY DEF IInv, NativeOK
<1>7. /\ reason \in DecisionReasons
      /\ reason = "online_exploration" => ~ledger.exploring
  BY <1>3, <1>6, DecisionFacts DEF LedgerOK, DecodeOK
<1>8. CoreOK(core, evidence)'
  BY <1>2, <1>3, <1>5, <1>6, CoreAdmit
<1>9. LedgerOK'
  <2>1. CASE reason \in AdmittingReasons
    <3>1. /\ reservation[r].status = "none"
          /\ ledger' = LedgerWith(r, now, reason)
          /\ reservation' =
               [reservation EXCEPT ![r] =
                  [ status |-> "live", reason |-> reason, at |-> now,
                    epoch |-> RefreshedView(now).core.epoch ]]
      BY <1>2, <2>1 DEF AdmitRequest
    <3>2. RefreshedView(now).core.epoch \in Nat
      BY <1>5 DEF CoreOK, CoreState
    <3> QED
      BY <1>3, <1>6, <1>7, <2>1, <3>1, <3>2, LedgerAdmit
  <2>2. CASE reason \notin AdmittingReasons
    <3>1. UNCHANGED <<ledger, reservation>>
      BY <1>2, <2>2 DEF AdmitRequest
    <3> QED
      BY <1>6, <3>1, LedgerSame
  <2> QED
    BY <2>1, <2>2
<1>10. DecodeOK'
  BY <1>4, <1>6, DecodeSame DEF DecodeOK
<1>11. IdentityOK'
  BY <1>2, <1>4, <1>6, IdentityRefresh
<1>12. \/ /\ native' = [native EXCEPT ![r].phase = "waiting"]
          /\ UNCHANGED task
       \/ /\ UNCHANGED native
          /\ task' = [IdleTask EXCEPT !.at = "release", !.release = {r}]
       \/ UNCHANGED <<native, task>>
  BY <1>2 DEF Enqueue
<1>13. NativeOK'
  BY <1>4, <1>12 DEF IInv, NativeOK, Phases
<1>14. TaskOK'
  <2>1. [IdleTask EXCEPT !.at = "release", !.release = {r}] \in Tasks
    BY IdleTaskType DEF Tasks, Steps
  <2> QED
    BY <1>2, <1>4, <1>7, <1>12, <2>1 DEF IInv, TaskOK
<1> QED
  BY <1>8, <1>9, <1>10, <1>11, <1>13, <1>14 DEF IInv

\* A repeated admission and a refused one.
LEMMA AdmitOtherStep ==
  ASSUME IInv, NEW r \in Req, AdmitAgain(r) \/ AdmitRaises(r)
  PROVE  IInv'
<1>1. CASE AdmitAgain(r)
  <2>1. PICK now \in Readings : /\ core' = RefreshedView(now).core
                                /\ evidence' = RefreshedView(now).evidence
    BY <1>1 DEF AdmitAgain
  <2>2. /\ identity' = RefreshedIdentity
        /\ last_admission' = reservation[r].reason
        /\ UNCHANGED <<policy, ledger, decode, reservation, progress>>
        /\ UNCHANGED <<provider, seen, native, clock, task, fault>>
    BY <1>1 DEF AdmitAgain
  <2>3. now \in Nat
    BY AdmissionInputs DEF IInv
  <2>4. CoreOK(RefreshedView(now).core, RefreshedView(now).evidence)
    BY <2>3, CoreRefresh DEF IInv
  <2>5. CoreOK(core, evidence)'
    BY <2>1, <2>2, <2>4, CoreSame
  <2>6. LedgerOK' /\ DecodeOK' /\ IdentityOK'
    BY <2>2, LedgerSame, DecodeSame, IdentityRefresh DEF IInv, DecodeOK
  <2>7. last_admission' \in DecisionReasons
    BY <2>2 DEF IInv, LedgerOK, Reservations, DecisionReasons
  <2> QED
    BY <2>2, <2>5, <2>6, <2>7 DEF IInv, NativeOK, TaskOK
<1>2. CASE AdmitRaises(r)
  <2>1. PICK now \in Readings : Refresh(now)
    BY <1>2 DEF AdmitRaises
  <2>2. fault' = "clock" /\ UNCHANGED <<provider, seen, native, clock, task>>
    BY <1>2 DEF AdmitRaises
  <2>3. now \in Nat
    BY AdmissionInputs DEF IInv
  <2>4. CoreOK(core, evidence)' /\ LedgerOK' /\ DecodeOK' /\ IdentityOK'
        /\ last_admission' \in DecisionReasons
    BY <2>1, <2>2, <2>3, RefreshStep
  <2>5. policy' = policy
    BY <2>1 DEF Refresh
  <2> QED
    BY <2>2, <2>4, <2>5 DEF IInv, NativeOK, TaskOK
<1> QED
  BY <1>1, <1>2

\* Batches, retractions and aborts only start something.
LEMMA NativeStep ==
  ASSUME IInv,
         \/ \E extend \in BOOLEAN : RunBatch(extend)
         \/ \E r \in Req : Retract(r) \/ Abort(r)
  PROVE  IInv'
<1>1. UNCHANGED <<schedulerVars, identity, provider, last_admission, clock, fault>>
  BY DEF RunBatch, Retract, Abort
<1>2. CoreOK(core, evidence)' /\ LedgerOK' /\ DecodeOK'
  BY <1>1, SchedulerSame
<1>3. IdentityOK'
  BY <1>1 DEF IInv, IdentityOK
<1>4. policy' = policy /\ policy \in Policies /\ clock \in Nat
  BY <1>1 DEF schedulerVars, IInv, NativeOK
<1>5. ASSUME NEW extend \in BOOLEAN, RunBatch(extend)
      PROVE  native' \in [Req -> [phase : Phases, output : Nat]] /\ task' \in Tasks
  <2>1. PICK B \in (IF extend THEN ExtendBatches ELSE DecodeBatches) :
          \E g \in Gains(B, extend) : \E F \in Finishes(B, g) :
            /\ native' = NativeAfter(B, g)
            /\ task' = [IdleTask EXCEPT !.at = "refresh", !.now = clock, !.batch = B,
                                        !.finished = F, !.extend = extend]
    BY <1>5 DEF RunBatch
  <2>2. PICK g \in Gains(B, extend) : \E F \in Finishes(B, g) :
            /\ native' = NativeAfter(B, g)
            /\ task' = [IdleTask EXCEPT !.at = "refresh", !.now = clock, !.batch = B,
                                        !.finished = F, !.extend = extend]
    BY <2>1
  <2>3. PICK F \in Finishes(B, g) :
            /\ native' = NativeAfter(B, g)
            /\ task' = [IdleTask EXCEPT !.at = "refresh", !.now = clock, !.batch = B,
                                        !.finished = F, !.extend = extend]
    BY <2>2
  <2>4. B \in SUBSET Req
    BY DEF ExtendBatches, DecodeBatches, WaitingOwners, Running, InPhase
  <2>5. F \in SUBSET Req
    BY <2>4 DEF Finishes
  <2>6. task' \in Tasks
    BY <1>4, <2>3, <2>4, <2>5, IdleTaskType DEF Tasks, Steps
  <2>7. \A r \in B : g[r] \in Nat
    <3>1. g \in [B -> (IF extend THEN 0 ELSE 1) .. MaxGain] /\ MaxGain \in Nat
      BY SglangAssumption DEF Gains, SglangAssumption
    <3> QED
      BY <3>1
  <2>8. native \in [Req -> [phase : Phases, output : Nat]]
    BY DEF IInv, NativeOK
  <2>9. ASSUME NEW r \in Req PROVE NativeAfter(B, g)[r] \in [phase : Phases, output : Nat]
    BY <2>7, <2>8 DEF NativeAfter, Phases
  <2> QED
    BY <2>3, <2>6, <2>9 DEF NativeAfter
<1>6. ASSUME NEW r \in Req, Retract(r)
      PROVE  native' \in [Req -> [phase : Phases, output : Nat]] /\ task' \in Tasks
  BY <1>6 DEF Retract, IInv, NativeOK, TaskOK, Phases
<1>7. ASSUME NEW r \in Req, Abort(r)
      PROVE  native' \in [Req -> [phase : Phases, output : Nat]] /\ task' \in Tasks
  <2>1. [IdleTask EXCEPT !.at = IF progress[r].attached THEN "terminate" ELSE "release",
                         !.now = clock, !.release = {r}] \in Tasks
    BY <1>4, IdleTaskType DEF Tasks, Steps
  <2> QED
    BY <1>7, <2>1 DEF Abort, IInv, NativeOK
<1>8. native' \in [Req -> [phase : Phases, output : Nat]] /\ task' \in Tasks
  BY <1>5, <1>6, <1>7
<1> QED
  BY <1>1, <1>2, <1>3, <1>4, <1>8 DEF IInv, NativeOK, TaskOK

\* The parts of the invariant that a step of after_result may disturb.
LEMMA ResultFrame ==
  ASSUME IInv, UNCHANGED <<identity, provider, last_admission, clock, policy>>,
         native' \in [Req -> [phase : Phases, output : Nat]], task' \in Tasks,
         fault' \in {"none", "clock", "capacity"},
         CoreOK(core, evidence)', LedgerOK', DecodeOK'
  PROVE  IInv'
BY DEF IInv, IdentityOK, NativeOK, TaskOK

\* after_result, from the refresh to the prefill report, and the terminal
\* commit of an abort.
LEMMA ResultStepInvariant ==
  ASSUME IInv, ResultStep
  PROVE  IInv'
<1>1. /\ task \in Tasks /\ task.now \in Nat /\ task.updates \in Updates
      /\ native \in [Req -> [phase : Phases, output : Nat]]
      /\ fault \in {"none", "clock", "capacity"}
  BY DEF IInv, TaskOK, NativeOK, Tasks
<1>2. CoreOK(core, evidence) /\ LedgerOK /\ DecodeOK /\ TaskOK /\ NativeOK
  BY DEF IInv
<1>3. CASE RefreshResult
  <2>1. Refresh(task.now) /\ UNCHANGED <<provider, native, clock, fault>>
        /\ task' = [task EXCEPT !.at = "collect"]
    BY <1>3 DEF RefreshResult
  <2>2. CoreOK(core, evidence)' /\ LedgerOK' /\ DecodeOK' /\ IdentityOK'
        /\ last_admission' \in DecisionReasons
    BY <1>1, <2>1, RefreshStep
  <2>3. policy' = policy
    BY <2>1 DEF Refresh
  <2>4. task' \in Tasks
    BY <1>1, <2>1 DEF Tasks, Steps
  <2> QED
    BY <1>2, <2>1, <2>2, <2>3, <2>4 DEF IInv, NativeOK, TaskOK
<1>4. CASE CollectUpdates
  <2>1. /\ UNCHANGED <<core, policy, ledger, decode, evidence, reservation>>
        /\ UNCHANGED <<identity, provider, last_admission, native, clock, fault>>
        /\ progress' = [r \in Req |-> IF r \in Reported
                                      THEN [progress[r] EXCEPT !.attached = TRUE] ELSE progress[r]]
        /\ task' = [task EXCEPT
             !.at = IF Reported # {} \/ BatchContaminated THEN "commit" ELSE "release",
             !.contaminated = BatchContaminated, !.updates = BatchUpdates,
             !.release = TerminalRequests, !.batch = {}, !.finished = {}]
    BY <1>4 DEF CollectUpdates
  <2>2. DecodeOK'
    <3>1. progress \in [Req -> Progresses]
      BY <1>2 DEF DecodeOK
    <3>2. /\ progress' \in [Req -> Progresses]
          /\ \A r \in Req : progress'[r].decoding = progress[r].decoding
      BY <2>1, <3>1 DEF Progresses
    <3> QED
      BY <1>2, <2>1, <3>2, DecodeSame
  <2>3. CoreOK(core, evidence)' /\ LedgerOK'
    BY <1>2, <2>1, CoreSame, LedgerSame
  <2>4. task' \in Tasks
    <3>1. BatchUpdates \in Updates
      BY <1>2, UpdateTypes
    <3>2. TerminalRequests \in SUBSET Req
      BY <1>1 DEF TerminalRequests, Tasks
    <3>3. BatchContaminated \in BOOLEAN
      BY DEF BatchContaminated, IInv, CoreOK
    <3> QED
      BY <1>1, <2>1, <3>1, <3>2, <3>3 DEF Tasks, Steps
  <2> QED
    BY <1>1, <2>1, <2>2, <2>3, <2>4, ResultFrame
<1>5. CASE CommitResult \/ Terminated
  <2>1. PICK upd \in Updates, quarantine \in BOOLEAN :
          CommitBatch(upd, task.now, quarantine, CurrentView)
    <3>1. TerminalUpdate \in Updates
      BY <1>2, UpdateTypes
    <3>2. task.contaminated \in BOOLEAN
      BY <1>1 DEF Tasks
    <3> QED
      BY <1>1, <1>5, <3>1, <3>2 DEF CommitResult, Terminated
  <2>2. UNCHANGED <<identity, provider, last_admission, native, clock, fault>>
    BY <1>5 DEF CommitResult, Terminated
  <2>3. task' \in Tasks
    BY <1>1, <1>5, IdleTaskType DEF CommitResult, Terminated, Tasks, Steps
  <2>4. UNCHANGED <<policy, ledger, reservation>>
    BY <2>1 DEF CommitBatch
  <2>5. CoreOK(core, evidence)' /\ DecodeOK'
    BY <1>1, <1>2, <2>1, CoreCommit
  <2>6. LedgerOK'
    BY <1>2, <2>4, LedgerSame
  <2> QED
    BY <1>1, <2>2, <2>3, <2>4, <2>5, <2>6, ResultFrame
<1>6. CASE CommitRaises \/ TerminateRaises \/ PrefillRaises
  <2>1. UNCHANGED <<schedulerVars, identity, provider, last_admission, native, clock, task>>
    BY <1>6 DEF CommitRaises, TerminateRaises, PrefillRaises
  <2>2. fault' \in {"none", "clock", "capacity"}
    BY <1>6 DEF CommitRaises, TerminateRaises, PrefillRaises, FaultOf
  <2>3. CoreOK(core, evidence)' /\ LedgerOK' /\ DecodeOK' /\ policy' = policy
    BY <2>1, SchedulerSame DEF schedulerVars
  <2> QED
    BY <1>1, <2>1, <2>2, <2>3, ResultFrame
<1>7. CASE \E r \in Req : ReleaseNext(r)
  <2>1. PICK r \in Req : ReleaseNext(r)
    BY <1>7
  <2>2. /\ r \in task.release /\ ReleaseRequest(r)
        /\ native' = [native EXCEPT ![r].phase = "over"]
        /\ UNCHANGED <<identity, provider, last_admission, clock, fault>>
    BY <2>1 DEF ReleaseNext
  <2>3. /\ UNCHANGED <<core, policy, decode, evidence, progress>>
    BY <2>2 DEF ReleaseRequest
  <2>4. task' \in Tasks
    <3>1. [task EXCEPT !.release = @ \ {r}] \in Tasks
      BY <1>1 DEF Tasks
    <3>2. [IdleTask EXCEPT !.at = "prefill", !.now = task.now] \in Tasks
      BY <1>1, IdleTaskType DEF Tasks, Steps
    <3> QED
      BY <2>1, <3>1, <3>2, IdleTaskType DEF ReleaseNext
  <2>5. LedgerOK'
    BY <1>2, <2>2, LedgerRelease
  <2>6. ledger'.health > 0 => ledger.health > 0
    <3>1. ledger.health \in Nat
      BY <1>2 DEF LedgerOK, Ledgers
    <3>2. ledger' = ledger \/ ledger'.health = ledger.health - IF r \in HealthReq THEN 1 ELSE 0
      BY <2>2 DEF ReleaseRequest, LedgerWithout
    <3> QED
      BY <3>1, <3>2
  <2>7. CoreOK(core, evidence)' /\ DecodeOK'
    BY <1>2, <2>3, <2>6, CoreSame, DecodeSame DEF DecodeOK
  <2>8. native' \in [Req -> [phase : Phases, output : Nat]]
    BY <1>1, <2>2 DEF Phases
  <2> QED
    BY <1>1, <2>2, <2>3, <2>4, <2>5, <2>7, <2>8, ResultFrame
<1>8. CASE NothingToRelease
  <2>1. UNCHANGED <<schedulerVars, identity, provider, last_admission, native, clock, fault>>
    BY <1>8 DEF NothingToRelease
  <2>2. CoreOK(core, evidence)' /\ LedgerOK' /\ DecodeOK' /\ policy' = policy
    BY <2>1, SchedulerSame DEF schedulerVars
  <2>3. [IdleTask EXCEPT !.at = "prefill", !.now = task.now] \in Tasks
    BY <1>1, IdleTaskType DEF Tasks, Steps
  <2>4. task' \in Tasks
    BY <1>8, <2>3, IdleTaskType DEF NothingToRelease
  <2> QED
    BY <1>1, <2>1, <2>2, <2>4, ResultFrame
<1>9. CASE PrefillCompleted
  <2>1. /\ core' = AdvanceCore(core, task.now)
        /\ UNCHANGED <<policy, ledger, decode, evidence, reservation, progress>>
        /\ UNCHANGED <<identity, provider, last_admission, native, clock, fault>>
        /\ task' = IdleTask
    BY <1>9 DEF PrefillCompleted, AdvanceTo
  <2>2. CoreOK(AdvanceCore(core, task.now), evidence)
    <3>1. 0 \in Nat
      OBVIOUS
    <3> QED
      BY <1>1, <1>2, <3>1, CoreTouched
  <2>3. CoreOK(core, evidence)' /\ LedgerOK' /\ DecodeOK'
    BY <1>2, <2>1, <2>2, CoreSame, LedgerSame, DecodeSame DEF DecodeOK
  <2> QED
    BY <1>1, <2>1, <2>3, IdleTaskType, ResultFrame
<1> QED
  BY <1>3, <1>4, <1>5, <1>6, <1>7, <1>8, <1>9 DEF ResultStep

\* Reads, patches and refreshes, the environment and time.
LEMMA ControlStep ==
  ASSUME IInv,
         \/ \E cl \in Clients : PolicySnapshot(cl) \/ PatchPolicy(cl)
         \/ TelemetrySnapshot \/ RefreshIdentity
         \/ \E i \in Identities : ChangeIdentity(i)
         \/ Tick
  PROVE  IInv'
<1>1. /\ clock \in Nat /\ 0 \in Nat /\ task \in Tasks /\ policy \in Policies
      /\ native \in [Req -> [phase : Phases, output : Nat]]
      /\ fault \in {"none", "clock", "capacity"}
  BY DEF IInv, NativeOK, TaskOK
<1>2. CoreOK(core, evidence) /\ LedgerOK /\ DecodeOK /\ IdentityOK /\ TaskOK /\ NativeOK
  BY DEF IInv
<1>3. CoreOK(RefreshedView(clock).core, RefreshedView(clock).evidence)
  BY <1>1, <1>2, CoreRefresh
<1>4. RefreshedAdmission \in DecisionReasons
  BY <1>2, AdmissionRefresh DEF TaskOK
<1>5. ASSUME NEW cl \in Clients, PolicySnapshot(cl) PROVE IInv'
  <2>1. /\ core' = AdvanceCore(RefreshedView(clock).core, clock)
        /\ evidence' = RefreshedView(clock).evidence
        /\ identity' = RefreshedIdentity /\ last_admission' = RefreshedAdmission
        /\ UNCHANGED <<policy, ledger, decode, reservation, progress>>
        /\ UNCHANGED <<provider, native, clock, task, fault>>
    BY <1>5 DEF PolicySnapshot
  <2>2. CoreOK(AdvanceCore(RefreshedView(clock).core, clock), RefreshedView(clock).evidence)
    BY <1>1, <1>3, CoreTouched
  <2>3. CoreOK(core, evidence)' /\ LedgerOK' /\ DecodeOK'
    BY <1>2, <2>1, <2>2, CoreSame, LedgerSame, DecodeSame DEF DecodeOK
  <2>4. IdentityOK'
    BY <1>2, <2>1, IdentityRefresh
  <2> QED
    BY <1>2, <1>4, <2>1, <2>3, <2>4 DEF IInv, NativeOK, TaskOK
<1>6. ASSUME NEW cl \in Clients, PatchPolicy(cl) PROVE IInv'
  <2>1. /\ \E reference \in References, limits \in Policies :
             UpdatePolicy(seen[cl].epoch, seen[cl].revision, reference, limits, RefreshedView(clock))
        /\ evidence' = RefreshedView(clock).evidence
        /\ identity' = RefreshedIdentity /\ last_admission' = RefreshedAdmission
        /\ UNCHANGED <<ledger, decode, reservation, progress>>
        /\ UNCHANGED <<provider, native, clock, task, fault>>
    BY <1>6 DEF PatchPolicy
  <2>2. PICK reference \in References, limits \in Policies :
          UpdatePolicy(seen[cl].epoch, seen[cl].revision, reference, limits, RefreshedView(clock))
    BY <2>1
  <2>3. policy' \in Policies
    BY <1>1, <2>2 DEF UpdatePolicy
  <2>4. CoreOK(UpdateReferenceCore(RefreshedView(clock).core, reference), RefreshedView(clock).evidence)
    BY <1>1, <1>3, CoreTouched, SglangAssumption DEF SglangAssumption
  <2>5. \/ core' = UpdateReferenceCore(RefreshedView(clock).core, reference)
        \/ core' = RefreshedView(clock).core
    BY <2>2 DEF UpdatePolicy
  <2>6. CoreOK(core, evidence)'
    BY <1>3, <2>1, <2>4, <2>5, CoreSame
  <2>7. LedgerOK' /\ DecodeOK'
    BY <1>2, <2>1, LedgerSame, DecodeSame DEF DecodeOK
  <2>8. IdentityOK'
    BY <1>2, <2>1, IdentityRefresh
  <2> QED
    BY <1>2, <1>4, <2>1, <2>3, <2>6, <2>7, <2>8 DEF IInv, NativeOK, TaskOK
<1>7. CASE TelemetrySnapshot
  <2>1. PICK now \in Readings :
          /\ core' = AdvanceCore(core, now)
          /\ UNCHANGED <<policy, ledger, decode, evidence, reservation, progress>>
          /\ UNCHANGED <<identity, provider, last_admission, native, clock, task, fault>>
    BY <1>7 DEF TelemetrySnapshot, AdvanceTo
  <2>2. CoreOK(AdvanceCore(core, now), evidence)
    BY <1>1, <1>2, AdmissionInputs, CoreTouched
  <2>3. CoreOK(core, evidence)' /\ LedgerOK' /\ DecodeOK'
    BY <1>2, <2>1, <2>2, CoreSame, LedgerSame, DecodeSame DEF DecodeOK
  <2> QED
    BY <1>1, <2>1, <2>3, ResultFrame
<1>8. CASE RefreshIdentity
  <2>1. Refresh(clock) /\ UNCHANGED <<provider, native, clock, task, fault>>
    BY <1>8 DEF RefreshIdentity
  <2>2. CoreOK(core, evidence)' /\ LedgerOK' /\ DecodeOK' /\ IdentityOK'
        /\ last_admission' \in DecisionReasons
    BY <1>1, <2>1, RefreshStep
  <2>3. policy' = policy
    BY <2>1 DEF Refresh
  <2> QED
    BY <1>2, <2>1, <2>2, <2>3 DEF IInv, NativeOK, TaskOK
<1>9. CASE (\E i \in Identities : ChangeIdentity(i)) \/ Tick
  <2>1. UNCHANGED <<schedulerVars, identity, last_admission, native, task, fault>>
    BY <1>9 DEF ChangeIdentity, Tick
  <2>2. provider' \in Identities /\ clock' \in Nat
    BY <1>1, <1>2, <1>9 DEF ChangeIdentity, Tick, IdentityOK
  <2>3. CoreOK(core, evidence)' /\ LedgerOK' /\ DecodeOK' /\ policy' = policy
    BY <2>1, SchedulerSame DEF schedulerVars
  <2> QED
    BY <1>2, <2>1, <2>2, <2>3 DEF IInv, IdentityOK, NativeOK, TaskOK
<1> QED
  BY <1>5, <1>6, <1>7, <1>8, <1>9

\* The invariant survives every step.
LEMMA InvariantStep == IInv /\ [Next]_vars => IInv'
<1> SUFFICES ASSUME IInv, [Next]_vars PROVE IInv'
  OBVIOUS
<1>1. ASSUME NEW r \in Req, AdmitNew(r) PROVE IInv'
  BY <1>1, AdmitNewStep
<1>2. ASSUME NEW r \in Req, AdmitAgain(r) \/ AdmitRaises(r) PROVE IInv'
  BY <1>2, AdmitOtherStep
<1>3. ASSUME NEW r \in Req, Abort(r) \/ Retract(r) PROVE IInv'
  BY <1>3, NativeStep
<1>4. ASSUME NEW extend \in BOOLEAN, RunBatch(extend) PROVE IInv'
  BY <1>4, NativeStep
<1>5. CASE ResultStep
  BY <1>5, ResultStepInvariant
<1>6. ASSUME NEW cl \in Clients, PolicySnapshot(cl) \/ PatchPolicy(cl) PROVE IInv'
  BY <1>6, ControlStep
<1>7. CASE TelemetrySnapshot \/ RefreshIdentity \/ Tick
  BY <1>7, ControlStep
<1>8. ASSUME NEW i \in Identities, ChangeIdentity(i) PROVE IInv'
  BY <1>8, ControlStep
<1>9. CASE UNCHANGED vars
  <2>1. UNCHANGED <<schedulerVars, identity, provider, last_admission, native, clock, task, fault>>
    BY <1>9 DEF vars
  <2>2. CoreOK(core, evidence)' /\ LedgerOK' /\ DecodeOK' /\ policy' = policy
    BY <2>1, SchedulerSame DEF schedulerVars
  <2> QED
    BY <2>1, <2>2, ResultFrame DEF IInv, NativeOK, TaskOK
<1> QED
  BY <1>1, <1>2, <1>3, <1>4, <1>5, <1>6, <1>7, <1>8, <1>9 DEF Next

-----------------------------------------------------------------------------
(* Theorems.                                                               *)

\* The inductive invariant holds in every reachable state.
THEOREM Invariance == Spec => []IInv
BY InvariantInit, InvariantStep, PTL DEF Spec

\* Every variable keeps its type; in particular the core's active count never
\* leaves the physical capacity and cells of the surface are never invented.
THEOREM TypeCorrect == Spec => []TypeOK
BY Invariance, IInvImplies, PTL

\* However admissions, rollbacks, completions, aborts, retractions, control
\* calls and refreshes interleave, the ledger counts exactly the reservations
\* that are attached, and at most one probe is among them.
THEOREM LedgerIsExact == Spec => []LedgerExact
BY Invariance, IInvImplies, PTL

\* The three records of who is decoding never disagree, also after a batch
\* that raised.
THEOREM ActiveIsExact == Spec => []ActiveExact
BY Invariance, IInvImplies, PTL

\* The core is quarantined exactly while the scheduler holds the interval for
\* contaminated, which lasts at least as long as any health check.
THEOREM QuarantineIsExact == Spec => []QuarantineAgrees
BY Invariance, IInvImplies, PTL

-----------------------------------------------------------------------------
(* Admission, step by step.                                                *)

\* The ledger grows only where admit_request says so.
LEMMA GrowsByAdmission ==
  ASSUME IInv, [Next]_vars, ledger'.outstanding > ledger.outstanding
  PROVE  \E r \in Req, now \in Readings :
           \E reason \in Decisions(r, now, WaitingCount, RefreshedView(now)) :
             /\ reason \in AdmittingReasons
             /\ ledger' = LedgerWith(r, now, reason)
             /\ identity' = RefreshedIdentity
<1>1. ledger.outstanding \in Nat
  BY DEF IInv, LedgerOK, Ledgers
<1>2. ledger' # ledger
  BY <1>1
<1>3. ASSUME NEW r \in Req, ReleaseRequest(r) PROVE FALSE
  <2>1. ledger' = LedgerWithout(r)
    BY <1>2, <1>3 DEF ReleaseRequest
  <2> QED
    BY <1>1, <2>1 DEF LedgerWithout
<1>4. PICK r \in Req : AdmitNew(r)
  <2>1. ASSUME NEW r \in Req, AdmitAgain(r) \/ AdmitRaises(r) \/ Abort(r) \/ Retract(r) PROVE FALSE
    BY <1>2, <2>1 DEF AdmitAgain, AdmitRaises, Refresh, Abort, Retract, schedulerVars
  <2>2. ASSUME NEW extend \in BOOLEAN, RunBatch(extend) PROVE FALSE
    BY <1>2, <2>2 DEF RunBatch, schedulerVars
  <2>3. CASE ResultStep
    BY <1>2, <1>3, <2>3 DEF ResultStep, RefreshResult, Refresh, CollectUpdates, CommitResult,
       CommitBatch, CommitRaises, Terminated, TerminateRaises, ReleaseNext, NothingToRelease,
       PrefillCompleted, PrefillRaises, AdvanceTo, schedulerVars
  <2>4. ASSUME NEW cl \in Clients, PolicySnapshot(cl) \/ PatchPolicy(cl) PROVE FALSE
    BY <1>2, <2>4 DEF PolicySnapshot, PatchPolicy
  <2>5. CASE TelemetrySnapshot \/ RefreshIdentity \/ Tick
    BY <1>2, <2>5 DEF TelemetrySnapshot, AdvanceTo, RefreshIdentity, Refresh, Tick, schedulerVars
  <2>6. ASSUME NEW i \in Identities, ChangeIdentity(i) PROVE FALSE
    BY <1>2, <2>6 DEF ChangeIdentity, schedulerVars
  <2>7. CASE UNCHANGED vars
    BY <1>2, <2>7 DEF vars, schedulerVars
  <2> QED
    BY <2>1, <2>2, <2>3, <2>4, <2>5, <2>6, <2>7 DEF Next
<1>5. PICK now \in Readings :
        \E reason \in Decisions(r, now, WaitingCount, RefreshedView(now)) :
          /\ AdmitRequest(r, now, WaitingCount, RefreshedView(now), reason)
          /\ identity' = RefreshedIdentity
  BY <1>4 DEF AdmitNew
<1>6. PICK reason \in Decisions(r, now, WaitingCount, RefreshedView(now)) :
        /\ AdmitRequest(r, now, WaitingCount, RefreshedView(now), reason)
        /\ identity' = RefreshedIdentity
  BY <1>5
<1>7. reason \in AdmittingReasons /\ ledger' = LedgerWith(r, now, reason)
  BY <1>2, <1>6 DEF AdmitRequest
<1> QED
  BY <1>6, <1>7

\* Facts of every admission that an action property needs.
LEMMA AdmissionFacts ==
  ASSUME IInv, [Next]_vars, ledger'.outstanding > ledger.outstanding
  PROVE  /\ identity'.runtime = provider /\ ~identity'.paused
         /\ ledger'.outstanding <= policy.max_running + policy.max_waiting
         /\ WaitingKnown => Cardinality(WaitingOwners) < policy.max_waiting
<1>1. PICK r \in Req, now \in Readings :
        \E reason \in Decisions(r, now, WaitingCount, RefreshedView(now)) :
             /\ reason \in AdmittingReasons
             /\ ledger' = LedgerWith(r, now, reason)
             /\ identity' = RefreshedIdentity
  BY GrowsByAdmission
<1>2. PICK reason \in Decisions(r, now, WaitingCount, RefreshedView(now)) :
             /\ reason \in AdmittingReasons
             /\ ledger' = LedgerWith(r, now, reason)
             /\ identity' = RefreshedIdentity
  BY <1>1
<1>3. WaitingCount \in Int
  BY AdmissionInputs DEF IInv
<1>4. policy \in Policies /\ ledger \in Ledgers /\ decode \in DecodeSets
  BY DEF IInv, LedgerOK, DecodeOK, NativeOK
<1>5. /\ ~RefreshedView(now).paused
      /\ ProjectedWaiting(WaitingCount) <= policy.max_waiting
  BY <1>2, <1>3, <1>4, DecisionFacts
<1>6. identity'.runtime = provider /\ ~identity'.paused
  <2>1. CASE Rotates
    BY <1>2, <2>1 DEF RefreshedIdentity
  <2>2. CASE ~Rotates
    <3>1. ~Pauses
      BY <1>5, <2>2 DEF RefreshedView, CurrentView
    <3>2. ~IdentityMoves
      BY <2>2, <3>1 DEF Rotates, Pauses
    <3>3. identity' = identity
      BY <1>2, <2>2, <3>1 DEF RefreshedIdentity
    <3> QED
      BY <3>2, <3>3 DEF IdentityMoves
  <2> QED
    BY <2>1, <2>2
<1>7. /\ policy.max_running \in Int /\ policy.max_waiting \in Int
      /\ ledger.outstanding \in Nat /\ OutstandingAfter \in Int
  BY <1>4, CoreAssumption, SchedulerAssumption
  DEF Policies, Ledgers, OutstandingAfter, CoreAssumption, SchedulerAssumption
<1>8. OutstandingAfter - policy.max_running <= policy.max_waiting
  BY <1>3, <1>5, <1>7 DEF ProjectedWaiting, NoCount
<1>9. ledger'.outstanding = OutstandingAfter
  BY <1>2 DEF LedgerWith
<1>10. WaitingKnown => Cardinality(WaitingOwners) < policy.max_waiting
  <2> SUFFICES ASSUME WaitingKnown PROVE Cardinality(WaitingOwners) < policy.max_waiting
    OBVIOUS
  <2>1. WaitingOwners \in SUBSET Req
    BY DEF WaitingOwners, InPhase
  <2>2. Cardinality(WaitingOwners) \in Nat
    BY <2>1, Countable
  <2>3. WaitingCount = Cardinality(WaitingOwners)
    BY DEF WaitingCount
  <2> QED
    BY <1>5, <1>7, <2>2, <2>3 DEF ProjectedWaiting, NoCount
<1> QED
  BY <1>6, <1>7, <1>8, <1>9, <1>10

\* A decision that blames a transition was made while old work remained.
LEMMA TransitionRefusal ==
  ASSUME IInv, [Next]_vars,
         last_admission' = "identity_transition", last_admission # last_admission'
  PROVE  Busy
<1>1. PICK r \in Req : AdmitNew(r)
  <2>1. RefreshedAdmission \in {"none", last_admission}
    BY DEF RefreshedAdmission
  <2>2. last_admission' # last_admission /\ last_admission' # RefreshedAdmission
    BY <2>1
  <2>3. ASSUME NEW r \in Req, AdmitAgain(r) PROVE FALSE
    <3>1. reservation[r].reason \in AdmittingReasons \cup {"none"}
      BY DEF IInv, LedgerOK, Reservations
    <3> QED
      BY <2>3, <3>1 DEF AdmitAgain, AdmittingReasons, FavourableReasons
  <2>4. ASSUME NEW r \in Req, AdmitRaises(r) \/ Abort(r) \/ Retract(r) PROVE FALSE
    BY <2>2, <2>4 DEF AdmitRaises, Refresh, Abort, Retract
  <2>5. ASSUME NEW extend \in BOOLEAN, RunBatch(extend) PROVE FALSE
    BY <2>2, <2>5 DEF RunBatch
  <2>6. CASE ResultStep
    BY <2>2, <2>6 DEF ResultStep, RefreshResult, Refresh, CollectUpdates, CommitResult,
       CommitRaises, Terminated, TerminateRaises, ReleaseNext, NothingToRelease,
       PrefillCompleted, PrefillRaises
  <2>7. ASSUME NEW cl \in Clients, PolicySnapshot(cl) \/ PatchPolicy(cl) PROVE FALSE
    BY <2>2, <2>7 DEF PolicySnapshot, PatchPolicy
  <2>8. CASE TelemetrySnapshot \/ RefreshIdentity \/ Tick
    BY <2>2, <2>8 DEF TelemetrySnapshot, RefreshIdentity, Refresh, Tick
  <2>9. ASSUME NEW i \in Identities, ChangeIdentity(i) PROVE FALSE
    BY <2>2, <2>9 DEF ChangeIdentity
  <2>10. CASE UNCHANGED vars
    BY <2>2, <2>10 DEF vars
  <2> QED
    BY <2>3, <2>4, <2>5, <2>6, <2>7, <2>8, <2>9, <2>10 DEF Next
<1>2. PICK now \in Readings :
        \E reason \in Decisions(r, now, WaitingCount, RefreshedView(now)) : last_admission' = reason
  BY <1>1 DEF AdmitNew
<1>3. "identity_transition" \in Decisions(r, now, WaitingCount, RefreshedView(now))
  BY <1>2
<1>4. policy \in Policies /\ ledger \in Ledgers /\ decode \in DecodeSets /\ WaitingCount \in Int
  BY AdmissionInputs DEF IInv, LedgerOK, DecodeOK, NativeOK
<1>5. RefreshedView(now).paused
  BY <1>3, <1>4, DecisionFacts
<1>6. CASE Rotates
  BY <1>5, <1>6 DEF RefreshedView, RotatedView
<1>7. CASE ~Rotates
  <2>1. Pauses
    BY <1>5, <1>7 DEF RefreshedView, CurrentView
  <2> QED
    BY <2>1 DEF Pauses
<1> QED
  BY <1>6, <1>7

\* Nobody is admitted under an identity other than the one that serves.
THEOREM ServedIdentityAdmits == Spec => AdmittedUnderServedIdentity
<1>1. IInv /\ [Next]_vars =>
        [ledger'.outstanding > ledger.outstanding =>
           identity'.runtime = provider /\ ~identity'.paused]_vars
  BY AdmissionFacts
<1> QED
  BY <1>1, Invariance, PTL DEF Spec, AdmittedUnderServedIdentity

\* No admission takes the system over the limits in force, and no admission
\* is refused for a transition that has nothing left to drain.
THEOREM LimitsHold == Spec => AdmissionWithinLimits
<1>1. IInv /\ [Next]_vars =>
        [/\ ledger'.outstanding > ledger.outstanding =>
              /\ ledger'.outstanding <= policy.max_running + policy.max_waiting
              /\ WaitingKnown => Cardinality(WaitingOwners) < policy.max_waiting
         /\ last_admission' = "identity_transition" /\ last_admission # last_admission' =>
              Busy]_vars
  BY AdmissionFacts, TransitionRefusal
<1> QED
  BY <1>1, Invariance, PTL DEF Spec, AdmissionWithinLimits

-----------------------------------------------------------------------------
(* Patches.                                                                *)

\* What a client holds: a policy that was in force, and the one in force now
\* unless the revision has moved on.
SeenOK ==
  /\ seen \in [Clients -> [epoch : Nat, revision : Nat, reference : Nat, limits : Policies]]
  /\ \A cl \in Clients :
       /\ seen[cl].revision <= core.revision
       /\ seen[cl].revision = core.revision =>
            seen[cl].reference = core.reference /\ seen[cl].limits = policy

\* No call of the core but update_reference touches the revision.
LEMMA RevisionKept ==
  ASSUME NEW c \in CoreState, NEW now, NEW n, NEW b, NEW cell
  PROVE  \A d \in {AdvanceCore(c, now), ObserveCore(c, now, n), ObserveBatchCore(c, now, cell, n),
                   QuarantineCore(c, now, n, b), RotateCore(c, now, n)} :
           d.revision = c.revision /\ d.reference = c.reference
BY DEF CoreState, AdvanceCore, ObserveCore, ObserveBatchCore, QuarantineCore, RotateCore

\* Nor does a refresh.
LEMMA RefreshKeepsRevision ==
  ASSUME IInv, NEW now
  PROVE  /\ RefreshedView(now).core.revision = core.revision
         /\ RefreshedView(now).core.reference = core.reference
<1>1. core \in CoreState
  BY DEF IInv, CoreOK
<1>2. CASE Rotates
  BY <1>1, <1>2, RevisionKept DEF RefreshedView, RotatedView
<1>3. CASE ~Rotates
  BY <1>3 DEF RefreshedView, CurrentView
<1> QED
  BY <1>2, <1>3

\* Nor does the commit of a batch.
LEMMA CommitKeepsRevision ==
  ASSUME IInv, NEW upd, NEW now, NEW quarantine, CommitBatch(upd, now, quarantine, CurrentView)
  PROVE  core'.revision = core.revision /\ core'.reference = core.reference
<1>1. core \in CoreState /\ CurrentView.core = core
  BY DEF IInv, CoreOK, CurrentView
<1>2. \/ core' = QuarantineCore(core, now, ActiveAfter(upd), ledger.health > 0)
      \/ core' = ObserveCore(core, now, ActiveAfter(upd))
      \/ core' = ObserveBatchCore(core, now, CellBefore, ActiveAfter(upd))
  BY <1>1 DEF CommitBatch, ObservedCore, ObserveReplacementCore
<1> QED
  BY <1>1, <1>2, RevisionKept

\* Nor does an admission.
LEMMA AdmissionKeepsRevision ==
  ASSUME IInv, NEW r \in Req, AdmitNew(r)
  PROVE  core'.revision = core.revision /\ core'.reference = core.reference
<1>1. PICK now \in Readings : core' = CoreAtAdmission(r, now, WaitingCount, RefreshedView(now))
  BY DEF AdmitNew, AdmitRequest
<1> DEFINE c == RefreshedView(now).core
<1>2. c \in CoreState /\ c.revision = core.revision /\ c.reference = core.reference
  <2>1. now \in Nat
    BY AdmissionInputs DEF IInv
  <2> QED
    BY <2>1, CoreRefresh, RefreshKeepsRevision DEF IInv, CoreOK
<1>3. \/ core' = AdvanceCore(QuarantineCore(c, now, decode.active, TRUE), now)
      \/ core' = AdvanceCore(c, now)
  BY <1>1 DEF CoreAtAdmission
<1> HIDE DEF c
<1> QED
  BY <1>2, <1>3 DEF AdvanceCore, QuarantineCore, CoreState

\* Only a patch moves the policy, and only a read what a client holds.
LEMMA PolicyKept ==
  ASSUME IInv, [Next]_vars, ~(\E cl \in Clients : PatchPolicy(cl))
  PROVE  /\ core'.revision = core.revision /\ core'.reference = core.reference
         /\ policy' = policy
         /\ seen' = seen \/ \E cl \in Clients : PolicySnapshot(cl)
<1>1. /\ core \in CoreState
      /\ \A now : /\ RefreshedView(now).core.revision = core.revision
                  /\ RefreshedView(now).core.reference = core.reference
      /\ \A now : /\ AdvanceCore(core, now).revision = core.revision
                  /\ AdvanceCore(core, now).reference = core.reference
  <2>1. core \in CoreState
    BY DEF IInv, CoreOK
  <2> QED
    BY <2>1, RefreshKeepsRevision DEF AdvanceCore, CoreState
<1>2. ASSUME NEW r \in Req, AdmitNew(r)
      PROVE  core'.revision = core.revision /\ core'.reference = core.reference
             /\ policy' = policy /\ seen' = seen
  BY <1>2, AdmissionKeepsRevision DEF AdmitNew, AdmitRequest
<1>3. ASSUME NEW r \in Req, AdmitAgain(r) \/ AdmitRaises(r) \/ Abort(r) \/ Retract(r)
      PROVE  core'.revision = core.revision /\ core'.reference = core.reference
             /\ policy' = policy /\ seen' = seen
  BY <1>1, <1>3 DEF AdmitAgain, AdmitRaises, Refresh, Abort, Retract, schedulerVars
<1>4. ASSUME NEW extend \in BOOLEAN, RunBatch(extend)
      PROVE  UNCHANGED <<core, policy, seen>>
  BY <1>4 DEF RunBatch, schedulerVars
<1>5. ASSUME ResultStep
      PROVE  core'.revision = core.revision /\ core'.reference = core.reference
             /\ policy' = policy /\ seen' = seen
  <2>1. CASE CommitResult \/ Terminated
    BY <2>1, CommitKeepsRevision DEF CommitResult, Terminated, CommitBatch
  <2>2. CASE RefreshResult
    BY <1>1, <2>2 DEF RefreshResult, Refresh
  <2>3. CASE PrefillCompleted
    BY <1>1, <2>3 DEF PrefillCompleted, AdvanceTo
  <2>4. CASE CollectUpdates \/ CommitRaises \/ TerminateRaises \/ NothingToRelease \/ PrefillRaises
             \/ \E r \in Req : ReleaseNext(r)
    BY <2>4 DEF CollectUpdates, CommitRaises, TerminateRaises, NothingToRelease, PrefillRaises,
       ReleaseNext, ReleaseRequest, schedulerVars
  <2> QED
    BY <1>5, <2>1, <2>2, <2>3, <2>4 DEF ResultStep
<1>6. ASSUME NEW cl \in Clients, PolicySnapshot(cl)
      PROVE  core'.revision = core.revision /\ core'.reference = core.reference
             /\ policy' = policy
  <2>1. core' = AdvanceCore(RefreshedView(clock).core, clock) /\ policy' = policy
    BY <1>6 DEF PolicySnapshot
  <2>2. RefreshedView(clock).core \in CoreState
    BY CoreRefresh DEF IInv, NativeOK, CoreOK
  <2> QED
    BY <1>1, <2>1, <2>2, RevisionKept
<1>7. ASSUME TelemetrySnapshot \/ RefreshIdentity \/ Tick
      PROVE  core'.revision = core.revision /\ core'.reference = core.reference
             /\ policy' = policy /\ seen' = seen
  BY <1>1, <1>7 DEF TelemetrySnapshot, AdvanceTo, RefreshIdentity, Refresh, Tick, schedulerVars
<1>8. ASSUME NEW i \in Identities, ChangeIdentity(i)
      PROVE  UNCHANGED <<core, policy, seen>>
  BY <1>8 DEF ChangeIdentity, schedulerVars
<1>9. ASSUME UNCHANGED vars PROVE UNCHANGED <<core, policy, seen>>
  BY <1>9 DEF vars, schedulerVars
<1> QED
  BY <1>2, <1>3, <1>4, <1>5, <1>6, <1>7, <1>8, <1>9 DEF Next

\* What a patch does to the revision, and what it takes.
LEMMA PatchFacts ==
  ASSUME IInv, SeenOK, NEW cl \in Clients, PatchPolicy(cl)
  PROVE  /\ seen' = seen
         /\ \/ /\ core'.revision = core.revision /\ core'.reference = core.reference
               /\ policy' = policy
            \/ /\ core'.revision = core.revision + 1
               /\ seen[cl].epoch = core'.epoch /\ seen[cl].revision = core.revision
<1> DEFINE c == RefreshedView(clock).core
<1>1. c \in CoreState /\ c.revision = core.revision /\ c.reference = core.reference
  BY CoreRefresh, RefreshKeepsRevision DEF IInv, NativeOK, CoreOK
<1>2. PICK reference \in References, limits \in Policies :
        UpdatePolicy(seen[cl].epoch, seen[cl].revision, reference, limits, RefreshedView(clock))
  BY DEF PatchPolicy
<1>3. seen' = seen
  BY DEF PatchPolicy
<1>4. \/ core' = c /\ policy' = policy
      \/ /\ core' = UpdateReferenceCore(c, reference)
         /\ seen[cl].epoch = c.epoch /\ seen[cl].revision = c.revision
  BY <1>2 DEF UpdatePolicy, UpdateReferenceAccepts
<1> HIDE DEF c
<1>5. /\ UpdateReferenceCore(c, reference).revision = c.revision + 1
      /\ UpdateReferenceCore(c, reference).epoch = c.epoch
  BY <1>1 DEF UpdateReferenceCore, CoreState
<1> QED
  BY <1>1, <1>3, <1>4, <1>5

\* What the clients hold stays true while others read and patch.
LEMMA SeenStep == IInv /\ SeenOK /\ [Next]_vars => SeenOK'
<1> SUFFICES ASSUME IInv, SeenOK, [Next]_vars PROVE SeenOK'
  OBVIOUS
<1>1. core \in CoreState /\ core' \in CoreState /\ policy \in Policies
  BY InvariantStep DEF IInv, CoreOK, NativeOK
<1>2. core.revision \in Nat /\ core.reference \in Nat /\ core.epoch \in Nat
  BY <1>1 DEF CoreState
<1>3. \A cl \in Clients : seen[cl].revision \in Nat
  BY DEF SeenOK
<1>4. CASE \E cl \in Clients : PatchPolicy(cl)
  <2>1. PICK cl \in Clients : PatchPolicy(cl)
    BY <1>4
  <2>2. /\ seen' = seen
        /\ \/ /\ core'.revision = core.revision /\ core'.reference = core.reference
              /\ policy' = policy
           \/ core'.revision = core.revision + 1
    BY <2>1, PatchFacts
  <2>3. CASE core'.revision = core.revision /\ core'.reference = core.reference /\ policy' = policy
    BY <2>2, <2>3 DEF SeenOK
  <2>4. CASE core'.revision = core.revision + 1
    BY <1>2, <1>3, <2>2, <2>4 DEF SeenOK
  <2> QED
    BY <2>2, <2>3, <2>4
<1>5. CASE ~(\E cl \in Clients : PatchPolicy(cl))
  <2>1. /\ core'.revision = core.revision /\ core'.reference = core.reference
        /\ policy' = policy
        /\ seen' = seen \/ \E cl \in Clients : PolicySnapshot(cl)
    BY <1>5, PolicyKept
  <2>2. CASE seen' = seen
    BY <2>1, <2>2 DEF SeenOK
  <2>3. ASSUME NEW cl \in Clients, PolicySnapshot(cl) PROVE SeenOK'
    <3> DEFINE view == [PolicyView EXCEPT !.epoch = RefreshedView(clock).core.epoch]
    <3>1. seen' = [seen EXCEPT ![cl] = view]
      BY <2>3 DEF PolicySnapshot
    <3>2. RefreshedView(clock).core.epoch \in Nat
      BY CoreRefresh DEF IInv, NativeOK, CoreOK, CoreState
    <3>3. /\ view \in [epoch : Nat, revision : Nat, reference : Nat, limits : Policies]
          /\ view.revision = core.revision /\ view.reference = core.reference
          /\ view.limits = policy
      BY <1>1, <1>2, <3>2 DEF PolicyView
    <3> HIDE DEF view
    <3> QED
      BY <1>2, <2>1, <3>1, <3>3 DEF SeenOK
  <2> QED
    BY <2>1, <2>2, <2>3
<1> QED
  BY <1>4, <1>5

\* A patch is refused unless its client has read the policy in force, so no
\* administrator overwrites a change of another one unseen.
THEOREM PatchesAreNotLost == Spec => NoLostUpdate
<1>1. Init => SeenOK
  <2> SUFFICES ASSUME Init PROVE SeenOK
    OBVIOUS
  <2>1. core \in CoreState /\ policy \in Policies
    BY InvariantInit DEF IInv, CoreOK, NativeOK
  <2>2. seen = [cl \in Clients |-> PolicyView]
    BY DEF Init
  <2>3. PolicyView \in [epoch : Nat, revision : Nat, reference : Nat, limits : Policies]
        /\ PolicyView.revision = core.revision /\ PolicyView.reference = core.reference
        /\ PolicyView.limits = policy
    BY <2>1 DEF PolicyView, CoreState
  <2>4. core.revision \in Nat
    BY <2>1 DEF CoreState
  <2> QED
    BY <2>2, <2>3, <2>4 DEF SeenOK
<1>2. IInv /\ SeenOK /\ [Next]_vars =>
        [core'.revision # core.revision =>
           \E cl \in Clients : seen[cl] = [PolicyView EXCEPT !.epoch = core'.epoch]]_vars
  <2> SUFFICES ASSUME IInv, SeenOK, [Next]_vars, core'.revision # core.revision
               PROVE  \E cl \in Clients : seen[cl] = [PolicyView EXCEPT !.epoch = core'.epoch]
    OBVIOUS
  <2>1. PICK cl \in Clients : PatchPolicy(cl)
    BY PolicyKept
  <2>2. seen[cl].epoch = core'.epoch /\ seen[cl].revision = core.revision
    BY <2>1, PatchFacts
  <2>3. seen[cl].reference = core.reference /\ seen[cl].limits = policy
    BY <2>2 DEF SeenOK
  <2>4. seen[cl] = [epoch |-> seen[cl].epoch, revision |-> seen[cl].revision,
                    reference |-> seen[cl].reference, limits |-> seen[cl].limits]
    BY DEF SeenOK
  <2>5. [PolicyView EXCEPT !.epoch = core'.epoch] =
          [epoch |-> core'.epoch, revision |-> core.revision, reference |-> core.reference,
           limits |-> policy]
    BY DEF PolicyView
  <2> QED
    BY <2>2, <2>3, <2>4, <2>5
<1> QED
  BY <1>1, <1>2, SeenStep, Invariance, PTL DEF Spec, NoLostUpdate
=============================================================================
