-------------------------- MODULE SglangWorkProofs --------------------------
(***************************************************************************)
(* Proofs about the work a request stands for in SglangGovernor: who owns  *)
(* its reservation, which epoch it belongs to, how much of it there can be *)
(* at once, and when the core refuses to be told about it.  They rest on   *)
(* the invariant of SglangGovernorProofs and add what the steps of         *)
(* after_result leave in their local variables for the steps to come.      *)
(***************************************************************************)
EXTENDS SglangGovernorProofs, SetSums

-----------------------------------------------------------------------------
(* The invariant.                                                          *)

\* Requests of which a batch has computed something.
InBatch == InPhase({"chunked", "running"})

\* What the native scheduler owns holds a reservation; the only reservation
\* without an owner is the one whose enqueue has just failed.  Only owned
\* requests decode, and nobody has progress before the first batch.
OwnersOK ==
  /\ Owners \subseteq Live
  /\ Decoding \subseteq Owners
  /\ \A r \in Live \ Owners : r \in task.release /\ native[r].phase = "new"
  /\ \A r \in Req :
       native[r].phase \in {"new", "waiting"} \/ r \in HealthReq => progress[r] = NoProgress
  /\ \A r \in Decoding : progress[r].attached /\ ~progress[r].terminal

\* What after_result still has to do.  By the time a request is released its
\* progress says that it no longer decodes.
WorkOK ==
  /\ task.at = "idle" => task.release = {}
  /\ task.at = "prefill" => task.release = {}
  /\ task.at \in {"refresh", "collect"} =>
       task.release = {} /\ task.batch \subseteq InBatch /\ task.finished \subseteq task.batch
  /\ task.at = "commit" =>
       /\ DOMAIN task.updates \subseteq InBatch \ HealthReq
       /\ task.release \subseteq InBatch
       /\ \A r \in task.release \ HealthReq :
            r \in DOMAIN task.updates /\ task.updates[r].terminal
  /\ task.at = "terminate" =>
       task.release \subseteq InPhase({"retracted"}) \ HealthReq
  /\ task.at = "release" => task.release \cap Decoding = {}

OwnIInv == OwnersOK /\ WorkOK /\ EpochPure

\* The kinds of steps: those that move work on, and those that only read or
\* refresh and leave every request where it is.
LEMMA StepKinds ==
  ASSUME [Next]_vars
  PROVE  \/ \E r \in Req : AdmitNew(r)
         \/ \E extend \in BOOLEAN : RunBatch(extend)
         \/ \E r \in Req : Abort(r) \/ Retract(r)
         \/ CollectUpdates \/ CommitResult \/ Terminated \/ NothingToRelease
         \/ \E r \in Req : ReleaseNext(r)
         \/ /\ UNCHANGED <<ledger, decode, reservation, progress, native>>
            /\ \/ task' = task
               \/ task.at = "refresh" /\ task' = [task EXCEPT !.at = "collect"]
               \/ task.at = "prefill" /\ task' = IdleTask
<1>1. ASSUME NEW r \in Req, AdmitAgain(r) \/ AdmitRaises(r)
      PROVE  UNCHANGED <<ledger, decode, reservation, progress, native, task>>
  BY <1>1 DEF AdmitAgain, AdmitRaises, Refresh
<1>2. CASE RefreshResult \/ CommitRaises \/ TerminateRaises \/ PrefillRaises \/ PrefillCompleted
  BY <1>2 DEF RefreshResult, Refresh, CommitRaises, TerminateRaises, PrefillRaises,
     PrefillCompleted, AdvanceTo, AtStep, schedulerVars
<1>3. ASSUME NEW cl \in Clients, PolicySnapshot(cl) \/ PatchPolicy(cl)
      PROVE  UNCHANGED <<ledger, decode, reservation, progress, native, task>>
  BY <1>3 DEF PolicySnapshot, PatchPolicy
<1>4. CASE TelemetrySnapshot \/ RefreshIdentity \/ Tick
  BY <1>4 DEF TelemetrySnapshot, AdvanceTo, RefreshIdentity, Refresh, Tick, schedulerVars
<1>5. ASSUME NEW i \in Identities, ChangeIdentity(i)
      PROVE  UNCHANGED <<ledger, decode, reservation, progress, native, task>>
  BY <1>5 DEF ChangeIdentity, schedulerVars
<1>6. CASE UNCHANGED vars
  BY <1>6 DEF vars, schedulerVars
<1> QED
  BY <1>1, <1>2, <1>3, <1>4, <1>5, <1>6 DEF Next, ResultStep

\* The phases and the sets they define.
LEMMA PhaseSets ==
  ASSUME NativeOK
  PROVE  /\ Owners = InPhase({"waiting", "retracted", "chunked", "running"})
         /\ InBatch \subseteq Owners
         /\ \A r \in Req : native[r].phase \in Phases
BY DEF NativeOK, Owners, Running, WaitingOwners, InPhase, InBatch

-----------------------------------------------------------------------------
(* Ownership, action by action.                                            *)

\* An admitted request is queued, or is released by the step that follows.
LEMMA AdmitKeepsOwners ==
  ASSUME IInv, OwnersOK, WorkOK, NEW r \in Req, AdmitNew(r)
  PROVE  OwnersOK' /\ WorkOK'
<1>1. /\ task.release = {} /\ task.at = "idle" /\ native[r].phase = "new"
      /\ progress' = progress
  BY DEF AdmitNew, Idle, AdmitRequest, WorkOK
<1>2. /\ NativeOK /\ native \in [Req -> [phase : Phases, output : Nat]]
      /\ reservation \in [Req -> Reservations]
  BY DEF IInv, NativeOK, LedgerOK
<1>3. \/ reservation' = reservation /\ native' = native /\ task' = task
      \/ /\ \E res : res.status = "live" /\ reservation' = [reservation EXCEPT ![r] = res]
         /\ \/ native' = [native EXCEPT ![r].phase = "waiting"] /\ task' = task
            \/ native' = native /\ task' = [IdleTask EXCEPT !.at = "release", !.release = {r}]
  <2>1. PICK now \in Readings :
          \E reason \in Decisions(r, now, WaitingCount, RefreshedView(now)) :
            /\ AdmitRequest(r, now, WaitingCount, RefreshedView(now), reason)
            /\ IF reason \in AdmittingReasons THEN Enqueue(r) ELSE UNCHANGED <<native, task>>
    BY DEF AdmitNew
  <2>2. PICK reason \in Decisions(r, now, WaitingCount, RefreshedView(now)) :
          /\ AdmitRequest(r, now, WaitingCount, RefreshedView(now), reason)
          /\ IF reason \in AdmittingReasons THEN Enqueue(r) ELSE UNCHANGED <<native, task>>
    BY <2>1
  <2>3. CASE reason \in AdmittingReasons
    <3> DEFINE res == [status |-> "live", reason |-> reason, at |-> now,
                       epoch |-> RefreshedView(now).core.epoch]
    <3>1. reservation' = [reservation EXCEPT ![r] = res] /\ res.status = "live"
      BY <2>2, <2>3 DEF AdmitRequest
    <3> HIDE DEF res
    <3> QED
      BY <2>2, <2>3, <3>1 DEF Enqueue
  <2>4. CASE reason \notin AdmittingReasons
    BY <2>2, <2>4 DEF AdmitRequest
  <2> QED
    BY <2>3, <2>4
<1>4. Decoding' = Decoding /\ progress[r] = NoProgress /\ r \notin Decoding
  <2>1. progress[r] = NoProgress
    BY <1>1 DEF OwnersOK
  <2>2. r \notin Decoding
    BY <2>1 DEF Decoding, NoProgress
  <2>3. Decoding' = Decoding
    BY <1>1 DEF Decoding
  <2> QED
    BY <2>1, <2>2, <2>3
<1>5. CASE reservation' = reservation /\ native' = native /\ task' = task
  BY <1>1, <1>5 DEF OwnersOK, WorkOK, Owners, Running, WaitingOwners, InPhase, InBatch, Live, Decoding
<1>6. CASE /\ \E res : res.status = "live" /\ reservation' = [reservation EXCEPT ![r] = res]
           /\ native' = [native EXCEPT ![r].phase = "waiting"] /\ task' = task
  <2>1. Live' = Live \cup {r} /\ Owners' = Owners \cup {r}
    BY <1>2, <1>6 DEF Live, Owners, Running, WaitingOwners, InPhase
  <2>2. \A x \in Req \ {r} : native'[x] = native[x]
    BY <1>2, <1>6
  <2>3. OwnersOK'
    BY <1>1, <1>2, <1>4, <1>6, <2>1, <2>2 DEF OwnersOK
  <2>4. WorkOK'
    BY <1>1, <1>6 DEF WorkOK
  <2> QED
    BY <2>3, <2>4
<1>7. CASE /\ \E res : res.status = "live" /\ reservation' = [reservation EXCEPT ![r] = res]
           /\ native' = native /\ task' = [IdleTask EXCEPT !.at = "release", !.release = {r}]
  <2>1. Live' = Live \cup {r} /\ Owners' = Owners
    BY <1>2, <1>7 DEF Live, Owners, Running, WaitingOwners, InPhase
  <2>2. task'.release = {r} /\ task'.at = "release"
    BY <1>7 DEF IdleTask
  <2>3. OwnersOK'
    <3>1. Live \ Owners = {}
      BY <1>1 DEF OwnersOK
    <3>2. Owners' \subseteq Live' /\ Decoding' \subseteq Owners'
      BY <1>4, <2>1 DEF OwnersOK
    <3>3. \A x \in Live' \ Owners' : x \in task'.release /\ native'[x].phase = "new"
      BY <1>1, <1>7, <2>1, <2>2, <3>1
    <3> QED
      BY <1>1, <1>4, <1>7, <3>2, <3>3 DEF OwnersOK
  <2>4. WorkOK'
    BY <1>4, <2>2 DEF WorkOK
  <2> QED
    BY <2>3, <2>4
<1> QED
  BY <1>3, <1>5, <1>6, <1>7

\* A batch is formed of owners and leaves them owners.
LEMMA BatchFacts ==
  ASSUME IInv, NEW extend \in BOOLEAN, RunBatch(extend)
  PROVE  \E B \in SUBSET Owners : \E F \in SUBSET B :
           /\ task' = [IdleTask EXCEPT !.at = "refresh", !.now = clock, !.batch = B,
                                       !.finished = F, !.extend = extend]
           /\ \A r \in B : native'[r].phase \in {"chunked", "running"}
           /\ \A r \in Req \ B : native'[r] = native[r]
           /\ \/ B = Chunked \/ B = Running
              \/ /\ Chunked \subseteq B
                 /\ Cardinality(Running) + Cardinality(B) <= policy.max_running
<1>1. PICK B \in (IF extend THEN ExtendBatches ELSE DecodeBatches) :
        \E g \in Gains(B, extend) : \E F \in Finishes(B, g) :
          /\ native' = NativeAfter(B, g)
          /\ task' = [IdleTask EXCEPT !.at = "refresh", !.now = clock, !.batch = B,
                                      !.finished = F, !.extend = extend]
  BY DEF RunBatch
<1>2. PICK g \in Gains(B, extend) : \E F \in Finishes(B, g) :
        /\ native' = NativeAfter(B, g)
        /\ task' = [IdleTask EXCEPT !.at = "refresh", !.now = clock, !.batch = B,
                                    !.finished = F, !.extend = extend]
  BY <1>1
<1>3. PICK F \in Finishes(B, g) :
        /\ native' = NativeAfter(B, g)
        /\ task' = [IdleTask EXCEPT !.at = "refresh", !.now = clock, !.batch = B,
                                    !.finished = F, !.extend = extend]
  BY <1>2
<1>4. B \in SUBSET Owners
  BY DEF ExtendBatches, DecodeBatches, Owners
<1>5. Owners \in SUBSET Req
  BY DEF Owners, Running, WaitingOwners, InPhase
<1>6. F \in SUBSET B
  BY DEF Finishes
<1>7. \A r \in B : native'[r].phase \in {"chunked", "running"}
  BY <1>2, <1>4, <1>5 DEF NativeAfter
<1>8. \A r \in Req \ B : native'[r] = native[r]
  BY <1>2 DEF NativeAfter
<1>9. \/ B = Chunked \/ B = Running
      \/ /\ Chunked \subseteq B
         /\ Cardinality(Running) + Cardinality(B) <= policy.max_running
  BY DEF ExtendBatches, DecodeBatches
<1> QED
  BY <1>3, <1>4, <1>6, <1>7, <1>8, <1>9

\* A batch, new or continued, leaves the work to the request it is done for.
LEMMA BatchKeepsOwners ==
  ASSUME IInv, OwnersOK, WorkOK, NEW extend \in BOOLEAN, RunBatch(extend)
  PROVE  OwnersOK' /\ WorkOK'
<1>1. PICK B \in SUBSET Owners : \E F \in SUBSET B :
           /\ task' = [IdleTask EXCEPT !.at = "refresh", !.now = clock, !.batch = B,
                                       !.finished = F, !.extend = extend]
           /\ \A r \in B : native'[r].phase \in {"chunked", "running"}
           /\ \A r \in Req \ B : native'[r] = native[r]
  BY BatchFacts
<1>2. PICK F \in SUBSET B :
           task' = [IdleTask EXCEPT !.at = "refresh", !.now = clock, !.batch = B,
                                    !.finished = F, !.extend = extend]
  BY <1>1
<1>3. task.release = {} /\ Live \ Owners = {}
  BY DEF RunBatch, Idle, WorkOK, OwnersOK
<1>4. /\ reservation' = reservation /\ progress' = progress
      /\ task'.at = "refresh" /\ task'.batch = B /\ task'.finished = F /\ task'.release = {}
  BY <1>2 DEF RunBatch, schedulerVars, IdleTask
<1>5. Live' = Live /\ Decoding' = Decoding
  BY <1>4 DEF Live, Decoding
<1>6. Owners' = Owners
  BY <1>1 DEF Owners, Running, WaitingOwners, InPhase
<1>7. B \subseteq InBatch'
  <2>1. Owners \in SUBSET Req
    BY DEF Owners, Running, WaitingOwners, InPhase
  <2> QED
    BY <1>1, <2>1 DEF InBatch, InPhase
<1>8. OwnersOK'
  <2>1. \A r \in Req : native'[r].phase \in {"new", "waiting"} => native'[r] = native[r]
    BY <1>1
  <2> QED
    BY <1>3, <1>4, <1>5, <1>6, <2>1 DEF OwnersOK
<1>9. WorkOK'
  BY <1>4, <1>7 DEF WorkOK
<1> QED
  BY <1>8, <1>9

\* Retraction moves an owner back; an abort only says what is to follow.
LEMMA AbortKeepsOwners ==
  ASSUME IInv, OwnersOK, WorkOK, NEW r \in Req, Abort(r) \/ Retract(r)
  PROVE  OwnersOK' /\ WorkOK'
<1>1. /\ task.release = {} /\ task.at = "idle" /\ Live \ Owners = {}
      /\ reservation' = reservation /\ progress' = progress
  BY DEF Abort, Retract, Idle, WorkOK, OwnersOK, schedulerVars
<1>2. Live' = Live /\ Decoding' = Decoding
  BY <1>1 DEF Live, Decoding
<1>3. native \in [Req -> [phase : Phases, output : Nat]]
  BY DEF IInv, NativeOK
<1>4. CASE Retract(r)
  <2>1. native' = [native EXCEPT ![r].phase = "retracted"] /\ native[r].phase = "running"
        /\ task' = task
    BY <1>4 DEF Retract
  <2>2. Owners' = Owners
    BY <1>3, <2>1 DEF Owners, Running, WaitingOwners, InPhase
  <2>3. \A x \in Req : native'[x].phase \in {"new", "waiting"} => native'[x] = native[x]
    BY <1>3, <2>1
  <2>4. OwnersOK'
    BY <1>1, <1>2, <2>1, <2>2, <2>3 DEF OwnersOK
  <2> QED
    BY <1>1, <2>1, <2>4 DEF WorkOK
<1>5. CASE Abort(r)
  <2>1. /\ native' = native /\ native[r].phase \in {"waiting", "retracted"}
        /\ task'.at = IF progress[r].attached THEN "terminate" ELSE "release"
        /\ task'.release = {r}
    BY <1>5 DEF Abort, IdleTask
  <2>2. Owners' = Owners
    BY <2>1 DEF Owners, Running, WaitingOwners, InPhase
  <2>3. OwnersOK'
    BY <1>1, <1>2, <2>1, <2>2 DEF OwnersOK
  <2>4. progress[r].attached => native[r].phase = "retracted" /\ r \notin HealthReq
    BY <2>1 DEF OwnersOK, NoProgress
  <2>5. ~progress[r].attached => r \notin Decoding
    BY DEF OwnersOK
  <2>6. WorkOK'
    BY <1>2, <2>1, <2>4, <2>5 DEF WorkOK, InPhase
  <2> QED
    BY <2>3, <2>6
<1> QED
  BY <1>4, <1>5

\* The batch is turned into updates: every request it finished will be
\* committed as terminal before it is released.
LEMMA CollectKeepsOwners ==
  ASSUME IInv, OwnersOK, WorkOK, CollectUpdates
  PROVE  OwnersOK' /\ WorkOK'
<1>1. /\ task.release = {} /\ task.batch \subseteq InBatch /\ task.finished \subseteq task.batch
      /\ reservation' = reservation /\ native' = native
      /\ progress' = [r \in Req |-> IF r \in Reported THEN [progress[r] EXCEPT !.attached = TRUE]
                                    ELSE progress[r]]
      /\ task'.at = IF Reported # {} \/ BatchContaminated THEN "commit" ELSE "release"
      /\ task'.updates = BatchUpdates /\ task'.release = TerminalRequests
  <2>1. task \in Tasks
    BY DEF IInv, TaskOK
  <2> QED
    BY <2>1 DEF CollectUpdates, AtStep, WorkOK, Tasks
<1>2. Reported \subseteq InBatch \ HealthReq /\ Reported \subseteq Req
  BY <1>1 DEF Reported, InBatch, InPhase
<1>3. progress \in [Req -> Progresses]
  BY DEF IInv, DecodeOK
<1>4. /\ \A r \in Req : /\ progress'[r].decoding = progress[r].decoding
                        /\ progress'[r].terminal = progress[r].terminal
                        /\ progress[r].attached => progress'[r].attached
      /\ \A r \in Req \ Reported : progress'[r] = progress[r]
  BY <1>1, <1>3 DEF Progresses
<1>5. Decoding' = Decoding /\ Live' = Live /\ Owners' = Owners
  BY <1>1, <1>4 DEF Decoding, Live, Owners, Running, WaitingOwners, InPhase
<1>6. OwnersOK'
  <2>1. Live' \ Owners' = {}
    BY <1>1, <1>5 DEF OwnersOK
  <2>2. \A r \in Req : native'[r].phase \in {"new", "waiting"} \/ r \in HealthReq => progress'[r] = NoProgress
    BY <1>1, <1>2, <1>4 DEF OwnersOK, InBatch, InPhase
  <2>3. Decoding \subseteq Req
    BY DEF Decoding
  <2>4. \A r \in Decoding' : progress'[r].attached /\ ~progress'[r].terminal
    BY <1>4, <1>5, <2>3 DEF OwnersOK
  <2> QED
    BY <1>5, <2>1, <2>2, <2>4 DEF OwnersOK
<1>7. InBatch' = InBatch
  BY <1>1 DEF InBatch, InPhase
<1>8. \A r \in TerminalRequests : r \in task.batch /\ (r \notin HealthReq => r \in Reported)
  BY <1>1 DEF TerminalRequests
<1>9. /\ DOMAIN BatchUpdates = Reported
      /\ \A r \in TerminalRequests \ HealthReq : BatchUpdates[r].terminal
  BY <1>8 DEF BatchUpdates, TerminalRequests
<1>10. CASE Reported # {} \/ BatchContaminated
  <2>1. task'.at = "commit" /\ task'.updates = BatchUpdates /\ task'.release = TerminalRequests
    BY <1>1, <1>10
  <2>2. DOMAIN task'.updates \subseteq InBatch' \ HealthReq
    BY <1>2, <1>7, <1>9, <2>1
  <2>3. task'.release \subseteq InBatch'
    BY <1>1, <1>7, <1>8, <2>1
  <2>4. \A r \in task'.release \ HealthReq : r \in DOMAIN task'.updates /\ task'.updates[r].terminal
    BY <1>8, <1>9, <2>1
  <2> QED
    BY <1>6, <2>1, <2>2, <2>3, <2>4 DEF WorkOK
<1>11. CASE Reported = {} /\ ~BatchContaminated
  <2>1. TerminalRequests = {}
    BY <1>8, <1>11 DEF BatchContaminated
  <2>2. task'.at = "release" /\ task'.release = {}
    BY <1>1, <1>11, <2>1
  <2> QED
    BY <1>6, <2>2 DEF WorkOK
<1> QED
  BY <1>10, <1>11

\* A commit makes only requests of its batch decode, and none that it ends.
LEMMA CommitProgress ==
  ASSUME DecodeOK, OwnersOK, NEW upd \in Updates, NEW now,
         progress' = ProgressAfter(upd, now)
  PROVE  /\ Decoding' \subseteq Decoding \cup DOMAIN upd
         /\ \A r \in Decoding' : progress'[r].attached /\ ~progress'[r].terminal
         /\ \A r \in DOMAIN upd : upd[r].terminal => r \notin Decoding'
         /\ \A r \in Req \ DOMAIN upd : progress'[r] = progress[r]
<1>1. \A r \in DOMAIN upd : r \in Req /\ upd[r].terminal \in BOOLEAN
  BY DEF Updates, Update
<1>2. \A r \in Req : r \notin Counted(upd) => progress'[r] = progress[r]
  BY DEF ProgressAfter
<1>3. \A r \in Req : r \in Counted(upd) =>
        /\ r \in DOMAIN upd
        /\ progress'[r].attached
        /\ progress'[r].terminal = upd[r].terminal
        /\ progress'[r].decoding => ~upd[r].terminal
  BY DEF ProgressAfter, Counted
<1>4. \A r \in DOMAIN upd : r \notin Counted(upd) => progress[r].terminal
  BY DEF Counted
<1>5. \A r \in Req : r \in Decoding => progress[r].attached /\ ~progress[r].terminal
  BY DEF OwnersOK
<1>6. \A r \in Req : /\ r \in Decoding <=> progress[r].decoding
                     /\ r \in Decoding' <=> progress'[r].decoding
  BY DEF Decoding
<1>7. Decoding' \subseteq Req
  BY DEF Decoding
<1>8. \A r \in Req \ DOMAIN upd : r \notin Counted(upd)
  BY DEF Counted
<1> QED
  BY <1>1, <1>2, <1>3, <1>4, <1>5, <1>6, <1>7, <1>8

\* So do the commit of a result and the termination that follows it.
LEMMA CommitKeepsOwners ==
  ASSUME IInv, OwnersOK, WorkOK, CommitResult \/ Terminated
  PROVE  OwnersOK' /\ WorkOK'
<1>1. PICK upd \in Updates :
        /\ progress' = ProgressAfter(upd, task.now)
        /\ DOMAIN upd \subseteq Owners \ HealthReq
        /\ DOMAIN upd \cap InPhase({"waiting"}) = {}
        /\ task.release \subseteq Owners
        /\ \A r \in task.release \ HealthReq : r \in DOMAIN upd /\ upd[r].terminal
  <2>1. /\ task.updates \in Updates /\ TerminalUpdate \in Updates
        /\ NativeOK
    BY UpdateTypes DEF IInv, TaskOK, Tasks
  <2>2. InBatch \subseteq Owners /\ InPhase({"retracted"}) \subseteq Owners
    BY DEF InBatch, InPhase, Owners, Running, WaitingOwners
  <2>3. CASE CommitResult
    <3>1. /\ progress' = ProgressAfter(task.updates, task.now)
          /\ task.at = "commit"
      BY <2>3 DEF CommitResult, AtStep, CommitBatch
    <3>2. InBatch \cap InPhase({"waiting"}) = {}
      BY DEF InBatch, InPhase
    <3> QED
      BY <2>1, <2>2, <3>1, <3>2 DEF WorkOK
  <2>4. CASE Terminated
    <3>1. /\ progress' = ProgressAfter(TerminalUpdate, task.now)
          /\ task.at = "terminate"
      BY <2>4 DEF Terminated, AtStep, CommitBatch
    <3>2. /\ DOMAIN TerminalUpdate = task.release
          /\ \A r \in task.release : TerminalUpdate[r].terminal
      BY DEF TerminalUpdate
    <3>3. InPhase({"retracted"}) \cap InPhase({"waiting"}) = {}
      BY DEF InPhase
    <3> QED
      BY <2>1, <2>2, <3>1, <3>2, <3>3 DEF WorkOK
  <2> QED
    BY <2>3, <2>4
<1>2. /\ reservation' = reservation /\ native' = native
      /\ task'.at = "release" /\ task'.release = task.release
  <2>1. task \in Tasks
    BY DEF IInv, TaskOK
  <2> QED
    BY <2>1 DEF CommitResult, Terminated, CommitBatch, Tasks
<1>3. Live' = Live /\ Owners' = Owners /\ Owners \subseteq Req
  BY <1>2 DEF Live, Owners, Running, WaitingOwners, InPhase
<1>4. DecodeOK
  BY DEF IInv
<1>5. /\ Decoding' \subseteq Decoding \cup DOMAIN upd
      /\ \A r \in Decoding' : progress'[r].attached /\ ~progress'[r].terminal
      /\ \A r \in DOMAIN upd : upd[r].terminal => r \notin Decoding'
      /\ \A r \in Req \ DOMAIN upd : progress'[r] = progress[r]
  BY <1>1, <1>4, CommitProgress
<1>6. \A r \in Req : native'[r].phase \in {"new", "waiting"} \/ r \in HealthReq => progress'[r] = NoProgress
  <2>1. \A r \in DOMAIN upd : r \notin HealthReq /\ native[r].phase \notin {"new", "waiting"}
    BY <1>1 DEF Owners, Running, WaitingOwners, InPhase
  <2> QED
    BY <1>2, <1>5, <2>1 DEF OwnersOK
<1>7. OwnersOK'
  <2>1. Decoding' \subseteq Owners'
    BY <1>1, <1>3, <1>5 DEF OwnersOK
  <2> QED
    BY <1>2, <1>3, <1>5, <1>6, <2>1 DEF OwnersOK
<1>8. task.release \cap Decoding' = {}
  <2>1. \A r \in task.release \cap HealthReq : r \notin Decoding'
    <3>1. \A r \in HealthReq \cap Req : progress'[r] = NoProgress
      BY <1>6
    <3>2. NoProgress.decoding = FALSE
      BY DEF NoProgress
    <3> QED
      BY <1>1, <1>3, <3>1, <3>2 DEF Decoding
  <2> QED
    BY <1>1, <1>5, <2>1
<1> QED
  BY <1>2, <1>7, <1>8 DEF WorkOK

\* A release ends the ownership with the reservation.
LEMMA ReleaseKeepsOwners ==
  ASSUME IInv, OwnersOK, WorkOK, NEW r \in Req, ReleaseNext(r)
  PROVE  OwnersOK' /\ WorkOK'
<1>1. /\ task.at = "release" /\ r \in task.release /\ r \notin Decoding
      /\ native' = [native EXCEPT ![r].phase = "over"]
      /\ progress' = progress
      /\ IF reservation[r].status = "live"
         THEN reservation' = [reservation EXCEPT ![r].status = "released"]
         ELSE reservation' = reservation
  BY DEF ReleaseNext, AtStep, ReleaseRequest, WorkOK
<1>2. /\ native \in [Req -> [phase : Phases, output : Nat]]
      /\ reservation \in [Req -> Reservations] /\ task \in Tasks
  BY DEF IInv, NativeOK, LedgerOK, TaskOK
<1>3. Live' = Live \ {r}
  BY <1>1, <1>2 DEF Live, Reservations
<1>4. Owners' = Owners \ {r}
  BY <1>1, <1>2 DEF Owners, Running, WaitingOwners, InPhase
<1>5. Decoding' = Decoding
  BY <1>1 DEF Decoding
<1>6. \A x \in Req \ {r} : native'[x] = native[x]
  BY <1>1, <1>2
<1>7. native'[r].phase = "over"
  BY <1>1, <1>2
<1>8. \/ task'.release = task.release \ {r} /\ task'.at = "release"
      \/ task.release = {r} /\ task'.release = {} /\ task'.at \in {"idle", "prefill"}
  BY <1>2 DEF ReleaseNext, AtStep, IdleTask, Tasks
<1>9. OwnersOK'
  <2>1. \A x \in Live' \ Owners' : x \in task'.release /\ native'[x].phase = "new"
    <3>1. Live \subseteq Req
      BY DEF Live
    <3> QED
      BY <1>3, <1>4, <1>6, <1>8, <3>1 DEF OwnersOK
  <2>2. Owners' \subseteq Live' /\ Decoding' \subseteq Owners'
    BY <1>1, <1>3, <1>4, <1>5 DEF OwnersOK
  <2>3. \A x \in Req :
          native'[x].phase \in {"new", "waiting"} \/ x \in HealthReq => progress'[x] = NoProgress
    BY <1>1, <1>6, <1>7 DEF OwnersOK
  <2> QED
    BY <1>1, <1>5, <2>1, <2>2, <2>3 DEF OwnersOK
<1>10. WorkOK'
  BY <1>1, <1>5, <1>8 DEF WorkOK
<1> QED
  BY <1>9, <1>10

\* The steps that leave every request where it is.
LEMMA OtherKeepsOwners ==
  ASSUME IInv, OwnersOK, WorkOK, UNCHANGED <<reservation, progress, native>>,
         \/ task' = task
         \/ task.at = "refresh" /\ task' = [task EXCEPT !.at = "collect"]
         \/ task.at = "prefill" /\ task' = IdleTask
         \/ NothingToRelease
  PROVE  OwnersOK' /\ WorkOK'
<1>1. /\ Live' = Live /\ Owners' = Owners /\ Decoding' = Decoding /\ InBatch' = InBatch
      /\ InPhase({"retracted"})' = InPhase({"retracted"})
  BY DEF Live, Owners, Running, WaitingOwners, InPhase, InBatch, Decoding
<1>2. task \in Tasks
  BY DEF IInv, TaskOK
<1>3. \/ task' = task
      \/ /\ task.at = "refresh" /\ task'.at = "collect" /\ task'.release = task.release
         /\ task'.batch = task.batch /\ task'.finished = task.finished
      \/ task.release = {} /\ task'.release = {} /\ task'.at \in {"idle", "prefill"}
  <2>1. CASE task.at = "refresh" /\ task' = [task EXCEPT !.at = "collect"]
    BY <1>2, <2>1 DEF Tasks
  <2>2. CASE task.at = "prefill" /\ task' = IdleTask
    BY <2>2 DEF IdleTask, WorkOK
  <2>3. CASE NothingToRelease
    BY <2>3 DEF NothingToRelease, IdleTask
  <2> QED
    BY <2>1, <2>2, <2>3
<1>4. task'.release = task.release
  BY <1>3 DEF WorkOK
<1>5. OwnersOK'
  BY <1>1, <1>4 DEF OwnersOK
<1>6. WorkOK'
  BY <1>1, <1>3 DEF WorkOK
<1> QED
  BY <1>5, <1>6

\* Ownership survives every step.
LEMMA OwnersStep ==
  ASSUME IInv, OwnersOK, WorkOK, [Next]_vars
  PROVE  OwnersOK' /\ WorkOK'
<1>1. CASE NothingToRelease
  <2>1. UNCHANGED <<reservation, progress, native>>
    BY <1>1 DEF NothingToRelease, schedulerVars
  <2> QED
    BY <1>1, <2>1, OtherKeepsOwners
<1>2. CASE /\ UNCHANGED <<ledger, decode, reservation, progress, native>>
           /\ \/ task' = task
              \/ task.at = "refresh" /\ task' = [task EXCEPT !.at = "collect"]
              \/ task.at = "prefill" /\ task' = IdleTask
  BY <1>2, OtherKeepsOwners
<1> QED
  BY <1>1, <1>2, StepKinds, AdmitKeepsOwners, BatchKeepsOwners, AbortKeepsOwners,
     CollectKeepsOwners, CommitKeepsOwners, ReleaseKeepsOwners
\* Before the first request nothing is owned and nothing is to be done.
LEMMA OwnersInit == Init => OwnersOK /\ WorkOK /\ EpochPure
<1> SUFFICES ASSUME Init PROVE OwnersOK /\ WorkOK /\ EpochPure
  OBVIOUS
<1>1. /\ reservation = [r \in Req |-> NoReservation] /\ progress = [r \in Req |-> NoProgress]
      /\ native = [r \in Req |-> [phase |-> "new", output |-> 0]] /\ task = IdleTask
  BY DEF Init, SchedulerInit
<1>2. Live = {} /\ Decoding = {} /\ Owners = {}
  BY <1>1 DEF Live, Decoding, Owners, Running, WaitingOwners, InPhase, NoReservation, NoProgress
<1>3. task.at = "idle" /\ task.release = {}
  BY <1>1 DEF IdleTask
<1> QED
  BY <1>1, <1>2, <1>3 DEF OwnersOK, WorkOK, EpochPure

-----------------------------------------------------------------------------
(* Epochs.  A step may refresh the identity first; what it then does to    *)
(* the core starts from the view the refresh left.                         *)

\* The view of a method is the state itself or, when nothing is held back by
\* work in flight, that of a new epoch.
Viewed(v) ==
  \/ v.core = core /\ v.learned = learned /\ v.evidence = evidence
  \/ /\ ~Busy
     /\ \E now \in 0 .. clock :
          /\ v.core = RotateCore(core, now, decode.active)
          /\ v.learned = NewLearned
          /\ v.evidence = [pending |-> NoPending, surface_time |-> now, dirty |-> FALSE]

\* The core is left as it is, or only its policy is patched.
Touched(v) ==
  /\ \/ core' = v.core
     \/ \E reference \in References : core' = UpdateReferenceCore(v.core, reference)
  /\ learned' = v.learned /\ evidence' = v.evidence /\ decode' = decode
  /\ ledger'.health <= ledger.health

\* The clock of the core moves on.
ReadAt(v, now) ==
  /\ v.core.last_time <= now
  /\ core' = AdvanceCore(v.core, now) /\ learned' = AdvanceLearned(v.learned, v.core, now)
  /\ evidence' = v.evidence /\ UNCHANGED <<ledger, decode>>

\* A request is decided upon.
DecidedAt(v, r, now) ==
  \E reason \in Decisions(r, now, WaitingCount, v) :
    AdmitRequest(r, now, WaitingCount, v, reason)

\* A batch is committed, with the requests that owe it their progress.
CommittedAt(upd, quarantine) ==
  /\ CommitBatch(upd, task.now, quarantine, CurrentView)
  /\ \/ CommitResult /\ upd = task.updates /\ quarantine = task.contaminated
     \/ Terminated /\ upd = TerminalUpdate /\ quarantine = FALSE

Moved(v) ==
  \/ Touched(v)
  \/ \E now \in 0 .. clock : ReadAt(v, now)
  \/ \E r \in Req, now \in 0 .. clock : AdmitNew(r) /\ DecidedAt(v, r, now)
  \/ /\ v = CurrentView
     /\ \E upd \in Updates, quarantine \in BOOLEAN : CommittedAt(upd, quarantine)

\* Clocks that are never ahead of the scheduler's.
TimeOK == core.last_time <= clock /\ task.now <= clock

\* A view the engine refreshes is of the ledger and of a time that has passed.
LEMMA ViewedRefresh ==
  ASSUME NEW now \in 0 .. clock
  PROVE  Viewed(RefreshedView(now))
<1>1. CASE Rotates
  BY <1>1 DEF Rotates, RefreshedView, RotatedView, Viewed
<1>2. CASE ~Rotates
  BY <1>2 DEF RefreshedView, CurrentView, Viewed
<1> QED
  BY <1>1, <1>2

\* A reading of the clock is never ahead of it.
LEMMA ReadingsBelow ==
  ASSUME NativeOK
  PROVE  Readings \subseteq 0 .. clock /\ clock \in 0 .. clock
BY DEF NativeOK, Readings

\* Every step is of one of these four kinds.
LEMMA CoreKinds ==
  ASSUME IInv, TimeOK, [Next]_vars
  PROVE  \E v : Viewed(v) /\ Moved(v)
<1> USE DEF Moved
<1>1. Viewed(CurrentView)
  BY DEF Viewed, CurrentView
<1>2. Readings \subseteq 0 .. clock /\ clock \in 0 .. clock /\ task.now \in 0 .. clock
  BY ReadingsBelow DEF IInv, TimeOK, NativeOK, TaskOK, Tasks
<1>3. core \in CoreState /\ ledger.health \in Nat
  BY DEF IInv, CoreOK, LedgerOK, Ledgers
<1>4. ASSUME UNCHANGED <<core, learned, evidence, decode>>, ledger'.health <= ledger.health
      PROVE  Touched(CurrentView)
  BY <1>4 DEF Touched, CurrentView
<1>5. ASSUME NEW now \in 0 .. clock, Refresh(now) PROVE Touched(RefreshedView(now))
  BY <1>3, <1>5 DEF Touched, Refresh
<1>6. ASSUME NEW r \in Req, AdmitNew(r) PROVE \E v : Viewed(v) /\ Moved(v)
  <2>1. PICK now \in Readings : DecidedAt(RefreshedView(now), r, now)
    BY <1>6 DEF AdmitNew, DecidedAt
  <2> QED
    BY <1>2, <1>6, <2>1, ViewedRefresh
<1>7. ASSUME NEW r \in Req, AdmitAgain(r) PROVE \E v : Viewed(v) /\ Moved(v)
  <2>1. PICK now \in Readings : /\ core' = RefreshedView(now).core
                                /\ learned' = RefreshedView(now).learned
                                /\ evidence' = RefreshedView(now).evidence
    BY <1>7 DEF AdmitAgain
  <2>2. UNCHANGED <<ledger, decode>>
    BY <1>7 DEF AdmitAgain
  <2>3. Touched(RefreshedView(now))
    BY <1>3, <2>1, <2>2 DEF Touched
  <2> QED
    BY <1>2, <2>1, <2>3, ViewedRefresh
<1>8. ASSUME NEW r \in Req, AdmitRaises(r) PROVE \E v : Viewed(v) /\ Moved(v)
  <2>1. PICK now \in Readings : Refresh(now)
    BY <1>8 DEF AdmitRaises
  <2> QED
    BY <1>2, <1>5, <2>1, ViewedRefresh
<1>9. ASSUME RefreshResult \/ RefreshIdentity PROVE \E v : Viewed(v) /\ Moved(v)
  <2>1. \E now \in 0 .. clock : Refresh(now)
    BY <1>2, <1>9 DEF RefreshResult, RefreshIdentity
  <2> QED
    BY <1>5, <2>1, ViewedRefresh
<1>10. ASSUME CommitResult \/ Terminated PROVE \E v : Viewed(v) /\ Moved(v)
  <2>1. \E upd \in Updates, quarantine \in BOOLEAN : CommittedAt(upd, quarantine)
    <3>1. /\ task.updates \in Updates /\ TerminalUpdate \in Updates
          /\ task.contaminated \in BOOLEAN
      BY UpdateTypes DEF IInv, TaskOK, Tasks
    <3> QED
      BY <1>10, <3>1 DEF CommitResult, Terminated, CommittedAt
  <2> QED
    BY <1>1, <2>1
<1>11. ASSUME NEW cl \in Clients, PolicySnapshot(cl) PROVE \E v : Viewed(v) /\ Moved(v)
  <2>1. ReadAt(RefreshedView(clock), clock)
    <3>1. RefreshedView(clock).core.last_time <= clock
      <4>1. CASE Rotates
        <5>1. RefreshedView(clock).core = RotateCore(core, clock, decode.active)
          BY <4>1 DEF RefreshedView, RotatedView
        <5> QED
          BY <1>2, <1>3, <5>1 DEF RotateCore, CoreState
      <4>2. CASE ~Rotates
        BY <4>2 DEF RefreshedView, CurrentView, TimeOK
      <4> QED
        BY <4>1, <4>2
    <3> QED
      BY <1>11, <3>1 DEF PolicySnapshot, ReadAt
  <2> QED
    BY <1>2, <2>1, ViewedRefresh
<1>12. ASSUME NEW cl \in Clients, PatchPolicy(cl) PROVE \E v : Viewed(v) /\ Moved(v)
  <2>1. PICK reference \in References, limits \in Policies :
          UpdatePolicy(seen[cl].epoch, seen[cl].revision, reference, limits, RefreshedView(clock))
    BY <1>12 DEF PatchPolicy
  <2>2. \/ core' = RefreshedView(clock).core
        \/ core' = UpdateReferenceCore(RefreshedView(clock).core, reference)
    BY <2>1 DEF UpdatePolicy
  <2>3. Touched(RefreshedView(clock))
    BY <1>3, <1>12, <2>2 DEF PatchPolicy, Touched
  <2> QED
    BY <1>2, <2>3, ViewedRefresh
<1>13. ASSUME NEW now \in 0 .. clock, ClockAccepts(core, now), AdvanceTo(now)
       PROVE  \E v : Viewed(v) /\ Moved(v)
  <2>1. ReadAt(CurrentView, now)
    BY <1>3, <1>13 DEF ClockAccepts, AdvanceTo, ReadAt, CurrentView, CoreState, Time, NoTime
  <2> QED
    BY <1>1, <2>1
<1>14. ASSUME TelemetrySnapshot \/ PrefillCompleted PROVE \E v : Viewed(v) /\ Moved(v)
  <2>1. \E now \in 0 .. clock : ClockAccepts(core, now) /\ AdvanceTo(now)
    BY <1>2, <1>14 DEF TelemetrySnapshot, PrefillCompleted
  <2> QED
    BY <1>13, <2>1
<1>15. ASSUME NEW r \in Req, ReleaseNext(r) PROVE \E v : Viewed(v) /\ Moved(v)
  <2>1. ledger'.health <= ledger.health
    BY <1>3, <1>15 DEF ReleaseNext, ReleaseRequest, LedgerWithout
  <2>2. UNCHANGED <<core, learned, evidence, decode>>
    BY <1>15 DEF ReleaseNext, ReleaseRequest
  <2> QED
    BY <1>1, <1>4, <2>1, <2>2
<1>16. ASSUME UNCHANGED <<core, learned, evidence, decode, ledger>>
       PROVE  \E v : Viewed(v) /\ Moved(v)
  <2>1. ledger'.health <= ledger.health
    BY <1>3, <1>16
  <2> QED
    BY <1>1, <1>4, <1>16, <2>1
<1>17. ASSUME NEW r \in Req, Abort(r) \/ Retract(r) PROVE UNCHANGED <<core, learned, evidence, decode, ledger>>
  BY <1>17 DEF Abort, Retract, schedulerVars
<1>18. ASSUME NEW extend \in BOOLEAN, RunBatch(extend) PROVE UNCHANGED <<core, learned, evidence, decode, ledger>>
  BY <1>18 DEF RunBatch, schedulerVars
<1>19. ASSUME CollectUpdates \/ CommitRaises \/ TerminateRaises \/ NothingToRelease \/ PrefillRaises \/ Tick
       PROVE UNCHANGED <<core, learned, evidence, decode, ledger>>
  BY <1>19 DEF CollectUpdates, CommitRaises, TerminateRaises, NothingToRelease, PrefillRaises, Tick, schedulerVars
<1>20. ASSUME NEW i \in Identities, ChangeIdentity(i) PROVE UNCHANGED <<core, learned, evidence, decode, ledger>>
  BY <1>20 DEF ChangeIdentity, schedulerVars
<1>21. ASSUME UNCHANGED vars PROVE UNCHANGED <<core, learned, evidence, decode, ledger>>
  BY <1>21 DEF vars, schedulerVars
<1> QED
  BY <1>6, <1>7, <1>8, <1>9, <1>10, <1>11, <1>12, <1>14, <1>15, <1>16, <1>17, <1>18, <1>19,
     <1>20, <1>21 DEF Next, ResultStep
\* What each call of the core makes of its clock, count, flag and epoch.
LEMMA CoreFields ==
  ASSUME NEW c \in CoreState, NEW now, NEW n, NEW flag, NEW cell, NEW reference
  PROVE  /\ \A d \in {AdvanceCore(c, now), ObserveCore(c, now, n),
                      ObserveBatchCore(c, now, cell, n), QuarantineCore(c, now, n, flag)} :
              d.last_time = now /\ d.epoch = c.epoch
         /\ AdvanceCore(c, now).active = c.active
         /\ AdvanceCore(c, now).quarantined = c.quarantined
         /\ \A d \in {ObserveCore(c, now, n), ObserveBatchCore(c, now, cell, n)} :
              d.active = n /\ d.quarantined = c.quarantined
         /\ AdvanceCore(QuarantineCore(c, now, n, flag), now).last_time = now
         /\ AdvanceCore(QuarantineCore(c, now, n, flag), now).epoch = c.epoch
         /\ LET d == UpdateReferenceCore(c, reference)
            IN /\ d.last_time = c.last_time /\ d.epoch = c.epoch
               /\ d.active = c.active /\ d.quarantined = c.quarantined
         /\ LET d == RotateCore(c, now, n)
            IN d.last_time = now /\ d.epoch = c.epoch + 1 /\ d.active = n /\ ~d.quarantined
BY DEF CoreState, AdvanceCore, ObserveCore, ObserveBatchCore, QuarantineCore,
   UpdateReferenceCore, RotateCore

\* A refreshed core is a core whose clock is not ahead, in the same epoch
\* unless nothing was in flight.
LEMMA ViewedCore ==
  ASSUME core \in CoreState, decode \in DecodeSets, clock \in Nat, core.last_time <= clock,
         NEW v, Viewed(v)
  PROVE  /\ v.core \in CoreState
         /\ v.core.last_time <= clock
         /\ v.core.epoch = core.epoch \/ ~Busy
<1>1. CASE v.core = core
  BY <1>1
<1>2. ASSUME NEW now \in 0 .. clock, v.core = RotateCore(core, now, decode.active)
      PROVE  v.core \in CoreState /\ v.core.last_time <= clock
  <2>1. /\ now \in Time /\ core.epoch + 1 \in Nat /\ decode.active \in 0 .. NativeMaxRunning
        /\ now <= clock /\ core \in CoreState
    BY DEF CoreState, DecodeSets, Time
  <2>2. RotateCore(core, now, decode.active) \in CoreState
    BY ONLY <2>1 DEF RotateCore, CoreState
  <2> QED
    BY <1>2, <2>1, <2>2, CoreFields
<1> QED
  BY <1>1, <1>2 DEF Viewed

\* What a commit makes of the core: its clock is that of the batch and its
\* epoch stays.
LEMMA CommitCore ==
  ASSUME CoreOK(core, evidence), NEW upd, NEW quarantine, NEW now,
         CommitBatch(upd, now, quarantine, CurrentView)
  PROVE  core'.last_time = now /\ core'.epoch = core.epoch
<1>1. core \in CoreState /\ CurrentView.core = core
  BY DEF CoreOK, CurrentView
<1>2. \/ core' = QuarantineCore(core, now, ActiveAfter(upd), ledger.health > 0)
      \/ core' = ObserveCore(core, now, ActiveAfter(upd))
      \/ core' = ObserveBatchCore(core, now, CellBefore, ActiveAfter(upd))
  BY <1>1 DEF CommitBatch, ObservedCore, ObserveReplacementCore
<1> QED
  BY <1>1, <1>2, CoreFields

\* The clock only moves on, and nothing happens while it does.
LEMMA ClockMoves ==
  ASSUME clock \in Nat, [Next]_vars
  PROVE  /\ clock' \in Nat /\ clock <= clock'
         /\ Tick \/ clock' = clock
<1>1. CASE Tick
  BY <1>1 DEF Tick
<1>2. CASE ~Tick
  <2>1. clock' = clock
    BY <1>2 DEF Next, AdmitNew, AdmitAgain, AdmitRaises, Abort, Retract, RunBatch, ResultStep,
       RefreshResult, CollectUpdates, CommitResult, CommitRaises, Terminated, TerminateRaises,
       ReleaseNext, NothingToRelease, PrefillCompleted, PrefillRaises, PolicySnapshot,
       PatchPolicy, TelemetrySnapshot, RefreshIdentity, ChangeIdentity, vars
  <2> QED
    BY <2>1
<1> QED
  BY <1>1, <1>2

\* The clocks stay behind the scheduler's.
LEMMA TimeStep == IInv /\ TimeOK /\ [Next]_vars => TimeOK'
<1> SUFFICES ASSUME IInv, TimeOK, [Next]_vars PROVE TimeOK'
  OBVIOUS
<1>1. core \in CoreState /\ clock \in Nat /\ task \in Tasks
  BY DEF IInv, CoreOK, NativeOK, TaskOK
<1>2. clock' \in Nat /\ clock <= clock'
  BY <1>1, ClockMoves
<1>3. task'.now <= clock
  <2>1. task.now \in Nat /\ task.now <= clock
    BY <1>1 DEF Tasks, TimeOK
  <2>2. ASSUME NEW r \in Req, AdmitNew(r) PROVE task'.now <= clock
    <3> DEFINE rollback == [IdleTask EXCEPT !.at = "release", !.release = {r}]
    <3>1. task' = task \/ task' = rollback
      BY <2>2 DEF AdmitNew, Enqueue
    <3>2. rollback.now = 0
      BY DEF IdleTask
    <3> HIDE DEF rollback
    <3> QED
      BY <1>1, <2>1, <3>1, <3>2
  <2>3. ASSUME NEW r \in Req, Abort(r) PROVE task'.now <= clock
    BY <1>1, <2>3 DEF Abort, IdleTask
  <2>4. ASSUME NEW extend \in BOOLEAN, RunBatch(extend) PROVE task'.now <= clock
    BY <1>1, <2>4 DEF RunBatch, IdleTask
  <2>5. ASSUME NEW r \in Req, ReleaseNext(r) PROVE task'.now <= clock
    BY <1>1, <2>1, <2>5 DEF ReleaseNext, IdleTask, Tasks
  <2>6. ASSUME CollectUpdates \/ CommitResult \/ Terminated \/ NothingToRelease
        PROVE task'.now <= clock
    <3>1. CASE CollectUpdates
      BY <1>1, <2>1, <3>1 DEF CollectUpdates, Tasks
    <3>2. CASE CommitResult \/ Terminated
      BY <1>1, <2>1, <3>2 DEF CommitResult, Terminated, Tasks
    <3>3. CASE NothingToRelease
      BY <1>1, <2>1, <3>3 DEF NothingToRelease, IdleTask
    <3> QED
      BY <2>6, <3>1, <3>2, <3>3
  <2>7. ASSUME NEW r \in Req, Retract(r) PROVE task' = task
    BY <2>7 DEF Retract
  <2>8. ASSUME \/ task' = task
               \/ task.at = "refresh" /\ task' = [task EXCEPT !.at = "collect"]
               \/ task.at = "prefill" /\ task' = IdleTask
        PROVE task'.now <= clock
    BY <1>1, <2>1, <2>8 DEF IdleTask, Tasks
  <2> QED
    BY <2>2, <2>3, <2>4, <2>5, <2>6, <2>7, <2>8, StepKinds
<1>4. core'.last_time <= clock
  <2>1. PICK v : Viewed(v) /\ Moved(v)
    BY CoreKinds
  <2>2. v.core \in CoreState /\ v.core.last_time <= clock
    BY <1>1, <2>1, ViewedCore DEF TimeOK, IInv, DecodeOK
  <2>3. CASE Touched(v)
    BY <2>2, <2>3, CoreFields DEF Touched
  <2>4. ASSUME NEW now \in 0 .. clock, ReadAt(v, now) PROVE core'.last_time <= clock
    BY <2>2, <2>4, CoreFields DEF ReadAt
  <2>5. ASSUME NEW r \in Req, NEW now \in 0 .. clock, DecidedAt(v, r, now)
        PROVE  core'.last_time <= clock
    <3>1. \/ core' = AdvanceCore(QuarantineCore(v.core, now, decode.active, TRUE), now)
          \/ core' = AdvanceCore(v.core, now)
      BY <2>5 DEF DecidedAt, AdmitRequest, CoreAtAdmission
    <3>2. /\ AdvanceCore(QuarantineCore(v.core, now, decode.active, TRUE), now).last_time = now
          /\ AdvanceCore(v.core, now).last_time = now
      BY <2>2 DEF AdvanceCore, QuarantineCore, CoreState
    <3>3. core'.last_time = now
      BY ONLY <3>1, <3>2
    <3> QED
      BY <1>1, <3>3
  <2>6. ASSUME NEW upd \in Updates, NEW quarantine \in BOOLEAN, CommittedAt(upd, quarantine)
        PROVE  core'.last_time <= clock
    <3>1. core'.last_time = task.now
      BY <2>6, CommitCore DEF CommittedAt, IInv
    <3> QED
      BY <3>1 DEF TimeOK
  <2> QED
    BY <2>1, <2>3, <2>4, <2>5, <2>6 DEF Moved
<1> QED
  BY <1>1, <1>2, <1>3, <1>4, InvariantStep DEF TimeOK, IInv, CoreOK, CoreState, Time, NoTime, TaskOK, Tasks

\* Reservations change only by admission and by release.
LEMMA ReservationMoves ==
  ASSUME IInv, [Next]_vars, ~\E r \in Req : AdmitNew(r)
  PROVE  /\ ledger'.last_exploration = ledger.last_exploration
         /\ \A r \in Req :
              /\ reservation'[r].epoch = reservation[r].epoch
              /\ reservation'[r].reason = reservation[r].reason
              /\ reservation'[r].at = reservation[r].at
         /\ Live' \subseteq Live
<1>1. ledger \in Ledgers /\ reservation \in [Req -> Reservations]
  BY DEF IInv, LedgerOK
<1>2. CASE UNCHANGED <<ledger, reservation>>
  BY <1>2 DEF Live
<1>3. ASSUME NEW r \in Req, ReleaseNext(r), ~UNCHANGED <<ledger, reservation>>
      PROVE  /\ ledger' = LedgerWithout(r)
             /\ reservation' = [reservation EXCEPT ![r].status = "released"]
  BY <1>3 DEF ReleaseNext, ReleaseRequest
<1>4. ASSUME NEW r \in Req, ledger' = LedgerWithout(r),
             reservation' = [reservation EXCEPT ![r].status = "released"]
      PROVE  /\ ledger'.last_exploration = ledger.last_exploration
             /\ \A x \in Req : /\ reservation'[x].epoch = reservation[x].epoch
                               /\ reservation'[x].reason = reservation[x].reason
                               /\ reservation'[x].at = reservation[x].at
             /\ Live' \subseteq Live
  BY <1>1, <1>4 DEF LedgerWithout, Live, Reservations
<1>5. ASSUME ~\E r \in Req : ReleaseNext(r) PROVE UNCHANGED <<ledger, reservation>>
  <2>1. CASE \/ \E extend \in BOOLEAN : RunBatch(extend)
             \/ \E r \in Req : Abort(r) \/ Retract(r)
             \/ CollectUpdates \/ NothingToRelease
    BY <2>1 DEF RunBatch, Abort, Retract, CollectUpdates, NothingToRelease, schedulerVars
  <2>2. CASE CommitResult \/ Terminated
    BY <2>2 DEF CommitResult, Terminated, CommitBatch
  <2> QED
    BY <1>5, <2>1, <2>2, StepKinds
<1> QED
  BY <1>2, <1>3, <1>4, <1>5

\* Admission decides on the view its refresh left.
LEMMA AdmissionView ==
  ASSUME IInv, NEW r \in Req, AdmitNew(r)
  PROVE  \E v : Viewed(v) /\ \E now \in 0 .. clock : DecidedAt(v, r, now)
<1>1. PICK now \in Readings : DecidedAt(RefreshedView(now), r, now)
  BY DEF AdmitNew, DecidedAt
<1> QED
  BY <1>1, ReadingsBelow, ViewedRefresh DEF IInv

\* A reservation outlives no epoch.
LEMMA EpochStep == IInv /\ TimeOK /\ OwnIInv /\ [Next]_vars => EpochPure'
<1> SUFFICES ASSUME IInv, TimeOK, OwnIInv, [Next]_vars PROVE EpochPure'
  OBVIOUS
<1>1. OwnersOK'
  BY OwnersStep DEF OwnIInv
<1>2. SUFFICES \A r \in Live' : reservation'[r].epoch = core'.epoch
  BY <1>1 DEF OwnersOK, EpochPure
<1>3. Live # {} => Busy
  <2>1. Live \in SUBSET Req /\ IsFiniteSet(Live) /\ ledger.outstanding = Cardinality(Live)
    BY Countable DEF Live, IInv, LedgerOK, LedgerExact
  <2>2. Live # {} => ledger.outstanding # 0 /\ ledger.outstanding \in Nat
    BY <2>1, Countable, FS_EmptySet
  <2> QED
    BY <2>2 DEF Busy
<1>4. ASSUME NEW v, Viewed(v)
      PROVE  /\ v.core \in CoreState
             /\ \A r \in Live : reservation[r].epoch = v.core.epoch
  <2>1. v.core \in CoreState /\ (v.core.epoch = core.epoch \/ ~Busy)
    BY <1>4, ViewedCore DEF IInv, CoreOK, DecodeOK, NativeOK, TimeOK
  <2> QED
    BY <1>3, <2>1 DEF OwnIInv, EpochPure
<1>5. ASSUME NEW v, Viewed(v), NEW r \in Req, NEW now, DecidedAt(v, r, now)
      PROVE  core'.epoch = v.core.epoch
  <2>1. \/ core' = AdvanceCore(QuarantineCore(v.core, now, decode.active, TRUE), now)
        \/ core' = AdvanceCore(v.core, now)
    BY <1>5 DEF DecidedAt, AdmitRequest, CoreAtAdmission
  <2>2. /\ AdvanceCore(QuarantineCore(v.core, now, decode.active, TRUE), now).epoch = v.core.epoch
        /\ AdvanceCore(v.core, now).epoch = v.core.epoch
    BY <1>4, <1>5 DEF AdvanceCore, QuarantineCore, CoreState
  <2> QED
    BY ONLY <2>1, <2>2
<1>6. CASE \E r \in Req : AdmitNew(r)
  <2>1. PICK v : Viewed(v) /\ \E r \in Req, now \in 0 .. clock : DecidedAt(v, r, now)
    BY <1>6, AdmissionView
  <2>2. PICK r \in Req, now \in 0 .. clock : DecidedAt(v, r, now)
    BY <2>1
  <2>3. core'.epoch = v.core.epoch /\ \A x \in Live : reservation[x].epoch = v.core.epoch
    BY <1>4, <1>5, <2>1, <2>2
  <2>4. reservation \in [Req -> Reservations]
    BY DEF IInv, LedgerOK
  <2>5. PICK reason : AdmitRequest(r, now, WaitingCount, v, reason)
    BY <2>2 DEF DecidedAt
  <2>6. CASE reason \in AdmittingReasons
    <3> DEFINE res == [status |-> "live", reason |-> reason, at |-> now, epoch |-> v.core.epoch]
    <3>1. reservation' = [reservation EXCEPT ![r] = res] /\ res.epoch = v.core.epoch
      BY <2>5, <2>6 DEF AdmitRequest
    <3> HIDE DEF res
    <3> QED
      BY <2>3, <2>4, <3>1 DEF Live
  <2>7. CASE reason \notin AdmittingReasons
    BY <2>3, <2>5, <2>7 DEF AdmitRequest, Live
  <2> QED
    BY <2>6, <2>7
<1>7. CASE ~\E r \in Req : AdmitNew(r)
  <2>1. PICK v : Viewed(v) /\ Moved(v)
    BY CoreKinds
  <2>2. v.core \in CoreState
    BY <1>4, <2>1
  <2>3. core'.epoch = v.core.epoch
    <3>1. CASE Touched(v)
      BY <2>2, <3>1, CoreFields DEF Touched
    <3>2. CASE \E now \in 0 .. clock : ReadAt(v, now)
      BY <2>2, <3>2, CoreFields DEF ReadAt
    <3>3. ASSUME NEW upd \in Updates, NEW quarantine \in BOOLEAN, CommittedAt(upd, quarantine),
                 v = CurrentView
          PROVE  core'.epoch = v.core.epoch
      BY <3>3, CommitCore DEF CommittedAt, CurrentView, IInv
    <3> QED
      BY <1>7, <2>1, <3>1, <3>2, <3>3 DEF Moved
  <2> QED
    BY <1>4, <1>7, <2>1, <2>3, ReservationMoves DEF Live
<1> QED
  BY <1>6, <1>7

-----------------------------------------------------------------------------
(* The invariant of this module, and what it says of ownership.            *)

WorkInv == IInv /\ TimeOK /\ OwnIInv

\* Every reachable state has its work in order: the ledger's invariant, no time of
\* the future in the core or in a call, and each reservation with its owner.
THEOREM WorkInvariance == Spec => []WorkInv
<1>1. Init => WorkInv
  <2>1. Init => TimeOK
    BY CoreAssumption
    DEF Init, SchedulerInit, TimeOK, NewCore, NoTime, IdleTask, CoreAssumption
  <2> QED
    BY <2>1, InvariantInit, OwnersInit DEF WorkInv, OwnIInv
<1>2. WorkInv /\ [Next]_vars => WorkInv'
  BY InvariantStep, TimeStep, OwnersStep, EpochStep DEF WorkInv, OwnIInv
<1> QED
  BY <1>1, <1>2, PTL DEF Spec

\* Between tasks exactly the requests the native scheduler owns hold a
\* reservation, and only they decode: nothing leaks, nothing is freed early.
THEOREM OwnersHoldReservations == Spec => []ReservationsMatchOwners
<1>1. WorkInv => ReservationsMatchOwners
  BY DEF WorkInv, OwnIInv, OwnersOK, WorkOK, ReservationsMatchOwners, Idle
<1> QED
  BY <1>1, WorkInvariance, PTL

\* Work in flight and the evidence it yields belong to the same epoch.
THEOREM EpochsArePure == Spec => []EpochPure
<1>1. WorkInv => EpochPure
  BY DEF WorkInv, OwnIInv
<1> QED
  BY <1>1, WorkInvariance, PTL

-----------------------------------------------------------------------------
(* How much work there can be.                                             *)

Waiting == InPhase({"waiting"})

\* Requests in the system, in the queue and in batches.  Counting the chunked
\* request with the running ones makes the bound on batches inductive.
LoadOK ==
  /\ ledger.outstanding <= NativeMaxRunning + MAX_WAITING_LIMIT
  /\ Cardinality(InBatch) <= NativeMaxRunning
  /\ WaitingKnown => Cardinality(Waiting) <= MAX_WAITING_LIMIT

\* Fewer requests, smaller count.
LEMMA CountSubset ==
  ASSUME NEW T \in SUBSET Req, NEW S \in SUBSET T
  PROVE  Cardinality(S) <= Cardinality(T)
BY Countable, FS_Subset

\* A batch never makes more requests run than the hot cap allows, unless it
\* only continues those that run already.
LEMMA BatchLoad ==
  ASSUME IInv, Cardinality(InBatch) <= NativeMaxRunning, NEW extend \in BOOLEAN, RunBatch(extend)
  PROVE  Cardinality(InBatch') <= NativeMaxRunning /\ Waiting' \subseteq Waiting
<1>1. PICK B \in SUBSET Owners :
           /\ \A r \in B : native'[r].phase \in {"chunked", "running"}
           /\ \A r \in Req \ B : native'[r] = native[r]
           /\ \/ B = Chunked \/ B = Running
              \/ /\ Chunked \subseteq B
                 /\ Cardinality(Running) + Cardinality(B) <= policy.max_running
  BY BatchFacts
<1>2. Owners \in SUBSET Req /\ InBatch = Running \cup Chunked /\ InBatch \in SUBSET Req
  BY DEF Owners, Running, Chunked, WaitingOwners, InBatch, InPhase
<1>3. InBatch' = InBatch \cup B /\ Waiting' \subseteq Waiting
  <2>1. \A r \in Req : r \in InBatch' <=> r \in InBatch \/ r \in B
    BY <1>1 DEF InBatch, InPhase
  <2>2. InBatch' \subseteq Req
    BY DEF InBatch, InPhase
  <2>3. Waiting' \subseteq Waiting
    BY <1>1 DEF Waiting, InPhase
  <2> QED
    BY <1>2, <2>1, <2>2, <2>3
<1>4. CASE B = Chunked \/ B = Running
  <2>1. InBatch' = InBatch
    BY <1>2, <1>3, <1>4
  <2> QED
    BY <1>3, <2>1
<1>5. CASE Chunked \subseteq B /\ Cardinality(Running) + Cardinality(B) <= policy.max_running
  <2>1. InBatch' = Running \cup B
    BY <1>2, <1>3, <1>5
  <2>2. Running \in SUBSET Req /\ B \in SUBSET Req
    BY <1>2 DEF Running, InPhase
  <2>3. /\ Cardinality(Running \cup B)
             = Cardinality(Running) + Cardinality(B) - Cardinality(Running \cap B)
        /\ Cardinality(Running) \in Nat /\ Cardinality(B) \in Nat
        /\ Cardinality(Running \cap B) \in Nat
    BY <2>2, Countable, FS_Union
  <2>4. policy.max_running \in 1 .. NativeMaxRunning /\ NativeMaxRunning \in Nat
    BY CoreAssumption DEF IInv, NativeOK, Policies, CoreAssumption
  <2>5. Cardinality(InBatch') = Cardinality(Running \cup B)
    BY <2>1, Zenon
  <2>6. Cardinality(InBatch') <= NativeMaxRunning
    BY ONLY <1>5, <2>3, <2>4, <2>5
  <2> QED
    BY <1>3, <2>6
<1> QED
  BY <1>1, <1>4, <1>5

\* Only a batch moves requests into batches, and only an admission that
\* counts puts one into the queue.
LEMMA PhaseMoves ==
  ASSUME IInv, [Next]_vars
  PROVE  \/ \E extend \in BOOLEAN : RunBatch(extend)
         \/ /\ InBatch' \subseteq InBatch
            /\ \/ Waiting' \subseteq Waiting
               \/ \E r \in Req : /\ Waiting' \subseteq Waiting \cup {r}
                                 /\ ledger'.outstanding > ledger.outstanding
<1>1. native \in [Req -> [phase : Phases, output : Nat]] /\ ledger.outstanding \in Nat
  BY DEF IInv, NativeOK, LedgerOK, Ledgers
<1>2. ASSUME NEW r \in Req, NEW phase \in {"retracted", "over"},
             native' = [native EXCEPT ![r].phase = phase]
      PROVE  InBatch' \subseteq InBatch /\ Waiting' \subseteq Waiting
  BY <1>1, <1>2 DEF InBatch, Waiting, InPhase
<1>3. ASSUME native' = native PROVE InBatch' \subseteq InBatch /\ Waiting' \subseteq Waiting
  BY <1>3 DEF InBatch, Waiting, InPhase
<1>4. ASSUME NEW r \in Req, AdmitNew(r), native' # native
      PROVE  /\ InBatch' \subseteq InBatch
             /\ Waiting' \subseteq Waiting \cup {r}
             /\ ledger'.outstanding > ledger.outstanding
  <2>1. PICK now \in Readings :
          \E reason \in Decisions(r, now, WaitingCount, RefreshedView(now)) :
            /\ AdmitRequest(r, now, WaitingCount, RefreshedView(now), reason)
            /\ IF reason \in AdmittingReasons THEN Enqueue(r) ELSE UNCHANGED <<native, task>>
    BY <1>4 DEF AdmitNew
  <2>2. PICK reason \in Decisions(r, now, WaitingCount, RefreshedView(now)) :
          /\ AdmitRequest(r, now, WaitingCount, RefreshedView(now), reason)
          /\ IF reason \in AdmittingReasons THEN Enqueue(r) ELSE UNCHANGED <<native, task>>
    BY <2>1
  <2>3. reason \in AdmittingReasons /\ native' = [native EXCEPT ![r].phase = "waiting"]
    BY <1>4, <2>2 DEF Enqueue
  <2>4. ledger'.outstanding = ledger.outstanding + 1
    BY <2>2, <2>3 DEF AdmitRequest, LedgerWith, OutstandingAfter
  <2>5. InBatch' \subseteq InBatch /\ Waiting' \subseteq Waiting \cup {r}
    BY <1>1, <2>3 DEF InBatch, Waiting, InPhase
  <2> QED
    BY <1>1, <2>4, <2>5
<1>5. ASSUME NEW r \in Req, Retract(r) PROVE native' = [native EXCEPT ![r].phase = "retracted"]
  BY <1>5 DEF Retract
<1>6. ASSUME NEW r \in Req, ReleaseNext(r) PROVE native' = [native EXCEPT ![r].phase = "over"]
  BY <1>6 DEF ReleaseNext
<1>7. ASSUME NEW r \in Req, Abort(r) PROVE native' = native
  BY <1>7 DEF Abort
<1>8. ASSUME CollectUpdates \/ CommitResult \/ Terminated \/ NothingToRelease PROVE native' = native
  BY <1>8 DEF CollectUpdates, CommitResult, Terminated, NothingToRelease
<1> QED
  BY <1>2, <1>3, <1>4, <1>5, <1>6, <1>7, <1>8, StepKinds

\* Nothing is loaded before the first request.
LEMMA LoadInit == Init => LoadOK
<1> SUFFICES ASSUME Init PROVE LoadOK
  OBVIOUS
<1>1. InBatch = {} /\ Waiting = {} /\ ledger.outstanding = 0
  BY DEF Init, SchedulerInit, InBatch, Waiting, InPhase
<1>2. Cardinality({}) = 0
  BY FS_EmptySet
<1> QED
  BY <1>1, <1>2, CoreAssumption, SchedulerAssumption
  DEF LoadOK, CoreAssumption, SchedulerAssumption

\* No step of the engine or of the ledger loads more than the native limit.
LEMMA LoadStep == IInv /\ LoadOK /\ [Next]_vars => LoadOK'
<1> SUFFICES ASSUME IInv, LoadOK, [Next]_vars PROVE LoadOK'
  OBVIOUS
<1>1. /\ policy.max_running \in 1 .. NativeMaxRunning /\ policy.max_waiting \in 0 .. MAX_WAITING_LIMIT
      /\ NativeMaxRunning \in Nat /\ MAX_WAITING_LIMIT \in Nat
  BY CoreAssumption, SchedulerAssumption
  DEF IInv, NativeOK, Policies, CoreAssumption, SchedulerAssumption
<1>2. ledger.outstanding \in Nat /\ ledger'.outstanding \in Nat
  BY InvariantStep DEF IInv, LedgerOK, Ledgers
<1>3. ledger'.outstanding <= NativeMaxRunning + MAX_WAITING_LIMIT
  <2>1. CASE ledger'.outstanding > ledger.outstanding
    <3>1. ledger'.outstanding <= policy.max_running + policy.max_waiting
      BY <2>1, AdmissionFacts
    <3> QED
      BY <1>1, <1>2, <3>1
  <2>2. CASE ~(ledger'.outstanding > ledger.outstanding)
    BY <1>1, <1>2, <2>2 DEF LoadOK
  <2> QED
    BY <2>1, <2>2
<1>4. InBatch \in SUBSET Req /\ Waiting \in SUBSET Req
  BY DEF InBatch, Waiting, InPhase
<1>5. Cardinality(InBatch) \in Nat /\ Cardinality(Waiting) \in Nat
  BY <1>4, Countable
<1>6. ASSUME Waiting' \subseteq Waiting
      PROVE  WaitingKnown => Cardinality(Waiting') <= MAX_WAITING_LIMIT
  <2>1. Cardinality(Waiting') \in Nat /\ Cardinality(Waiting') <= Cardinality(Waiting)
    BY <1>4, <1>6, CountSubset, Countable
  <2> QED
    BY <1>1, <1>5, <2>1 DEF LoadOK
<1>7. CASE \E extend \in BOOLEAN : RunBatch(extend)
  BY <1>3, <1>6, <1>7, BatchLoad DEF LoadOK
<1>8. CASE ~\E extend \in BOOLEAN : RunBatch(extend)
  <2>1. Cardinality(InBatch') <= NativeMaxRunning
    <3>1. InBatch' \in SUBSET InBatch
      BY <1>8, PhaseMoves
    <3>2. Cardinality(InBatch') \in Nat /\ Cardinality(InBatch') <= Cardinality(InBatch)
      BY <1>4, <3>1, CountSubset, Countable
    <3> QED
      BY <1>1, <1>5, <3>2 DEF LoadOK
  <2>2. ASSUME WaitingKnown, NEW r \in Req, Waiting' \subseteq Waiting \cup {r},
               ledger'.outstanding > ledger.outstanding
        PROVE  Cardinality(Waiting') <= MAX_WAITING_LIMIT
    <3>1. Cardinality(WaitingOwners) < policy.max_waiting
      BY <2>2, AdmissionFacts
    <3>2. WaitingOwners \in SUBSET Req /\ Waiting \in SUBSET WaitingOwners
      BY DEF WaitingOwners, Waiting, InPhase
    <3>3. Cardinality(Waiting) <= Cardinality(WaitingOwners) /\ Cardinality(WaitingOwners) \in Nat
      BY <3>2, CountSubset, Countable
    <3>4. Cardinality(Waiting \cup {r}) <= Cardinality(Waiting) + 1
      <4>1. CASE r \in Waiting
        <5>1. Waiting \cup {r} = Waiting
          BY <4>1
        <5>2. Cardinality(Waiting \cup {r}) = Cardinality(Waiting)
          BY <5>1, Zenon
        <5> QED
          BY <1>5, <5>2
      <4>2. CASE r \notin Waiting
        BY <1>4, <1>5, <4>2, CountJoin
      <4> QED
        BY <4>1, <4>2
    <3>5. Waiting \cup {r} \in SUBSET Req /\ Waiting' \in SUBSET (Waiting \cup {r})
      BY <1>4, <2>2
    <3>6. /\ Cardinality(Waiting') <= Cardinality(Waiting \cup {r})
          /\ Cardinality(Waiting') \in Nat /\ Cardinality(Waiting \cup {r}) \in Nat
      BY <3>5, CountSubset, Countable
    <3> QED
      BY <1>1, <1>5, <3>1, <3>3, <3>4, <3>6
  <2>3. WaitingKnown => Cardinality(Waiting') <= MAX_WAITING_LIMIT
    BY <1>6, <1>8, <2>2, PhaseMoves
  <2> QED
    BY <1>3, <2>1, <2>3 DEF LoadOK
<1> QED
  BY <1>7, <1>8

\* Requests in the system and in the queue stay within the hard limits, also
\* when the limits are patched under load.
THEOREM LoadStaysBounded == Spec => []LoadBounded
<1>1. LoadOK => LoadBounded
  <2> SUFFICES ASSUME LoadOK PROVE LoadBounded
    OBVIOUS
  <2>1. InBatch \in SUBSET Req /\ Running \in SUBSET InBatch
    BY DEF InBatch, Running, InPhase
  <2>2. /\ Cardinality(Running) <= Cardinality(InBatch)
        /\ Cardinality(Running) \in Nat /\ Cardinality(InBatch) \in Nat
    BY <2>1, CountSubset, Countable
  <2> QED
    BY <2>2, CoreAssumption DEF LoadOK, LoadBounded, Waiting, CoreAssumption
<1> QED
  BY <1>1, LoadInit, LoadStep, Invariance, PTL DEF Spec

-----------------------------------------------------------------------------
(* Probes.                                                                 *)

\* The ledger remembers the last probe, also one that is over.
ProbesOK ==
  /\ \A r \in Probes :
       /\ reservation[r].at \in Nat /\ ledger.last_exploration \in Nat
       /\ reservation[r].at <= ledger.last_exploration
  /\ ProbesSpaced

\* A decision to probe was made after the interval.
LEMMA ProbeCooled ==
  ASSUME NEW r \in Req, NEW now, NEW waiting, NEW v,
         "online_exploration" \in Decisions(r, now, waiting, v)
  PROVE  CooledDown(now)
<1>1. PICK verdict \in CoreVerdicts(CoreAtAdmission(r, now, waiting, v), now,
                                    ProjectedConcurrency, ForecastClass(r)),
           qualifies \in LighterQualifies(CoreAtAdmission(r, now, waiting, v), r) :
        "online_exploration" =
           FinalReason(r, waiting, ForecastReason(r, now, waiting, v, verdict, qualifies))
  BY DEF Decisions
<1>2. ForecastReason(r, now, waiting, v, verdict, qualifies) = "online_exploration"
  BY <1>1 DEF FinalReason
<1>3. verdict.reason # "online_exploration"
  BY VerdictReasons DEF CoreReasons, FavourableReasons
<1> QED
  BY <1>2, <1>3 DEF ForecastReason, IdleRecoveryAllowed, ExplorationAllowed

\* No step lets two probes follow each other too closely.
LEMMA ProbesStep == IInv /\ ProbesOK /\ [Next]_vars => ProbesOK'
<1> SUFFICES ASSUME IInv, ProbesOK, [Next]_vars PROVE ProbesOK'
  OBVIOUS
<1>1. /\ ledger \in Ledgers /\ reservation \in [Req -> Reservations]
      /\ EXPLORATION_INTERVAL \in Nat
  BY SchedulerAssumption DEF IInv, LedgerOK, SchedulerAssumption
<1>2. ASSUME ledger'.last_exploration = ledger.last_exploration,
             \A r \in Req : /\ reservation'[r].reason = reservation[r].reason
                            /\ reservation'[r].at = reservation[r].at
      PROVE  ProbesOK'
  BY <1>2 DEF ProbesOK, ProbesSpaced, Probes
<1>3. CASE ~\E r \in Req : AdmitNew(r)
  BY <1>2, <1>3, ReservationMoves
<1>4. ASSUME NEW r \in Req, AdmitNew(r) PROVE ProbesOK'
  <2>1. PICK v : Viewed(v) /\ \E now \in 0 .. clock : DecidedAt(v, r, now)
    BY <1>4, AdmissionView
  <2>2. PICK now \in 0 .. clock : DecidedAt(v, r, now)
    BY <2>1
  <2>3. PICK reason \in Decisions(r, now, WaitingCount, v) :
          AdmitRequest(r, now, WaitingCount, v, reason)
    BY <2>2 DEF DecidedAt
  <2>4. now \in Nat
    BY DEF IInv, NativeOK
  <2>5. CASE reason \notin AdmittingReasons
    BY <1>2, <2>3, <2>5 DEF AdmitRequest
  <2>6. CASE reason \in AdmittingReasons
    <3> DEFINE res == [status |-> "live", reason |-> reason, at |-> now, epoch |-> v.core.epoch]
    <3>1. /\ reservation' = [reservation EXCEPT ![r] = res]
          /\ res.reason = reason /\ res.at = now
          /\ ledger'.last_exploration =
               IF reason = "online_exploration" THEN now ELSE ledger.last_exploration
      BY <2>3, <2>6 DEF AdmitRequest, LedgerWith
    <3> HIDE DEF res
    <3>2. /\ reservation'[r].reason = reason /\ reservation'[r].at = now
          /\ \A x \in Req \ {r} : reservation'[x] = reservation[x]
      BY <1>1, <3>1
    <3>3. CASE reason # "online_exploration"
      <4>1. Probes' \subseteq Probes \ {r}
        BY <3>2, <3>3 DEF Probes
      <4> QED
        BY <3>1, <3>2, <3>3, <4>1 DEF ProbesOK, ProbesSpaced, Probes
    <3>4. CASE reason = "online_exploration"
      <4>1. CooledDown(now)
        BY <2>3, <3>4, ProbeCooled
      <4>2. Probes' \subseteq Probes \cup {r} /\ Probes \subseteq Req
        BY <3>2 DEF Probes
      <4>3. \A x \in Probes' \ {r} :
              /\ reservation'[x].at = reservation[x].at /\ reservation[x].at \in Nat
              /\ now - reservation[x].at >= EXPLORATION_INTERVAL
        BY <1>1, <2>4, <3>2, <4>1, <4>2 DEF ProbesOK, CooledDown, NoTime
      <4>4. ledger'.last_exploration = now
        BY <3>1, <3>4
      <4>5. \A x \in Probes' :
              /\ reservation'[x].at \in Nat /\ ledger'.last_exploration \in Nat
              /\ reservation'[x].at <= ledger'.last_exploration
        BY <1>1, <2>4, <3>2, <4>3, <4>4
      <4>6. \A x, y \in Probes' : x # y =>
              \/ reservation'[x].at - reservation'[y].at >= EXPLORATION_INTERVAL
              \/ reservation'[y].at - reservation'[x].at >= EXPLORATION_INTERVAL
        <5>1. \A x, y \in Probes' \ {r} : x # y =>
                \/ reservation'[x].at - reservation'[y].at >= EXPLORATION_INTERVAL
                \/ reservation'[y].at - reservation'[x].at >= EXPLORATION_INTERVAL
          BY <4>2, <4>3 DEF ProbesOK, ProbesSpaced
        <5> QED
          BY <3>2, <4>3, <5>1
      <4> QED
        BY <4>5, <4>6 DEF ProbesOK, ProbesSpaced
    <3> QED
      BY <3>3, <3>4
  <2> QED
    BY <2>5, <2>6
<1> QED
  BY <1>3, <1>4

\* Probes start at least one interval apart, also those that were rolled
\* back and those of earlier epochs.
THEOREM ProbesAreSpaced == Spec => []ProbesSpaced
<1>1. Init => ProbesOK
  BY DEF Init, SchedulerInit, ProbesOK, ProbesSpaced, Probes, NoReservation
<1>2. ProbesOK => ProbesSpaced
  BY DEF ProbesOK
<1> QED
  BY <1>1, <1>2, ProbesStep, Invariance, PTL DEF Spec

-----------------------------------------------------------------------------
(* Exposure.                                                               *)

\* Exposure of the decoding requests that the next commit will give to a
\* surface cell.
Uncounted(c, e, active) ==
  IF e.dirty \/ e.surface_time = NoTime THEN 0 ELSE active * (c.last_time - e.surface_time)

LearnedRecord(l) ==
  l = [ tokens |-> l.tokens, exposure |-> l.exposure, clipped |-> l.clipped,
        surface_seconds |-> l.surface_seconds ]

\* Core, totals and evidence agree on the exposure.  The clock of the cells
\* has started when somebody decodes and is never ahead of the core's.
ExposedOK(c, l, e, active) ==
  /\ LearnedRecord(l)
  /\ l.exposure \in Int /\ l.clipped \in Int /\ l.surface_seconds \in Int
  /\ e.surface_time = NoTime => active = 0
  /\ e.surface_time # NoTime => c.last_time # NoTime /\ e.surface_time <= c.last_time
  /\ HealthReq = {} => ~e.dirty
  /\ l.surface_seconds + Uncounted(c, e, active) <= l.exposure + l.clipped
  /\ HealthReq = {} => l.surface_seconds + Uncounted(c, e, active) = l.exposure + l.clipped

ExposureOK ==
  /\ ExposedOK(core, learned, evidence, decode.active)
  /\ HealthReq = {} => ~task.contaminated

\* Intervals add up.
LEMMA Intervals ==
  ASSUME NEW n \in Int, NEW a \in Int, NEW b \in Int, NEW c \in Int
  PROVE  /\ n * (c - a) = n * (c - b) + n * (b - a)
         /\ n * (a - a) = 0 /\ n * (c - a) \in Int
         /\ n >= 0 /\ a <= c => n * (c - a) >= 0
  OBVIOUS

\* What each call makes of the totals.
LEMMA AdvanceFields ==
  ASSUME NEW l, LearnedRecord(l), NEW c, NEW now
  PROVE  AdvanceLearned(l, c, now) =
           [ tokens |-> l.tokens, exposure |-> l.exposure + Accrued(c, now),
             clipped |-> l.clipped + Dropped(c, now), surface_seconds |-> l.surface_seconds ]
<1> DEFINE accrued == Accrued(c, now)
           dropped == Dropped(c, now)
<1>1. PICK a, b, k, d :
        l = [tokens |-> a, exposure |-> b, clipped |-> k, surface_seconds |-> d]
  BY DEF LearnedRecord
<1>2. AdvanceLearned(l, c, now) = [l EXCEPT !.exposure = @ + accrued, !.clipped = @ + dropped]
  BY DEF AdvanceLearned
<1> HIDE DEF accrued, dropped
<1>3. /\ l.tokens = a /\ l.exposure = b /\ l.clipped = k /\ l.surface_seconds = d
      /\ AdvanceLearned(l, c, now) =
           [tokens |-> a, exposure |-> b + accrued, clipped |-> k + dropped, surface_seconds |-> d]
  BY ONLY <1>1, <1>2
<1> QED
  BY <1>3 DEF accrued, dropped

LEMMA ObserveFields ==
  ASSUME NEW l, LearnedRecord(l), NEW c, NEW now, NEW delta
  PROVE  ObserveLearned(l, c, now, delta) =
           [ tokens |-> l.tokens + delta, exposure |-> l.exposure + Accrued(c, now),
             clipped |-> l.clipped + Dropped(c, now), surface_seconds |-> l.surface_seconds ]
<1>1. AdvanceLearned(l, c, now) =
        [ tokens |-> l.tokens, exposure |-> l.exposure + Accrued(c, now),
          clipped |-> l.clipped + Dropped(c, now), surface_seconds |-> l.surface_seconds ]
  BY AdvanceFields
<1> QED
  BY ONLY <1>1 DEF ObserveLearned

LEMMA BatchFields ==
  ASSUME NEW l, LearnedRecord(l), NEW c, NEW now, NEW delta, NEW seconds
  PROVE  ObserveBatchLearned(l, c, now, delta, seconds) =
           [ tokens |-> l.tokens + delta, exposure |-> l.exposure + Accrued(c, now),
             clipped |-> l.clipped + Dropped(c, now),
             surface_seconds |-> l.surface_seconds + seconds ]
<1>1. ObserveLearned(l, c, now, delta) =
        [ tokens |-> l.tokens + delta, exposure |-> l.exposure + Accrued(c, now),
          clipped |-> l.clipped + Dropped(c, now), surface_seconds |-> l.surface_seconds ]
  BY ObserveFields
<1> QED
  BY ONLY <1>1 DEF ObserveBatchLearned

\* What a call records and what it leaves out are all that has passed.
LEMMA RecordedOrDropped ==
  ASSUME NEW c \in CoreState, NEW now \in Nat
  PROVE  /\ Accrued(c, now) \in Int /\ Dropped(c, now) \in Int
         /\ Accrued(c, now) + Dropped(c, now) =
              IF Recording(c) THEN c.active * (now - c.last_time) ELSE 0
<1> DEFINE start == StartOfRecord(c, now)
<1>1. c.active \in Int /\ c.last_time \in Int /\ now \in Int
  BY CoreAssumption DEF CoreState, Time, NoTime, CoreAssumption
<1>2. Oldest(now) \in Int
  <2>1. now - WINDOW_SECONDS \in Int /\ BUCKET_SECONDS \in Nat \ {0}
    BY <1>1, CoreAssumption DEF CoreAssumption
  <2>2. ((now - WINDOW_SECONDS) \div BUCKET_SECONDS) \in Int
    BY <2>1
  <2> QED
    BY <2>1, <2>2 DEF Oldest
<1>3. start \in Int
  BY <1>1, <1>2 DEF StartOfRecord
<1> HIDE DEF start
<1>4. /\ c.active * (now - c.last_time) = c.active * (now - start) + c.active * (start - c.last_time)
      /\ c.active * (now - start) \in Int /\ c.active * (start - c.last_time) \in Int
  BY ONLY <1>1, <1>3, Intervals
<1>5. /\ Accrued(c, now) = IF Recording(c) THEN c.active * (now - start) ELSE 0
      /\ Dropped(c, now) = IF Recording(c) THEN c.active * (start - c.last_time) ELSE 0
  BY DEF Accrued, Dropped, start
<1> QED
  BY <1>4, <1>5

\* Moving the clock on makes as much exposure as it makes uncounted.
LEMMA ExposureRead ==
  ASSUME NEW c \in CoreState, NEW l, NEW e, e.dirty \in BOOLEAN, e.surface_time \in Time,
         c.quarantined = e.dirty, ExposedOK(c, l, e, c.active),
         NEW now \in Nat, c.last_time <= now
  PROVE  ExposedOK(AdvanceCore(c, now), AdvanceLearned(l, c, now), e, c.active)
<1> DEFINE d == AdvanceCore(c, now)
<1> DEFINE m == AdvanceLearned(l, c, now)
<1>1. /\ m = [ tokens |-> l.tokens, exposure |-> l.exposure + Accrued(c, now),
               clipped |-> l.clipped + Dropped(c, now), surface_seconds |-> l.surface_seconds ]
      /\ d.last_time = now
  <2>1. LearnedRecord(l)
    BY DEF ExposedOK
  <2>2. d.last_time = now
    BY CoreFields
  <2> QED
    BY <2>1, <2>2, AdvanceFields
<1> HIDE DEF d, m
<1>2. /\ m.tokens = l.tokens /\ m.exposure = l.exposure + Accrued(c, now)
      /\ m.clipped = l.clipped + Dropped(c, now) /\ m.surface_seconds = l.surface_seconds
  BY <1>1
<1>3. /\ c.active \in Int /\ c.active >= 0 /\ c.last_time \in Int /\ e.surface_time \in Int
      /\ now \in Int /\ now # NoTime /\ NoTime \in Int
  BY CoreAssumption DEF CoreState, Time, NoTime, CoreAssumption
<1>4. /\ Accrued(c, now) + Dropped(c, now) = Uncounted(d, e, c.active) - Uncounted(c, e, c.active)
      /\ Uncounted(d, e, c.active) \in Int /\ Uncounted(c, e, c.active) \in Int
  <2> DEFINE passed == Accrued(c, now) + Dropped(c, now)
  <2>0. passed = IF Recording(c) THEN c.active * (now - c.last_time) ELSE 0
    BY RecordedOrDropped
  <2> HIDE DEF passed
  <2>1. CASE e.dirty
    BY <2>0, <2>1 DEF Recording, Uncounted, passed
  <2>2. CASE ~e.dirty /\ e.surface_time = NoTime
    <3>1. c.active = 0
      BY <2>2 DEF ExposedOK
    <3>2. c.active * (now - c.last_time) = 0
      BY <1>3, <3>1
    <3> QED
      BY <2>0, <2>2, <3>2 DEF Uncounted, passed
  <2>3. CASE ~e.dirty /\ e.surface_time # NoTime
    <3>1. c.last_time # NoTime
      BY <2>3 DEF ExposedOK
    <3>2. /\ passed = c.active * (now - c.last_time)
          /\ Uncounted(d, e, c.active) = c.active * (now - e.surface_time)
          /\ Uncounted(c, e, c.active) = c.active * (c.last_time - e.surface_time)
      BY <1>1, <2>0, <2>3, <3>1 DEF Recording, Uncounted
    <3>3. /\ c.active * (now - e.surface_time)
               = c.active * (now - c.last_time) + c.active * (c.last_time - e.surface_time)
          /\ c.active * (now - c.last_time) \in Int
          /\ c.active * (now - e.surface_time) \in Int
          /\ c.active * (c.last_time - e.surface_time) \in Int
      BY <1>3, Intervals
    <3> QED
      BY <3>2, <3>3 DEF passed
  <2> QED
    BY <2>1, <2>2, <2>3
<1>5. /\ l.exposure \in Int /\ l.clipped \in Int /\ l.surface_seconds \in Int
      /\ Accrued(c, now) \in Int /\ Dropped(c, now) \in Int
  BY RecordedOrDropped DEF ExposedOK
<1>6. e.surface_time # NoTime => d.last_time # NoTime /\ e.surface_time <= d.last_time
  BY <1>1, <1>3 DEF ExposedOK
<1>7. /\ m.surface_seconds + Uncounted(d, e, c.active) <= m.exposure + m.clipped
      /\ HealthReq = {} => m.surface_seconds + Uncounted(d, e, c.active) = m.exposure + m.clipped
  BY <1>2, <1>4, <1>5 DEF ExposedOK
<1>8. /\ LearnedRecord(m)
      /\ m.exposure \in Int /\ m.clipped \in Int /\ m.surface_seconds \in Int
  BY <1>1, <1>2, <1>5 DEF LearnedRecord
<1>9. ExposedOK(d, m, e, c.active)
  BY <1>6, <1>7, <1>8 DEF ExposedOK
<1> QED
  BY <1>9 DEF d, m

\* What is uncounted is not negative.
LEMMA UncountedNatural ==
  ASSUME NEW c \in CoreState, NEW l, NEW e, e.surface_time \in Time, ExposedOK(c, l, e, c.active)
  PROVE  Uncounted(c, e, c.active) \in Nat
<1>1. /\ c.active \in Int /\ c.active >= 0 /\ c.last_time \in Int /\ e.surface_time \in Int
  BY CoreAssumption DEF CoreState, Time, NoTime, CoreAssumption
<1>2. e.surface_time # NoTime => e.surface_time <= c.last_time
  BY DEF ExposedOK
<1>3. e.surface_time # NoTime => c.active * (c.last_time - e.surface_time) \in Nat
  BY <1>1, <1>2, Intervals
<1> QED
  BY <1>3 DEF Uncounted

\* A commit gives all that is uncounted to a cell, or drops it.
LEMMA ExposureCommit ==
  ASSUME IInv, ExposureOK, NEW upd \in Updates, NEW quarantine \in BOOLEAN,
         CommittedAt(upd, quarantine)
  PROVE  ExposedOK(core, learned, evidence, decode.active)'
<1> DEFINE now == task.now
<1>1. /\ CommitBatch(upd, now, quarantine, CurrentView)
      /\ CommitAccepts(upd, now, quarantine, CurrentView)
      /\ quarantine => task.contaminated
  BY DEF CommittedAt, CommitBatch
<1>2. /\ now \in Nat /\ core \in CoreState /\ core.active = decode.active
      /\ core.quarantined = evidence.dirty /\ evidence.surface_time \in Time
      /\ evidence.dirty \in BOOLEAN
  BY DEF IInv, CoreOK, TaskOK, Tasks
<1> HIDE DEF now
<1>3. /\ CurrentView.core = core /\ CurrentView.evidence = evidence /\ CurrentView.learned = learned
  BY DEF CurrentView
<1>4. decode'.active \in Nat
  <2>1. CoreOK(core, evidence)' /\ DecodeOK'
    BY <1>1, <1>2, CoreCommit DEF IInv
  <2> QED
    BY <2>1, CoreAssumption DEF DecodeOK, DecodeSets, CoreAssumption
<1>5. core'.last_time = now
  BY <1>1, CommitCore DEF IInv
<1>6. /\ LearnedRecord(learned)
      /\ learned.exposure \in Int /\ learned.clipped \in Int /\ learned.surface_seconds \in Int
      /\ learned.surface_seconds + Uncounted(core, evidence, core.active)
           <= learned.exposure + learned.clipped
      /\ HealthReq = {} => learned.surface_seconds + Uncounted(core, evidence, core.active)
                             = learned.exposure + learned.clipped
  BY <1>2 DEF ExposureOK, ExposedOK
<1>7. Uncounted(core, evidence, core.active) \in Nat
  BY <1>2, UncountedNatural DEF ExposureOK
<1>8. HealthReq = {} => ~Contaminated(quarantine, evidence)
  <2>1. HealthReq = {} => ledger.health = 0
    BY FS_EmptySet DEF IInv, LedgerOK, LedgerExact
  <2> QED
    BY <1>1, <2>1 DEF ExposureOK, ExposedOK, Contaminated
<1>9. CASE Contaminated(quarantine, evidence)
  <2>1. /\ learned' = learned /\ evidence' = QuarantinedEvidence(now)
    BY <1>1, <1>3, <1>9 DEF CommitBatch
  <2>2. evidence'.surface_time = now
    BY <2>1 DEF QuarantinedEvidence
  <2>3. Uncounted(core', evidence', decode'.active) = 0
    <3>0. decode'.active \in Int /\ now \in Int
      BY <1>2, <1>4
    <3>1. decode'.active * (now - now) = 0
      BY ONLY <3>0, Intervals
    <3> QED
      BY <1>5, <2>2, <3>1 DEF Uncounted
  <2> QED
    BY <1>2, <1>5, <1>6, <1>7, <1>8, <1>9, <2>1, <2>2, <2>3 DEF ExposedOK, NoTime
<1>10. CASE ~Contaminated(quarantine, evidence)
  <2>1. /\ learned' = ObservedLearned(upd, now, CurrentView)
        /\ evidence' = ObservedEvidence(upd, evidence, now)
        /\ ObservedAccepts(upd, now, CurrentView)
    BY <1>1, <1>3, <1>10 DEF CommitBatch, CommitAccepts
  <2>2. evidence'.surface_time = now /\ evidence'.dirty = FALSE /\ ~evidence.dirty
    BY <1>10, <2>1 DEF ObservedEvidence, Contaminated
  <2>3. Uncounted(core', evidence', decode'.active) = 0
    <3>0. decode'.active \in Int /\ now \in Int
      BY <1>2, <1>4
    <3>1. decode'.active * (now - now) = 0
      BY ONLY <3>0, Intervals
    <3> QED
      BY <1>5, <2>2, <3>1 DEF Uncounted
  <2>4. /\ core.last_time <= now /\ Elapsed(evidence, now) >= 0
    BY <1>2, <1>3, <2>1 DEF ObservedAccepts, ObserveReplacementAccepts, ObserveBatchAccepts,
       ObserveAccepts, ClockAccepts, CoreState, Time, NoTime
  <2> DEFINE seconds == SequenceSeconds(evidence, now)
  <2>5. /\ core.active \in Int /\ core.active >= 0 /\ core.last_time \in Int
        /\ evidence.surface_time \in Int /\ now \in Int
    BY <1>2, CoreAssumption DEF CoreState, Time, NoTime, CoreAssumption
  <2>6. seconds \in Int /\ seconds >= 0
    BY <1>2, <2>4, <2>5 DEF SequenceSeconds, Elapsed
  <2>7. seconds = Uncounted(AdvanceCore(core, now), evidence, core.active)
    <3>1. AdvanceCore(core, now).last_time = now
      BY <1>2, CoreFields
    <3>2. evidence.surface_time = NoTime => core.active = 0
      BY <1>2 DEF ExposureOK, ExposedOK
    <3> QED
      BY <1>2, <2>2, <2>5, <3>1, <3>2 DEF SequenceSeconds, Elapsed, Uncounted
  <2>8. ExposedOK(AdvanceCore(core, now), AdvanceLearned(learned, core, now), evidence, core.active)
    BY <1>2, <2>4, ExposureRead DEF ExposureOK
  <2>9. \E tokens : learned' = [ tokens |-> tokens, exposure |-> learned.exposure + Accrued(core, now),
                                 clipped |-> learned.clipped + Dropped(core, now),
                                 surface_seconds |-> learned.surface_seconds + seconds ]
    <3>1. CASE seconds > 0
      <4>1. \E delta : learned' = ObserveBatchLearned(learned, core, now, delta, seconds)
        BY <1>3, <2>1, <3>1 DEF ObservedLearned, ObserveReplacementLearned
      <4>2. PICK delta : learned' = ObserveBatchLearned(learned, core, now, delta, seconds)
        BY <4>1
      <4> HIDE DEF now, seconds
      <4> QED
        BY <1>6, <4>2, BatchFields
    <3>2. CASE ~(seconds > 0)
      <4>1. learned.surface_seconds + seconds = learned.surface_seconds
        BY <1>6, <2>6, <3>2
      <4>2. \E delta : learned' = ObserveLearned(learned, core, now, delta)
        BY <1>3, <2>1, <3>2 DEF ObservedLearned, ObserveReplacementLearned
      <4> QED
        <5>1. PICK delta : learned' = ObserveLearned(learned, core, now, delta)
          BY <4>2
        <5> HIDE DEF now, seconds
        <5>2. learned' = [ tokens |-> learned.tokens + delta,
                           exposure |-> learned.exposure + Accrued(core, now),
                           clipped |-> learned.clipped + Dropped(core, now),
                           surface_seconds |-> learned.surface_seconds ]
          BY <1>6, <5>1, ObserveFields
        <5> QED
          BY <4>1, <5>2
    <3> QED
      BY <3>1, <3>2
  <2> HIDE DEF seconds
  <2>10. /\ AdvanceLearned(learned, core, now).exposure = learned.exposure + Accrued(core, now)
         /\ AdvanceLearned(learned, core, now).clipped = learned.clipped + Dropped(core, now)
         /\ AdvanceLearned(learned, core, now).surface_seconds = learned.surface_seconds
    BY <1>6, AdvanceFields
  <2> DEFINE recorded == learned.exposure + Accrued(core, now)
             left_out == learned.clipped + Dropped(core, now)
  <2>11. /\ recorded \in Int /\ left_out \in Int
         /\ learned.surface_seconds + seconds <= recorded + left_out
         /\ HealthReq = {} => learned.surface_seconds + seconds = recorded + left_out
    BY <2>7, <2>8, <2>10 DEF ExposedOK
  <2>12. /\ learned'.exposure = recorded /\ learned'.clipped = left_out
         /\ learned'.surface_seconds = learned.surface_seconds + seconds
         /\ LearnedRecord(learned')
    BY <2>9 DEF LearnedRecord
  <2> HIDE DEF recorded, left_out
  <2> QED
    BY <1>2, <1>5, <1>6, <2>2, <2>3, <2>6, <2>11, <2>12 DEF ExposedOK, NoTime
<1> QED
  BY <1>9, <1>10

\* Exposure is accounted for in the view that a refresh leaves.
LEMMA ExposureViewed ==
  ASSUME IInv, TimeOK, ExposureOK, NEW v, Viewed(v)
  PROVE  /\ ExposedOK(v.core, v.learned, v.evidence, decode.active)
         /\ v.core \in CoreState /\ v.core.active = decode.active
         /\ v.evidence.dirty \in BOOLEAN /\ v.evidence.surface_time \in Time
         /\ v.core.quarantined = v.evidence.dirty
<1>1. core \in CoreState /\ decode \in DecodeSets /\ clock \in Nat
  BY DEF IInv, CoreOK, DecodeOK, NativeOK
<1>2. v.core \in CoreState
  BY <1>1, ViewedCore DEF TimeOK
<1>3. CASE v.core = core /\ v.learned = learned /\ v.evidence = evidence
  BY <1>2, <1>3 DEF ExposureOK, IInv, CoreOK
<1>4. ASSUME NEW now \in 0 .. clock,
             v.core = RotateCore(core, now, decode.active), v.learned = NewLearned,
             v.evidence = [pending |-> NoPending, surface_time |-> now, dirty |-> FALSE]
      PROVE  /\ ExposedOK(v.core, v.learned, v.evidence, decode.active)
             /\ v.core.active = decode.active
             /\ v.evidence.dirty \in BOOLEAN /\ v.evidence.surface_time \in Time
             /\ v.core.quarantined = v.evidence.dirty
  <2>1. /\ v.core.last_time = now /\ v.core.active = decode.active /\ v.core.quarantined = FALSE
        /\ v.evidence.surface_time = now /\ v.evidence.dirty = FALSE
    BY <1>1, <1>2, <1>4 DEF CoreState, RotateCore
  <2>2. decode.active \in Int /\ now \in Nat /\ now # NoTime
    BY <1>1, CoreAssumption DEF DecodeSets, CoreAssumption, NoTime
  <2>3. decode.active * (now - now) = 0
    BY ONLY <2>2, Intervals
  <2>4. Uncounted(v.core, v.evidence, decode.active) = 0
    BY <2>1, <2>3 DEF Uncounted
  <2>5. /\ LearnedRecord(v.learned)
        /\ v.learned.exposure = 0 /\ v.learned.clipped = 0 /\ v.learned.surface_seconds = 0
    BY <1>4 DEF NewLearned, LearnedRecord
  <2>6. ExposedOK(v.core, v.learned, v.evidence, decode.active)
    BY <2>1, <2>2, <2>4, <2>5 DEF ExposedOK
  <2> QED
    BY <2>1, <2>2, <2>6 DEF Time
<1> QED
  BY <1>2, <1>3, <1>4 DEF Viewed

\* Exposure stays accounted for, whatever a step does.
LEMMA ExposedStep ==
  ASSUME IInv, TimeOK, ExposureOK, [Next]_vars
  PROVE  ExposedOK(core, learned, evidence, decode.active)'
<1>1. PICK v : Viewed(v) /\ Moved(v)
  BY CoreKinds
<1>2. /\ ExposedOK(v.core, v.learned, v.evidence, decode.active)
      /\ v.core \in CoreState /\ v.core.active = decode.active
      /\ v.evidence.dirty \in BOOLEAN /\ v.evidence.surface_time \in Time
      /\ v.core.quarantined = v.evidence.dirty
  BY <1>1, ExposureViewed
<1>3. CASE Touched(v)
  <2>1. /\ core'.last_time = v.core.last_time
        /\ learned' = v.learned /\ evidence' = v.evidence /\ decode' = decode
    BY <1>2, <1>3, CoreFields DEF Touched
  <2> QED
    BY <1>2, <2>1 DEF ExposedOK, Uncounted
<1>4. ASSUME NEW now \in 0 .. clock, v.core.last_time <= now,
             core' = AdvanceCore(v.core, now), learned' = AdvanceLearned(v.learned, v.core, now),
             evidence' = v.evidence, decode' = decode
      PROVE  ExposedOK(core, learned, evidence, decode.active)'
  <2>1. now \in Nat
    BY DEF IInv, NativeOK
  <2>2. ExposedOK(AdvanceCore(v.core, now), AdvanceLearned(v.learned, v.core, now), v.evidence,
                  v.core.active)
    BY <1>2, <1>4, <2>1, ExposureRead
  <2>3. ExposedOK(core', learned', evidence', decode'.active)
    BY <1>2, <1>4, <2>2
  <2> QED
    BY <2>3 DEF ExposedOK, Uncounted
<1>5. CASE \E now \in 0 .. clock : ReadAt(v, now)
  BY <1>4, <1>5 DEF ReadAt
<1>6. ASSUME NEW r \in Req, NEW now \in 0 .. clock, DecidedAt(v, r, now)
      PROVE  ExposedOK(core, learned, evidence, decode.active)'
  <2>1. PICK reason \in Decisions(r, now, WaitingCount, v) :
          AdmitRequest(r, now, WaitingCount, v, reason)
    BY <1>6 DEF DecidedAt
  <2>2. /\ (r \in HealthReq /\ reason \in AdmittingReasons) <=> HealthFits(r, WaitingCount, v)
        /\ now \in Nat
    BY <2>1, AdmissionInputs, DecisionFacts DEF IInv, LedgerOK, DecodeOK, NativeOK
  <2>3. v.core.last_time <= now /\ decode' = decode
    BY <1>2, <2>1, <2>2 DEF AdmitRequest, AdmitAccepts, ClockAccepts, CoreState, Time, NoTime
  <2>4. CASE ~HealthFits(r, WaitingCount, v)
    <3>1. /\ core' = AdvanceCore(v.core, now)
          /\ learned' = AdvanceLearned(v.learned, v.core, now)
          /\ evidence' = v.evidence
      BY <2>1, <2>2, <2>4 DEF AdmitRequest, CoreAtAdmission, LearnedAtAdmission, EvidenceWith
    <3> QED
      BY <1>4, <2>3, <3>1
  <2>5. CASE HealthFits(r, WaitingCount, v)
    <3> DEFINE c == AdvanceCore(QuarantineCore(v.core, now, decode.active, TRUE), now)
    <3>1. /\ core' = c /\ learned' = v.learned
          /\ evidence' = [v.evidence EXCEPT !.dirty = TRUE, !.pending = NoPending]
          /\ HealthReq # {}
      BY <2>1, <2>2, <2>5 DEF AdmitRequest, CoreAtAdmission, LearnedAtAdmission, EvidenceWith
    <3>2. c.last_time = now
      BY <1>2 DEF AdvanceCore, QuarantineCore, CoreState
    <3> HIDE DEF c
    <3>3. PICK e : e = v.evidence /\ e = [pending |-> e.pending, surface_time |-> e.surface_time,
                                          dirty |-> e.dirty]
      <4>1. CASE v.evidence = evidence
        BY <4>1 DEF IInv, CoreOK
      <4>2. CASE v.evidence # evidence
        BY <1>1, <4>2 DEF Viewed
      <4> QED
        BY <4>1, <4>2
    <3>4. evidence'.surface_time = v.evidence.surface_time /\ evidence'.dirty = TRUE
      BY <3>1, <3>3
    <3>5. Uncounted(core', evidence', decode'.active) = 0
      BY <3>4 DEF Uncounted
    <3>6. Uncounted(v.core, v.evidence, v.core.active) \in Nat
      BY <1>2, UncountedNatural
    <3>7. core'.last_time = now /\ now # NoTime /\ v.evidence.surface_time \in Int
          /\ v.core.last_time \in Int
      BY <1>2, <2>2, <3>1, <3>2 DEF NoTime, Time, CoreState
    <3> QED
      BY <1>2, <2>2, <2>3, <3>1, <3>4, <3>5, <3>6, <3>7 DEF ExposedOK
  <2> QED
    BY <2>4, <2>5
<1>7. ASSUME NEW upd \in Updates, NEW quarantine \in BOOLEAN, CommittedAt(upd, quarantine)
      PROVE  ExposedOK(core, learned, evidence, decode.active)'
  BY <1>7, ExposureCommit
<1> QED
  BY <1>1, <1>3, <1>5, <1>6, <1>7 DEF Moved

\* Without health checks no batch is contaminated.
LEMMA ContaminationStep ==
  ASSUME IInv, ExposureOK, [Next]_vars, HealthReq = {}
  PROVE  ~task'.contaminated
<1>1. task \in Tasks /\ ~task.contaminated /\ ~evidence.dirty
  BY DEF IInv, TaskOK, ExposureOK, ExposedOK
<1>2. ~IdleTask.contaminated
  BY DEF IdleTask
<1>3. ASSUME NEW r \in Req, AdmitNew(r) PROVE ~task'.contaminated
  <2> DEFINE rollback == [IdleTask EXCEPT !.at = "release", !.release = {r}]
  <2>1. task' = task \/ task' = rollback
    BY <1>3 DEF AdmitNew, Enqueue
  <2>2. ~rollback.contaminated
    BY DEF IdleTask
  <2> HIDE DEF rollback
  <2> QED
    BY <1>1, <2>1, <2>2
<1>4. ASSUME NEW r \in Req, Abort(r) \/ Retract(r) PROVE ~task'.contaminated
  BY <1>1, <1>4 DEF Abort, Retract, IdleTask
<1>5. ASSUME NEW extend \in BOOLEAN, RunBatch(extend) PROVE ~task'.contaminated
  BY <1>5 DEF RunBatch, IdleTask
<1>6. ASSUME NEW r \in Req, ReleaseNext(r) PROVE ~task'.contaminated
  BY <1>1, <1>6 DEF ReleaseNext, IdleTask, Tasks
<1>7. CASE CollectUpdates
  <2>1. ledger.health = 0
    BY FS_EmptySet DEF IInv, LedgerOK, LedgerExact
  <2>2. ~BatchContaminated
    BY <1>1, <2>1 DEF BatchContaminated
  <2> QED
    BY <1>1, <1>7, <2>2 DEF CollectUpdates, Tasks
<1>8. CASE CommitResult \/ Terminated
  BY <1>1, <1>8 DEF CommitResult, Terminated, Tasks
<1>9. CASE NothingToRelease
  BY <1>1, <1>9 DEF NothingToRelease, IdleTask
<1>10. ASSUME \/ task' = task
              \/ task.at = "refresh" /\ task' = [task EXCEPT !.at = "collect"]
              \/ task.at = "prefill" /\ task' = IdleTask
       PROVE  ~task'.contaminated
  BY <1>1, <1>2, <1>10 DEF Tasks
<1> QED
  BY <1>3, <1>4, <1>5, <1>6, <1>7, <1>8, <1>9, <1>10, StepKinds

\* Nothing has been learned and nothing is uncounted before the first batch.
LEMMA ExposureInit == Init => ExposureOK
<1> SUFFICES ASSUME Init PROVE ExposureOK
  OBVIOUS
<1>1. /\ learned = NewLearned /\ decode.active = 0 /\ ~task.contaminated
      /\ evidence.surface_time = NoTime /\ evidence.dirty = FALSE
  BY DEF Init, SchedulerInit, IdleTask
<1> QED
  BY <1>1 DEF ExposureOK, ExposedOK, LearnedRecord, NewLearned, Uncounted

\* Every step accounts for what it decoded, at once or as uncounted.
LEMMA ExposureStep == WorkInv /\ ExposureOK /\ [Next]_vars => ExposureOK'
BY ExposedStep, ContaminationStep DEF WorkInv, ExposureOK

\* What the cells have and what the next commit will give is never more than
\* what the aggregate clock has recorded and what it left out as older than
\* the rolling window; without health checks the two are equal.
THEOREM ExposureIsAccounted == Spec => []ExposureAccounted
<1>1. ExposureOK => ExposureAccounted
  BY DEF ExposureOK, ExposedOK, Uncounted, ExposureAccounted
<1> QED
  BY <1>1, ExposureInit, ExposureStep, WorkInvariance, PTL DEF Spec

-----------------------------------------------------------------------------
(* Refusals.  While control calls run between tasks and nothing is         *)
(* retracted, the core has no reason to refuse the scheduler thread.       *)

\* No clock is ahead of the scheduler's, and after_result runs to its end at
\* one instant.
CalmOK ==
  /\ fault = "none"
  /\ evidence.surface_time <= clock
  /\ \A r \in Req : progress[r].last_time <= clock /\ native[r].phase # "retracted"
  /\ task.at # "terminate"
  /\ task.at \in {"refresh", "collect", "commit", "prefill"} => task.now = clock
  /\ task.at = "release" /\ task.extend => task.now = clock

\* Whoever decodes is in a batch.
LEMMA DecodingInBatch ==
  ASSUME IInv, OwnersOK, CalmOK
  PROVE  Decoding \subseteq InBatch
<1> SUFFICES ASSUME NEW r \in Decoding PROVE r \in InBatch
  OBVIOUS
<1>1. r \in Req /\ progress[r].decoding
  BY DEF Decoding
<1>2. native[r].phase \notin {"new", "waiting"}
  BY <1>1 DEF OwnersOK, NoProgress
<1>3. native[r].phase \in {"waiting", "retracted", "chunked", "running"}
  BY <1>1, PhaseSets DEF IInv, OwnersOK, InPhase
<1> QED
  BY <1>1, <1>2, <1>3 DEF CalmOK, InBatch, InPhase

\* What a batch makes active fits the native capacity.
LEMMA ActiveFits ==
  ASSUME IInv, OwnersOK, CalmOK, LoadOK, NEW upd \in Updates, DOMAIN upd \subseteq InBatch
  PROVE  ActiveAfter(upd) <= NativeMaxRunning
<1>1. InBatch \in SUBSET Req /\ Decoding \in SUBSET InBatch /\ Decoding \in SUBSET Req
  BY DecodingInBatch DEF InBatch, InPhase
<1>2. /\ Entering(upd) \in SUBSET InBatch /\ Entering(upd) \in SUBSET Req
      /\ Leaving(upd) \in SUBSET Decoding /\ Decoding \cap Entering(upd) = {}
  BY <1>1 DEF Entering, Leaving, Counted, Decoding
<1>3. ActiveAfter(upd) = Cardinality((Decoding \cup Entering(upd)) \ Leaving(upd))
  BY <1>1, <1>2, CountBatch DEF ActiveAfter, IInv, DecodeOK
<1>4. (Decoding \cup Entering(upd)) \ Leaving(upd) \in SUBSET InBatch
  BY <1>1, <1>2
<1>5. /\ Cardinality((Decoding \cup Entering(upd)) \ Leaving(upd)) <= Cardinality(InBatch)
      /\ Cardinality((Decoding \cup Entering(upd)) \ Leaving(upd)) \in Nat
      /\ Cardinality(InBatch) \in Nat
  <2> DEFINE after == (Decoding \cup Entering(upd)) \ Leaving(upd)
  <2>1. after \in SUBSET InBatch /\ after \in SUBSET Req
    BY <1>1, <1>4
  <2> HIDE DEF after
  <2>2. Cardinality(after) <= Cardinality(InBatch) /\ Cardinality(after) \in Nat
        /\ Cardinality(InBatch) \in Nat
    BY <1>1, <2>1, CountSubset, Countable
  <2> QED
    BY <2>2 DEF after
<1> QED
  BY <1>3, <1>5, CoreAssumption DEF LoadOK, CoreAssumption

\* A batch committed at the present instant is accepted.
LEMMA CommitAccepted ==
  ASSUME IInv, TimeOK, OwnersOK, CalmOK, LoadOK, NEW upd \in Updates, DOMAIN upd \subseteq InBatch,
         NEW quarantine
  PROVE  CommitAccepts(upd, clock, quarantine, CurrentView)
<1>1. ActiveAfter(upd) <= NativeMaxRunning
  BY ActiveFits
<1>2. /\ CurrentView.core = core /\ CurrentView.evidence = evidence
      /\ core.last_time \in Int /\ evidence.surface_time \in Int /\ clock \in Nat
      /\ core.active = decode.active /\ decode.active \in 0 .. NativeMaxRunning
      /\ NativeMaxRunning \in Nat
  BY CoreAssumption DEF CurrentView, IInv, CoreOK, CoreState, NativeOK, DecodeOK, DecodeSets, Time,
     NoTime, CoreAssumption
<1>3. \A r \in Counted(upd) : progress[r].decoding => clock >= progress[r].last_time
  <2>1. \A r \in Req : progress[r].last_time \in Int
    BY DEF IInv, DecodeOK, Progresses, Time, NoTime
  <2>2. Counted(upd) \subseteq Req
    BY DEF Counted, InBatch, InPhase
  <2> QED
    BY <1>2, <2>1, <2>2 DEF CalmOK
<1>4. ObserveAccepts(core, clock, ActiveAfter(upd))
  BY <1>1, <1>2 DEF ObserveAccepts, ClockAccepts, TimeOK
<1> DEFINE seconds == SequenceSeconds(evidence, clock)
<1> DEFINE delta == CoreDelta(upd, evidence, clock)
<1>5. Elapsed(evidence, clock) >= 0
  BY <1>2 DEF Elapsed, CalmOK
<1>6. seconds = 0 => delta = 0
  BY DEF CoreDelta
<1>7. decode.active # 0 => CellBefore \in Cells /\ CellBefore[1] = decode.active
  <2>1. ASSUME decode.active # 0 PROVE decode.active \in 1 .. NativeMaxRunning
    BY <1>2, <2>1
  <2> QED
    BY <2>1, CellTypes DEF CellBefore
<1>8. seconds > 0 => decode.active # 0
  <2>1. decode.active = 0 => seconds = 0
    BY <1>2 DEF SequenceSeconds, Elapsed
  <2> QED
    BY <2>1
<1>9. FullReplacement(upd) => decode.active # 0
  BY <1>2 DEF FullReplacement
<1>10. ObservedAccepts(upd, clock, CurrentView)
  <2> HIDE DEF seconds, delta
  <2>1. FullReplacement(upd) =>
          ObserveReplacementAccepts(core, clock, delta, seconds, CellBefore, ActiveAfter(upd))
    BY <1>2, <1>4, <1>6, <1>7, <1>9 DEF ObserveReplacementAccepts
  <2>2. seconds > 0 =>
          ObserveBatchAccepts(core, clock, delta, seconds, CellBefore, ActiveAfter(upd))
    BY <1>4, <1>7, <1>8 DEF ObserveBatchAccepts
  <2> USE DEF seconds, delta
  <2> QED
    BY <1>2, <1>4, <1>5, <2>1, <2>2 DEF ObservedAccepts
<1> QED
  BY <1>2, <1>3, <1>4, <1>10 DEF CommitAccepts

\* No step raises.
LEMMA NothingRaises ==
  ASSUME ~ConcurrentControl, WorkInv, CalmOK, LoadOK
  PROVE  /\ \A r \in Req : ~AdmitRaises(r)
         /\ ~CommitRaises /\ ~TerminateRaises /\ ~PrefillRaises
<1>1. /\ core \in CoreState /\ decode \in DecodeSets /\ clock \in Nat
      /\ core.last_time <= clock /\ core.last_time \in Int
  BY DEF WorkInv, IInv, CoreOK, DecodeOK, NativeOK, TimeOK, CoreState, Time, NoTime
<1>2. ASSUME NEW r \in Req, AdmitRaises(r) PROVE FALSE
  <2>1. clock \in 0 .. clock /\ Readings = {clock}
    BY <1>1 DEF Readings
  <2>2. RefreshedView(clock).core \in CoreState /\ RefreshedView(clock).core.last_time <= clock
    BY <1>1, <2>1, ViewedRefresh, ViewedCore
  <2>3. AdmitAccepts(clock, RefreshedView(clock))
    BY <1>1, <2>2 DEF AdmitAccepts, ClockAccepts, CoreState, Time, NoTime
  <2> QED
    BY <1>2, <2>1, <2>3 DEF AdmitRaises
<1>3. ~CommitRaises
  <2> SUFFICES ASSUME CommitRaises PROVE FALSE
    OBVIOUS
  <2>1. task.at = "commit" /\ task.now = clock /\ task.updates \in Updates
        /\ DOMAIN task.updates \subseteq InBatch
    BY DEF CommitRaises, AtStep, CalmOK, WorkInv, OwnIInv, WorkOK, IInv, TaskOK, Tasks
  <2> QED
    BY <2>1, CommitAccepted DEF CommitRaises, WorkInv, OwnIInv
<1>4. ~TerminateRaises
  BY DEF TerminateRaises, AtStep, CalmOK
<1>5. ~PrefillRaises
  BY <1>1 DEF PrefillRaises, AtStep, CalmOK, ClockAccepts
<1> QED
  BY <1>2, <1>3, <1>4, <1>5

\* The parts of the invariant that a task can disturb.
LEMMA CalmTask ==
  ASSUME ~Retraction, ~ConcurrentControl, WorkInv, CalmOK, [Next]_vars
  PROVE  /\ task'.at # "terminate"
         /\ task'.at \in {"refresh", "collect", "commit", "prefill"} => task'.now = clock'
         /\ task'.at = "release" /\ task'.extend => task'.now = clock'
<1>1. task \in Tasks /\ clock \in Nat
  BY DEF WorkInv, IInv, TaskOK, NativeOK
<1>2. CASE Tick
  <2>1. task' = task /\ task.at = "idle"
    BY <1>2 DEF Tick, ControlMayRun
  <2> QED
    BY <2>1
<1>3. CASE ~Tick
  <2>1. clock' = clock
    BY <1>1, <1>3, ClockMoves
  <2>2. ASSUME NEW r \in Req, AdmitNew(r)
        PROVE  task' = task \/ (task'.at = "release" /\ ~task'.extend)
    <3> DEFINE rollback == [IdleTask EXCEPT !.at = "release", !.release = {r}]
    <3>1. task' = task \/ task' = rollback
      BY <2>2 DEF AdmitNew, Enqueue
    <3>2. rollback.at = "release" /\ ~rollback.extend
      BY DEF IdleTask
    <3> HIDE DEF rollback
    <3> QED
      BY <3>1, <3>2
  <2>3. ASSUME NEW r \in Req, Abort(r) PROVE task'.at = "release" /\ ~task'.extend
    <3>1. native[r].phase = "waiting"
      BY <2>3 DEF Abort, CalmOK
    <3>2. ~progress[r].attached
      BY <3>1 DEF WorkInv, OwnIInv, OwnersOK, NoProgress
    <3> QED
      BY <2>3, <3>2 DEF Abort, IdleTask
  <2>4. ASSUME NEW r \in Req, Retract(r) PROVE FALSE
    BY <2>4 DEF Retract
  <2>5. ASSUME NEW extend \in BOOLEAN, RunBatch(extend) PROVE task'.at = "refresh" /\ task'.now = clock
    BY <2>5 DEF RunBatch, IdleTask
  <2>6. ASSUME CollectUpdates PROVE task'.at \in {"commit", "release"} /\ task'.now = clock
    BY <1>1, <2>6 DEF CollectUpdates, AtStep, CalmOK, Tasks
  <2>7. ASSUME CommitResult PROVE task'.at = "release" /\ task'.now = clock
    BY <1>1, <2>7 DEF CommitResult, AtStep, CalmOK, Tasks
  <2>8. ~Terminated
    BY DEF Terminated, AtStep, CalmOK
  <2>9. ASSUME NEW r \in Req, ReleaseNext(r)
        PROVE  \/ /\ task'.at = "release" /\ task'.extend = task.extend /\ task'.now = task.now
                  /\ task.at = "release"
               \/ task'.at = "prefill" /\ task'.now = clock
               \/ task'.at = "idle"
    BY <1>1, <2>9 DEF ReleaseNext, AtStep, CalmOK, IdleTask, Tasks
  <2>10. ASSUME NothingToRelease
         PROVE  (task'.at = "prefill" /\ task'.now = clock) \/ task'.at = "idle"
    BY <1>1, <2>10 DEF NothingToRelease, AtStep, CalmOK, IdleTask
  <2>11. ASSUME task.at = "refresh" /\ task' = [task EXCEPT !.at = "collect"]
         PROVE  task'.at = "collect" /\ task'.now = clock
    BY <1>1, <2>11 DEF CalmOK, Tasks
  <2>12. ASSUME task.at = "prefill" /\ task' = IdleTask PROVE task'.at = "idle"
    BY <2>12 DEF IdleTask
  <2>13. task' = task => /\ task'.at # "terminate"
                         /\ task'.at \in {"refresh", "collect", "commit", "prefill"} => task'.now = clock'
                         /\ task'.at = "release" /\ task'.extend => task'.now = clock'
    BY <2>1 DEF CalmOK
  <2> QED
    <3>1. IInv
      BY DEF WorkInv
    <3> QED
      BY <2>1, <2>2, <2>3, <2>4, <2>5, <2>6, <2>7, <2>8, <2>9, <2>10, <2>11, <2>12, <2>13,
         StepKinds DEF CalmOK
<1> QED
  BY <1>2, <1>3

\* No clock runs ahead, and no request is retracted.
LEMMA CalmClocks ==
  ASSUME ~Retraction, WorkInv, CalmOK, [Next]_vars
  PROVE  /\ evidence'.surface_time <= clock'
         /\ \A r \in Req : progress'[r].last_time <= clock' /\ native'[r].phase # "retracted"
<1>1. /\ clock \in Nat /\ clock' \in Nat /\ clock <= clock' /\ task \in Tasks
      /\ progress \in [Req -> Progresses] /\ native \in [Req -> [phase : Phases, output : Nat]]
  BY ClockMoves DEF WorkInv, IInv, NativeOK, TaskOK, DecodeOK
<1>2. /\ task.now \in Nat /\ task.now <= clock
      /\ evidence.surface_time \in Int
  BY <1>1 DEF Tasks, WorkInv, TimeOK, IInv, CoreOK, Time, NoTime
<1>3. evidence'.surface_time <= clock /\ evidence'.surface_time \in Int
  <2>1. PICK v : Viewed(v) /\ Moved(v)
    BY CoreKinds DEF WorkInv
  <2>2. v.evidence.surface_time <= clock /\ v.evidence.surface_time \in Int
    <3>1. CASE v.evidence = evidence
      BY <1>2, <3>1 DEF CalmOK
    <3>2. ASSUME NEW now \in 0 .. clock,
                 v.evidence = [pending |-> NoPending, surface_time |-> now, dirty |-> FALSE]
          PROVE  v.evidence.surface_time <= clock /\ v.evidence.surface_time \in Int
      <4>1. v.evidence.surface_time = now
        BY <3>2
      <4> QED
        BY <1>1, <4>1
    <3> QED
      BY <2>1, <3>1, <3>2 DEF Viewed
  <2>3. CASE Touched(v) \/ \E now \in 0 .. clock : ReadAt(v, now)
    BY <2>2, <2>3 DEF Touched, ReadAt
  <2>4. ASSUME NEW r \in Req, NEW now \in 0 .. clock, DecidedAt(v, r, now)
        PROVE  evidence'.surface_time = v.evidence.surface_time
    <3>1. \/ evidence' = v.evidence
          \/ evidence' = [v.evidence EXCEPT !.dirty = TRUE, !.pending = NoPending]
      BY <2>4 DEF DecidedAt, AdmitRequest, EvidenceWith
    <3>2. PICK e : e = v.evidence /\ e = [pending |-> e.pending, surface_time |-> e.surface_time,
                                          dirty |-> e.dirty]
      BY <2>1 DEF Viewed, WorkInv, IInv, CoreOK
    <3> QED
      BY <3>1, <3>2
  <2>5. ASSUME NEW upd, NEW quarantine, CommittedAt(upd, quarantine)
        PROVE  evidence'.surface_time = task.now
    BY <2>5 DEF CommittedAt, CommitBatch, QuarantinedEvidence, ObservedEvidence
  <2>6. CASE \E r \in Req, now \in 0 .. clock : AdmitNew(r) /\ DecidedAt(v, r, now)
    BY <2>2, <2>4, <2>6
  <2>7. CASE \E upd \in Updates, quarantine \in BOOLEAN : CommittedAt(upd, quarantine)
    BY <1>2, <2>5, <2>7
  <2> QED
    BY <2>1, <2>3, <2>6, <2>7 DEF Moved
<1>4. ASSUME NEW r \in Req
      PROVE  progress'[r].last_time <= clock /\ progress'[r].last_time \in Int
  <2>1. progress[r].last_time \in Int /\ progress[r].last_time <= clock
    BY <1>1 DEF CalmOK, Progresses, Time, NoTime
  <2>2. CASE progress' = progress
    BY <2>1, <2>2
  <2>3. ASSUME NEW upd, progress' = ProgressAfter(upd, task.now)
        PROVE  progress'[r].last_time \in {progress[r].last_time, task.now, NoTime}
    BY <2>3 DEF ProgressAfter
  <2>4. CASE CommitResult \/ Terminated
    <3>1. PICK upd : progress' = ProgressAfter(upd, task.now)
      BY <2>4 DEF CommitResult, Terminated, CommitBatch
    <3> QED
      BY <1>1, <1>2, <2>1, <2>3, <3>1 DEF NoTime
  <2>5. CASE CollectUpdates
    <3>1. progress'[r].last_time = progress[r].last_time
      BY <1>1, <2>5 DEF CollectUpdates, Progresses
    <3> QED
      BY <2>1, <3>1
  <2>6. CASE ~(CommitResult \/ Terminated \/ CollectUpdates)
    <3>1. ASSUME NEW x \in Req, AdmitNew(x) \/ Abort(x) \/ Retract(x) \/ ReleaseNext(x)
          PROVE  progress' = progress
      BY <3>1 DEF AdmitNew, AdmitRequest, Abort, Retract, ReleaseNext, ReleaseRequest, schedulerVars
    <3>2. ASSUME NEW extend \in BOOLEAN, RunBatch(extend) PROVE progress' = progress
      BY <3>2 DEF RunBatch, schedulerVars
    <3>3. ASSUME NothingToRelease PROVE progress' = progress
      BY <3>3 DEF NothingToRelease, schedulerVars
    <3>4. progress' = progress
      BY <2>6, <3>1, <3>2, <3>3, StepKinds
    <3> QED
      BY <2>1, <3>4
  <2> QED
    BY <2>4, <2>5, <2>6
<1>5. ASSUME NEW r \in Req PROVE native'[r].phase # "retracted"
  <2>1. native[r].phase # "retracted"
    BY DEF CalmOK
  <2>2. ASSUME NEW x \in Req, NEW phase \in {"waiting", "over"},
               native' = [native EXCEPT ![x].phase = phase]
        PROVE  native'[r].phase # "retracted"
    BY <1>1, <2>1, <2>2
  <2>3. ASSUME NEW x \in Req, AdmitNew(x) \/ Abort(x) \/ Retract(x) \/ ReleaseNext(x)
        PROVE  \/ native' = native
               \/ native' = [native EXCEPT ![x].phase = "waiting"]
               \/ native' = [native EXCEPT ![x].phase = "over"]
    BY <2>3 DEF AdmitNew, Enqueue, Abort, Retract, ReleaseNext
  <2>4. ASSUME NEW extend \in BOOLEAN, RunBatch(extend) PROVE native'[r].phase # "retracted"
    <3>1. PICK B \in SUBSET Owners :
            /\ \A x \in B : native'[x].phase \in {"chunked", "running"}
            /\ \A x \in Req \ B : native'[x] = native[x]
      BY <2>4, BatchFacts DEF WorkInv
    <3> QED
      BY <2>1, <3>1
  <2>5. ASSUME CollectUpdates \/ CommitResult \/ Terminated \/ NothingToRelease
        PROVE  native' = native
    BY <2>5 DEF CollectUpdates, CommitResult, Terminated, NothingToRelease
  <2> QED
    BY <2>1, <2>2, <2>3, <2>4, <2>5, StepKinds
<1> QED
  BY <1>1, <1>2, <1>3, <1>4, <1>5

\* An exception leaves the scheduler thread only where the model says so.
LEMMA FaultsRaised ==
  ASSUME [Next]_vars, fault' # fault
  PROVE  (\E r \in Req : AdmitRaises(r)) \/ CommitRaises \/ TerminateRaises \/ PrefillRaises
BY DEF Next, AdmitNew, AdmitAgain, Abort, Retract, RunBatch, ResultStep, RefreshResult,
   CollectUpdates, CommitResult, Terminated, ReleaseNext, NothingToRelease, PrefillCompleted,
   PolicySnapshot, PatchPolicy, TelemetrySnapshot, RefreshIdentity, ChangeIdentity, Tick, vars

\* No call of the scheduler thread is refused: as the shipped scheduler runs
\* control calls between its tasks, its clock never runs backwards, and
\* without retraction what it makes active fits the native capacity.
THEOREM CallsAreNeverRefused ==
  ASSUME ~Retraction, ~ConcurrentControl
  PROVE  Spec => []NeverRefused
<1>1. Init => CalmOK /\ LoadOK
  <2> SUFFICES ASSUME Init PROVE CalmOK /\ LoadOK
    OBVIOUS
  <2>1. CalmOK
    BY DEF Init, SchedulerInit, CalmOK, IdleTask, NoProgress, NoTime
  <2> QED
    BY <2>1, LoadInit
<1>2. WorkInv /\ CalmOK /\ LoadOK /\ [Next]_vars => CalmOK' /\ LoadOK'
  <2> SUFFICES ASSUME WorkInv, CalmOK, LoadOK, [Next]_vars PROVE CalmOK' /\ LoadOK'
    OBVIOUS
  <2>1. fault' = "none"
    BY FaultsRaised, NothingRaises DEF CalmOK
  <2> QED
    BY <2>1, CalmTask, CalmClocks, LoadStep DEF CalmOK, WorkInv
<1>3. CalmOK => NeverRefused
  BY DEF CalmOK, NeverRefused
<1> QED
  BY <1>1, <1>2, <1>3, WorkInvariance, PTL DEF Spec

-----------------------------------------------------------------------------
(* Tokens.                                                                 *)

\* The output a Progress object has accounted for lags behind the native one,
\* and says by itself whether the request has ever decoded.
OutputOK ==
  /\ \A r \in Req :
       /\ progress[r].output_tokens <= native[r].output
       /\ progress[r].decoding => progress[r].output_tokens > 0
       /\ ~progress[r].decoding /\ ~progress[r].terminal => progress[r].output_tokens = 0
  /\ task.at = "commit" =>
       \A r \in DOMAIN task.updates : task.updates[r].output = native[r].output

\* A batch that is committed reports no less than was reported before.
NotLess(upd) ==
  \A r \in DOMAIN upd : /\ upd[r].output \in Nat /\ upd[r].terminal \in BOOLEAN
                        /\ progress[r].output_tokens <= upd[r].output
                        /\ upd[r].output <= native[r].output

\* What is committed is what the batch has computed, or what was known.
LEMMA CommittedOutput ==
  ASSUME IInv, OutputOK, NEW upd \in Updates, NEW quarantine, CommittedAt(upd, quarantine)
  PROVE  NotLess(upd)
<1>1. \A r \in DOMAIN upd : r \in Req /\ upd[r].output \in Nat /\ upd[r].terminal \in BOOLEAN
  BY DEF Updates, Update
<1>2. progress \in [Req -> Progresses] /\ task.release \in SUBSET Req
  BY DEF IInv, DecodeOK, TaskOK, Tasks
<1>3. CASE CommitResult /\ upd = task.updates
  BY <1>1, <1>2, <1>3 DEF CommitResult, AtStep, OutputOK, NotLess, Progresses
<1>4. CASE upd = TerminalUpdate
  <2>1. \A r \in DOMAIN upd : upd[r].output = progress[r].output_tokens
    BY <1>4 DEF TerminalUpdate
  <2> QED
    BY <1>1, <1>2, <2>1 DEF OutputOK, NotLess, Progresses
<1> QED
  BY <1>3, <1>4 DEF CommittedAt

\* A commit adds to the decode tokens of a request what it reports for it.
LEMMA CommitTokens ==
  ASSUME IInv, OutputOK, NEW upd \in Updates, NotLess(upd), NEW now,
         progress' = ProgressAfter(upd, now)
  PROVE  \A r \in Req :
           /\ progress'[r].output_tokens >= progress[r].output_tokens
           /\ progress'[r].output_tokens <= native[r].output
           /\ progress'[r].decoding => progress'[r].output_tokens > 0
           /\ ~progress'[r].decoding /\ ~progress'[r].terminal => progress'[r].output_tokens = 0
           /\ r \in Counted(upd) =>
                /\ Delta(upd, r) \in Nat
                /\ DecodeTokens(r) + Delta(upd, r) <= DecodeTokens(r)'
<1> SUFFICES ASSUME NEW r \in Req
             PROVE  /\ progress'[r].output_tokens >= progress[r].output_tokens
                    /\ progress'[r].output_tokens <= native[r].output
                    /\ progress'[r].decoding => progress'[r].output_tokens > 0
                    /\ ~progress'[r].decoding /\ ~progress'[r].terminal
                         => progress'[r].output_tokens = 0
                    /\ r \in Counted(upd) =>
                         /\ Delta(upd, r) \in Nat
                         /\ DecodeTokens(r) + Delta(upd, r) <= DecodeTokens(r)'
  OBVIOUS
<1> DEFINE old == progress[r]
<1>1. /\ old.output_tokens \in Nat /\ old.decoding \in BOOLEAN /\ old.terminal \in BOOLEAN
      /\ native[r].output \in Nat
  BY DEF IInv, DecodeOK, Progresses, NativeOK
<1>2. /\ old.output_tokens <= native[r].output
      /\ old.decoding => old.output_tokens > 0
      /\ ~old.decoding /\ ~old.terminal => old.output_tokens = 0
  BY DEF OutputOK
<1>3. CASE r \notin Counted(upd)
  <2>1. progress'[r] = progress[r]
    BY <1>3 DEF ProgressAfter
  <2> QED
    BY <1>1, <1>2, <1>3, <2>1
<1>4. CASE r \in Counted(upd)
  <2> DEFINE new == upd[r]
  <2>1. /\ new.output \in Nat /\ new.terminal \in BOOLEAN
        /\ old.output_tokens <= new.output /\ new.output <= native[r].output /\ ~old.terminal
    BY <1>4 DEF NotLess, Counted
  <2>2. /\ progress'[r].output_tokens = new.output
        /\ progress'[r].decoding = (~new.terminal /\ (old.decoding \/ new.output > 0))
        /\ progress'[r].terminal = new.terminal
    BY <1>4 DEF ProgressAfter
  <2>3. /\ DecodeTokens(r) = IF old.output_tokens > 0 THEN old.output_tokens - 1 ELSE 0
        /\ DecodeTokens(r)' = IF new.output > 0 THEN new.output - 1 ELSE 0
    BY <2>2 DEF DecodeTokens
  <2>4. Delta(upd, r) = IF old.decoding THEN new.output - old.output_tokens
                        ELSE IF new.terminal \/ new.output = 0 THEN 0 ELSE new.output - 1
    BY DEF Delta
  <2> HIDE DEF old, new
  <2>5. /\ Delta(upd, r) \in Nat
        /\ DecodeTokens(r) + Delta(upd, r) <= DecodeTokens(r)'
    <3>1. CASE old.decoding
      BY <1>1, <1>2, <2>1, <2>3, <2>4, <3>1
    <3>2. CASE ~old.decoding
      BY <1>1, <1>2, <2>1, <2>3, <2>4, <3>2
    <3> QED
      BY <3>1, <3>2
  <2>6. /\ progress'[r].output_tokens >= old.output_tokens
        /\ progress'[r].output_tokens <= native[r].output
        /\ progress'[r].decoding => progress'[r].output_tokens > 0
        /\ ~progress'[r].decoding /\ ~progress'[r].terminal => progress'[r].output_tokens = 0
    <3> DEFINE next == progress'[r]
    <3>1. /\ next.output_tokens = new.output /\ next.terminal = new.terminal
          /\ next.decoding = (~new.terminal /\ (old.decoding \/ new.output > 0))
      BY <2>2
    <3> HIDE DEF next
    <3>2. next.decoding => next.output_tokens > 0
      BY <1>1, <1>2, <2>1, <3>1
    <3>3. ~next.decoding /\ ~next.terminal => next.output_tokens = 0
      <4>1. ~next.decoding /\ ~next.terminal => ~(new.output > 0)
        BY <3>1, Zenon
      <4>2. ~(new.output > 0) => new.output = 0
        BY <2>1
      <4> QED
        BY <3>1, <4>1, <4>2
    <3>4. next.output_tokens >= old.output_tokens /\ next.output_tokens <= native[r].output
      BY <1>1, <2>1, <3>1
    <3> QED
      BY <3>2, <3>3, <3>4 DEF next
  <2> QED
    BY <2>5, <2>6 DEF old
<1> QED
  BY <1>3, <1>4

\* No step takes output back, and every commit reports what was computed.
LEMMA OutputStep ==
  ASSUME IInv, TimeOK, OutputOK, [Next]_vars
  PROVE  OutputOK' /\ \A r \in Req : progress'[r].output_tokens >= progress[r].output_tokens
<1>1. /\ progress \in [Req -> Progresses] /\ native \in [Req -> [phase : Phases, output : Nat]]
      /\ task \in Tasks
  BY DEF IInv, DecodeOK, NativeOK, TaskOK
<1> DEFINE Same(p, q) == p.output_tokens = q.output_tokens /\ p.decoding = q.decoding
                         /\ p.terminal = q.terminal
           Calm == \A r \in Req : Same(progress'[r], progress[r])
           Grown == \A r \in Req : native[r].output <= native'[r].output /\ native'[r].output \in Nat
<1>2. ASSUME Calm, Grown
      PROVE  \A r \in Req :
               /\ progress'[r].output_tokens >= progress[r].output_tokens
               /\ progress'[r].output_tokens <= native'[r].output
               /\ progress'[r].decoding => progress'[r].output_tokens > 0
               /\ ~progress'[r].decoding /\ ~progress'[r].terminal
                    => progress'[r].output_tokens = 0
  <2> SUFFICES ASSUME NEW r \in Req
               PROVE  /\ progress'[r].output_tokens >= progress[r].output_tokens
                      /\ progress'[r].output_tokens <= native'[r].output
                      /\ progress'[r].decoding => progress'[r].output_tokens > 0
                      /\ ~progress'[r].decoding /\ ~progress'[r].terminal
                           => progress'[r].output_tokens = 0
    OBVIOUS
  <2>1. progress[r].output_tokens \in Nat /\ native[r].output \in Nat
    BY <1>1 DEF Progresses
  <2> QED
    BY <1>2, <2>1 DEF OutputOK
<1>3. ASSUME native' = native PROVE Grown
  BY <1>1, <1>3
<1>4. ASSUME progress' = progress PROVE Calm
  BY <1>4
<1>5. CASE \E r \in Req : AdmitNew(r)
  <2>1. PICK r \in Req : AdmitNew(r)
    BY <1>5
  <2>2. progress' = progress /\ Grown
    BY <1>1, <2>1 DEF AdmitNew, AdmitRequest, Enqueue
  <2>3. task'.at # "commit"
    <3> DEFINE rollback == [IdleTask EXCEPT !.at = "release", !.release = {r}]
    <3>1. rollback.at = "release"
      BY DEF IdleTask
    <3>2. task' = task \/ task' = rollback
      BY <2>1 DEF AdmitNew, Enqueue
    <3> HIDE DEF rollback
    <3> QED
      BY <2>1, <3>1, <3>2 DEF AdmitNew, Idle
  <2> QED
    BY <1>2, <1>4, <2>2, <2>3 DEF OutputOK
<1>6. CASE \E extend \in BOOLEAN : RunBatch(extend)
  <2>1. PICK extend \in BOOLEAN : RunBatch(extend)
    BY <1>6
  <2>2. PICK B, g, F : /\ native' = NativeAfter(B, g)
                       /\ g \in Gains(B, extend)
                       /\ task' = [IdleTask EXCEPT !.at = "refresh", !.now = clock, !.batch = B,
                                                   !.finished = F, !.extend = extend]
    <3>1. PICK B \in (IF extend THEN ExtendBatches ELSE DecodeBatches) :
              \E g \in Gains(B, extend) : \E F \in Finishes(B, g) :
                /\ native' = NativeAfter(B, g)
                /\ task' = [IdleTask EXCEPT !.at = "refresh", !.now = clock, !.batch = B,
                                            !.finished = F, !.extend = extend]
      BY <2>1 DEF RunBatch
    <3> QED
      BY <3>1
  <2>3. \A r \in Req : r \in B => g[r] \in Nat
    BY <2>2, SglangAssumption DEF Gains, SglangAssumption
  <2>4. Grown
    BY <1>1, <2>2, <2>3 DEF NativeAfter
  <2>5. progress' = progress /\ task'.at = "refresh"
    BY <2>1, <2>2 DEF RunBatch, schedulerVars, IdleTask
  <2> QED
    BY <1>2, <1>4, <2>4, <2>5 DEF OutputOK
<1>7. CASE CollectUpdates
  <2>1. Calm /\ native' = native
    BY <1>1, <1>7 DEF CollectUpdates, Progresses
  <2>2. task'.updates = BatchUpdates
    BY <1>1, <1>7 DEF CollectUpdates, Tasks
  <2>3. \A r \in DOMAIN task'.updates : task'.updates[r].output = native[r].output
    BY <2>2 DEF BatchUpdates
  <2> QED
    BY <1>2, <1>3, <2>1, <2>3 DEF OutputOK
<1>8. CASE CommitResult \/ Terminated
  <2>1. PICK upd \in Updates : \E quarantine \in BOOLEAN : CommittedAt(upd, quarantine)
    <3>1. task.updates \in Updates /\ TerminalUpdate \in Updates /\ task.contaminated \in BOOLEAN
      BY UpdateTypes DEF IInv, TaskOK, Tasks
    <3> QED
      BY <1>8, <3>1 DEF CommitResult, Terminated, CommittedAt
  <2>2. progress' = ProgressAfter(upd, task.now) /\ NotLess(upd)
    BY <2>1, CommittedOutput DEF CommittedAt, CommitBatch
  <2>3. native' = native /\ task'.at = "release"
    BY <1>1, <1>8 DEF CommitResult, Terminated, Tasks
  <2> QED
    BY <2>2, <2>3, CommitTokens DEF OutputOK
<1>9. CASE \E r \in Req : Abort(r) \/ Retract(r)
  <2>1. progress' = progress /\ Grown
    BY <1>1, <1>9 DEF Abort, Retract, schedulerVars
  <2>2. task'.at # "commit" \/ task' = task
    BY <1>9 DEF Abort, Retract, IdleTask
  <2>3. task'.at # "commit"
    BY <1>9, <2>2 DEF Abort, Retract, Idle
  <2> QED
    BY <1>2, <1>4, <2>1, <2>3 DEF OutputOK
<1>10. CASE NothingToRelease \/ \E r \in Req : ReleaseNext(r)
  <2>1. progress' = progress /\ Grown
    BY <1>1, <1>10 DEF NothingToRelease, ReleaseNext, ReleaseRequest, schedulerVars
  <2>2. task'.at # "commit"
    <3> DEFINE last == [IdleTask EXCEPT !.at = "prefill", !.now = task.now]
    <3>1. last.at = "prefill" /\ IdleTask.at = "idle"
      BY DEF IdleTask
    <3>2. task.at = "release"
      BY <1>10 DEF NothingToRelease, ReleaseNext, AtStep
    <3>3. CASE NothingToRelease
      <4>1. task' = last \/ task' = IdleTask
        BY <3>3 DEF NothingToRelease
      <4> HIDE DEF last
      <4> QED
        BY <3>1, <4>1
    <3>4. ASSUME NEW r \in Req, ReleaseNext(r) PROVE task'.at # "commit"
      <4> DEFINE rest == [task EXCEPT !.release = @ \ {r}]
      <4>1. task' = rest \/ task' = last \/ task' = IdleTask
        BY <3>4 DEF ReleaseNext
      <4>2. rest.at = "release"
        BY <1>1, <3>2 DEF Tasks
      <4> HIDE DEF last, rest
      <4> QED
        BY <3>1, <4>1, <4>2
    <3> QED
      BY <1>10, <3>3, <3>4
  <2> QED
    BY <1>2, <1>4, <2>1, <2>2 DEF OutputOK
<1>11. CASE /\ UNCHANGED <<ledger, decode, reservation, progress, native>>
            /\ \/ task' = task
               \/ task.at = "refresh" /\ task' = [task EXCEPT !.at = "collect"]
               \/ task.at = "prefill" /\ task' = IdleTask
  <2>1. task' = task \/ task'.at # "commit"
    BY <1>1, <1>11 DEF IdleTask, Tasks
  <2> QED
    BY <1>2, <1>3, <1>4, <1>11, <2>1 DEF OutputOK
<1> QED
  BY <1>5, <1>6, <1>7, <1>8, <1>9, <1>10, <1>11, StepKinds

\* Tokens that wait for their exposure, in any map of cells.
Kept(pending) == SumFunction([cell \in DOMAIN pending |-> pending[cell].tokens])

PendingFits(pending) ==
  IsFiniteSet(DOMAIN pending) /\ \A cell \in DOMAIN pending : pending[cell].tokens \in Nat

\* A sum over some of the pending cells is what these cells keep, and no more than
\* all of them do.
LEMMA KeptSum ==
  ASSUME NEW pending, PendingFits(pending), NEW D \in SUBSET (DOMAIN pending),
         NEW f, \A cell \in D : f[cell] = pending[cell].tokens
  PROVE  /\ Kept(pending) \in Nat
         /\ PendingFits(Restrict(pending, D))
         /\ SumFunctionOnSet(f, D) = Kept(Restrict(pending, D))
         /\ SumFunctionOnSet(f, D) <= Kept(pending) /\ SumFunctionOnSet(f, D) \in Nat
<1> DEFINE S == DOMAIN pending
           all == [cell \in S |-> pending[cell].tokens]
           some == Restrict(pending, D)
           part == [cell \in D |-> some[cell].tokens]
<1>1. IsFiniteSet(S) /\ IsFiniteSet(D) /\ \A cell \in S : all[cell] \in Nat
  BY FS_Subset DEF PendingFits
<1>2. Kept(pending) = SumFunctionOnSet(all, S)
  BY DEF Kept, SumFunction
<1>3. DOMAIN some = D /\ \A cell \in D : some[cell] = pending[cell]
  BY DEF Restrict
<1>4. Kept(some) = SumFunctionOnSet(part, D)
  BY <1>3 DEF Kept, SumFunction
<1>5. \A cell \in D : /\ f[cell] \in Nat /\ f[cell] \in Int /\ all[cell] \in Int
                      /\ all[cell] = f[cell] /\ part[cell] = f[cell]
  BY <1>1, <1>3
<1>6. PendingFits(some)
  BY <1>1, <1>3, <1>5 DEF PendingFits
<1> HIDE DEF all, some, part
<1>7. SumFunctionOnSet(f, D) = SumFunctionOnSet(part, D)
  BY <1>1, <1>5, SumCongruence
<1>8. SumFunctionOnSet(f, D) = SumFunctionOnSet(all, D)
  BY <1>1, <1>5, SumCongruence
<1>9. SumFunctionOnSet(all, D) <= SumFunctionOnSet(all, S)
  BY <1>1, SumOfPart
<1>10. SumFunctionOnSet(all, S) \in Nat /\ SumFunctionOnSet(f, D) \in Nat
  BY <1>1, <1>5, SumNatural
<1> QED
  BY <1>2, <1>4, <1>6, <1>7, <1>8, <1>9, <1>10 DEF some

\* What is kept is a number.
LEMMA KeptNatural == ASSUME NEW pending, PendingFits(pending) PROVE Kept(pending) \in Nat
<1> DEFINE all == [cell \in DOMAIN pending |-> pending[cell].tokens]
<1>1. Kept(pending) = SumFunctionOnSet(all, DOMAIN pending)
  BY DEF Kept, SumFunction
<1>2. \A cell \in DOMAIN pending : all[cell] \in Nat
  BY DEF PendingFits
<1> HIDE DEF all
<1> QED
  BY <1>1, <1>2, SumNatural DEF PendingFits

\* What is kept for one cell, and for all the others.
LEMMA KeptTake ==
  ASSUME NEW pending, PendingFits(pending), NEW cell
  PROVE  /\ Kept(pending) = PendingAt(pending, cell) + Kept(DropPending(pending, cell))
         /\ PendingAt(pending, cell) \in Nat /\ Kept(DropPending(pending, cell)) \in Nat
         /\ PendingFits(DropPending(pending, cell))
<1> DEFINE S == DOMAIN pending
           all == [x \in S |-> pending[x].tokens]
           rest == DropPending(pending, cell)
<1>1. IsFiniteSet(S) /\ (\A x \in S : all[x] \in Nat) /\ (\A x \in S : all[x] \in Int)
  BY DEF PendingFits
<1>2. Kept(pending) = SumFunctionOnSet(all, S)
  BY DEF Kept, SumFunction
<1>3. /\ PendingFits(rest) /\ SumFunctionOnSet(all, S \ {cell}) = Kept(rest)
      /\ SumFunctionOnSet(all, S \ {cell}) \in Nat
  <2>1. S \ {cell} \in SUBSET (DOMAIN pending)
    OBVIOUS
  <2>2. \A x \in S \ {cell} : all[x] = pending[x].tokens
    OBVIOUS
  <2> HIDE DEF all
  <2> QED
    BY <2>1, <2>2, KeptSum DEF DropPending
<1>4. CASE cell \in S
  <2>1. SumFunctionOnSet(all, S) = all[cell] + SumFunctionOnSet(all, S \ {cell})
    <3> HIDE DEF all
    <3> QED
      BY <1>1, <1>4, SumTake
  <2>2. PendingAt(pending, cell) = all[cell] /\ all[cell] \in Nat
    BY <1>1, <1>4 DEF PendingAt
  <2> HIDE DEF all, rest, S
  <2>3. Kept(pending) = PendingAt(pending, cell) + Kept(rest) /\ Kept(rest) \in Nat
    BY <1>2, <1>3, <2>1, <2>2
  <2> QED
    BY <1>3, <2>2, <2>3 DEF rest
<1>5. CASE cell \notin S
  <2>1. S \ {cell} = S /\ PendingAt(pending, cell) = 0
    BY <1>5 DEF PendingAt
  <2> HIDE DEF all, rest
  <2>2. Kept(pending) = Kept(rest) /\ Kept(rest) \in Nat
    BY <1>2, <1>3, <2>1
  <2>3. Kept(pending) = PendingAt(pending, cell) + Kept(rest)
    BY <2>1, <2>2
  <2> QED
    BY <1>3, <2>1, <2>2, <2>3 DEF rest
<1> QED
  BY <1>4, <1>5

\* Replacing what is kept for one cell.
LEMMA KeptPut ==
  ASSUME NEW pending, PendingFits(pending), NEW cell, NEW tokens \in Nat, NEW now
  PROVE  LET put == PutPending(pending, cell, tokens, now)
         IN PendingFits(put) /\ Kept(put) + PendingAt(pending, cell) = Kept(pending) + tokens
<1> DEFINE put == PutPending(pending, cell, tokens, now)
<1>1. DOMAIN put = DOMAIN pending \cup {cell} /\ put[cell].tokens = tokens
      /\ \A x \in DOMAIN pending \ {cell} : put[x] = pending[x]
  BY DEF PutPending
<1>2. DropPending(put, cell) = DropPending(pending, cell)
  BY <1>1 DEF DropPending, Restrict
<1>3. PendingFits(put)
  <2>1. IsFiniteSet(DOMAIN pending \cup {cell})
    BY FS_AddElement DEF PendingFits
  <2> QED
    BY <1>1, <2>1 DEF PendingFits
<1>4. PendingAt(put, cell) = tokens
  BY <1>1 DEF PendingAt
<1> HIDE DEF put
<1>5. Kept(put) = tokens + Kept(DropPending(pending, cell))
  <2>1. Kept(put) = PendingAt(put, cell) + Kept(DropPending(put, cell))
    BY <1>3, KeptTake
  <2> QED
    BY <1>2, <1>4, <2>1
<1>6. /\ Kept(pending) = PendingAt(pending, cell) + Kept(DropPending(pending, cell))
      /\ PendingAt(pending, cell) \in Nat /\ Kept(DropPending(pending, cell)) \in Nat
  BY KeptTake
<1>7. Kept(put) + PendingAt(pending, cell) = Kept(pending) + tokens
  BY <1>5, <1>6
<1> QED
  BY <1>3, <1>7 DEF put

\* Nothing pending keeps nothing.
LEMMA KeptNothing == PendingFits(NoPending) /\ Kept(NoPending) = 0
<1>1. DOMAIN NoPending = {}
  BY DEF NoPending
<1> DEFINE none == [cell \in DOMAIN NoPending |-> NoPending[cell].tokens]
<1>2. DOMAIN none = {} /\ Kept(NoPending) = SumFunctionOnSet(none, DOMAIN none)
  BY <1>1 DEF Kept, SumFunction
<1> HIDE DEF none
<1> QED
  BY <1>1, <1>2, SumEmpty, FS_EmptySet DEF PendingFits

\* What a batch without contamination adds to the core and keeps for later
\* is at most what it carries and what was kept.
LEMMA BatchTokens ==
  ASSUME NEW upd, NEW e, NEW now, PendingFits(e.pending), decode.active \in Nat,
         TotalDelta(upd) \in Nat, EnteringDelta(upd) \in Nat, EnteringDelta(upd) <= TotalDelta(upd),
         SequenceSeconds(e, now) \in Nat
  PROVE  /\ PendingFits(PendingAfter(upd, e, now))
         /\ CoreDelta(upd, e, now) \in Nat
         /\ CoreDelta(upd, e, now) + Kept(PendingAfter(upd, e, now))
              <= Kept(e.pending) + TotalDelta(upd)
<1> DEFINE fresh == FreshPending(e, now)
           carried == PendingAt(fresh, CellBefore)
           total == TotalDelta(upd)
           entering == EnteringDelta(upd)
           seconds == SequenceSeconds(e, now)
           kept == IF decode.active = 0 THEN NoPending ELSE fresh
           cell == IF decode.active = 0 THEN CellAfter(upd) ELSE CellBefore
           next == PendingAfter(upd, e, now)
           given == CoreDelta(upd, e, now)
<1>1. /\ PendingFits(fresh) /\ Kept(fresh) <= Kept(e.pending)
      /\ Kept(e.pending) \in Nat /\ Kept(fresh) \in Nat
  <2> DEFINE D == {c \in DOMAIN e.pending : now - e.pending[c].at <= PENDING_HORIZON}
             f == [c \in D |-> e.pending[c].tokens]
  <2>1. D \in SUBSET (DOMAIN e.pending) /\ fresh = Restrict(e.pending, D)
        /\ \A c \in D : f[c] = e.pending[c].tokens
    BY DEF FreshPending
  <2> HIDE DEF D, f, fresh
  <2> QED
    BY <2>1, KeptSum
<1>2. /\ Kept(fresh) = carried + Kept(DropPending(fresh, CellBefore))
      /\ carried \in Nat /\ Kept(DropPending(fresh, CellBefore)) \in Nat
      /\ PendingFits(DropPending(fresh, CellBefore))
  BY <1>1, KeptTake
<1>3. PendingFits(kept) /\ Kept(kept) <= Kept(fresh) /\ Kept(kept) \in Nat
  <2>1. CASE decode.active = 0
    BY <1>1, <2>1, KeptNothing
  <2>2. CASE decode.active # 0
    BY <1>1, <2>2
  <2> QED
    BY <2>1, <2>2
<1>4. /\ PendingAt(kept, cell) \in Nat
      /\ PendingFits(PutPending(kept, cell, PendingAt(kept, cell) + total, now))
      /\ Kept(PutPending(kept, cell, PendingAt(kept, cell) + total, now)) = Kept(kept) + total
  <2> HIDE DEF kept, cell
  <2>1. PendingAt(kept, cell) \in Nat
    BY <1>3, KeptTake
  <2> DEFINE n == PendingAt(kept, cell) + total
             put == PutPending(kept, cell, n, now)
  <2>2. n \in Nat
    BY <2>1
  <2> HIDE DEF n
  <2>3. PendingFits(put) /\ Kept(put) + PendingAt(kept, cell) = Kept(kept) + n
    BY <1>3, <2>2, KeptPut
  <2>4. Kept(put) \in Nat
    <3> HIDE DEF put
    <3> QED
      BY <2>3, KeptNatural
  <2> HIDE DEF put
  <2>5. Kept(put) = Kept(kept) + total
    BY <1>3, <2>1, <2>3, <2>4 DEF n
  <2> QED
    BY <2>1, <2>3, <2>5 DEF n, put
<1>5. /\ PendingFits(PutPending(NoPending, CellAfter(upd), entering, now))
      /\ Kept(PutPending(NoPending, CellAfter(upd), entering, now)) = entering
  <2> DEFINE put == PutPending(NoPending, CellAfter(upd), entering, now)
  <2>1. PendingFits(put) /\ Kept(put) + PendingAt(NoPending, CellAfter(upd)) = Kept(NoPending) + entering
    BY KeptPut, KeptNothing
  <2>2. PendingAt(NoPending, CellAfter(upd)) = 0
    BY DEF PendingAt, NoPending
  <2> HIDE DEF put
  <2>3. Kept(put) \in Nat
    BY <2>1, KeptNatural
  <2>4. Kept(put) = entering
    BY <2>1, <2>2, <2>3, KeptNothing
  <2> QED
    BY <2>1, <2>4 DEF put
<1>6. /\ PendingFits(NoPending) /\ Kept(NoPending) = 0
  BY KeptNothing
<1>7. given = IF seconds = 0 THEN 0
              ELSE IF FullReplacement(upd) THEN total - entering + carried
              ELSE total + carried
  BY DEF CoreDelta
<1>8. next = IF ActiveAfter(upd) = 0 THEN NoPending
             ELSE IF FullReplacement(upd)
               THEN IF entering > 0 THEN PutPending(NoPending, CellAfter(upd), entering, now)
                    ELSE NoPending
             ELSE IF seconds > 0 THEN DropPending(fresh, CellBefore)
             ELSE IF total > 0 THEN PutPending(kept, cell, PendingAt(kept, cell) + total, now)
             ELSE kept
  BY DEF PendingAfter
<1>9. total \in Nat /\ entering \in Nat /\ entering <= total /\ seconds \in Nat
  OBVIOUS
<1> DEFINE dropped == DropPending(fresh, CellBefore)
           grown == PutPending(kept, cell, PendingAt(kept, cell) + total, now)
           begun == PutPending(NoPending, CellAfter(upd), entering, now)
           before == Kept(e.pending)
<1> HIDE DEF fresh, carried, total, entering, seconds, kept, cell, next, given
<1>10. /\ PendingFits(dropped) /\ PendingFits(grown) /\ PendingFits(begun)
       /\ Kept(dropped) \in Nat /\ carried + Kept(dropped) <= before
       /\ Kept(grown) = Kept(kept) + total /\ Kept(begun) = entering
       /\ before \in Nat /\ carried \in Nat /\ carried <= before
       /\ Kept(kept) \in Nat /\ Kept(kept) <= before
  BY <1>1, <1>2, <1>3, <1>4, <1>5
<1>11. next = IF ActiveAfter(upd) = 0 THEN NoPending
              ELSE IF FullReplacement(upd) THEN IF entering > 0 THEN begun ELSE NoPending
              ELSE IF seconds > 0 THEN dropped
              ELSE IF total > 0 THEN grown
              ELSE kept
  BY <1>8
<1> HIDE DEF dropped, grown, begun, before
<1>12. PendingFits(next) /\ given \in Nat /\ given + Kept(next) <= before + total
  <2>1. CASE ActiveAfter(upd) = 0
    BY <1>6, <1>7, <1>9, <1>10, <1>11, <2>1
  <2>2. CASE ActiveAfter(upd) # 0 /\ FullReplacement(upd)
    <3>1. PendingFits(next) /\ Kept(next) = entering
      BY <1>6, <1>9, <1>10, <1>11, <2>2
    <3> QED
      BY <1>7, <1>9, <1>10, <2>2, <3>1
  <2>3. CASE ActiveAfter(upd) # 0 /\ ~FullReplacement(upd) /\ seconds > 0
    <3>1. next = dropped
      BY <1>11, <2>3
    <3>2. given = total + carried
      BY <1>7, <1>9, <2>3
    <3> QED
      BY <1>9, <1>10, <3>1, <3>2
  <2>4. CASE ActiveAfter(upd) # 0 /\ ~FullReplacement(upd) /\ ~(seconds > 0)
    <3>1. given = 0
      BY <1>7, <1>9, <2>4
    <3>2. PendingFits(next) /\ Kept(next) <= before + total /\ Kept(next) \in Nat
      BY <1>3, <1>9, <1>10, <1>11, <2>4
    <3> QED
      BY <3>1, <3>2
  <2> QED
    BY <2>1, <2>2, <2>3, <2>4
<1> QED
  BY <1>12 DEF next, given, before, total

\* Decode tokens of the requests admitted in an epoch.
Learning(n) == {r \in Req \ HealthReq : reservation[r].epoch = n}
Generated(n) == SumFunction([r \in Learning(n) |-> DecodeTokens(r)])

\* A sum over the requests a run is learning is a sum over a set of requests.
LEMMA GeneratedSum ==
  ASSUME NEW S \in SUBSET Req, NEW f, DOMAIN f = S, NEW d \in [Req -> Nat], \A r \in S : f[r] = d[r]
  PROVE  /\ IsFiniteSet(S)
         /\ SumFunction(f) = SumFunctionOnSet(d, S) /\ SumFunction(f) \in Nat
<1>1. IsFiniteSet(S) /\ \A r \in S : f[r] \in Int /\ d[r] = f[r] /\ d[r] \in Nat
  BY Countable
<1>2. SumFunctionOnSet(f, S) = SumFunctionOnSet(d, S)
  BY <1>1, SumCongruence
<1>3. SumFunctionOnSet(d, S) \in Nat
  BY <1>1, SumNatural
<1> QED
  BY <1>1, <1>2, <1>3 DEF SumFunction

\* What a run generates is such a sum, before a step ...
LEMMA GeneratedNow ==
  ASSUME progress \in [Req -> Progresses], NEW n
  PROVE  /\ IsFiniteSet(Learning(n)) /\ Learning(n) \in SUBSET Req
         /\ \A r \in Req : DecodeTokens(r) \in Nat
         /\ Generated(n) = SumFunctionOnSet([r \in Req |-> DecodeTokens(r)], Learning(n))
         /\ Generated(n) \in Nat
<1> DEFINE f == [r \in Learning(n) |-> DecodeTokens(r)]
           d == [r \in Req |-> DecodeTokens(r)]
<1>1. \A r \in Req : DecodeTokens(r) \in Nat
  BY DEF Progresses, DecodeTokens
<1>2. Learning(n) \in SUBSET Req /\ Generated(n) = SumFunction(f)
  BY DEF Learning, Generated
<1>3. DOMAIN f = Learning(n) /\ d \in [Req -> Nat] /\ \A r \in Learning(n) : f[r] = d[r]
  BY <1>1, <1>2
<1> HIDE DEF f, d
<1>4. IsFiniteSet(Learning(n)) /\ SumFunction(f) = SumFunctionOnSet(d, Learning(n))
      /\ SumFunction(f) \in Nat
  BY <1>2, <1>3, GeneratedSum
<1> QED
  BY <1>1, <1>2, <1>4 DEF d

\* ... and after it.
LEMMA GeneratedNext ==
  ASSUME progress' \in [Req -> Progresses], NEW n
  PROVE  /\ IsFiniteSet(Learning(n)') /\ Learning(n)' \in SUBSET Req
         /\ \A r \in Req : DecodeTokens(r)' \in Nat
         /\ Generated(n)' = SumFunctionOnSet([r \in Req |-> DecodeTokens(r)'], Learning(n)')
         /\ Generated(n)' \in Nat
<1> DEFINE f == [r \in Learning(n)' |-> DecodeTokens(r)']
           d == [r \in Req |-> DecodeTokens(r)']
<1>1. \A r \in Req : DecodeTokens(r)' \in Nat
  BY DEF Progresses, DecodeTokens
<1>2. Learning(n)' \in SUBSET Req /\ Generated(n)' = SumFunction(f)
  BY DEF Learning, Generated
<1>3. DOMAIN f = Learning(n)' /\ d \in [Req -> Nat] /\ \A r \in Learning(n)' : f[r] = d[r]
  BY <1>1, <1>2
<1> HIDE DEF f, d
<1>4. IsFiniteSet(Learning(n)') /\ SumFunction(f) = SumFunctionOnSet(d, Learning(n)')
      /\ SumFunction(f) \in Nat
  BY <1>2, <1>3, GeneratedSum
<1> QED
  BY <1>1, <1>2, <1>4 DEF d

\* Output only grows, and with it what was generated.
LEMMA GeneratedGrows ==
  ASSUME IInv, IInv', NEW n, NEW m, Learning(n) \subseteq Learning(m)',
         \A r \in Req : progress'[r].output_tokens >= progress[r].output_tokens
  PROVE  Generated(n) <= Generated(m)'
<1> DEFINE S == Learning(n)
           T == Learning(m)'
           before == [r \in Req |-> DecodeTokens(r)]
           after == [r \in Req |-> DecodeTokens(r)']
<1>1. /\ IsFiniteSet(S) /\ S \in SUBSET Req /\ Generated(n) = SumFunctionOnSet(before, S)
      /\ \A r \in Req : before[r] \in Nat
  BY GeneratedNow DEF IInv, DecodeOK
<1>2. /\ IsFiniteSet(T) /\ T \in SUBSET Req /\ Generated(m)' = SumFunctionOnSet(after, T)
      /\ \A r \in Req : after[r] \in Nat
  BY GeneratedNext DEF IInv, DecodeOK
<1>3. \A r \in Req : before[r] <= after[r]
  BY DEF IInv, DecodeOK, Progresses, DecodeTokens
<1>4. S \subseteq T
  OBVIOUS
<1> HIDE DEF S, T, before, after
<1>5. SumFunctionOnSet(before, S) <= SumFunctionOnSet(after, S)
  <2>1. \A r \in S : before[r] \in Int /\ after[r] \in Int /\ before[r] <= after[r]
    BY <1>1, <1>2, <1>3
  <2> QED
    BY <1>1, <2>1, SumMonotone
<1>6. SumFunctionOnSet(after, S) <= SumFunctionOnSet(after, T)
  BY <1>2, <1>4, SumOfPart
<1>7. /\ SumFunctionOnSet(before, S) \in Nat /\ SumFunctionOnSet(after, S) \in Nat
      /\ SumFunctionOnSet(after, T) \in Nat
  BY <1>1, <1>2, SumNatural
<1> QED
  BY <1>1, <1>2, <1>5, <1>6, <1>7

\* The requests of a batch belong to the epoch, and what they have generated
\* grows by what the batch carries.
LEMMA CommitTotals ==
  ASSUME IInv, IInv', OutputOK, NEW upd \in Updates, NotLess(upd), NEW now, NEW n,
         progress' = ProgressAfter(upd, now), reservation' = reservation,
         Counted(upd) \subseteq Learning(n)
  PROVE  /\ TotalDelta(upd) \in Nat /\ EnteringDelta(upd) \in Nat
         /\ EnteringDelta(upd) <= TotalDelta(upd)
         /\ Generated(n) + TotalDelta(upd) <= Generated(n)'
<1> DEFINE S == Learning(n)
           C == Counted(upd)
           E == Entering(upd)
           before == [r \in Req |-> DecodeTokens(r)]
           after == [r \in Req |-> DecodeTokens(r)']
           delta == [r \in Req |-> IF r \in C THEN Delta(upd, r) ELSE 0]
           sum == [r \in Req |-> before[r] + delta[r]]
<1>1. /\ IsFiniteSet(S) /\ S \in SUBSET Req /\ Generated(n) = SumFunctionOnSet(before, S)
      /\ \A r \in Req : before[r] \in Nat
  BY GeneratedNow DEF IInv, DecodeOK
<1>2. Learning(n)' = S
  BY DEF Learning
<1>3. /\ Generated(n)' = SumFunctionOnSet(after, S) /\ \A r \in Req : after[r] \in Nat
  <2>1. /\ Generated(n)' = SumFunctionOnSet(after, Learning(n)')
        /\ \A r \in Req : after[r] \in Nat
    BY GeneratedNext DEF IInv, DecodeOK
  <2> QED
    BY <1>2, <2>1
<1>4. \A r \in Req : /\ r \in C => Delta(upd, r) \in Nat
                     /\ delta[r] \in Nat /\ before[r] + delta[r] <= after[r]
  <2> SUFFICES ASSUME NEW r \in Req
               PROVE  /\ r \in C => Delta(upd, r) \in Nat
                      /\ delta[r] \in Nat /\ before[r] + delta[r] <= after[r]
    OBVIOUS
  <2>1. CASE r \in C
    BY <2>1, CommitTokens
  <2>2. CASE r \notin C
    <3>1. progress'[r] = progress[r]
      BY <2>2 DEF ProgressAfter
    <3>2. before[r] = after[r] /\ before[r] \in Nat
      BY <1>1, <3>1 DEF DecodeTokens
    <3> QED
      BY <2>2, <3>2
  <2> QED
    BY <2>1, <2>2
<1>5. C \in SUBSET S /\ E \in SUBSET C /\ IsFiniteSet(C) /\ IsFiniteSet(S \ C)
  BY <1>1, FS_Subset DEF Entering
<1>6. /\ TotalDelta(upd) = SumFunctionOnSet(delta, C)
      /\ EnteringDelta(upd) = SumFunctionOnSet(delta, E)
  <2> DEFINE f == [r \in C |-> Delta(upd, r)]
             g == [r \in E |-> Delta(upd, r)]
  <2>1. TotalDelta(upd) = SumFunctionOnSet(f, C) /\ EnteringDelta(upd) = SumFunctionOnSet(g, E)
    BY DEF TotalDelta, EnteringDelta, SumFunction
  <2>2. /\ \A r \in C : f[r] \in Int /\ delta[r] = f[r]
        /\ \A r \in E : g[r] \in Int /\ delta[r] = g[r]
        /\ IsFiniteSet(E)
    BY <1>1, <1>4, <1>5, FS_Subset
  <2> HIDE DEF f, g, delta, C, E
  <2>3. SumFunctionOnSet(f, C) = SumFunctionOnSet(delta, C)
    BY <1>5, <2>2, SumCongruence
  <2>4. SumFunctionOnSet(g, E) = SumFunctionOnSet(delta, E)
    BY <2>2, SumCongruence
  <2> QED
    BY <2>1, <2>3, <2>4
<1>7. /\ \A r \in S \ C : delta[r] = 0
      /\ \A r \in S : /\ before[r] \in Int /\ delta[r] \in Int /\ after[r] \in Int
                      /\ sum[r] = before[r] + delta[r] /\ sum[r] \in Int /\ sum[r] <= after[r]
      /\ \A r \in C : delta[r] \in Nat
      /\ \A r \in E : delta[r] \in Nat
  BY <1>1, <1>3, <1>4, <1>5
<1> HIDE DEF S, C, E, before, after, delta, sum
<1>8. SumFunctionOnSet(sum, S) = SumFunctionOnSet(before, S) + SumFunctionOnSet(delta, S)
  BY <1>1, <1>7, SumOfSums
<1>9. SumFunctionOnSet(sum, S) <= SumFunctionOnSet(after, S)
  BY <1>1, <1>7, SumMonotone
<1>10. SumFunctionOnSet(delta, S) = SumFunctionOnSet(delta, C)
  <2>1. (S \ C) \cap C = {} /\ C \cup (S \ C) = S /\ C \cap (S \ C) = {}
    BY <1>5
  <2>2. \A r \in C \cup (S \ C) : delta[r] \in Int
    BY <1>7, <2>1
  <2>3. SumFunctionOnSet(delta, C \cup (S \ C))
          = SumFunctionOnSet(delta, C) + SumFunctionOnSet(delta, S \ C)
    BY <1>5, <2>1, <2>2, SumUnion
  <2>4. SumFunctionOnSet(delta, S \ C) = 0
    BY <1>5, <1>7, SumOfZeros
  <2>5. SumFunctionOnSet(delta, C) \in Nat
    BY <1>5, <1>7, SumNatural
  <2>6. SumFunctionOnSet(delta, S) = SumFunctionOnSet(delta, C) + SumFunctionOnSet(delta, S \ C)
    BY <2>1, <2>3, Zenon
  <2> QED
    BY <2>4, <2>5, <2>6
<1>11. /\ SumFunctionOnSet(delta, C) \in Nat /\ SumFunctionOnSet(delta, E) \in Nat
       /\ SumFunctionOnSet(delta, E) <= SumFunctionOnSet(delta, C)
  <2>1. IsFiniteSet(E)
    BY <1>5, FS_Subset
  <2> QED
    BY <1>5, <1>7, <2>1, SumNatural, SumOfPart
<1>12. SumFunctionOnSet(before, S) \in Int /\ SumFunctionOnSet(after, S) \in Int
  BY <1>1, <1>7, SumType
<1> QED
  BY <1>1, <1>3, <1>6, <1>8, <1>9, <1>10, <1>11, <1>12

\* What the core has been given and what waits to be given to it.
TokensOK(c, l, e) ==
  l.tokens \in Nat /\ PendingFits(e.pending) /\ l.tokens + Kept(e.pending) <= Generated(c.epoch)

\* Who is committed was admitted in this epoch.
LEMMA CommittedLearn ==
  ASSUME WorkInv, NEW upd \in Updates, NEW quarantine, CommittedAt(upd, quarantine)
  PROVE  Counted(upd) \subseteq Learning(core.epoch)
<1>1. Owners \subseteq Live /\ InBatch \subseteq Owners /\ InPhase({"retracted"}) \subseteq Owners
  BY PhaseSets DEF WorkInv, IInv, OwnIInv, OwnersOK, InPhase
<1>2. DOMAIN upd \subseteq Owners \ HealthReq
  <2>1. CASE CommitResult /\ upd = task.updates
    BY <1>1, <2>1 DEF CommitResult, AtStep, WorkInv, OwnIInv, WorkOK
  <2>2. CASE Terminated /\ upd = TerminalUpdate
    BY <1>1, <2>2 DEF Terminated, TerminalUpdate, AtStep, WorkInv, OwnIInv, WorkOK
  <2> QED
    BY <2>1, <2>2 DEF CommittedAt
<1> QED
  BY <1>1, <1>2 DEF Counted, Live, Learning, WorkInv, OwnIInv, EpochPure

\* A refresh starts a new epoch with nothing.
LEMMA TokensViewed ==
  ASSUME WorkInv, TokensOK(core, learned, evidence), NEW v, Viewed(v)
  PROVE  TokensOK(v.core, v.learned, v.evidence)
<1>1. CASE v.core = core /\ v.learned = learned /\ v.evidence = evidence
  BY <1>1 DEF TokensOK
<1>2. ASSUME v.learned = NewLearned,
             NEW now, v.evidence = [pending |-> NoPending, surface_time |-> now, dirty |-> FALSE]
      PROVE  TokensOK(v.core, v.learned, v.evidence)
  <2>1. v.learned.tokens = 0 /\ v.evidence.pending = NoPending
    BY <1>2 DEF NewLearned
  <2>2. Generated(v.core.epoch) \in Nat
    BY GeneratedNow DEF WorkInv, IInv, DecodeOK
  <2>3. v.learned.tokens + Kept(v.evidence.pending) = 0
    BY <2>1, KeptNothing
  <2> QED
    BY <2>1, <2>2, <2>3, KeptNothing DEF TokensOK
<1> QED
  BY <1>1, <1>2 DEF Viewed

\* A commit gives the core no more than the batch carries and what was kept.
LEMMA TokensCommit ==
  ASSUME WorkInv, IInv', ExposureOK, OutputOK, TokensOK(core, learned, evidence),
         NEW upd \in Updates, NEW quarantine \in BOOLEAN, CommittedAt(upd, quarantine)
  PROVE  TokensOK(core, learned, evidence)'
<1> DEFINE now == task.now
           n == core.epoch
<1>1. CommitBatch(upd, now, quarantine, CurrentView) /\ NotLess(upd)
  BY CommittedOutput DEF CommittedAt, WorkInv
<1>2. /\ core'.epoch = n /\ progress' = ProgressAfter(upd, now) /\ reservation' = reservation
      /\ core \in CoreState
  BY <1>1, CommitCore DEF WorkInv, IInv, CoreOK, CommitBatch
<1>3. /\ TotalDelta(upd) \in Nat /\ EnteringDelta(upd) \in Nat
      /\ EnteringDelta(upd) <= TotalDelta(upd)
      /\ Generated(n) + TotalDelta(upd) <= Generated(core.epoch)'
  <2>1. Counted(upd) \subseteq Learning(n)
    BY CommittedLearn
  <2> HIDE DEF n, now
  <2>2. /\ TotalDelta(upd) \in Nat /\ EnteringDelta(upd) \in Nat
        /\ EnteringDelta(upd) <= TotalDelta(upd)
        /\ \A m : m = n => Generated(m) + TotalDelta(upd) <= Generated(m)'
    BY <1>1, <1>2, <2>1, CommitTotals DEF WorkInv
  <2>3. \A m : m = n => Generated(core.epoch)' = Generated(m)'
    BY <1>2 DEF Generated, Learning
  <2> QED
    BY <2>2, <2>3
<1>4. /\ learned.tokens \in Nat /\ PendingFits(evidence.pending)
      /\ learned.tokens + Kept(evidence.pending) <= Generated(n)
      /\ Kept(evidence.pending) \in Nat /\ Generated(n) \in Nat
      /\ Generated(core.epoch)' \in Nat
  <2>1. \A m : m = core'.epoch => Generated(core.epoch)' = Generated(m)'
    BY DEF Generated, Learning
  <2>2. Generated(core.epoch)' \in Nat
    BY <2>1, GeneratedNext DEF IInv, DecodeOK
  <2> QED
    BY <2>2, KeptNatural, GeneratedNow DEF TokensOK, WorkInv, IInv, DecodeOK
<1>5. /\ CurrentView.core = core /\ CurrentView.evidence = evidence /\ CurrentView.learned = learned
      /\ LearnedRecord(learned)
  BY DEF CurrentView, ExposureOK, ExposedOK
<1>6. CASE Contaminated(quarantine, evidence)
  <2>1. learned' = learned /\ evidence'.pending = NoPending
    BY <1>1, <1>5, <1>6 DEF CommitBatch, QuarantinedEvidence
  <2> HIDE DEF n, now
  <2>2. Generated(n) <= Generated(core.epoch)'
    BY <1>3, <1>4
  <2>3. PendingFits(evidence'.pending) /\ Kept(evidence'.pending) = 0
    BY <2>1, KeptNothing
  <2>4. Kept(evidence.pending)' = Kept(evidence'.pending)
    BY DEF Kept
  <2>5. learned'.tokens + Kept(evidence'.pending) <= Generated(core.epoch)'
    BY <1>4, <2>1, <2>2, <2>3
  <2> QED
    BY <1>4, <2>1, <2>3, <2>4, <2>5 DEF TokensOK
<1>7. CASE ~Contaminated(quarantine, evidence)
  <2>1. /\ learned' = ObservedLearned(upd, now, CurrentView)
        /\ evidence'.pending = PendingAfter(upd, evidence, now)
        /\ ObservedAccepts(upd, now, CurrentView)
    BY <1>1, <1>5, <1>7 DEF CommitBatch, CommitAccepts, ObservedEvidence
  <2> DEFINE given == CoreDelta(upd, evidence, now)
             seconds == SequenceSeconds(evidence, now)
  <2>2. decode.active \in Nat
    BY CoreAssumption DEF WorkInv, IInv, DecodeOK, DecodeSets, CoreAssumption
  <2>3. seconds \in Nat
    <3>1. Elapsed(evidence, now) \in Nat
      BY <1>5, <2>1 DEF ObservedAccepts, Elapsed, WorkInv, IInv, CoreOK, TaskOK, Tasks, Time, NoTime
    <3> HIDE DEF now
    <3> QED
      BY <2>2, <3>1 DEF SequenceSeconds
  <2>4. /\ PendingFits(evidence'.pending) /\ given \in Nat
        /\ given + Kept(evidence'.pending) <= Kept(evidence.pending) + TotalDelta(upd)
    BY <1>3, <1>4, <2>1, <2>2, <2>3, BatchTokens
  <2>5. learned'.tokens = learned.tokens + given
    <3>1. CASE seconds > 0
      <4>1. learned' = ObserveBatchLearned(learned, core, now, given, seconds)
        BY <1>5, <2>1, <3>1 DEF ObservedLearned, ObserveReplacementLearned
      <4> HIDE DEF now, given, seconds
      <4>2. ObserveBatchLearned(learned, core, now, given, seconds).tokens = learned.tokens + given
        BY <1>5, BatchFields
      <4> QED
        BY <4>1, <4>2
    <3>2. CASE ~(seconds > 0)
      <4>1. given = 0
        BY <2>3, <3>2 DEF CoreDelta
      <4>2. learned' = ObserveLearned(learned, core, now, 0)
        BY <1>5, <2>1, <3>2 DEF ObservedLearned, ObserveReplacementLearned
      <4>3. ObserveLearned(learned, core, now, 0).tokens = learned.tokens + 0
        BY <1>5, ObserveFields
      <4> QED
        BY <1>4, <4>1, <4>2, <4>3
    <3> QED
      BY <3>1, <3>2
  <2>6. Kept(evidence.pending)' = Kept(evidence'.pending) /\ Kept(evidence'.pending) \in Nat
    BY <2>4, KeptNatural DEF Kept
  <2> HIDE DEF n, now, given, seconds
  <2>7. learned'.tokens + Kept(evidence'.pending) <= Generated(core.epoch)'
    BY <1>3, <1>4, <2>4, <2>5, <2>6
  <2> QED
    BY <1>4, <2>4, <2>5, <2>6, <2>7 DEF TokensOK
<1> QED
  BY <1>6, <1>7

\* No step gives the core, or keeps for it, more than was generated.
LEMMA TokensStep ==
  ASSUME WorkInv, IInv', ExposureOK, OutputOK, TokensOK(core, learned, evidence), [Next]_vars
  PROVE  TokensOK(core, learned, evidence)'
<1>0. \A r \in Req : progress'[r].output_tokens >= progress[r].output_tokens
  BY OutputStep DEF WorkInv
<1>1. ASSUME NEW v, Viewed(v)
      PROVE  /\ TokensOK(v.core, v.learned, v.evidence) /\ v.core \in CoreState
             /\ LearnedRecord(v.learned)
             /\ v.evidence = [pending |-> v.evidence.pending,
                              surface_time |-> v.evidence.surface_time, dirty |-> v.evidence.dirty]
             /\ Kept(v.evidence.pending) \in Nat /\ Generated(v.core.epoch) \in Nat
  <2>1. TokensOK(v.core, v.learned, v.evidence)
    BY <1>1, TokensViewed
  <2>2. ExposedOK(v.core, v.learned, v.evidence, decode.active) /\ v.core \in CoreState
    BY <1>1, ExposureViewed DEF WorkInv
  <2>3. \/ v.evidence = evidence
        \/ \E now : v.evidence = [pending |-> NoPending, surface_time |-> now, dirty |-> FALSE]
    BY <1>1 DEF Viewed
  <2>4. v.evidence = [pending |-> v.evidence.pending,
                      surface_time |-> v.evidence.surface_time, dirty |-> v.evidence.dirty]
    BY <2>3 DEF WorkInv, IInv, CoreOK
  <2> QED
    BY <2>1, <2>2, <2>4, KeptNatural, GeneratedNow
    DEF TokensOK, ExposedOK, WorkInv, IInv, DecodeOK
<1>2. ASSUME NEW v, Viewed(v), core'.epoch = v.core.epoch, learned'.tokens = v.learned.tokens,
             evidence'.pending = v.evidence.pending \/ evidence'.pending = NoPending,
             \A r \in Req : reservation[r].epoch = v.core.epoch
                              => reservation'[r].epoch = v.core.epoch
      PROVE  TokensOK(core, learned, evidence)'
  <2> DEFINE n == v.core.epoch
  <2>1. Learning(n) \subseteq {r \in Req \ HealthReq : reservation'[r].epoch = n}
    BY <1>2 DEF Learning
  <2>2. TokensOK(v.core, v.learned, v.evidence) /\ Kept(v.evidence.pending) \in Nat
        /\ Generated(n) \in Nat
    BY <1>1, <1>2
  <2> HIDE DEF n
  <2>3. \A m : m = n => /\ Generated(m) <= Generated(m)'
                        /\ Generated(m)' \in Nat /\ Generated(core.epoch)' = Generated(m)'
    <3> SUFFICES ASSUME NEW m, m = n
                 PROVE  /\ Generated(m) <= Generated(m)'
                        /\ Generated(m)' \in Nat /\ Generated(core.epoch)' = Generated(m)'
      OBVIOUS
    <3>1. Learning(m) \subseteq Learning(m)'
      BY <2>1 DEF Learning
    <3>2. Generated(core.epoch)' = Generated(m)'
      BY <1>2 DEF Generated, Learning, n
    <3>3. Generated(m)' \in Nat
      BY GeneratedNext DEF IInv, DecodeOK
    <3> QED
      BY <1>0, <3>1, <3>2, <3>3, GeneratedGrows DEF WorkInv
  <2>4. /\ PendingFits(evidence'.pending) /\ Kept(evidence'.pending) <= Kept(v.evidence.pending)
        /\ Kept(evidence'.pending) \in Nat
    BY <1>2, <2>2, KeptNothing DEF TokensOK
  <2>5. Kept(evidence.pending)' = Kept(evidence'.pending)
    BY DEF Kept
  <2>6. /\ v.learned.tokens \in Nat
        /\ v.learned.tokens + Kept(v.evidence.pending) <= Generated(n)
    BY <2>2 DEF TokensOK, n
  <2>7. Generated(n) <= Generated(core.epoch)' /\ Generated(core.epoch)' \in Nat
    <3>1. \A m : m = n => Generated(n) = Generated(m)
      OBVIOUS
    <3>2. \A m : m = n => Generated(n) <= Generated(core.epoch)' /\ Generated(core.epoch)' \in Nat
      BY <2>3, <3>1
    <3> QED
      BY <3>2
  <2>8. learned'.tokens + Kept(evidence'.pending) <= Generated(core.epoch)'
    BY <1>2, <2>2, <2>4, <2>6, <2>7
  <2> QED
    BY <1>2, <2>4, <2>5, <2>6, <2>8 DEF TokensOK
<1>3. CASE \E r \in Req : AdmitNew(r)
  <2>1. PICK v : Viewed(v) /\ \E r \in Req, now \in 0 .. clock : DecidedAt(v, r, now)
    BY <1>3, AdmissionView DEF WorkInv
  <2>2. PICK r \in Req, now \in 0 .. clock : DecidedAt(v, r, now)
    BY <2>1
  <2>3. PICK reason : AdmitRequest(r, now, WaitingCount, v, reason)
    BY <2>2 DEF DecidedAt
  <2>4. reservation \in [Req -> Reservations]
    BY DEF WorkInv, IInv, LedgerOK
  <2>5. core'.epoch = v.core.epoch
    <3>1. \/ core' = AdvanceCore(QuarantineCore(v.core, now, decode.active, TRUE), now)
          \/ core' = AdvanceCore(v.core, now)
      BY <2>3 DEF AdmitRequest, CoreAtAdmission
    <3>2. /\ AdvanceCore(QuarantineCore(v.core, now, decode.active, TRUE), now).epoch = v.core.epoch
          /\ AdvanceCore(v.core, now).epoch = v.core.epoch
      BY <1>1, <2>1 DEF AdvanceCore, QuarantineCore, CoreState
    <3> QED
      BY ONLY <3>1, <3>2
  <2>6. learned'.tokens = v.learned.tokens
    <3>1. learned' = v.learned \/ learned' = AdvanceLearned(v.learned, v.core, now)
      BY <2>3 DEF AdmitRequest, LearnedAtAdmission
    <3>2. LearnedRecord(v.learned)
      BY <1>1, <2>1
    <3>3. AdvanceLearned(v.learned, v.core, now).tokens = v.learned.tokens
      BY <3>2, AdvanceFields
    <3> QED
      BY ONLY <3>1, <3>3
  <2>7. evidence'.pending = v.evidence.pending \/ evidence'.pending = NoPending
    <3>1. \/ evidence' = v.evidence
          \/ evidence' = [v.evidence EXCEPT !.dirty = TRUE, !.pending = NoPending]
      BY <2>3 DEF AdmitRequest, EvidenceWith
    <3>2. PICK e : e = v.evidence /\ e = [pending |-> e.pending, surface_time |-> e.surface_time,
                                          dirty |-> e.dirty]
      BY <1>1, <2>1
    <3> QED
      BY <3>1, <3>2
  <2>8. \A x \in Req : reservation[x].epoch = v.core.epoch => reservation'[x].epoch = v.core.epoch
    <3>1. CASE reason \in AdmittingReasons
      <4> DEFINE res == [status |-> "live", reason |-> reason, at |-> now, epoch |-> v.core.epoch]
      <4>1. reservation' = [reservation EXCEPT ![r] = res] /\ res.epoch = v.core.epoch
        BY <2>3, <3>1 DEF AdmitRequest
      <4> HIDE DEF res
      <4> QED
        BY <2>4, <4>1
    <3>2. CASE reason \notin AdmittingReasons
      BY <2>3, <3>2 DEF AdmitRequest
    <3> QED
      BY <3>1, <3>2
  <2> QED
    BY <1>2, <2>1, <2>5, <2>6, <2>7, <2>8
<1>4. CASE ~\E r \in Req : AdmitNew(r)
  <2>1. PICK v : Viewed(v) /\ Moved(v)
    BY CoreKinds DEF WorkInv
  <2>2. \A r \in Req : reservation'[r].epoch = reservation[r].epoch
    BY <1>4, ReservationMoves DEF WorkInv
  <2>3. CASE Touched(v)
    <3>1. v.core \in CoreState
      BY <1>1, <2>1
    <3>2. core'.epoch = v.core.epoch
      BY <2>3, <3>1, CoreFields DEF Touched
    <3> QED
      BY <1>2, <2>1, <2>2, <2>3, <3>2 DEF Touched
  <2>4. ASSUME NEW now \in 0 .. clock, ReadAt(v, now) PROVE TokensOK(core, learned, evidence)'
    <3>1. v.core \in CoreState /\ core' = AdvanceCore(v.core, now)
          /\ learned' = AdvanceLearned(v.learned, v.core, now)
      BY <1>1, <2>1, <2>4 DEF ReadAt
    <3>2. core'.epoch = v.core.epoch
      BY <3>1, CoreFields
    <3>3. LearnedRecord(v.learned)
      BY <1>1, <2>1
    <3>4. learned'.tokens = v.learned.tokens
      BY <3>1, <3>3, AdvanceFields
    <3> QED
      BY <1>2, <2>1, <2>2, <2>4, <3>2, <3>4 DEF ReadAt
  <2>5. ASSUME NEW upd \in Updates, NEW quarantine \in BOOLEAN, CommittedAt(upd, quarantine)
        PROVE  TokensOK(core, learned, evidence)'
    BY <2>5, TokensCommit
  <2> QED
    BY <1>4, <2>1, <2>3, <2>4, <2>5 DEF Moved
<1> QED
  BY <1>3, <1>4

\* No decode token is given to the core twice, not even one that waits for
\* its exposure, and none survives from an earlier epoch.
THEOREM TokensAreConserved == Spec => []TokensConserved
<1> DEFINE TokenInv == ExposureOK /\ OutputOK /\ TokensOK(core, learned, evidence)
<1>1. Init => TokenInv
  <2> SUFFICES ASSUME Init PROVE TokenInv
    OBVIOUS
  <2>1. ExposureOK
    BY ExposureInit
  <2>2. OutputOK
    BY DEF Init, SchedulerInit, OutputOK, NoProgress, IdleTask
  <2>3. /\ learned.tokens = 0 /\ evidence.pending = NoPending
        /\ progress \in [Req -> Progresses]
    BY InvariantInit DEF Init, SchedulerInit, NewLearned, IInv, DecodeOK
  <2>4. Generated(core.epoch) \in Nat
    BY <2>3, GeneratedNow
  <2>5. learned.tokens + Kept(evidence.pending) <= Generated(core.epoch)
    BY <2>3, <2>4, KeptNothing
  <2> QED
    BY <2>1, <2>2, <2>3, <2>5, KeptNothing DEF TokensOK
<1>2. WorkInv /\ WorkInv' /\ TokenInv /\ [Next]_vars => TokenInv'
  BY ExposureStep, OutputStep, TokensStep DEF WorkInv
<1>3. TokenInv => TokensConserved
  BY DEF TokensOK, Kept, Generated, Learning, TokensConserved, PendingTokens
<1> QED
  BY <1>1, <1>2, <1>3, WorkInvariance, PTL DEF Spec
=============================================================================
