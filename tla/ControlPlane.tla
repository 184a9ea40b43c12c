---------------------------- MODULE ControlPlane ----------------------------
(***************************************************************************)
(* The HTTP control plane: pig_governor/http.py in the server process,     *)
(* the scheduler's get_internal_state and set_internal_state in its own    *)
(* process, and the messages between them.                                 *)
(*                                                                         *)
(* One asyncio task, manager._pig_control_task, carries a call through its *)
(* rounds: a PATCH of max_running first reads the native bound, a PATCH    *)
(* then writes, and every call ends with a read.  The coroutine that       *)
(* answers the caller only waits for that task, for CONTROL_TIMEOUT, under *)
(* asyncio.shield: it may give up while the task goes on.                  *)
(*                                                                         *)
(* Credentials, headers, JSON and the checks of a profile document are the *)
(* one choice "the request is turned away"; the deployment has one         *)
(* scheduler with a Governor, so that the answers for another number of    *)
(* ranks or a missing Governor do not arise.  Each handler of the          *)
(* scheduler first refreshes the runtime's identity, as many other calls   *)
(* do: what a refresh does is BeginDraining and Rotate, at any moment.     *)
(***************************************************************************)
EXTENDS Naturals, Sequences

CONSTANTS
  Calls,         \* the HTTP calls, each made at most once
  Fields,        \* the names of the mutable policy
  Patches,       \* the changes a PATCH may ask for
  Initial,       \* the mutable policy the scheduler starts with
  NativeRunning, \* native_max_running_requests
  MaxEpoch       \* bound on the changes of the runtime's identity

ASSUME FieldsAreNamed == "max_running" \in Fields
ASSUME PatchesChangeFields ==
  \A p \in Patches : /\ DOMAIN p # {} /\ DOMAIN p \subseteq Fields
                     /\ \A f \in DOMAIN p : p[f] \in Nat
ASSUME InitialIsValid ==
  Initial \in [Fields -> Nat] /\ Initial["max_running"] <= NativeRunning
ASSUME BoundsAreNaturals == NativeRunning \in Nat /\ MaxEpoch \in Nat

VARIABLES
  policy,    \* scheduler: [epoch, revision, mutable]
  draining,  \* scheduler: _admission_paused
  wire,      \* commands on their way to the scheduler, in order
  replies,   \* replies[kind]: replies on their way back, in order
  control,   \* _pig_control_task: [call, step, sent], or Idle when done
  results,   \* results[c]: what the task returned for a c that still waits
  asked,     \* asked[c]: the request, NotAsked before it is made
  answers,   \* answers[c]: what the caller got
  seen,      \* the documents callers hold
  effects    \* history: effects[c] counts the updates made for c

vars == <<policy, draining, wire, replies, control, results, asked, answers,
          seen, effects>>

schedulerVars == <<policy, draining, effects>>

Promise == INSTANCE AtomicPolicy WITH
  Initial <- [epoch |-> 1, revision |-> 1, mutable |-> Initial]

Kinds == {"get", "set"}
Steps == {"bound", "set", "get"}
NotAsked == [method |-> "none"]
Dismissed == [method |-> "dismissed"]
NoAnswer == [outcome |-> "none"]
Idle == [step |-> "idle"]

Error(outcome) == [outcome |-> outcome]
Success(document) == [outcome |-> "ok", document |-> document]

Made(c) == asked[c].method # "none"
Waiting(c) == Made(c) /\ answers[c].outcome = "none"
Running == control.step # "idle"

Init ==
  /\ policy = [epoch |-> 1, revision |-> 1, mutable |-> Initial]
  /\ draining = FALSE
  /\ wire = << >>
  /\ replies = [get |-> << >>, set |-> << >>]
  /\ control = Idle
  /\ results = [c \in Calls |-> NoAnswer]
  /\ asked = [c \in Calls |-> NotAsked]
  /\ answers = [c \in Calls |-> NoAnswer]
  /\ seen = {policy}
  /\ effects = [c \in Calls |-> 0]

-----------------------------------------------------------------------------
(* The caller's coroutine.                                                 *)

\* A PATCH names the epoch and revision of a document its caller holds, a
\* profile's read the epoch.
Requests ==
  LET since == policy.revision IN
    {[method |-> "GET", since |-> since]}
      \cup {[method |-> "PROFILE", epoch |-> d.epoch, since |-> since] : d \in seen}
      \cup {[method |-> "PATCH", epoch |-> d.epoch, revision |-> d.revision,
              patch |-> p, since |-> since] : d \in seen, p \in Patches}

FirstStep(request) ==
  CASE request.method # "PATCH" -> "get"
    [] request.method = "PATCH" /\ "max_running" \in DOMAIN request.patch -> "bound"
    [] OTHER -> "set"

\* A request that starts no operation: 401, 405, 413, 415 and 400 before the
\* control task is looked at, 503 when it is not done.  Nothing of it is kept.
Dismiss(c) ==
  /\ ~Made(c)
  /\ asked' = [asked EXCEPT ![c] = Dismissed]
  /\ \/ answers' = [answers EXCEPT ![c] = Error("invalid_request")]
     \/ /\ Running
        /\ answers' = [answers EXCEPT ![c] = Error("control_busy")]
  /\ UNCHANGED <<schedulerVars, wire, replies, control, results, seen>>

Start(c) ==
  /\ ~Made(c)
  /\ ~Running
  /\ \E request \in Requests :
       /\ asked' = [asked EXCEPT ![c] = request]
       /\ control' = [call |-> c, step |-> FirstStep(request), sent |-> FALSE]
  /\ UNCHANGED <<schedulerVars, wire, replies, results, answers, seen>>

\* The task is done in time.
Deliver(c) ==
  /\ Waiting(c)
  /\ results[c].outcome # "none"
  /\ answers' = [answers EXCEPT ![c] = results[c]]
  /\ seen' = IF results[c].outcome = "ok" THEN seen \cup {results[c].document}
             ELSE seen
  /\ results' = [results EXCEPT ![c] = NoAnswer]
  /\ UNCHANGED <<schedulerVars, wire, replies, control, asked>>

\* Mutant: without asyncio.shield the timeout cancels the task.
GiveUp_Cancels(c) ==
  /\ Waiting(c)
  /\ answers' = [answers EXCEPT ![c] = Error("control_unavailable")]
  /\ control' = IF Running /\ control.call = c THEN Idle ELSE control
  /\ results' = [results EXCEPT ![c] = NoAnswer]
  /\ UNCHANGED <<schedulerVars, wire, replies, asked, seen>>

\* The wait ends first, by the timeout or because the caller's connection
\* closes.  The shielded task keeps running and keeps the slot.
GiveUp(c) ==
  /\ Waiting(c)
  /\ answers' = [answers EXCEPT ![c] = Error("control_unavailable")]
  /\ results' = [results EXCEPT ![c] = NoAnswer]
  /\ UNCHANGED <<schedulerVars, wire, replies, control, asked, seen>>

-----------------------------------------------------------------------------
(* The control task.                                                       *)

KindOf(step) == IF step = "set" THEN "set" ELSE "get"

\* The operation returns: the slot is free, and the result goes to the caller's
\* coroutine unless it gave up.
Return(result) ==
  /\ results' = IF Waiting(control.call)
                  THEN [results EXCEPT ![control.call] = result]
                  ELSE results
  /\ control' = Idle

Continue(step) ==
  /\ control' = [control EXCEPT !.step = step, !.sent = FALSE]
  /\ UNCHANGED results

Transmit ==
  /\ Running
  /\ ~control.sent
  /\ wire' = Append(wire, [kind |-> KindOf(control.step), call |-> control.call])
  /\ control' = [control EXCEPT !.sent = TRUE]
  /\ UNCHANGED <<schedulerVars, replies, results, asked, answers, seen>>

\* An OSError of the transport ends the operation; _control turns it into 503.
TransportFails ==
  /\ Running
  /\ ~control.sent
  /\ Return(Error("control_unavailable"))
  /\ UNCHANGED <<schedulerVars, wire, replies, asked, answers, seen>>

\* The communicator hands a reply to the round that waits for its kind.
Receives(step) ==
  /\ Running
  /\ control.step = step
  /\ control.sent
  /\ replies[KindOf(step)] # << >>
  /\ replies' = [replies EXCEPT ![KindOf(step)] = Tail(@)]
  /\ UNCHANGED <<schedulerVars, wire, asked, answers, seen>>

ReceiveBound ==
  /\ Receives("bound")
  /\ IF asked[control.call].patch["max_running"]
          > Head(replies.get).native
       THEN Return(Error("invalid_request"))
       ELSE Continue("set")

\* Mutant: "if not changed" instead of "changed != [True]".
ReceiveSet_AnyReply ==
  /\ Receives("set")
  /\ Continue("get")

ReceiveSet ==
  /\ Receives("set")
  /\ IF Head(replies.set).updated
       THEN Continue("get")
       ELSE Return(Error("policy_conflict_or_invalid"))

\* The document, or for a profile the check of its envelope and epoch.
Response(request, reply) ==
  CASE request.method # "PROFILE" -> Success(reply.document)
    [] request.method = "PROFILE" /\ ~reply.profile -> Error("governor_unavailable")
    [] request.method = "PROFILE" /\ reply.profile ->
         IF reply.document.epoch # request.epoch
           THEN Error("profile_epoch_mismatch")
           ELSE Success(reply.document)

ReceiveGet ==
  /\ Receives("get")
  /\ Return(Response(asked[control.call], Head(replies.get)))

-----------------------------------------------------------------------------
(* The scheduler.                                                          *)

\* changes.get(name, current) for every field.
Merged(patch, mutable) ==
  [f \in Fields |-> IF f \in DOMAIN patch THEN patch[f] ELSE mutable[f]]

LimitsFit(limits) ==
  "max_running" \in DOMAIN limits => limits["max_running"] <= NativeRunning

\* Mutant: the epoch alone is compared.
UpdateAccepts_EpochOnly(request) ==
  /\ ~draining
  /\ LimitsFit(request.patch)
  /\ request.epoch = policy.epoch

UpdateAccepts(request) ==
  /\ ~draining
  /\ LimitsFit(request.patch)
  /\ request.epoch = policy.epoch
  /\ request.revision = policy.revision

\* Mutant: a conflict escapes the handler, and nobody replies.
ServeSet_ConflictEscapes ==
  /\ wire # << >>
  /\ Head(wire).kind = "set"
  /\ LET c == Head(wire).call IN
       IF UpdateAccepts(asked[c])
         THEN /\ policy' = [policy EXCEPT !.revision = @ + 1,
                                          !.mutable = Merged(asked[c].patch, @)]
              /\ effects' = [effects EXCEPT ![c] = @ + 1]
              /\ replies' = [replies EXCEPT !.set =
                               Append(@, [call |-> c, updated |-> TRUE])]
         ELSE UNCHANGED <<policy, effects, replies>>
  /\ wire' = Tail(wire)
  /\ UNCHANGED <<draining, control, results, asked, answers, seen>>

ServeSet ==
  /\ wire # << >>
  /\ Head(wire).kind = "set"
  /\ LET c == Head(wire).call
         updated == UpdateAccepts(asked[c])
     IN /\ policy' = IF updated
                       THEN [policy EXCEPT
                               !.revision = @ + 1,
                               !.mutable = Merged(asked[c].patch, @)]
                       ELSE policy
        /\ effects' = IF updated THEN [effects EXCEPT ![c] = @ + 1] ELSE effects
        /\ replies' = [replies EXCEPT !.set =
                         Append(@, [call |-> c, updated |-> updated])]
  /\ wire' = Tail(wire)
  /\ UNCHANGED <<draining, control, results, asked, answers, seen>>

ServeGet ==
  /\ wire # << >>
  /\ Head(wire).kind = "get"
  /\ replies' = [replies EXCEPT !.get =
                   Append(@, [call |-> Head(wire).call, document |-> policy,
                              native |-> NativeRunning, profile |-> ~draining])]
  /\ wire' = Tail(wire)
  /\ UNCHANGED <<schedulerVars, control, results, asked, answers, seen>>

\* The runtime's identity changes: with requests in hand the Governor drains
\* first, otherwise, or once it has drained, the epoch changes.
BeginDraining ==
  /\ policy.epoch < MaxEpoch
  /\ ~draining
  /\ draining' = TRUE
  /\ UNCHANGED <<policy, wire, replies, control, results, asked, answers, seen,
                 effects>>

Rotate ==
  /\ policy.epoch < MaxEpoch
  /\ policy' = [policy EXCEPT !.epoch = @ + 1]
  /\ draining' = FALSE
  /\ UNCHANGED <<wire, replies, control, results, asked, answers, seen, effects>>

-----------------------------------------------------------------------------
Serve == ServeSet \/ ServeGet
Receive == ReceiveBound \/ ReceiveSet \/ ReceiveGet

Next ==
  \/ \E c \in Calls : Dismiss(c) \/ Start(c) \/ Deliver(c) \/ GiveUp(c)
  \/ Transmit \/ TransportFails
  \/ ReceiveBound \/ ReceiveSet \/ ReceiveGet
  \/ ServeSet \/ ServeGet
  \/ BeginDraining \/ Rotate

\* The event loop runs the task, and the scheduler's loop serves every command.
Fairness ==
  /\ WF_vars(Transmit)
  /\ WF_vars(Receive)
  /\ WF_vars(Serve)

Spec == Init /\ [][Next]_vars /\ Fairness

-----------------------------------------------------------------------------
(* Properties.                                                             *)

Documents == [epoch : Nat, revision : Nat, mutable : [Fields -> Nat]]
Commands == [kind : Kinds, call : Calls]
GetReplies == [call : Calls, document : Documents, native : {NativeRunning},
               profile : BOOLEAN]
SetReplies == [call : Calls, updated : BOOLEAN]
Slots == [call : Calls, step : Steps, sent : BOOLEAN]

\* The slot, the messages and the policy have their shapes: every field of the
\* policy keeps a value, and max_running stays within the native bound.
TypeOK ==
  /\ policy \in Documents
  /\ LimitsFit(policy.mutable)
  /\ draining \in BOOLEAN
  /\ wire \in Seq(Commands)
  /\ replies \in [get : Seq(GetReplies), set : Seq(SetReplies)]
  /\ control \in Slots \cup {Idle}
  /\ effects \in [Calls -> Nat]
  /\ seen \subseteq Documents

\* One message at most is in flight between the two processes, and it is of
\* the round the control task waits for: a late reply never reaches the round
\* of another call, whoever gave up waiting ("do not let a cancelled waiter
\* misattribute a late reply to the next call").
OneRound ==
  /\ Len(wire) + Len(replies.get) + Len(replies.set)
       = IF Running /\ control.sent THEN 1 ELSE 0
  /\ \A i \in DOMAIN wire :
       wire[i] = [kind |-> KindOf(control.step), call |-> control.call]
  /\ \A kind \in Kinds : \A i \in DOMAIN replies[kind] :
       /\ kind = KindOf(control.step)
       /\ replies[kind][i].call = control.call

\* Two updates are never made over the same revision, however often a PATCH is
\* repeated after an uncertain answer and however late it is served: the
\* compare-and-swap of update_reference loses no update.
NoLostUpdate ==
  \A c, d \in Calls :
    c # d /\ effects[c] > 0 /\ effects[d] > 0 => asked[c].revision # asked[d].revision

\* Every call has the answer the policy's history justifies: 200 to a PATCH
\* means that it was applied once and shows its values, an error other than
\* control_unavailable that it never is, and a document is never older than
\* the call.
IsAtomic == Promise!Spec

\* The mutex is given back: control_busy is never the answer for ever, also
\* after a caller gave up.
ControlIsFreed == Running ~> ~Running
=============================================================================
