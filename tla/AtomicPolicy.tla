---------------------------- MODULE AtomicPolicy ----------------------------
(***************************************************************************)
(* What the admin API promises about the Governor's mutable policy: "reads *)
(* and atomically updates" with a compare-and-swap on epoch and revision   *)
(* (docs/INTEGRATION.md:86).  Each call has one answer; an update takes    *)
(* effect at most once, in a single step, only over the very policy the    *)
(* caller names; an error that is not "control_unavailable" says that it   *)
(* never takes effect, and a document returned with status 200 shows the   *)
(* policy no staler than the call itself.                                  *)
(*                                                                         *)
(* ControlPlane implements this with a five-second timeout, a mutex and    *)
(* up to three round trips to the scheduler for each call.                 *)
(***************************************************************************)
EXTENDS Naturals

CONSTANTS
  Calls,    \* the HTTP calls, each made at most once
  Fields,   \* the names of the mutable policy
  Patches,  \* the changes a PATCH may ask for, functions on some of Fields
  Initial   \* the policy the scheduler starts with

VARIABLES
  policy,   \* [epoch, revision, mutable]
  asked,    \* asked[c]: what the call asks, NotAsked before
  effects,  \* effects[c]: how often the call changed the policy
  answers   \* answers[c]: [outcome, document], NoAnswer before

vars == <<policy, asked, effects, answers>>

Methods == {"GET", "PATCH", "PROFILE", "dismissed"}

\* Answers that exclude an effect, and the one that leaves it open: the wait
\* ended before the operation did.
Refusals == {"invalid_request", "control_busy", "policy_conflict_or_invalid",
             "profile_epoch_mismatch", "governor_unavailable"}
Uncertain == {"control_unavailable"}

NotAsked == [method |-> "none"]
NoAnswer == [outcome |-> "none"]

Init ==
  /\ policy = Initial
  /\ asked = [c \in Calls |-> NotAsked]
  /\ effects = [c \in Calls |-> 0]
  /\ answers = [c \in Calls |-> NoAnswer]

Ask(c, request) ==
  /\ asked[c].method = "none"
  /\ request.method \in Methods
  /\ request.method = "PATCH" => request.patch \in Patches
  /\ request.method # "dismissed" => request.since = policy.revision
  /\ asked' = [asked EXCEPT ![c] = request]
  /\ UNCHANGED <<policy, effects>>

\* A call is dismissed in the step that makes it when the request is not valid
\* or another call holds the control task.
Dismiss(c) ==
  /\ Ask(c, asked'[c])
  /\ asked'[c].method = "dismissed"
  /\ \E outcome \in {"invalid_request", "control_busy"} :
       answers' = [answers EXCEPT ![c] = [outcome |-> outcome]]

\* The compare-and-swap.  It may follow the answer of a call that timed out.
TakeEffect(c) ==
  /\ asked[c].method = "PATCH"
  /\ effects[c] = 0
  /\ answers[c].outcome \notin Refusals \cup {"ok"}
  /\ asked[c].epoch = policy.epoch
  /\ asked[c].revision = policy.revision
  /\ policy' = [policy EXCEPT
       !.revision = @ + 1,
       !.mutable = [f \in Fields |-> IF f \in DOMAIN asked[c].patch
                                       THEN asked[c].patch[f] ELSE @[f]]]
  /\ effects' = [effects EXCEPT ![c] = 1]
  /\ UNCHANGED <<asked, answers>>

\* The runtime's identity changes: the same policy in a new epoch.
NewEpoch ==
  /\ policy' = [policy EXCEPT !.epoch = @ + 1]
  /\ UNCHANGED <<asked, effects, answers>>

\* A document the caller may be shown: at least as recent as the call, with
\* its own change in place of anyone else's.
Truthful(c, document) ==
  /\ document.revision \in asked[c].since .. policy.revision
  /\ document.epoch <= policy.epoch
  /\ document.revision = policy.revision => document.mutable = policy.mutable
  /\ asked[c].method = "PATCH" =>
       /\ effects[c] = 1
       /\ document.revision = asked[c].revision + 1
       /\ \A f \in DOMAIN asked[c].patch : document.mutable[f] = asked[c].patch[f]
  /\ asked[c].method = "PROFILE" => document.epoch = asked[c].epoch

Answer(c, answer) ==
  /\ asked[c].method # "none"
  /\ answers[c].outcome = "none"
  /\ \/ answer.outcome \in Uncertain
     \/ answer.outcome \in Refusals /\ effects[c] = 0
     \/ answer.outcome = "ok" /\ Truthful(c, answer.document)
  /\ answers' = [answers EXCEPT ![c] = answer]
  /\ UNCHANGED <<policy, asked, effects>>

Next ==
  \/ NewEpoch
  \/ \E c \in Calls : \/ Ask(c, asked'[c]) /\ UNCHANGED answers
                      \/ Dismiss(c)
                      \/ TakeEffect(c)
                      \/ Answer(c, answers'[c])

Spec == Init /\ [][Next]_vars
=============================================================================
