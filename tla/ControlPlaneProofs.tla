------------------------- MODULE ControlPlaneProofs -------------------------
(***************************************************************************)
(* The control plane keeps its promise for any number of calls, fields and *)
(* changes: its safety properties, and that it implements AtomicPolicy.    *)
(*                                                                         *)
(* OneRound says where the only message is.  What else must be known of a  *)
(* call in the slot is which of its rounds have changed the policy         *)
(* (SlotOK), that the slot protects the change until the last read         *)
(* (Applied), and that what was read stays true while it waits to be       *)
(* delivered (ResultsOK).                                                  *)
(***************************************************************************)
EXTENDS ControlPlane, SequenceTheorems, TLAPS

Refusals == Promise!Refusals

\* Requests keep the types their senders gave them.
AskedOK ==
  /\ DOMAIN asked = Calls /\ DOMAIN answers = Calls /\ DOMAIN results = Calls
  /\ \A c \in Calls :
       /\ asked[c].method \in {"none", "dismissed", "GET", "PROFILE", "PATCH"}
       /\ asked[c].method \in {"GET", "PROFILE", "PATCH"} =>
            asked[c].since \in Nat /\ asked[c].since <= policy.revision
       /\ asked[c].method \in {"PROFILE", "PATCH"} => asked[c].epoch \in Nat
       /\ asked[c].method = "PATCH" =>
            asked[c].revision \in Nat /\ asked[c].patch \in Patches

\* What a call must have asked to have had an effect or an answer.
HistoryOK ==
  \A c \in Calls :
    /\ effects[c] > 0 => /\ asked[c].method = "PATCH"
                         /\ effects[c] = 1
                         /\ asked[c].revision < policy.revision
    /\ ~Made(c) => answers[c].outcome = "none" /\ results[c].outcome = "none"

\* The update of c is the last one made.
Applied(c) ==
  /\ effects[c] = 1
  /\ policy.revision = asked[c].revision + 1
  /\ \A f \in DOMAIN asked[c].patch : policy.mutable[f] = asked[c].patch[f]

\* A document read for c shows the policy of a moment since the call.
Read(c, document) ==
  /\ document \in Documents
  /\ document.revision \in asked[c].since .. policy.revision
  /\ document.epoch <= policy.epoch
  /\ document.revision = policy.revision => document.mutable = policy.mutable

\* The call in the slot: what its rounds did so far.
SlotOK ==
  Running =>
    LET c == control.call IN
      /\ asked[c].method \in {"GET", "PROFILE", "PATCH"}
      /\ results[c].outcome = "none"
      /\ answers[c].outcome \in {"none", "control_unavailable"}
      /\ control.step = "bound" => effects[c] = 0 /\ "max_running" \in DOMAIN asked[c].patch
      /\ control.step \in {"bound", "set"} => asked[c].method = "PATCH"
      /\ control.step = "set" =>
           IF replies.set # << >> /\ Head(replies.set).updated
             THEN Applied(c) ELSE effects[c] = 0
      /\ control.step = "get" =>
           /\ asked[c].method = "PATCH" => Applied(c)
           /\ replies.get # << >> => Read(c, Head(replies.get).document)
           /\ replies.get # << >> /\ asked[c].method = "PATCH" =>
                Head(replies.get).document.revision = policy.revision

\* A result on its way to its caller stays true.
ResultsOK ==
  \A c \in Calls :
    results[c].outcome # "none" =>
      /\ ~(Running /\ control.call = c)
      /\ Waiting(c)
      /\ results[c].outcome \in Refusals \cup {"ok", "control_unavailable"}
      /\ results[c].outcome \in Refusals => effects[c] = 0
      /\ results[c].outcome = "ok" => /\ results[c].document \in Documents
                                      /\ Promise!Truthful(c, results[c].document)

IInv ==
  TypeOK /\ OneRound /\ AskedOK /\ HistoryOK /\ SlotOK /\ ResultsOK /\ NoLostUpdate

-----------------------------------------------------------------------------
(* Sequences of at most one message.                                       *)

\* A sequence is empty just when its length is zero.
LEMMA EmptyLength ==
  ASSUME NEW S, NEW s \in Seq(S)
  PROVE  Len(s) \in Nat /\ (Len(s) = 0 <=> s = << >>)
BY EmptySeq, LenProperties

\* Three lengths that add up to at most one: which of them is one.
LEMMA AtMostOne ==
  \A k, m, n \in Nat :
    k + m + n = 1 \/ k + m + n = 0 =>
      /\ k <= 1 /\ m <= 1 /\ n <= 1
      /\ k # 0 => m = 0 /\ n = 0
      /\ m # 0 => k = 0 /\ n = 0
      /\ n # 0 => k = 0 /\ m = 0
      /\ k + m + n = 0 => k = 0 /\ m = 0 /\ n = 0
OBVIOUS

\* A message put on an empty queue is the only one and its head.
LEMMA FirstMessage ==
  ASSUME NEW S, NEW m \in S
  PROVE  /\ Append(<< >>, m) \in Seq(S)
         /\ Append(<< >>, m) # << >>
         /\ Len(Append(<< >>, m)) = 1
         /\ DOMAIN Append(<< >>, m) = {1}
         /\ Append(<< >>, m)[1] = m
         /\ Head(Append(<< >>, m)) = m
OBVIOUS

\* A queue of one message holds its head, and taking it leaves none.
LEMMA LastMessage ==
  ASSUME NEW S, NEW s \in Seq(S), s # << >>, Len(s) <= 1
  PROVE  /\ Head(s) \in S
         /\ Head(s) = s[1]
         /\ DOMAIN s = {1}
         /\ Len(s) = 1
         /\ Tail(s) = << >>
<1>1. Len(s) = 1
  <2>1. Len(s) \in Nat /\ (Len(s) = 0 <=> s = << >>)
    BY EmptyLength
  <2> QED
    BY <2>1
<1>2. Tail(s) \in Seq(S) /\ Len(Tail(s)) = 0 /\ Head(s) \in S
  BY <1>1, HeadTailProperties
<1>3. Tail(s) = << >>
  BY <1>2, EmptyLength
<1>4. DOMAIN s = {1}
  BY <1>1, LenProperties
<1>5. Head(s) = s[1]
  BY <1>1
<1> QED
  BY ONLY <1>1, <1>2, <1>3, <1>4, <1>5

-----------------------------------------------------------------------------
(* Where the message is.                                                   *)

Quiet == wire = << >> /\ replies.get = << >> /\ replies.set = << >>

\* No message is under way, or the slot's command, or the reply to it.
LEMMA Whereabouts ==
  ASSUME TypeOK, OneRound
  PROVE  /\ Quiet \/ (Running /\ control.sent)
         /\ wire # << >> =>
              /\ Head(wire) = [kind |-> KindOf(control.step), call |-> control.call]
              /\ Tail(wire) = << >> /\ replies.get = << >> /\ replies.set = << >>
         /\ replies.get # << >> =>
              /\ Head(replies.get) \in GetReplies
              /\ Head(replies.get).call = control.call
              /\ KindOf(control.step) = "get"
              /\ wire = << >> /\ Tail(replies.get) = << >> /\ replies.set = << >>
         /\ replies.set # << >> =>
              /\ Head(replies.set) \in SetReplies
              /\ Head(replies.set).call = control.call
              /\ KindOf(control.step) = "set"
              /\ wire = << >> /\ replies.get = << >> /\ Tail(replies.set) = << >>
<1>1. /\ wire \in Seq(Commands)
      /\ replies.get \in Seq(GetReplies)
      /\ replies.set \in Seq(SetReplies)
  BY DEF TypeOK
<1>2. /\ Len(wire) \in Nat /\ (Len(wire) = 0 <=> wire = << >>)
      /\ Len(replies.get) \in Nat /\ (Len(replies.get) = 0 <=> replies.get = << >>)
      /\ Len(replies.set) \in Nat /\ (Len(replies.set) = 0 <=> replies.set = << >>)
  BY <1>1, EmptyLength
<1> DEFINE total == Len(wire) + Len(replies.get) + Len(replies.set)
<1>3. (Running /\ control.sent /\ total = 1) \/ total = 0
  BY DEF OneRound
<1>a. total = 1 \/ total = 0
  BY <1>3
<1>0. Len(wire) \in Nat /\ Len(replies.get) \in Nat /\ Len(replies.set) \in Nat
  BY <1>2
<1>b. /\ Len(wire) <= 1 /\ Len(replies.get) <= 1 /\ Len(replies.set) <= 1
      /\ Len(wire) # 0 => Len(replies.get) = 0 /\ Len(replies.set) = 0
      /\ Len(replies.get) # 0 => Len(wire) = 0 /\ Len(replies.set) = 0
      /\ Len(replies.set) # 0 => Len(wire) = 0 /\ Len(replies.get) = 0
      /\ total = 0 => Len(wire) = 0 /\ Len(replies.get) = 0 /\ Len(replies.set) = 0
  BY ONLY <1>0, <1>a, AtMostOne
<1>4. Quiet \/ (Running /\ control.sent)
  BY <1>2, <1>3, <1>b DEF Quiet
<1>5. ASSUME wire # << >>
      PROVE  /\ Head(wire) = [kind |-> KindOf(control.step), call |-> control.call]
             /\ Tail(wire) = << >> /\ replies.get = << >> /\ replies.set = << >>
  <2>1. Len(wire) <= 1 /\ Len(replies.get) = 0 /\ Len(replies.set) = 0
    BY <1>2, <1>b, <1>5
  <2>2. DOMAIN wire = {1} /\ Head(wire) = wire[1] /\ Tail(wire) = << >>
    BY <1>1, <1>5, <2>1, LastMessage
  <2> QED
    BY <1>2, <2>1, <2>2 DEF OneRound
<1>6. ASSUME replies.get # << >>
      PROVE  /\ Head(replies.get) \in GetReplies
             /\ Head(replies.get).call = control.call
             /\ KindOf(control.step) = "get"
             /\ wire = << >> /\ Tail(replies.get) = << >> /\ replies.set = << >>
  <2>1. Len(replies.get) <= 1 /\ Len(wire) = 0 /\ Len(replies.set) = 0
    BY <1>2, <1>b, <1>6
  <2>2. /\ DOMAIN replies.get = {1} /\ Head(replies.get) = replies.get[1]
        /\ Tail(replies.get) = << >> /\ Head(replies.get) \in GetReplies
    BY <1>1, <1>6, <2>1, LastMessage
  <2> QED
    BY <1>2, <2>1, <2>2 DEF OneRound, Kinds
<1>7. ASSUME replies.set # << >>
      PROVE  /\ Head(replies.set) \in SetReplies
             /\ Head(replies.set).call = control.call
             /\ KindOf(control.step) = "set"
             /\ wire = << >> /\ replies.get = << >> /\ Tail(replies.set) = << >>
  <2>1. Len(replies.set) <= 1 /\ Len(wire) = 0 /\ Len(replies.get) = 0
    BY <1>2, <1>b, <1>7
  <2>2. /\ DOMAIN replies.set = {1} /\ Head(replies.set) = replies.set[1]
        /\ Tail(replies.set) = << >> /\ Head(replies.set) \in SetReplies
    BY <1>1, <1>7, <2>1, LastMessage
  <2> QED
    BY <1>2, <2>1, <2>2 DEF OneRound, Kinds
<1> QED
  BY <1>4, <1>5, <1>6, <1>7

\* OneRound again, from where the message is.
LEMMA RoundWhenQuiet ==
  ASSUME Quiet', ~(Running' /\ control'.sent)
  PROVE  OneRound'
<1>1. Len(<< >>) = 0 /\ DOMAIN << >> = {}
  OBVIOUS
<1>2. \A kind \in Kinds : kind = "get" \/ kind = "set"
  BY DEF Kinds
<1> QED
  BY <1>1, <1>2 DEF OneRound, Quiet

-----------------------------------------------------------------------------
(* Each part of the invariant is kept by every step.                       *)

\* What the command at the head of the wire asks.
LEMMA Served ==
  ASSUME TypeOK, OneRound, AskedOK, SlotOK, wire # << >>
  PROVE  /\ Running /\ control.sent /\ control \in Slots
         /\ Head(wire).call = control.call /\ control.call \in Calls
         /\ Head(wire).kind = KindOf(control.step)
         /\ Head(wire).kind = "set" =>
              /\ control.step = "set"
              /\ asked[control.call].method = "PATCH"
              /\ asked[control.call].patch \in Patches
              /\ asked[control.call].revision \in Nat
              /\ effects[control.call] = 0
         /\ Head(wire).kind = "get" => control.step \in {"bound", "get"}
<1>1. /\ Running /\ control.sent
      /\ Head(wire) = [kind |-> KindOf(control.step), call |-> control.call]
      /\ replies.set = << >>
  BY Whereabouts DEF Quiet
<1>2. control \in Slots
  BY <1>1 DEF TypeOK, Running, Idle
<1>3. control.call \in Calls /\ control.step \in Steps
  BY <1>2 DEF Slots
<1> QED
  BY <1>1, <1>2, <1>3 DEF SlotOK, AskedOK, KindOf, Steps

\* A patch merged into a policy gives every field a value.
LEMMA MergedType ==
  ASSUME NEW p \in Patches, LimitsFit(p),
         NEW m \in [Fields -> Nat], LimitsFit(m)
  PROVE  Merged(p, m) \in [Fields -> Nat] /\ LimitsFit(Merged(p, m))
BY PatchesChangeFields, FieldsAreNamed
   DEF PatchesChangeFields, FieldsAreNamed, Merged, LimitsFit

\* A new epoch of a policy, and an update of it.
NewEpoch(d) == [d EXCEPT !.epoch = @ + 1]
Updated(d, m) == [d EXCEPT !.revision = @ + 1, !.mutable = m]

\* A policy after an update, and after a change of epoch.
LEMMA NextDocument ==
  ASSUME NEW d \in Documents, NEW m \in [Fields -> Nat]
  PROVE  /\ d.epoch \in Nat /\ d.revision \in Nat /\ d.mutable \in [Fields -> Nat]
         /\ NewEpoch(d) \in Documents
         /\ NewEpoch(d).epoch = d.epoch + 1
         /\ NewEpoch(d).revision = d.revision
         /\ NewEpoch(d).mutable = d.mutable
         /\ Updated(d, m) \in Documents
         /\ Updated(d, m).epoch = d.epoch
         /\ Updated(d, m).revision = d.revision + 1
         /\ Updated(d, m).mutable = m
<1>1. d.epoch + 1 \in Nat /\ d.revision + 1 \in Nat
  BY DEF Documents
<1>2. NewEpoch(d) \in Documents
  BY <1>1 DEF Documents, NewEpoch
<1>3. Updated(d, m) \in Documents
  BY <1>1 DEF Documents, Updated
<1> QED
  BY <1>2, <1>3 DEF Documents, NewEpoch, Updated

\* The slot changes to another step, or is freed, by type.
LEMMA SlotTypes ==
  ASSUME control \in Slots \cup {Idle}, Running, NEW step \in Steps
  PROVE  /\ [control EXCEPT !.step = step, !.sent = FALSE] \in Slots
         /\ [control EXCEPT !.sent = TRUE] \in Slots
         /\ control.call \in Calls /\ control.step \in Steps
<1>1. control \in Slots
  BY DEF Running, Idle
<1> QED
  BY <1>1 DEF Slots

\* Every step keeps the types.
LEMMA TypeStep ==
  ASSUME TypeOK, OneRound, AskedOK, SlotOK, ResultsOK, Next
  PROVE  TypeOK'
<1> USE DEF TypeOK
<1>1. ASSUME NEW c \in Calls, Dismiss(c)
      PROVE  TypeOK'
  BY <1>1 DEF Dismiss, schedulerVars
<1>2. ASSUME NEW c \in Calls, Start(c)
      PROVE  TypeOK'
  BY <1>2 DEF Start, schedulerVars, Slots, Steps, FirstStep
<1>3. ASSUME NEW c \in Calls, Deliver(c)
      PROVE  TypeOK'
  BY <1>3 DEF Deliver, schedulerVars, ResultsOK
<1>4. ASSUME NEW c \in Calls, GiveUp(c)
      PROVE  TypeOK'
  BY <1>4 DEF GiveUp, schedulerVars
<1>5. CASE Transmit
  <2>1. wire = << >> /\ Running
    BY <1>5, Whereabouts DEF Quiet, Transmit
  <2>2. control.call \in Calls /\ control' \in Slots
    BY <1>5, <2>1, SlotTypes DEF Transmit, Steps
  <2>3. [kind |-> KindOf(control.step), call |-> control.call] \in Commands
    BY <2>2 DEF Commands, KindOf, Kinds
  <2>4. wire' \in Seq(Commands)
    BY <1>5, <2>1, <2>3, FirstMessage DEF Transmit
  <2> QED
    BY <1>5, <2>2, <2>4 DEF Transmit, schedulerVars
<1>6. CASE TransportFails
  BY <1>6 DEF TransportFails, Return, schedulerVars
<1>7. ASSUME NEW step \in Steps, Receives(step)
      PROVE  /\ replies' \in [get : Seq(GetReplies), set : Seq(SetReplies)]
             /\ UNCHANGED <<policy, draining, effects, wire, seen>>
             /\ control.call \in Calls
             /\ \A s \in Steps : [control EXCEPT !.step = s, !.sent = FALSE] \in Slots
  <2>1. /\ replies.get # << >> => Tail(replies.get) = << >>
        /\ replies.set # << >> => Tail(replies.set) = << >>
    BY Whereabouts
  <2>2. << >> \in Seq(GetReplies) /\ << >> \in Seq(SetReplies)
    BY EmptySeq
  <2> QED
    BY <1>7, <2>1, <2>2, SlotTypes DEF Receives, schedulerVars, KindOf
<1>8. CASE ReceiveBound
  BY <1>8, <1>7 DEF ReceiveBound, Return, Continue, Steps
<1>9. CASE ReceiveSet
  BY <1>9, <1>7 DEF ReceiveSet, Return, Continue, Steps
<1>10. CASE ReceiveGet
  BY <1>10, <1>7 DEF ReceiveGet, Return, Steps
<1>11. CASE ServeSet
  <2> DEFINE c == Head(wire).call
             updated == UpdateAccepts(asked[c])
  <2>1. /\ c \in Calls /\ asked[c].patch \in Patches /\ Tail(wire) = << >>
        /\ replies.set = << >>
    BY <1>11, Served, Whereabouts DEF ServeSet
  <2>2. updated \in BOOLEAN
    BY DEF UpdateAccepts
  <2>3. [call |-> c, updated |-> updated] \in SetReplies
    BY <2>1, <2>2 DEF SetReplies
  <2>4. replies' \in [get : Seq(GetReplies), set : Seq(SetReplies)]
    BY <1>11, <2>1, <2>3, FirstMessage DEF ServeSet
  <2>5. policy' \in Documents /\ LimitsFit(policy'.mutable) /\ effects' \in [Calls -> Nat]
    <3>1. CASE updated
      <4> DEFINE m == Merged(asked[c].patch, policy.mutable)
      <4>1. policy' = Updated(policy, m)
        BY <1>11, <3>1 DEF ServeSet, Updated
      <4>2. LimitsFit(asked[c].patch) /\ policy.mutable \in [Fields -> Nat]
        BY <3>1 DEF UpdateAccepts, Documents
      <4>3. m \in [Fields -> Nat] /\ LimitsFit(m)
        BY <2>1, <4>2, MergedType
      <4>4. policy \in Documents
        OBVIOUS
      <4>5. policy' \in Documents /\ policy'.mutable = m
        <5> HIDE DEF m
        <5> QED
          BY ONLY <4>1, <4>3, <4>4, NextDocument
      <4>7. LimitsFit(policy'.mutable)
        BY ONLY <4>3, <4>5
      <4>8. effects' = [effects EXCEPT ![c] = @ + 1]
        BY <1>11, <3>1 DEF ServeSet
      <4>9. effects' \in [Calls -> Nat]
        BY <2>1, <4>8
      <4> QED
        BY <4>5, <4>7, <4>9
    <3>2. CASE ~updated
      BY <1>11, <3>2 DEF ServeSet
    <3> QED
      BY <3>1, <3>2
  <2> QED
    BY <1>11, <2>1, <2>4, <2>5, EmptySeq DEF ServeSet
<1>12. CASE ServeGet
  <2>1. Head(wire).call \in Calls /\ Tail(wire) = << >> /\ replies.get = << >>
    BY <1>12, Served, Whereabouts DEF ServeGet
  <2>2. [call |-> Head(wire).call, document |-> policy,
         native |-> NativeRunning, profile |-> ~draining] \in GetReplies
    BY <2>1 DEF GetReplies
  <2>3. replies' \in [get : Seq(GetReplies), set : Seq(SetReplies)]
    BY <1>12, <2>1, <2>2, FirstMessage DEF ServeGet
  <2> QED
    BY <1>12, <2>1, <2>3, EmptySeq DEF ServeGet, schedulerVars
<1>13. CASE BeginDraining
  BY <1>13 DEF BeginDraining
<1>14. CASE Rotate
  <2>1. policy \in Documents /\ policy' = NewEpoch(policy)
    BY <1>14 DEF Rotate, NewEpoch
  <2>2. policy' \in Documents
    BY ONLY <2>1, NextDocument, InitialIsValid DEF InitialIsValid
  <2>3. policy'.mutable = policy.mutable
    BY ONLY <2>1, NextDocument, InitialIsValid DEF InitialIsValid
  <2> QED
    BY <1>14, <2>2, <2>3 DEF Rotate
<1> QED
  BY <1>1, <1>2, <1>3, <1>4, <1>5, <1>6, <1>8, <1>9, <1>10, <1>11, <1>12,
     <1>13, <1>14 DEF Next

\* A reply is taken in the round it belongs to, and nothing else is under way.
LEMMA Received ==
  ASSUME TypeOK, OneRound, NEW step \in Steps, Receives(step)
  PROVE  /\ Quiet' /\ control \in Slots /\ control.call \in Calls
         /\ UNCHANGED <<policy, effects, asked, answers>>
         /\ IF step = "set"
              THEN replies.set # << >> /\ Head(replies.set) \in SetReplies
              ELSE replies.get # << >> /\ Head(replies.get) \in GetReplies
<1>1. control \in Slots /\ control.call \in Calls
  <2>1. control \in Slots
    BY DEF Receives, TypeOK, Running, Idle
  <2> QED
    BY <2>1 DEF Slots
<1>2. IF step = "set" THEN replies.set # << >> ELSE replies.get # << >>
  BY DEF Receives, KindOf
<1>3. wire' = << >> /\ replies'.get = << >> /\ replies'.set = << >>
  BY <1>2, Whereabouts DEF Receives, KindOf, TypeOK
<1> QED
  BY <1>1, <1>2, <1>3, Whereabouts DEF Receives, schedulerVars, Quiet

\* Every step keeps one message at most, of the slot's round.
LEMMA RoundStep ==
  ASSUME TypeOK, OneRound, AskedOK, SlotOK, Next
  PROVE  OneRound'
<1>1. ASSUME NEW c \in Calls, Dismiss(c) \/ Deliver(c) \/ GiveUp(c)
      PROVE  OneRound'
  BY <1>1 DEF Dismiss, Deliver, GiveUp, OneRound, Running
<1>2. ASSUME NEW c \in Calls, Start(c)
      PROVE  OneRound'
  <2>1. Quiet
    BY <1>2, Whereabouts DEF Start
  <2> QED
    BY <1>2, <2>1, RoundWhenQuiet DEF Start, Quiet
<1>3. CASE Transmit
  <2> DEFINE command == [kind |-> KindOf(control.step), call |-> control.call]
  <2>1. Quiet /\ control \in Slots
    BY <1>3, Whereabouts DEF Transmit, TypeOK, Running, Idle
  <2>2. control' = [control EXCEPT !.sent = TRUE] /\ wire' = Append(wire, command)
    BY <1>3 DEF Transmit
  <2>3. /\ control'.sent = TRUE /\ control'.step = control.step
        /\ control'.call = control.call
    BY <2>1, <2>2 DEF Slots
  <2>4. Running'
    BY <1>3, <2>3 DEF Transmit, Running
  <2>5. Len(wire') = 1 /\ DOMAIN wire' = {1} /\ wire'[1] = command
    BY <2>1, <2>2, FirstMessage DEF Quiet
  <2>6. replies'.get = << >> /\ replies'.set = << >>
    BY <1>3, <2>1 DEF Transmit, Quiet
  <2>7. Len(<< >>) = 0 /\ DOMAIN << >> = {}
    OBVIOUS
  <2> QED
    BY <2>3, <2>4, <2>5, <2>6, <2>7 DEF OneRound, Kinds
<1>4. CASE TransportFails
  <2>1. Quiet /\ ~Running'
    BY <1>4, Whereabouts DEF TransportFails, Return, Running, Idle
  <2> QED
    BY <1>4, <2>1, RoundWhenQuiet DEF TransportFails, Quiet
<1>5. ASSUME NEW step \in Steps, Receives(step),
             control' = Idle \/ (\E s \in Steps : Continue(s))
      PROVE  OneRound'
  <2>1. Quiet' /\ control \in Slots
    BY <1>5, Received
  <2>2. ~(Running' /\ control'.sent)
    <3>1. CASE control' = Idle
      BY <3>1 DEF Running, Idle
    <3>2. ASSUME NEW s \in Steps, Continue(s)
          PROVE  ~control'.sent
      BY <2>1, <3>2 DEF Continue, Slots
    <3> QED
      BY <1>5, <3>1, <3>2
  <2> QED
    BY <2>1, <2>2, RoundWhenQuiet
<1>6. CASE ReceiveBound
  BY <1>5, <1>6 DEF ReceiveBound, Return, Steps
<1>7. CASE ReceiveSet
  BY <1>5, <1>7 DEF ReceiveSet, Return, Steps
<1>8. CASE ReceiveGet
  BY <1>5, <1>8 DEF ReceiveGet, Return, Steps
<1>9. CASE ServeSet
  <2> DEFINE reply == [call |-> Head(wire).call,
                       updated |-> UpdateAccepts(asked[Head(wire).call])]
  <2>1. /\ Running /\ control.sent /\ control.step = "set"
        /\ Head(wire).call = control.call
    BY <1>9, Served DEF ServeSet
  <2>2. Tail(wire) = << >> /\ replies.get = << >> /\ replies.set = << >>
    BY <1>9, Whereabouts DEF ServeSet
  <2>3. /\ wire' = << >> /\ replies'.get = << >>
        /\ replies'.set = Append(<< >>, reply)
    BY <1>9, <2>2 DEF ServeSet, TypeOK
  <2>4. Len(replies'.set) = 1 /\ DOMAIN replies'.set = {1} /\ replies'.set[1] = reply
    BY <2>3, FirstMessage
  <2>5. Len(<< >>) = 0 /\ DOMAIN << >> = {}
    OBVIOUS
  <2>6. control' = control
    BY <1>9 DEF ServeSet
  <2> QED
    BY <2>1, <2>3, <2>4, <2>5, <2>6 DEF OneRound, Kinds, KindOf, Running
<1>10. CASE ServeGet
  <2> DEFINE reply == [call |-> Head(wire).call, document |-> policy,
                       native |-> NativeRunning, profile |-> ~draining]
  <2>1. /\ Running /\ control.sent /\ control.step # "set"
        /\ Head(wire).call = control.call
    BY <1>10, Served DEF ServeGet
  <2>2. Tail(wire) = << >> /\ replies.get = << >> /\ replies.set = << >>
    BY <1>10, Whereabouts DEF ServeGet
  <2>3. /\ wire' = << >> /\ replies'.set = << >>
        /\ replies'.get = Append(<< >>, reply)
    BY <1>10, <2>2 DEF ServeGet, TypeOK
  <2>4. Len(replies'.get) = 1 /\ DOMAIN replies'.get = {1} /\ replies'.get[1] = reply
    BY <2>3, FirstMessage
  <2>5. Len(<< >>) = 0 /\ DOMAIN << >> = {}
    OBVIOUS
  <2>6. control' = control
    BY <1>10 DEF ServeGet
  <2> QED
    BY <2>1, <2>3, <2>4, <2>5, <2>6 DEF OneRound, Kinds, KindOf, Running
<1>11. CASE BeginDraining \/ Rotate
  BY <1>11 DEF BeginDraining, Rotate, OneRound, Running
<1> QED
  BY <1>1, <1>2, <1>3, <1>4, <1>6, <1>7, <1>8, <1>9, <1>10, <1>11 DEF Next

\* What serving a set command does, for the call in the slot.
LEMMA SetServed ==
  ASSUME TypeOK, OneRound, AskedOK, SlotOK, ServeSet
  PROVE  LET c == control.call
             m == Merged(asked[c].patch, policy.mutable)
         IN /\ Running /\ control.step = "set" /\ c \in Calls
            /\ UNCHANGED <<draining, control, results, asked, answers>>
            /\ replies'.get = << >> /\ replies'.set # << >>
            /\ Head(replies'.set).updated = UpdateAccepts(asked[c])
            /\ asked[c].method = "PATCH" /\ asked[c].patch \in Patches
            /\ asked[c].revision \in Nat /\ effects[c] = 0
            /\ IF UpdateAccepts(asked[c])
                 THEN /\ policy' = Updated(policy, m)
                      /\ m \in [Fields -> Nat]
                      /\ asked[c].epoch = policy.epoch
                      /\ asked[c].revision = policy.revision
                      /\ effects' = [effects EXCEPT ![c] = 1]
                 ELSE UNCHANGED <<policy, effects>>
<1> DEFINE c == control.call
           m == Merged(asked[c].patch, policy.mutable)
           reply == [call |-> c, updated |-> UpdateAccepts(asked[c])]
<1>1. /\ Running /\ control.step = "set" /\ c \in Calls /\ Head(wire).call = c
      /\ asked[c].method = "PATCH" /\ asked[c].patch \in Patches
      /\ asked[c].revision \in Nat /\ effects[c] = 0
  BY Served DEF ServeSet
<1>2. UNCHANGED <<draining, control, results, asked, answers>>
  BY DEF ServeSet
<1>3. replies.get = << >> /\ replies.set = << >>
  BY Whereabouts DEF ServeSet
<1>4. replies'.get = << >> /\ replies'.set = Append(<< >>, reply)
  BY <1>1, <1>3 DEF ServeSet, TypeOK
<1>5. replies'.set # << >> /\ Head(replies'.set) = reply
  BY <1>4, FirstMessage
<1>6. ASSUME UpdateAccepts(asked[c])
      PROVE  /\ policy' = Updated(policy, m)
             /\ asked[c].epoch = policy.epoch
             /\ asked[c].revision = policy.revision
             /\ effects' = [effects EXCEPT ![c] = 1]
  <2>1. asked[c].epoch = policy.epoch /\ asked[c].revision = policy.revision
    BY <1>6 DEF UpdateAccepts
  <2>2. policy' = Updated(policy, m)
    BY <1>1, <1>6 DEF ServeSet, Updated
  <2>3. effects' = [effects EXCEPT ![c] = @ + 1]
    BY <1>1, <1>6 DEF ServeSet
  <2>4. effects[c] + 1 = 1
    BY <1>1
  <2>5. effects' = [effects EXCEPT ![c] = 1]
    BY ONLY <2>3, <2>4
  <2> QED
    BY <2>1, <2>2, <2>5
<1>7. ASSUME UpdateAccepts(asked[c])
      PROVE  m \in [Fields -> Nat]
  BY <1>1, <1>7, MergedType DEF TypeOK, Documents, UpdateAccepts
<1>8. ASSUME ~UpdateAccepts(asked[c])
      PROVE  UNCHANGED <<policy, effects>>
  BY <1>1, <1>8 DEF ServeSet
<1> QED
  BY <1>1, <1>2, <1>4, <1>5, <1>6, <1>7, <1>8

\* Every step keeps the policy, starts an epoch, or is an update.
LEMMA PolicyMoves ==
  ASSUME TypeOK, OneRound, AskedOK, SlotOK, Next
  PROVE  \/ UNCHANGED <<policy, effects>>
         \/ Rotate
         \/ ServeSet /\ UpdateAccepts(asked[control.call])
<1>1. \/ UNCHANGED <<policy, effects>>
      \/ Rotate
      \/ ServeSet
  BY DEF Next, Dismiss, Start, Deliver, GiveUp, Transmit, TransportFails,
         ReceiveBound, ReceiveSet, ReceiveGet, Receives, ServeGet, BeginDraining,
         schedulerVars
<1> QED
  BY <1>1, SetServed

\* Epoch and revision never decrease, and a revision has one content.
LEMMA PolicyGrows ==
  ASSUME TypeOK, OneRound, AskedOK, SlotOK, Next
  PROVE  /\ policy.revision \in Nat /\ policy'.revision \in Nat
         /\ policy.epoch \in Nat /\ policy'.epoch \in Nat
         /\ policy.revision <= policy'.revision /\ policy.epoch <= policy'.epoch
         /\ policy'.revision = policy.revision => policy'.mutable = policy.mutable
<1>1. policy \in Documents /\ policy.mutable \in [Fields -> Nat]
  BY DEF TypeOK, Documents
<1>2. CASE UNCHANGED <<policy, effects>>
  BY <1>1, <1>2 DEF Documents
<1>3. CASE Rotate
  <2>1. policy' = NewEpoch(policy)
    BY <1>3 DEF Rotate, NewEpoch
  <2> QED
    BY <1>1, <2>1, NextDocument
<1>4. CASE ServeSet /\ UpdateAccepts(asked[control.call])
  <2> DEFINE m == Merged(asked[control.call].patch, policy.mutable)
  <2>1. policy' = Updated(policy, m) /\ m \in [Fields -> Nat]
    BY <1>4, SetServed
  <2> HIDE DEF m
  <2> QED
    BY <1>1, <2>1, NextDocument
<1> QED
  BY <1>2, <1>3, <1>4, PolicyMoves

\* Every step keeps what is known of requests.
LEMMA AskedStep ==
  ASSUME TypeOK, OneRound, AskedOK, SlotOK, Next
  PROVE  AskedOK'
<1>1. /\ policy.revision \in Nat /\ policy'.revision \in Nat
      /\ policy.revision <= policy'.revision
  BY PolicyGrows
<1>2. DOMAIN asked' = Calls /\ DOMAIN answers' = Calls /\ DOMAIN results' = Calls
  BY DEF AskedOK, Next, Dismiss, Start, Deliver, GiveUp, Transmit, TransportFails,
         ReceiveBound, ReceiveSet, ReceiveGet, Receives, Return, Continue,
         ServeSet, ServeGet, BeginDraining, Rotate
<1>3. ASSUME NEW c \in Calls, Dismiss(c)
      PROVE  AskedOK'
  BY <1>2, <1>3 DEF Dismiss, Dismissed, AskedOK, schedulerVars
<1>4. ASSUME NEW c \in Calls, Start(c)
      PROVE  AskedOK'
  <2>1. PICK request \in Requests : asked' = [asked EXCEPT ![c] = request]
    BY <1>4 DEF Start
  <2>2. policy' = policy
    BY <1>4 DEF Start, schedulerVars
  <2>3. /\ request.method \in {"GET", "PROFILE", "PATCH"}
        /\ request.since = policy.revision
        /\ request.method \in {"PROFILE", "PATCH"} => request.epoch \in Nat
        /\ request.method = "PATCH" => request.revision \in Nat /\ request.patch \in Patches
    BY DEF Requests, TypeOK, Documents
  <2> QED
    BY <1>1, <1>2, <2>1, <2>2, <2>3 DEF AskedOK
<1>5. CASE UNCHANGED asked
  BY <1>1, <1>2, <1>5 DEF AskedOK
<1> QED
  BY <1>3, <1>4, <1>5
     DEF Next, Deliver, GiveUp, Transmit, TransportFails, ReceiveBound,
         ReceiveSet, ReceiveGet, Receives, ServeSet, ServeGet, BeginDraining, Rotate

\* What a call asks is settled when it is made.
LEMMA AskedOnce ==
  ASSUME AskedOK, Next
  PROVE  \A c \in Calls : Made(c) => asked'[c] = asked[c] /\ Made(c)'
<1>1. \/ UNCHANGED asked
      \/ \E c \in Calls : ~Made(c) /\ \E request : asked' = [asked EXCEPT ![c] = request]
  BY DEF Next, Dismiss, Start, Deliver, GiveUp, Transmit, TransportFails,
         ReceiveBound, ReceiveSet, ReceiveGet, Receives, ServeSet, ServeGet,
         BeginDraining, Rotate
<1> QED
  BY <1>1 DEF AskedOK, Made

\* Every step counts an update for the call in the slot, at most once.
LEMMA EffectsStep ==
  ASSUME TypeOK, OneRound, AskedOK, HistoryOK, SlotOK, NoLostUpdate, Next,
         NEW c \in Calls, effects'[c] > 0
  PROVE  /\ asked'[c] = asked[c] /\ asked[c].method = "PATCH" /\ effects'[c] = 1
         /\ asked[c].revision \in Nat /\ asked[c].revision < policy'.revision
         /\ \A d \in Calls : d # c /\ effects'[d] > 0 =>
              asked[c].revision # asked[d].revision
<1> DEFINE e == control.call
<1>1. /\ policy.revision \in Nat /\ policy'.revision \in Nat
      /\ policy.revision <= policy'.revision
  BY PolicyGrows
<1>2. ASSUME NEW d \in Calls, effects[d] > 0
      PROVE  /\ asked[d].method = "PATCH" /\ effects[d] = 1
             /\ asked[d].revision < policy.revision /\ asked[d].revision \in Nat
             /\ Made(d)
  BY <1>2 DEF HistoryOK, AskedOK, Made
<1>3. CASE effects' = effects
  <2>1. /\ asked[c].method = "PATCH" /\ effects[c] = 1 /\ Made(c)
        /\ asked[c].revision < policy.revision /\ asked[c].revision \in Nat
    BY <1>2, <1>3
  <2>2. asked[c].revision < policy'.revision
    BY ONLY <1>1, <2>1
  <2> QED
    BY <1>3, <2>1, <2>2, AskedOnce DEF NoLostUpdate
<1>4. CASE ServeSet /\ UpdateAccepts(asked[e])
  <2>1. /\ e \in Calls /\ asked[e].method = "PATCH" /\ asked[e].revision \in Nat
        /\ asked[e].revision = policy.revision /\ asked' = asked
        /\ effects' = [effects EXCEPT ![e] = 1]
    BY <1>4, SetServed
  <2>2. policy'.revision = policy.revision + 1
    <3> DEFINE m == Merged(asked[e].patch, policy.mutable)
    <3>1. policy' = Updated(policy, m) /\ m \in [Fields -> Nat] /\ policy \in Documents
      BY <1>4, SetServed DEF TypeOK
    <3> HIDE DEF m
    <3> QED
      BY <3>1, NextDocument
  <2>3. \A d \in Calls : effects'[d] = IF d = e THEN 1 ELSE effects[d]
    BY <2>1 DEF TypeOK
  <2>4. \A d \in Calls : d # e /\ effects'[d] > 0 =>
          /\ asked[d].method = "PATCH" /\ effects'[d] = 1 /\ asked[d].revision \in Nat
          /\ asked[d].revision < policy.revision
    BY <1>2, <2>3
  <2>5. /\ asked[c].method = "PATCH" /\ effects'[c] = 1
        /\ asked[c].revision \in Nat
        /\ asked[c].revision <= policy.revision
    BY <1>1, <2>1, <2>3, <2>4
  <2>6. asked[c].revision < policy'.revision
    BY ONLY <1>1, <2>2, <2>5
  <2>7. ASSUME NEW d \in Calls, d # c, effects'[d] > 0
        PROVE  asked[c].revision # asked[d].revision
    <3>1. CASE c # e /\ d # e
      BY <2>3, <2>7, <3>1 DEF NoLostUpdate
    <3>2. CASE c = e
      BY <1>1, <2>1, <2>4, <2>7, <3>2
    <3>3. CASE d = e
      BY <1>1, <2>1, <2>4, <2>7, <3>3
    <3> QED
      BY <3>1, <3>2, <3>3
  <2> QED
    BY <2>1, <2>5, <2>6, <2>7
<1> QED
  BY <1>3, <1>4, PolicyMoves DEF Rotate

\* Every step keeps the relation of effects to revisions.
LEMMA HistoryStep ==
  ASSUME TypeOK, OneRound, AskedOK, HistoryOK, SlotOK, NoLostUpdate, Next
  PROVE  HistoryOK' /\ NoLostUpdate'
<1>1. ASSUME NEW c \in Calls, ~Made(c)'
      PROVE  answers'[c].outcome = "none" /\ results'[c].outcome = "none"
  <2>1. ~Made(c) /\ answers[c].outcome = "none" /\ results[c].outcome = "none"
    BY <1>1, AskedOnce DEF HistoryOK
  <2>2. ASSUME Running
        PROVE  control.call # c
    BY <2>1, <2>2 DEF SlotOK, Made
  <2>3. ASSUME NEW d \in Calls, Dismiss(d)
        PROVE  d # c
    BY <1>1, <2>3 DEF Dismiss, Dismissed, Made, AskedOK
  <2>4. answers'[c] = answers[c]
    BY <2>1, <2>3
       DEF Next, Dismiss, Start, Deliver, GiveUp, Waiting, Transmit, TransportFails,
           ReceiveBound, ReceiveSet, ReceiveGet, Receives, ServeSet, ServeGet,
           BeginDraining, Rotate, AskedOK
  <2>5. results'[c] = results[c]
    BY <2>1, <2>2
       DEF Next, Dismiss, Start, Deliver, GiveUp, Waiting, Transmit, TransportFails,
           ReceiveBound, ReceiveSet, ReceiveGet, Receives, Return, Continue,
           ServeSet, ServeGet, BeginDraining, Rotate, AskedOK
  <2> QED
    BY <2>1, <2>4, <2>5
<1>2. ASSUME NEW c \in Calls, effects'[c] > 0
      PROVE  /\ asked'[c] = asked[c] /\ asked[c].method = "PATCH" /\ effects'[c] = 1
             /\ asked[c].revision < policy'.revision
             /\ \A d \in Calls : d # c /\ effects'[d] > 0 =>
                  asked[c].revision # asked[d].revision
  BY <1>2, EffectsStep
<1> QED
  BY <1>1, <1>2 DEF HistoryOK, NoLostUpdate

\* Steps that leave the slot's round, its replies and the revision alone.
LEMMA SlotKept ==
  ASSUME TypeOK, TypeOK', AskedOK, SlotOK, Running,
         control'.call = control.call, control'.step = control.step,
         asked'[control.call] = asked[control.call],
         results'[control.call].outcome = "none",
         answers'[control.call].outcome \in {"none", "control_unavailable"},
         UNCHANGED <<effects, replies>>,
         policy'.revision = policy.revision, policy'.mutable = policy.mutable,
         policy.epoch <= policy'.epoch
  PROVE  SlotOK'
<1> DEFINE c == control.call
<1>1. /\ asked[c].method \in {"GET", "PROFILE", "PATCH"}
      /\ results[c].outcome = "none"
      /\ control.step = "bound" => effects[c] = 0 /\ "max_running" \in DOMAIN asked[c].patch
      /\ control.step \in {"bound", "set"} => asked[c].method = "PATCH"
  BY DEF SlotOK
<1>2. control.step = "set" =>
        IF replies.set # << >> /\ Head(replies.set).updated
          THEN Applied(c) ELSE effects[c] = 0
  BY DEF SlotOK
<1>3. control.step = "get" =>
        /\ asked[c].method = "PATCH" => Applied(c)
        /\ replies.get # << >> => Read(c, Head(replies.get).document)
        /\ replies.get # << >> /\ asked[c].method = "PATCH" =>
             Head(replies.get).document.revision = policy.revision
  BY DEF SlotOK
<1>4. Applied(c) => Applied(c)'
  BY DEF Applied
<1>5. ASSUME Read(c, Head(replies.get).document)
      PROVE  Read(c, Head(replies.get).document)'
  BY <1>5 DEF Read, TypeOK, Documents
<1> QED
  BY <1>1, <1>2, <1>3, <1>4, <1>5 DEF SlotOK

\* The update of the call in the slot is still there when it is told so.
LEMMA AppliedWhenServed ==
  ASSUME TypeOK, OneRound, AskedOK, SlotOK, ServeSet, UpdateAccepts(asked[control.call])
  PROVE  Applied(control.call)'
<1> DEFINE c == control.call
           m == Merged(asked[c].patch, policy.mutable)
<1>1. /\ policy' = Updated(policy, m) /\ m \in [Fields -> Nat]
      /\ c \in Calls /\ effects' = [effects EXCEPT ![c] = 1]
      /\ asked[c].revision = policy.revision /\ asked[c].patch \in Patches
      /\ control' = control /\ asked' = asked
  BY SetServed
<1>2. policy'.revision = policy.revision + 1 /\ policy'.mutable = m
  <2>1. policy \in Documents
    BY DEF TypeOK
  <2> HIDE DEF m
  <2> QED
    BY <1>1, <2>1, NextDocument
<1>3. \A f \in DOMAIN asked[c].patch : m[f] = asked[c].patch[f]
  BY <1>1, PatchesChangeFields DEF PatchesChangeFields, Merged
<1>4. effects'[c] = 1
  BY <1>1 DEF TypeOK
<1> QED
  BY <1>1, <1>2, <1>3, <1>4 DEF Applied

\* Every step keeps what the slot and its replies say of the call.
LEMMA SlotStep ==
  ASSUME TypeOK, TypeOK', OneRound, AskedOK, HistoryOK, SlotOK, ResultsOK, Next
  PROVE  SlotOK'
<1> DEFINE e == control.call
<1>1. /\ Running => e \in Calls /\ control \in Slots
      /\ Running => Made(e) /\ asked'[e] = asked[e]
      /\ Running => results[e].outcome = "none"
      /\ Running => answers[e].outcome \in {"none", "control_unavailable"}
  <2>1. Running => e \in Calls /\ control \in Slots
    BY DEF TypeOK, Running, Idle, Slots
  <2>2. Running => Made(e) /\ results[e].outcome = "none"
                   /\ answers[e].outcome \in {"none", "control_unavailable"}
    BY DEF SlotOK, Made
  <2> QED
    BY <2>1, <2>2, AskedOnce
<1>2. policy.epoch <= policy'.epoch
  BY PolicyGrows
<1>3. ASSUME NEW c \in Calls, Dismiss(c) \/ Deliver(c) \/ GiveUp(c)
      PROVE  SlotOK'
  <2>1. UNCHANGED <<policy, effects, replies, control>>
    BY <1>3 DEF Dismiss, Deliver, GiveUp, schedulerVars
  <2>2. CASE Running
    <3>1. results'[e].outcome = "none"
      BY <1>1, <1>3, <2>2 DEF Dismiss, Deliver, GiveUp, ResultsOK, AskedOK, NoAnswer
    <3>2. answers'[e].outcome \in {"none", "control_unavailable"}
      BY <1>1, <1>3, <2>2
         DEF Dismiss, Deliver, GiveUp, ResultsOK, AskedOK, Error, Made
    <3> QED
      BY <1>1, <1>2, <2>1, <2>2, <3>1, <3>2, SlotKept
  <2> QED
    BY <2>1, <2>2 DEF SlotOK, Running
<1>4. ASSUME NEW c \in Calls, Start(c)
      PROVE  SlotOK'
  <2>1. PICK request \in Requests :
          /\ asked' = [asked EXCEPT ![c] = request]
          /\ control' = [call |-> c, step |-> FirstStep(request), sent |-> FALSE]
    BY <1>4 DEF Start
  <2>2. asked'[c] = request /\ request.method \in {"GET", "PROFILE", "PATCH"}
    BY <2>1 DEF AskedOK, Requests
  <2>3. Quiet
    BY <1>4, Whereabouts DEF Start
  <2>4. answers[c].outcome = "none" /\ results[c].outcome = "none" /\ effects[c] = 0
    <3>1. ~Made(c) /\ asked[c].method = "none" /\ effects[c] \in Nat
      BY <1>4 DEF Start, Made, TypeOK
    <3>2. ~(effects[c] > 0)
      BY <3>1 DEF HistoryOK
    <3> QED
      BY <3>1, <3>2 DEF HistoryOK
  <2>5. UNCHANGED <<answers, results, replies, effects>>
    BY <1>4 DEF Start, schedulerVars
  <2>6. /\ FirstStep(request) \in Steps
        /\ FirstStep(request) = "bound" => "max_running" \in DOMAIN request.patch
        /\ FirstStep(request) \in {"bound", "set"} => request.method = "PATCH"
        /\ FirstStep(request) = "get" => request.method # "PATCH"
    BY <2>2 DEF FirstStep, Steps
  <2>7. control'.call = c /\ control'.step = FirstStep(request)
    BY <2>1
  <2>8. replies'.get = << >> /\ replies'.set = << >>
    BY <2>3, <2>5 DEF Quiet
  <2> QED
    BY <2>2, <2>4, <2>5, <2>6, <2>7, <2>8 DEF SlotOK
<1>5. CASE Transmit
  <2>1. /\ Running /\ control'.call = e /\ control'.step = control.step
        /\ UNCHANGED <<policy, effects, replies, results, answers, asked>>
    BY <1>1, <1>5 DEF Transmit, schedulerVars, Slots
  <2> QED
    BY <1>1, <1>2, <2>1, SlotKept
<1>6. ASSUME control' = Idle
      PROVE  SlotOK'
  BY <1>6 DEF SlotOK, Running, Idle
<1>7. CASE ReceiveBound
  <2>1. CASE Continue("set")
    <3>1. /\ Quiet' /\ control \in Slots /\ control.step = "bound" /\ Running
          /\ UNCHANGED <<policy, effects, asked, answers, results>>
      BY <1>7, <2>1, Received DEF ReceiveBound, Steps, Receives, Continue
    <3>2. control'.call = e /\ control'.step = "set"
      BY <2>1, <3>1 DEF Continue, Slots
    <3> QED
      BY <3>1, <3>2 DEF SlotOK, Quiet
  <2> QED
    BY <1>6, <1>7, <2>1 DEF ReceiveBound, Return
<1>8. CASE ReceiveSet
  <2>1. CASE Head(replies.set).updated
    <3>1. /\ Quiet' /\ control \in Slots /\ control.step = "set" /\ Running
          /\ replies.set # << >> /\ Continue("get")
          /\ UNCHANGED <<policy, effects, asked, answers, results>>
      BY <1>8, <2>1, Received DEF ReceiveSet, Steps, Receives, Continue
    <3>2. control'.call = e /\ control'.step = "get"
      BY <3>1 DEF Continue, Slots
    <3>3. Applied(e)'
      BY <2>1, <3>1, <3>2 DEF SlotOK, Applied
    <3> QED
      BY <3>1, <3>2, <3>3 DEF SlotOK, Quiet
  <2> QED
    BY <1>6, <1>8, <2>1 DEF ReceiveSet, Return
<1>9. CASE ReceiveGet \/ TransportFails
  BY <1>6, <1>9 DEF ReceiveGet, TransportFails, Return
<1>10. CASE ServeSet
  <2>1. /\ Running /\ control.step = "set" /\ e \in Calls
        /\ UNCHANGED <<control, results, asked, answers>>
        /\ replies'.get = << >> /\ replies'.set # << >>
        /\ Head(replies'.set).updated = UpdateAccepts(asked[e])
        /\ effects[e] = 0 /\ (~UpdateAccepts(asked[e]) => effects' = effects)
    BY <1>10, SetServed
  <2>2. UpdateAccepts(asked[e]) => Applied(e)'
    BY <1>10, AppliedWhenServed
  <2> QED
    BY <2>1, <2>2 DEF SlotOK, Running
<1>11. CASE ServeGet
  <2> DEFINE reply == [call |-> Head(wire).call, document |-> policy,
                       native |-> NativeRunning, profile |-> ~draining]
  <2>1. /\ Running /\ control.step \in {"bound", "get"}
        /\ UNCHANGED <<policy, effects, control, results, asked, answers>>
    BY <1>11, Served DEF ServeGet, schedulerVars
  <2>2. replies.get = << >> /\ replies.set = << >>
    BY <1>11, Whereabouts DEF ServeGet
  <2>3. replies'.get = Append(<< >>, reply) /\ replies'.set = << >>
    BY <1>11, <2>2 DEF ServeGet, TypeOK
  <2>4. Head(replies'.get) = reply
    BY <2>3, FirstMessage
  <2>5. Head(replies'.get).document = policy
    BY <2>4
  <2>6. Read(e, policy)
    BY <1>1, <2>1 DEF Read, TypeOK, AskedOK, SlotOK, Documents
  <2>7. Read(e, Head(replies.get).document)'
    BY <2>1, <2>5, <2>6 DEF Read
  <2>8. Applied(e) => Applied(e)'
    BY <2>1 DEF Applied
  <2> QED
    BY <2>1, <2>5, <2>7, <2>8 DEF SlotOK, Running
<1>12. CASE BeginDraining \/ Rotate
  <2>1. /\ UNCHANGED <<effects, replies, control, results, asked, answers>>
        /\ policy'.revision = policy.revision /\ policy'.mutable = policy.mutable
    <3>1. CASE BeginDraining
      BY <3>1 DEF BeginDraining
    <3>2. CASE Rotate
      <4>1. policy' = NewEpoch(policy) /\ policy \in Documents
            /\ policy.mutable \in [Fields -> Nat]
        BY <3>2 DEF Rotate, NewEpoch, TypeOK, Documents
      <4>2. policy'.revision = policy.revision /\ policy'.mutable = policy.mutable
        BY ONLY <4>1, NextDocument
      <4> QED
        BY <3>2, <4>2 DEF Rotate
    <3> QED
      BY <1>12, <3>1, <3>2
  <2>2. CASE Running
    BY <1>1, <1>2, <2>1, <2>2, SlotKept
  <2> QED
    BY <2>1, <2>2 DEF SlotOK, Running
<1> QED
  BY <1>3, <1>4, <1>5, <1>7, <1>8, <1>9, <1>10, <1>11, <1>12 DEF Next

\* What was true to tell a caller stays true while the policy moves on.
LEMMA TruthStays ==
  ASSUME NEW c \in Calls, NEW document \in Documents, Promise!Truthful(c, document),
         policy.revision \in Nat, policy'.revision \in Nat,
         policy.epoch \in Nat, policy'.epoch \in Nat,
         policy.revision <= policy'.revision, policy.epoch <= policy'.epoch,
         policy'.revision = policy.revision => policy'.mutable = policy.mutable,
         asked'[c] = asked[c], effects'[c] = effects[c]
  PROVE  Promise!Truthful(c, document)'
<1>1. document.revision \in Nat /\ document.epoch \in Nat
  BY DEF Documents
<1>2. document.revision \in asked[c].since .. policy.revision
  BY DEF Promise!Truthful
<1>3. document.revision \in asked[c].since .. policy'.revision
  BY <1>1, <1>2
<1>4. document.epoch <= policy'.epoch
  BY <1>1 DEF Promise!Truthful
<1>5. document.revision = policy'.revision => document.mutable = policy'.mutable
  <2>1. document.revision = policy'.revision => policy.revision = policy'.revision
    BY <1>1, <1>2
  <2> QED
    BY <2>1 DEF Promise!Truthful
<1> QED
  BY <1>3, <1>4, <1>5 DEF Promise!Truthful

\* The document of the last read is one its caller may be shown.
LEMMA TruthWhenRead ==
  ASSUME TypeOK, OneRound, AskedOK, SlotOK, Running, control.step = "get",
         replies.get # << >>,
         asked[control.call].method = "PROFILE" =>
           Head(replies.get).document.epoch = asked[control.call].epoch
  PROVE  /\ Head(replies.get).document \in Documents
         /\ Promise!Truthful(control.call, Head(replies.get).document)
<1> DEFINE c == control.call
           d == Head(replies.get).document
<1>1. /\ asked[c].method = "PATCH" => Applied(c) /\ d.revision = policy.revision
      /\ Read(c, d)
  BY DEF SlotOK
<1>2. asked[c].method = "PATCH" =>
        /\ effects[c] = 1
        /\ d.revision = asked[c].revision + 1
        /\ \A f \in DOMAIN asked[c].patch : d.mutable[f] = asked[c].patch[f]
  BY <1>1 DEF Applied, Read
<1> HIDE DEF c, d
<1>3. d \in Documents /\ Promise!Truthful(c, d)
  BY <1>1, <1>2 DEF Promise!Truthful, Read, c, d
<1> QED
  BY <1>3 DEF c, d

\* The results that wait for their callers are not touched by others' steps.
LEMMA ResultsKept ==
  ASSUME TypeOK, TypeOK', OneRound, AskedOK, HistoryOK, SlotOK, ResultsOK, Next,
         NEW c \in Calls, results'[c] = results[c], results[c].outcome # "none"
  PROVE  /\ ~(Running' /\ control'.call = c)
         /\ Waiting(c)'
         /\ results'[c].outcome \in Refusals \cup {"ok", "control_unavailable"}
         /\ results'[c].outcome \in Refusals => effects'[c] = 0
         /\ results'[c].outcome = "ok" => /\ results'[c].document \in Documents
                                          /\ Promise!Truthful(c, results[c].document)'
<1>1. /\ ~(Running /\ control.call = c) /\ Waiting(c)
      /\ results[c].outcome \in Refusals \cup {"ok", "control_unavailable"}
      /\ results[c].outcome \in Refusals => effects[c] = 0
      /\ results[c].outcome = "ok" => /\ results[c].document \in Documents
                                      /\ Promise!Truthful(c, results[c].document)
  BY DEF ResultsOK
<1>2. asked'[c] = asked[c] /\ Made(c)'
  BY <1>1, AskedOnce DEF Waiting
<1>3. effects'[c] = effects[c]
  <2>1. CASE ServeSet
    BY <1>1, <2>1, SetServed DEF TypeOK
  <2> QED
    BY <2>1, PolicyMoves DEF Rotate
<1>4. answers'[c] = answers[c]
  <2>1. ASSUME NEW d \in Calls, Dismiss(d) \/ Deliver(d) \/ GiveUp(d)
        PROVE  d # c
    BY <1>1, <2>1 DEF Dismiss, Deliver, GiveUp, Waiting, NoAnswer, AskedOK
  <2> QED
    BY <2>1
       DEF Next, Dismiss, Start, Deliver, GiveUp, Transmit, TransportFails,
           ReceiveBound, ReceiveSet, ReceiveGet, Receives, ServeSet, ServeGet,
           BeginDraining, Rotate, AskedOK
<1>5. ~(Running' /\ control'.call = c)
  <2>1. ASSUME NEW d \in Calls, Start(d)
        PROVE  control'.call = d /\ d # c
    BY <1>1, <2>1 DEF Start, Waiting
  <2>2. \/ control' = Idle
        \/ (Running /\ control'.call = control.call)
        \/ control' = control
        \/ \E d \in Calls : Start(d)
    <3>1. Running => control \in Slots
      BY DEF TypeOK, Running, Idle
    <3> QED
      BY <3>1
         DEF Next, Dismiss, Deliver, GiveUp, Transmit, TransportFails,
             ReceiveBound, ReceiveSet, ReceiveGet, Receives, Return, Continue,
             ServeSet, ServeGet, BeginDraining, Rotate, Slots
  <2>3. CASE control' = Idle
    BY <2>3 DEF Running, Idle
  <2>4. CASE Running /\ control'.call = control.call
    BY <1>1, <2>4
  <2>5. CASE control' = control
    BY <1>1, <2>5 DEF Running
  <2> QED
    BY <2>1, <2>2, <2>3, <2>4, <2>5
<1>6. results[c].outcome = "ok" => Promise!Truthful(c, results[c].document)'
  BY <1>1, <1>2, <1>3, PolicyGrows, TruthStays
<1> QED
  BY <1>1, <1>2, <1>3, <1>4, <1>5, <1>6 DEF Waiting

\* What the rounds of the call in the slot justify to return.
Justified(result) ==
  /\ result.outcome \in Refusals \cup {"ok", "control_unavailable"}
  /\ result.outcome \in Refusals => effects[control.call] = 0
  /\ result.outcome = "ok" => /\ result.document \in Documents
                              /\ Promise!Truthful(control.call, result.document)

\* Whatever the task returns is a justified answer of its call.
LEMMA ReturnsJustified ==
  ASSUME TypeOK, OneRound, AskedOK, HistoryOK, SlotOK, Running
  PROVE  /\ Justified(Error("control_unavailable"))
         /\ ReceiveBound => Justified(Error("invalid_request"))
         /\ ReceiveSet /\ ~Head(replies.set).updated =>
              Justified(Error("policy_conflict_or_invalid"))
         /\ ReceiveGet => Justified(Response(asked[control.call], Head(replies.get)))
<1> DEFINE c == control.call
<1>1. Justified(Error("control_unavailable"))
  BY DEF Justified, Error, Refusals, Promise!Refusals
<1>2. ReceiveBound => Justified(Error("invalid_request"))
  <2>1. ReceiveBound => effects[c] = 0
    BY DEF ReceiveBound, Receives, SlotOK
  <2> QED
    BY <2>1 DEF Justified, Error, Refusals, Promise!Refusals
<1>3. ReceiveSet /\ ~Head(replies.set).updated =>
        Justified(Error("policy_conflict_or_invalid"))
  <2>1. ReceiveSet /\ ~Head(replies.set).updated => effects[c] = 0
    BY DEF ReceiveSet, Receives, SlotOK
  <2> QED
    BY <2>1 DEF Justified, Error, Refusals, Promise!Refusals
<1>4. ASSUME ReceiveGet
      PROVE  Justified(Response(asked[c], Head(replies.get)))
  <2> DEFINE reply == Head(replies.get)
             result == Response(asked[c], reply)
  <2>1. /\ Running /\ control.step = "get" /\ replies.get # << >>
        /\ reply \in GetReplies
    BY <1>4, Received DEF ReceiveGet, Receives, Steps
  <2>2. asked[c].method \in {"GET", "PROFILE", "PATCH"} /\ reply.profile \in BOOLEAN
    BY <2>1 DEF SlotOK, GetReplies
  <2>3. CASE result = Success(reply.document)
    <3>1. asked[c].method = "PROFILE" => reply.document.epoch = asked[c].epoch
      BY <2>2, <2>3 DEF Response, Success, Error
    <3>2. reply.document \in Documents /\ Promise!Truthful(c, reply.document)
      BY <2>1, <3>1, TruthWhenRead
    <3> QED
      BY <2>3, <3>2 DEF Justified, Success, Refusals, Promise!Refusals
  <2>4. CASE /\ asked[c].method = "PROFILE"
             /\ result \in {Error("governor_unavailable"), Error("profile_epoch_mismatch")}
    <3>1. effects[c] = 0
      <4>1. c \in Calls
        BY <1>4, Received DEF ReceiveGet, Steps
      <4> QED
        BY <2>4, <4>1 DEF HistoryOK, TypeOK
    <3> QED
      BY <2>4, <3>1 DEF Justified, Error, Refusals, Promise!Refusals
  <2> QED
    BY <2>2, <2>3, <2>4 DEF Response
<1> QED
  BY <1>1, <1>2, <1>3, <1>4

\* Every step keeps the results that wait justified.
LEMMA ResultsStep ==
  ASSUME TypeOK, TypeOK', OneRound, AskedOK, HistoryOK, SlotOK, ResultsOK, Next
  PROVE  ResultsOK'
<1> SUFFICES ASSUME NEW c \in Calls, results'[c].outcome # "none"
             PROVE  /\ ~(Running' /\ control'.call = c)
                    /\ Waiting(c)'
                    /\ results'[c].outcome \in Refusals \cup {"ok", "control_unavailable"}
                    /\ results'[c].outcome \in Refusals => effects'[c] = 0
                    /\ results'[c].outcome = "ok" =>
                         /\ results'[c].document \in Documents
                         /\ Promise!Truthful(c, results[c].document)'
  BY DEF ResultsOK
<1>1. CASE results'[c] = results[c]
  BY <1>1, ResultsKept
<1>2. ASSUME NEW result, Return(result), Justified(result), results'[c] # results[c],
             UNCHANGED <<policy, effects, asked, answers>>
      PROVE  /\ ~Running' /\ Waiting(c)'
             /\ results'[c].outcome \in Refusals \cup {"ok", "control_unavailable"}
             /\ results'[c].outcome \in Refusals => effects'[c] = 0
             /\ results'[c].outcome = "ok" =>
                  /\ results'[c].document \in Documents
                  /\ Promise!Truthful(c, results[c].document)'
  <2>1. c = control.call /\ results'[c] = result /\ Waiting(c) /\ control' = Idle
    BY <1>2 DEF Return, AskedOK
  <2>2. Waiting(c)' /\ ~Running'
    BY <1>2, <2>1 DEF Waiting, Made, Running, Idle
  <2>3. result.outcome = "ok" => Promise!Truthful(c, result.document)
    BY <1>2, <2>1 DEF Justified
  <2>4. result.outcome = "ok" => Promise!Truthful(c, results[c].document)'
    BY <1>2, <2>1, <2>3 DEF Promise!Truthful
  <2> QED
    BY <1>2, <2>1, <2>2, <2>4 DEF Justified
<1>3. CASE results'[c] # results[c]
  <2>1. \/ /\ TransportFails /\ Return(Error("control_unavailable"))
        \/ /\ ReceiveBound /\ Return(Error("invalid_request"))
        \/ /\ ReceiveSet /\ ~Head(replies.set).updated
           /\ Return(Error("policy_conflict_or_invalid"))
        \/ /\ ReceiveGet
           /\ Return(Response(asked[control.call], Head(replies.get)))
    BY <1>3 DEF Next, Dismiss, Start, Deliver, GiveUp, Transmit, TransportFails,
           ReceiveBound, ReceiveSet, ReceiveGet, Continue,
           ServeSet, ServeGet, BeginDraining, Rotate, AskedOK, NoAnswer
  <2>2. Running /\ UNCHANGED <<policy, effects, asked, answers>>
    BY <2>1 DEF TransportFails, ReceiveBound, ReceiveSet, ReceiveGet, Receives, schedulerVars
  <2> QED
    BY <1>2, <1>3, <2>1, <2>2, ReturnsJustified
<1> QED
  BY <1>1, <1>3

-----------------------------------------------------------------------------
(* The theorems.                                                           *)

\* The invariant holds initially.
LEMMA InitStep == Init => IInv
<1> SUFFICES ASSUME Init PROVE IInv
  OBVIOUS
<1> USE DEF Init
<1>1. /\ wire = << >> /\ replies.get = << >> /\ replies.set = << >>
      /\ ~Running
  BY DEF Running, Idle
<1>2. policy \in Documents /\ LimitsFit(policy.mutable)
  BY InitialIsValid DEF InitialIsValid, Documents, LimitsFit
<1>3. TypeOK
  BY <1>1, <1>2, EmptySeq DEF TypeOK
<1>4. OneRound
  <2>1. Len(<< >>) = 0 /\ DOMAIN << >> = {}
    OBVIOUS
  <2> QED
    BY <1>1, <2>1 DEF OneRound, Kinds
<1>5. AskedOK /\ HistoryOK /\ SlotOK /\ ResultsOK /\ NoLostUpdate
  BY <1>1 DEF AskedOK, HistoryOK, SlotOK, ResultsOK, NoLostUpdate, NotAsked, NoAnswer,
              Made
<1> QED
  BY <1>3, <1>4, <1>5 DEF IInv

\* Every step keeps the invariant.
LEMMA NextStep == IInv /\ [Next]_vars => IInv'
<1> SUFFICES ASSUME IInv, [Next]_vars PROVE IInv'
  OBVIOUS
<1>1. CASE Next
  <2>1. TypeOK'
    BY <1>1, TypeStep DEF IInv
  <2>2. OneRound' /\ AskedOK'
    BY <1>1, RoundStep, AskedStep DEF IInv
  <2>3. HistoryOK' /\ NoLostUpdate'
    BY <1>1, HistoryStep DEF IInv
  <2>4. SlotOK' /\ ResultsOK'
    BY <1>1, <2>1, SlotStep, ResultsStep DEF IInv
  <2> QED
    BY <2>1, <2>2, <2>3, <2>4 DEF IInv
<1>2. CASE UNCHANGED vars
  <2> USE <1>2 DEF vars
  <2>1. TypeOK' /\ OneRound'
    BY DEF IInv, TypeOK, OneRound, Running
  <2>2. AskedOK' /\ HistoryOK' /\ NoLostUpdate'
    BY DEF IInv, AskedOK, HistoryOK, NoLostUpdate, Made
  <2>3. SlotOK'
    BY DEF IInv, SlotOK, Running, Applied, Read
  <2>4. ResultsOK'
    BY DEF IInv, ResultsOK, Running, Waiting, Made, Promise!Truthful
  <2> QED
    BY <2>1, <2>2, <2>3, <2>4 DEF IInv
<1> QED
  BY <1>1, <1>2

\* The inductive invariant holds throughout.
THEOREM Invariance == Spec => []IInv
BY InitStep, NextStep, PTL DEF Spec

\* The control task, the messages and the policy keep their shapes, whatever
\* the number of calls: the merge of a patch keeps every field, and max_running
\* never passes the native bound.
THEOREM TypeCorrect == Spec => []TypeOK
<1>1. IInv => TypeOK
  BY DEF IInv
<1> QED
  BY <1>1, Invariance, PTL

\* No reply is ever taken by another call's round, however many callers gave up.
THEOREM RoundsAreSeparate == Spec => []OneRound
<1>1. IInv => OneRound
  BY DEF IInv
<1> QED
  BY <1>1, Invariance, PTL

\* No two updates are made over the same revision.
THEOREM UpdatesAreNotLost == Spec => []NoLostUpdate
<1>1. IInv => NoLostUpdate
  BY DEF IInv
<1> QED
  BY <1>1, Invariance, PTL

-----------------------------------------------------------------------------
(* The control plane implements the atomic policy.                         *)

\* Every step is one of the atomic policy, or changes nothing it promises.
LEMMA PromiseStep ==
  ASSUME IInv, Next
  PROVE  [Promise!Next]_Promise!vars
<1> USE DEF Promise!vars
<1>1. TypeOK /\ OneRound /\ AskedOK /\ HistoryOK /\ SlotOK /\ ResultsOK
  BY DEF IInv
<1>2. ASSUME NEW c \in Calls, Dismiss(c)
      PROVE  Promise!Next
  <2>1. asked'[c] = Dismissed
    BY <1>1, <1>2 DEF Dismiss, AskedOK
  <2>a. /\ asked[c].method = "none"
        /\ asked' = [asked EXCEPT ![c] = asked'[c]]
        /\ UNCHANGED <<policy, effects>>
    BY <1>2, <2>1 DEF Dismiss, Made, schedulerVars
  <2>b. asked'[c].method = "dismissed"
    BY <2>1 DEF Dismissed
  <2>2. Promise!Ask(c, asked'[c])
    BY <2>a, <2>b DEF Promise!Ask, Promise!Methods
  <2>3. Promise!Dismiss(c)
    BY <1>2, <2>1, <2>2 DEF Dismiss, Promise!Dismiss, Dismissed, Error
  <2> QED
    BY <2>3 DEF Promise!Next
<1>3. ASSUME NEW c \in Calls, Start(c)
      PROVE  Promise!Next
  <2>1. PICK request \in Requests : asked' = [asked EXCEPT ![c] = request]
    BY <1>3 DEF Start
  <2>2. asked'[c] = request
    BY <1>1, <2>1 DEF AskedOK
  <2>3. /\ request.method \in {"GET", "PROFILE", "PATCH"}
        /\ request.since = policy.revision
        /\ request.method = "PATCH" => request.patch \in Patches
    BY DEF Requests
  <2>4. Promise!Ask(c, asked'[c])
    BY <1>3, <2>1, <2>2, <2>3
       DEF Start, Promise!Ask, Promise!Methods, Made, schedulerVars
  <2>5. UNCHANGED answers
    BY <1>3 DEF Start
  <2> QED
    BY <2>4, <2>5 DEF Promise!Next
<1>4. ASSUME NEW c \in Calls, Deliver(c)
      PROVE  Promise!Next
  <2>1. answers' = [answers EXCEPT ![c] = results[c]] /\ answers'[c] = results[c]
    BY <1>1, <1>4 DEF Deliver, AskedOK
  <2>2. /\ results[c].outcome \in Refusals \cup {"ok", "control_unavailable"}
        /\ results[c].outcome \in Refusals => effects[c] = 0
        /\ results[c].outcome = "ok" => Promise!Truthful(c, results[c].document)
    BY <1>1, <1>4 DEF Deliver, ResultsOK
  <2>3. Promise!Answer(c, answers'[c])
    BY <1>4, <2>1, <2>2
       DEF Deliver, Promise!Answer, Promise!Uncertain, Refusals, Waiting, Made,
           schedulerVars
  <2> QED
    BY <2>3 DEF Promise!Next
<1>5. ASSUME NEW c \in Calls, GiveUp(c)
      PROVE  Promise!Next
  <2>1. /\ answers' = [answers EXCEPT ![c] = Error("control_unavailable")]
        /\ answers'[c] = Error("control_unavailable")
    BY <1>1, <1>5 DEF GiveUp, AskedOK
  <2>a. /\ asked[c].method # "none" /\ answers[c].outcome = "none"
        /\ answers' = [answers EXCEPT ![c] = answers'[c]]
        /\ UNCHANGED <<policy, asked, effects>>
    BY <1>5, <2>1 DEF GiveUp, Waiting, Made, schedulerVars
  <2>b. answers'[c].outcome \in Promise!Uncertain
    BY <2>1 DEF Promise!Uncertain, Error
  <2>2. Promise!Answer(c, answers'[c])
    BY <2>a, <2>b DEF Promise!Answer
  <2> QED
    BY <2>2 DEF Promise!Next
<1>6. CASE ServeSet
  <2> DEFINE c == control.call
  <2>1. CASE UpdateAccepts(asked[c])
    <3>1. /\ c \in Calls /\ asked[c].method = "PATCH" /\ effects[c] = 0
          /\ asked[c].epoch = policy.epoch /\ asked[c].revision = policy.revision
          /\ policy' = Updated(policy, Merged(asked[c].patch, policy.mutable))
          /\ effects' = [effects EXCEPT ![c] = 1]
          /\ UNCHANGED <<asked, answers>>
      BY <1>1, <1>6, <2>1, SetServed
    <3>2. answers[c].outcome \notin Promise!Refusals \cup {"ok"}
      BY <1>1, <1>6, SetServed DEF SlotOK, Promise!Refusals
    <3>3. Promise!TakeEffect(c)
      BY <3>1, <3>2 DEF Promise!TakeEffect, Updated, Merged
    <3> QED
      BY <3>1, <3>3 DEF Promise!Next
  <2>2. CASE ~UpdateAccepts(asked[c])
    BY <1>1, <1>6, <2>2, SetServed
  <2> QED
    BY <2>1, <2>2
<1>7. CASE Rotate
  BY <1>7 DEF Rotate, Promise!NewEpoch, Promise!Next
<1>8. CASE \/ Transmit \/ TransportFails \/ ReceiveBound \/ ReceiveSet
           \/ ReceiveGet \/ ServeGet \/ BeginDraining
  BY <1>8 DEF Transmit, TransportFails, ReceiveBound, ReceiveSet, ReceiveGet,
              Receives, ServeGet, BeginDraining, schedulerVars
<1> QED
  BY <1>2, <1>3, <1>4, <1>5, <1>6, <1>7, <1>8 DEF Next

\* Every answer of the control plane is one an atomic policy could give: for
\* every number of calls, every timeout and every late reply.
THEOREM AnswersAreAtomic == Spec => IsAtomic
<1>1. Init => Promise!Init
  BY DEF Init, Promise!Init, NotAsked, NoAnswer, Promise!NotAsked, Promise!NoAnswer
<1>2. IInv /\ [Next]_vars => [Promise!Next]_Promise!vars
  BY PromiseStep DEF vars, Promise!vars
<1> QED
  BY <1>1, <1>2, Invariance, PTL DEF Spec, IsAtomic, Promise!Spec

=============================================================================
