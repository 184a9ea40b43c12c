---------------------------- MODULE RollingWindow ----------------------------
(***************************************************************************)
(* The ring of time buckets in which the Rust State keeps its aggregate    *)
(* decode evidence (rust/src/lib.rs: Bucket, bucket, advance_clock,        *)
(* evidence, record_tokens).  A bucket belongs to the tick written in it;  *)
(* it is emptied when a later tick falls on the same slot, and a bucket    *)
(* whose tick lies outside the window is skipped by readers.               *)
(*                                                                         *)
(* Time is counted in units, TICK of them to a bucket.  The active count   *)
(* times a span of units gives sequence-seconds.                           *)
(***************************************************************************)
EXTENDS Integers, FiniteSetsExt

CONSTANTS
  BUCKETS, TICK, WINDOW_TICKS, SHORT_TICKS, MaxActive,
  MAX_COUNT, \* largest count of tokens the machine integers hold
  MaxDelta,  \* bound: tokens of one call
  MaxTime    \* bound: clock

\* The window covers its newest tick and WINDOW_TICKS older ones.
ASSUME RingAssumption ==
  /\ TICK \in Nat \ {0}
  /\ WINDOW_TICKS \in Nat
  /\ SHORT_TICKS \in 0 .. WINDOW_TICKS
  /\ BUCKETS \in Nat
  /\ BUCKETS > WINDOW_TICKS
  /\ MaxActive \in Nat /\ MAX_COUNT \in Nat /\ MaxDelta \in Nat /\ MaxTime \in Nat

VARIABLES
  buckets,      \* slot |-> [tick, tokens, seconds]
  last_time,    \* time of the last call, -1 for None
  active,
  quarantined

ringVars == <<buckets, last_time, active, quarantined>>

Slots == 0 .. BUCKETS - 1
EMPTY == [tick |-> -1, tokens |-> 0, seconds |-> 0]

Tick(now) == now \div TICK
Times == 0 .. MaxTime

\* Mutant: the evidence of the older tick is kept.
Claimed_NotEmptied(slot, t) == [slot EXCEPT !.tick = t]

\* bucket(): the slot of tick t, emptied if another tick holds it.
Claimed(slot, t) == IF slot.tick = t THEN slot ELSE [EMPTY EXCEPT !.tick = t]

-----------------------------------------------------------------------------
(* advance_clock: exposure from the last call on, clipped to the window.   *)

AccrueFrom(now) ==
  LET oldest == (Tick(now) - WINDOW_TICKS) * TICK
  IN IF last_time > oldest THEN last_time ELSE oldest

\* Ticks the loop visits: none ends before the start or begins at "now".
Visited(now) ==
  {t \in 0 .. Tick(now) : (t + 1) * TICK > AccrueFrom(now) /\ t * TICK < now}

\* The part of tick t between the start and "now".
Span(t, now) ==
  LET begin == IF AccrueFrom(now) > t * TICK THEN AccrueFrom(now) ELSE t * TICK
      end == IF now < (t + 1) * TICK THEN now ELSE (t + 1) * TICK
  IN end - begin

\* Visited ticks in one slot; the last one visited keeps it.
VisitedIn(s, now) == {t \in Visited(now) : t % BUCKETS = s}

Accumulates(now, counting) ==
  counting /\ active > 0 /\ last_time >= 0 /\ last_time < now

Advanced(now, counting) ==
  [s \in Slots |->
     IF Accumulates(now, counting) /\ VisitedIn(s, now) # {}
     THEN LET t == Max(VisitedIn(s, now))
          IN [Claimed(buckets[s], t) EXCEPT !.seconds = @ + active * Span(t, now)]
     ELSE buckets[s]]

\* record_tokens: the tick of "now" takes the tokens.
Recorded(ring, now, delta) ==
  LET s == Tick(now) % BUCKETS
  IN [ring EXCEPT ![s] = [Claimed(ring[s], Tick(now)) EXCEPT !.tokens = @ + delta]]

-----------------------------------------------------------------------------
(* evidence: every slot whose tick is inside the lookback is summed.       *)

\* Mutant: a bucket that has aged out of the lookback is still summed.
Counted_Aged(ring, now, lookback_ticks) ==
  {s \in Slots : ring[s].tick >= 0 /\ ring[s].tick <= Tick(now)}

Counted(ring, now, lookback_ticks) ==
  {s \in Slots : /\ ring[s].tick >= 0
                 /\ Tick(now) - lookback_ticks <= ring[s].tick
                 /\ ring[s].tick <= Tick(now)}

Evidence(ring, now, lookback_ticks) ==
  LET S == Counted(ring, now, lookback_ticks)
  IN [ tokens |-> SumFunction([s \in S |-> ring[s].tokens]),
       seconds |-> SumFunction([s \in S |-> ring[s].seconds]) ]

-----------------------------------------------------------------------------
(* The calls that touch the ring.                                          *)

Init ==
  /\ buckets = [s \in Slots |-> EMPTY]
  /\ last_time = -1
  /\ active = 0
  /\ quarantined = FALSE

\* A call whose time precedes the last one is refused.
Accepts(now) == now >= last_time

\* Mutant: only the bucket is checked.
Fits_Bucket(ring, now) == ring[Tick(now) % BUCKETS].tokens <= MAX_COUNT

\* checked_add, of one bucket and of the window: either overflow refuses.
Fits(ring, now) ==
  /\ ring[Tick(now) % BUCKETS].tokens <= MAX_COUNT
  /\ Evidence(ring, now, WINDOW_TICKS).tokens <= MAX_COUNT

Observe(now, delta, active_after) ==
  /\ Accepts(now)
  /\ Fits(Recorded(Advanced(now, ~quarantined), now, delta), now)
  /\ buckets' = Recorded(Advanced(now, ~quarantined), now, delta)
  /\ last_time' = now
  /\ active' = active_after
  /\ UNCHANGED quarantined

\* snapshot, admission, choose, prefill and export only advance the clock.
Snapshot(now) ==
  /\ Accepts(now)
  /\ buckets' = Advanced(now, ~quarantined)
  /\ last_time' = now
  /\ UNCHANGED <<active, quarantined>>

Quarantine(now, active_after, enabled) ==
  /\ Accepts(now)
  /\ buckets' = Advanced(now, FALSE)
  /\ last_time' = now
  /\ active' = active_after
  /\ quarantined' = enabled

StartSurfaceEpoch(now, active_after) ==
  /\ buckets' = [s \in Slots |-> EMPTY]
  /\ last_time' = now
  /\ active' = active_after
  /\ quarantined' = FALSE

Next ==
  \E now \in Times :
    \/ Snapshot(now)
    \/ \E active_after \in 0 .. MaxActive :
         \/ \E delta \in 0 .. MaxDelta : Observe(now, delta, active_after)
         \/ \E enabled \in BOOLEAN : Quarantine(now, active_after, enabled)
         \/ StartSurfaceEpoch(now, active_after)

Spec == Init /\ [][Next]_ringVars

-----------------------------------------------------------------------------
(* The ring against the window it stands for.                              *)

\* Ticks of the window that ends now, the oldest one whole.
WindowNow ==
  IF last_time < 0 THEN {}
  ELSE {t \in 0 .. Tick(last_time) : t >= Tick(last_time) - WINDOW_TICKS}

\* What the ring holds for one tick: nothing, unless its slot bears it.
HeldFor(t) ==
  LET b == buckets[t % BUCKETS]
  IN IF b.tick = t THEN [tokens |-> b.tokens, seconds |-> b.seconds]
     ELSE [tokens |-> 0, seconds |-> 0]

Exact == INSTANCE ExactWindow WITH window <- [t \in WindowNow |-> HeldFor(t)]

\* The ring implements the exact window: no call ever loses or duplicates
\* evidence of a tick that is still in the window, whatever gaps lie between
\* the calls and however often the ring has wrapped.
ImplementsExactWindow == Exact!Spec

\* Readers that sum the slots get the sums over the window, for the long and
\* for the short lookback.
EvidenceExact ==
  last_time >= 0 =>
    \A lookback \in {WINDOW_TICKS, SHORT_TICKS} :
      LET ticks == {t \in WindowNow : t >= Tick(last_time) - lookback}
      IN Evidence(buckets, last_time, lookback) =
           [ tokens |-> SumFunction([t \in ticks |-> HeldFor(t).tokens]),
             seconds |-> SumFunction([t \in ticks |-> HeldFor(t).seconds]) ]

\* What one call has accepted no later call finds too large to sum: reading
\* the evidence never overflows.
EvidenceFits ==
  last_time >= 0 => Evidence(buckets, last_time, WINDOW_TICKS).tokens <= MAX_COUNT
=============================================================================
