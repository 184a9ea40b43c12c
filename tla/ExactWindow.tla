----------------------------- MODULE ExactWindow -----------------------------
(***************************************************************************)
(* What the 60 s evidence window of the core promises, with no ring behind *)
(* it: for every tick that is still inside the window, exactly the decode  *)
(* tokens recorded in it and the sequence-seconds that passed in it while  *)
(* requests were active.                                                   *)
(***************************************************************************)
EXTENDS Integers

CONSTANTS
  TICK,          \* time units per tick, BUCKET_SECONDS
  WINDOW_TICKS,  \* WINDOW_SECONDS, in ticks
  MaxActive,     \* max_running_requests
  MaxDelta,      \* bound: tokens of one call
  MaxTime        \* bound: clock

VARIABLES
  window,      \* evidence of each tick of the window that ends now
  last_time,   \* time of the last call, -1 before the first
  active,      \* decoding requests
  quarantined  \* the active set is contaminated: time passes, nothing counts

windowVars == <<window, last_time, active, quarantined>>

Tick(now) == now \div TICK

Times == 0 .. MaxTime

\* The window that ends in tick "last": its oldest tick is kept whole.
TicksUpTo(last) == {t \in 0 .. last : t >= last - WINDOW_TICKS}

Nothing == [tokens |-> 0, seconds |-> 0]

\* Units of the interval from one time to another that fall into tick t.
Overlap(t, from, to) ==
  LET begin == IF from > t * TICK THEN from ELSE t * TICK
      end == IF to < (t + 1) * TICK THEN to ELSE (t + 1) * TICK
  IN IF begin < end THEN end - begin ELSE 0

Exposed(t, now, counting) ==
  IF counting /\ last_time >= 0 THEN active * Overlap(t, last_time, now) ELSE 0

\* The window at "now" when "delta" tokens arrive then.
Slid(now, delta, counting) ==
  [t \in TicksUpTo(Tick(now)) |->
     LET old == IF t \in DOMAIN window THEN window[t] ELSE Nothing
     IN [ tokens |-> old.tokens + (IF t = Tick(now) THEN delta ELSE 0),
          seconds |-> old.seconds + Exposed(t, now, counting) ]]

Init ==
  /\ window = [t \in {} |-> Nothing]
  /\ last_time = -1
  /\ active = 0
  /\ quarantined = FALSE

Observe(now, delta, active_after) ==
  /\ now >= last_time
  /\ window' = Slid(now, delta, ~quarantined)
  /\ last_time' = now
  /\ active' = active_after
  /\ UNCHANGED quarantined

Read(now) == Observe(now, 0, active)

Quarantine(now, active_after, enabled) ==
  /\ now >= last_time
  /\ window' = Slid(now, 0, FALSE)
  /\ last_time' = now
  /\ active' = active_after
  /\ quarantined' = enabled

\* A new surface epoch starts empty, whatever the clock said before.
StartEpoch(now, active_after) ==
  /\ window' = [t \in TicksUpTo(Tick(now)) |-> Nothing]
  /\ last_time' = now
  /\ active' = active_after
  /\ quarantined' = FALSE

Next ==
  \E now \in Times :
    \/ Read(now)
    \/ \E active_after \in 0 .. MaxActive :
         \/ \E delta \in 0 .. MaxDelta : Observe(now, delta, active_after)
         \/ \E enabled \in BOOLEAN : Quarantine(now, active_after, enabled)
         \/ StartEpoch(now, active_after)

Spec == Init /\ [][Next]_windowVars
=============================================================================
