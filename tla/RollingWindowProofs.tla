------------------------- MODULE RollingWindowProofs -------------------------
(***************************************************************************)
(* Proofs about the ring of time buckets: it implements the exact window,  *)
(* for every size of ring, bucket and window, and reading it never         *)
(* overflows.  Two ticks of the window never share a slot, because the     *)
(* ring has more slots than the window has older ticks; everything else is *)
(* the arithmetic of ticks and the sums over slots.                        *)
(***************************************************************************)
EXTENDS RollingWindow, SetSums

-----------------------------------------------------------------------------
(* Arithmetic.                                                             *)

\* Multiplication keeps the order.
LEMMA TimesMonotone ==
  ASSUME NEW k \in Nat, NEW a \in Int, NEW b \in Int, a <= b
  PROVE  a * k <= b * k /\ a * k \in Int /\ b * k \in Int
OBVIOUS

\* One more time.
LEMMA TimesNext ==
  ASSUME NEW k \in Nat, NEW a \in Int
  PROVE  (a + 1) * k = a * k + k
OBVIOUS

\* Division with remainder.
LEMMA Quotient ==
  ASSUME NEW k \in Nat \ {0}, NEW n \in Nat
  PROVE  /\ n \div k \in Nat /\ n % k \in 0 .. k - 1
         /\ (n \div k) * k <= n /\ n < ((n \div k) + 1) * k
         /\ n % k = n - k * (n \div k)
<1>1. n \div k \in Int /\ n \div k >= 0
  OBVIOUS
<1>2. n % k \in 0 .. k - 1
  OBVIOUS
<1>3. k * (n \div k) <= n /\ n < k * (n \div k) + k
  OBVIOUS
<1>4. n % k = n - k * (n \div k)
  OBVIOUS
<1>5. k * (n \div k) = (n \div k) * k /\ ((n \div k) + 1) * k = (n \div k) * k + k
  BY <1>1
<1> QED
  BY <1>1, <1>2, <1>3, <1>4, <1>5

\* A tick covers TICK units of time, and later times have later ticks.
LEMMA TickFacts ==
  ASSUME NEW now \in Nat
  PROVE  Tick(now) \in Nat /\ Tick(now) * TICK <= now /\ now < (Tick(now) + 1) * TICK
BY Quotient, RingAssumption DEF Tick, RingAssumption

\* A later time is in no earlier tick.
LEMMA TickMonotone ==
  ASSUME NEW a \in Nat, NEW b \in Nat, a <= b
  PROVE  Tick(a) <= Tick(b)
<1>1. /\ Tick(a) \in Nat /\ Tick(a) * TICK <= a
      /\ Tick(b) \in Nat /\ b < (Tick(b) + 1) * TICK
  BY TickFacts
<1>2. Tick(b) + 1 <= Tick(a) => (Tick(b) + 1) * TICK <= Tick(a) * TICK
  BY <1>1, TimesMonotone, RingAssumption DEF RingAssumption
<1>3. TICK \in Nat
  BY RingAssumption DEF RingAssumption
<1>4. Tick(a) * TICK \in Int /\ (Tick(b) + 1) * TICK \in Int
  BY <1>1, <1>3, TimesMonotone
<1> QED
  BY <1>1, <1>2, <1>4

\* Ticks less than BUCKETS apart do not share a slot.
LEMMA SlotFacts ==
  ASSUME NEW t \in Nat
  PROVE  t % BUCKETS \in Slots
BY Quotient, RingAssumption DEF Slots, RingAssumption

\* Two ticks less than a ring apart do not share a slot.
LEMMA SlotInjective ==
  ASSUME NEW t \in Nat, NEW u \in Nat, t % BUCKETS = u % BUCKETS, t - u < BUCKETS, u - t < BUCKETS
  PROVE  t = u
<1> DEFINE q == t \div BUCKETS
           p == u \div BUCKETS
<1>1. BUCKETS \in Nat \ {0}
  BY RingAssumption DEF RingAssumption
<1>2. /\ q \in Nat /\ p \in Nat
      /\ t % BUCKETS = t - BUCKETS * q /\ u % BUCKETS = u - BUCKETS * p
  BY <1>1, Quotient
<1> HIDE DEF q, p
<1>3. BUCKETS * q \in Int /\ BUCKETS * p \in Int
  BY <1>1, <1>2
<1>4. t - u = BUCKETS * q - BUCKETS * p
  BY <1>2, <1>3
<1>5. q = p
  <2>1. CASE q >= p + 1
    <3>1. BUCKETS * q >= BUCKETS * p + BUCKETS
      BY <1>1, <1>2, <2>1
    <3> QED
      BY <1>1, <1>3, <1>4, <3>1
  <2>2. CASE p >= q + 1
    <3>1. BUCKETS * p >= BUCKETS * q + BUCKETS
      BY <1>1, <1>2, <2>2
    <3> QED
      BY <1>1, <1>3, <1>4, <3>1
  <2> QED
    BY <1>2, <2>1, <2>2
<1> QED
  BY <1>3, <1>4, <1>5
-----------------------------------------------------------------------------
(* The inductive invariant: a bucket that bears a tick lies in that tick's *)
(* slot and bears no tick of the future.                                   *)

Buckets == [tick : Nat \cup {-1}, tokens : Nat, seconds : Nat]

RingAt(ring, now) ==
  /\ ring \in [Slots -> Buckets]
  /\ \A s \in Slots : ring[s].tick >= 0 =>
       ring[s].tick <= Tick(now) /\ ring[s].tick % BUCKETS = s

RingOK ==
  /\ last_time \in Nat \cup {-1}
  /\ active \in Nat
  /\ quarantined \in BOOLEAN
  /\ buckets \in [Slots -> Buckets]
  /\ last_time >= 0 => RingAt(buckets, last_time)
  /\ last_time = -1 => \A s \in Slots : buckets[s] = EMPTY

\* HeldFor, of any ring.
Held(ring, t) ==
  LET b == ring[t % BUCKETS]
  IN IF b.tick = t THEN [tokens |-> b.tokens, seconds |-> b.seconds]
     ELSE [tokens |-> 0, seconds |-> 0]

\* WindowNow, at any time.
WindowAt(now) == {t \in 0 .. Tick(now) : t >= Tick(now) - WINDOW_TICKS}

\* Two ticks of one window in one slot are one tick.
LEMMA WindowSlots ==
  ASSUME NEW now \in Nat, NEW t \in WindowAt(now), NEW u \in WindowAt(now),
         t % BUCKETS = u % BUCKETS
  PROVE  t = u
<1>1. /\ t \in Nat /\ u \in Nat /\ Tick(now) \in Nat
      /\ t <= Tick(now) /\ u <= Tick(now)
      /\ t >= Tick(now) - WINDOW_TICKS /\ u >= Tick(now) - WINDOW_TICKS
  BY TickFacts DEF WindowAt
<1>2. t - u < BUCKETS /\ u - t < BUCKETS
  BY <1>1, RingAssumption DEF RingAssumption
<1> QED
  BY <1>1, <1>2, SlotInjective

\* What a ring holds for a tick is a count and a time.
LEMMA HeldType ==
  ASSUME NEW ring \in [Slots -> Buckets], NEW t \in Nat
  PROVE  /\ Held(ring, t).tokens \in Nat /\ Held(ring, t).seconds \in Nat
         /\ Held(ring, t) = [tokens |-> Held(ring, t).tokens, seconds |-> Held(ring, t).seconds]
<1>1. ring[t % BUCKETS] \in Buckets
  BY SlotFacts
<1> QED
  BY <1>1 DEF Held, Buckets

\* The part of an interval in a tick is a time.
LEMMA OverlapType ==
  ASSUME NEW t \in Nat, NEW from \in Nat, NEW to \in Nat
  PROVE  Exact!Overlap(t, from, to) \in Nat
<1>1. t * TICK \in Int /\ (t + 1) * TICK \in Int
  BY RingAssumption, TimesMonotone DEF RingAssumption
<1> DEFINE a == t * TICK
           z == (t + 1) * TICK
<1>2. a \in Int /\ z \in Int
  BY <1>1
<1>3. Exact!Overlap(t, from, to) =
        LET begin == IF from > a THEN from ELSE a
            end == IF to < z THEN to ELSE z
        IN IF begin < end THEN end - begin ELSE 0
  BY DEF Exact!Overlap
<1> HIDE DEF a, z
<1> QED
  BY <1>2, <1>3

-----------------------------------------------------------------------------
(* advance_clock.                                                          *)

\* What advance_clock visits lies in the window, and is what the interval
\* from the last call overlaps.
LEMMA VisitedFacts ==
  ASSUME RingOK, NEW now \in Nat, last_time >= 0, last_time < now
  PROVE  /\ Visited(now) \subseteq WindowAt(now)
         /\ \A t \in WindowAt(now) :
              Exact!Overlap(t, last_time, now) =
                IF t \in Visited(now) THEN Span(t, now) ELSE 0
<1> DEFINE T == Tick(now)
           k == TICK
           old == (T - WINDOW_TICKS) * k
<1>1. T \in Nat /\ k \in Nat /\ k > 0 /\ WINDOW_TICKS \in Nat /\ last_time \in Nat
  BY TickFacts, RingAssumption DEF RingOK, RingAssumption
<1>2. old \in Int
  BY <1>1
<1>3. AccrueFrom(now) = IF last_time > old THEN last_time ELSE old
  BY DEF AccrueFrom
<1> HIDE DEF T, old, k
<1>4. ASSUME NEW t \in Nat
      PROVE  /\ t * k \in Int /\ (t + 1) * k \in Int /\ (t + 1) * k = t * k + k
             /\ t >= T - WINDOW_TICKS => t * k >= old
             /\ t < T - WINDOW_TICKS => (t + 1) * k <= old
  <2>1. t * k \in Int /\ (t + 1) * k \in Int /\ (t + 1) * k = t * k + k
    BY <1>1, TimesNext, TimesMonotone
  <2>2. ASSUME t >= T - WINDOW_TICKS PROVE t * k >= old
    BY <1>1, <2>2, TimesMonotone DEF old
  <2>3. ASSUME t < T - WINDOW_TICKS PROVE (t + 1) * k <= old
    <3>1. t + 1 <= T - WINDOW_TICKS
      BY <1>1, <2>3
    <3> QED
      BY <1>1, <3>1, TimesMonotone DEF old
  <2> QED
    BY <2>1, <2>2, <2>3
<1>5. ASSUME NEW t \in Nat
      PROVE  t \in Visited(now) <=> t <= T /\ (t + 1) * k > AccrueFrom(now) /\ t * k < now
  BY <1>1 DEF Visited, T, k
<1>6. Visited(now) \subseteq WindowAt(now)
  <2> SUFFICES ASSUME NEW t \in Visited(now) PROVE t \in WindowAt(now)
    OBVIOUS
  <2>1. t \in Nat /\ t \in 0 .. T
    BY <1>1 DEF Visited, T
  <2>2. (t + 1) * k > AccrueFrom(now)
    BY <1>5, <2>1
  <2>3. t >= T - WINDOW_TICKS
    BY <1>1, <1>2, <1>3, <1>4, <2>1, <2>2
  <2> QED
    BY <2>1, <2>3 DEF WindowAt, T
<1>7. ASSUME NEW t \in WindowAt(now)
      PROVE  Exact!Overlap(t, last_time, now) =
               IF t \in Visited(now) THEN Span(t, now) ELSE 0
  <2> DEFINE a == t * k
             z == (t + 1) * k
             from == AccrueFrom(now)
             begin == IF last_time > a THEN last_time ELSE a
             end == IF now < z THEN now ELSE z
  <2>1. t \in Nat /\ t <= T /\ t >= T - WINDOW_TICKS
    BY <1>1 DEF WindowAt, T
  <2>2. a \in Int /\ z \in Int /\ z = a + k /\ a >= old
    BY <1>4, <2>1
  <2>3. Exact!Overlap(t, last_time, now) = IF begin < end THEN end - begin ELSE 0
    BY DEF Exact!Overlap, k
  <2>4. Span(t, now) = (IF now < z THEN now ELSE z) - (IF from > a THEN from ELSE a)
    BY DEF Span, k
  <2>5. t \in Visited(now) <=> z > from /\ a < now
    BY <1>5, <2>1
  <2>6. from = IF last_time > old THEN last_time ELSE old
    BY <1>3
  <2> HIDE DEF a, z, from
  <2> QED
    BY <1>1, <1>2, <2>2, <2>3, <2>4, <2>5, <2>6
<1> QED
  BY <1>6, <1>7

\* A slot is visited for one tick at most, so none is overwritten in a call.
LEMMA VisitedAlone ==
  ASSUME RingOK, NEW now \in Nat, last_time >= 0, last_time < now,
         NEW s \in Slots, NEW t \in VisitedIn(s, now)
  PROVE  VisitedIn(s, now) = {t} /\ Max(VisitedIn(s, now)) = t
<1>1. t \in Visited(now) /\ t % BUCKETS = s
  BY DEF VisitedIn
<1>2. ASSUME NEW u \in VisitedIn(s, now) PROVE u = t
  <2>1. u \in Visited(now) /\ u % BUCKETS = s
    BY DEF VisitedIn
  <2>2. u \in WindowAt(now) /\ t \in WindowAt(now)
    BY <1>1, <2>1, VisitedFacts
  <2> QED
    BY <1>1, <2>1, <2>2, WindowSlots
<1>3. VisitedIn(s, now) = {t}
  BY <1>2
<1>4. t \in Int
  BY <1>1, TickFacts DEF Visited
<1> QED
  BY <1>3, <1>4 DEF Max

\* The slot of a tick of the new window after advance_clock: the tick keeps
\* what the ring held for it and gains the exposure of the interval.
LEMMA AdvancedHeld ==
  ASSUME RingOK, NEW now \in Nat, now >= last_time, NEW counting \in BOOLEAN,
         NEW t \in WindowAt(now)
  PROVE  /\ Held(Advanced(now, counting), t).tokens = Held(buckets, t).tokens
         /\ Held(Advanced(now, counting), t).seconds =
              Held(buckets, t).seconds + Exact!Exposed(t, now, counting)
<1> DEFINE s == t % BUCKETS
           ring == Advanced(now, counting)
           old == buckets[s]
<1>1. t \in Nat /\ s \in Slots /\ Tick(now) \in Nat
  BY TickFacts, SlotFacts DEF WindowAt
<1>2. old \in Buckets /\ active \in Nat
  BY <1>1 DEF RingOK
<1>3. CASE ~Accumulates(now, counting)
  <2>1. ring[s] = old
    BY <1>1, <1>3 DEF Advanced
  <2>2. Exact!Exposed(t, now, counting) = 0
    <3>1. CASE ~(counting /\ last_time >= 0)
      BY <3>1 DEF Exact!Exposed
    <3>2. CASE counting /\ last_time >= 0 /\ active = 0
      <4>1. Exact!Overlap(t, last_time, now) \in Nat
        BY <1>1, <3>2, OverlapType DEF RingOK
      <4> QED
        BY <3>2, <4>1 DEF Exact!Exposed
    <3>3. CASE counting /\ last_time >= 0 /\ active > 0
      <4>1. last_time = now
        BY <1>3, <3>3 DEF Accumulates, RingOK
      <4> DEFINE a == t * TICK
                 z == (t + 1) * TICK
      <4>2. a \in Int /\ z \in Int
        BY <1>1, RingAssumption, TimesMonotone DEF RingAssumption
      <4>3. Exact!Overlap(t, now, now) =
              LET begin == IF now > a THEN now ELSE a
                  end == IF now < z THEN now ELSE z
              IN IF begin < end THEN end - begin ELSE 0
        BY DEF Exact!Overlap
      <4> HIDE DEF a, z
      <4>4. Exact!Overlap(t, now, now) = 0
        BY <4>2, <4>3
      <4>5. Exact!Exposed(t, now, counting) = active * Exact!Overlap(t, last_time, now)
        BY <3>3 DEF Exact!Exposed
      <4> QED
        BY <1>2, <4>1, <4>4, <4>5
    <3> QED
      BY <1>2, <3>1, <3>2, <3>3
  <2>3. Held(ring, t) = Held(buckets, t)
    BY <2>1 DEF Held
  <2> HIDE DEF ring
  <2>4. Held(buckets, t).seconds \in Nat
    BY <1>1, HeldType DEF RingOK
  <2> QED
    BY <2>2, <2>3, <2>4 DEF ring
<1>4. CASE Accumulates(now, counting)
  <2>1. counting /\ active > 0 /\ last_time >= 0 /\ last_time < now
    BY <1>4 DEF Accumulates
  <2>2. Exact!Exposed(t, now, counting) =
          active * (IF t \in Visited(now) THEN Span(t, now) ELSE 0)
    BY <2>1, VisitedFacts DEF Exact!Exposed
  <2>3. CASE t \in Visited(now)
    <3>1. t \in VisitedIn(s, now)
      BY <2>3 DEF VisitedIn
    <3>2. VisitedIn(s, now) # {} /\ Max(VisitedIn(s, now)) = t
      BY <1>1, <2>1, <3>1, VisitedAlone
    <3>3. ring[s] = [Claimed(old, t) EXCEPT !.seconds = @ + active * Span(t, now)]
      BY <1>1, <1>4, <3>2 DEF Advanced
    <3>4. Claimed(old, t) \in Buckets /\ Claimed(old, t).tick = t
      BY <1>1, <1>2 DEF Claimed, Buckets, EMPTY
    <3>5. /\ ring[s].tick = t /\ ring[s].tokens = Claimed(old, t).tokens
          /\ ring[s].seconds = Claimed(old, t).seconds + active * Span(t, now)
      <4> DEFINE c == Claimed(old, t)
                 more == c.seconds + active * Span(t, now)
      <4>1. ring[s] = [c EXCEPT !.seconds = more]
        BY <3>3
      <4> HIDE DEF c, more, ring
      <4>2. /\ ring[s].tick = c.tick /\ ring[s].tokens = c.tokens
            /\ ring[s].seconds = more
        BY <3>4, <4>1 DEF Buckets, c
      <4> QED
        BY <3>4, <4>2 DEF c, more
    <3>6. /\ Claimed(old, t).tokens = Held(buckets, t).tokens
          /\ Claimed(old, t).seconds = Held(buckets, t).seconds
      BY <1>2 DEF Claimed, Held, EMPTY, Buckets
    <3>7. Held(ring, t) = [tokens |-> ring[s].tokens, seconds |-> ring[s].seconds]
      BY <3>5 DEF Held
    <3> HIDE DEF ring, old
    <3>8. /\ Held(ring, t).tokens = ring[s].tokens
          /\ Held(ring, t).seconds = ring[s].seconds
      BY <3>7
    <3>9. Exact!Exposed(t, now, counting) = active * Span(t, now)
      BY <2>2, <2>3
    <3> QED
      BY <3>5, <3>6, <3>8, <3>9 DEF ring
  <2>4. CASE t \notin Visited(now)
    <3>1. VisitedIn(s, now) = {}
      <4> SUFFICES ASSUME NEW u \in VisitedIn(s, now) PROVE FALSE
        OBVIOUS
      <4>1. u \in Visited(now) /\ u % BUCKETS = s
        BY DEF VisitedIn
      <4>2. u \in WindowAt(now)
        BY <2>1, <4>1, VisitedFacts
      <4>3. u = t
        BY <4>1, <4>2, WindowSlots
      <4> QED
        BY <2>4, <4>1, <4>3
    <3>2. ring[s] = old
      BY <1>1, <3>1 DEF Advanced
    <3>3. Held(ring, t) = Held(buckets, t)
      BY <3>2 DEF Held
    <3>4. Exact!Exposed(t, now, counting) = 0
      BY <1>2, <2>2, <2>4
    <3>5. Held(buckets, t).seconds \in Nat
      BY <1>1, HeldType DEF RingOK
    <3> HIDE DEF ring
    <3> QED
      BY <3>3, <3>4, <3>5 DEF ring
  <2> QED
    BY <2>3, <2>4
<1> QED
  BY <1>3, <1>4

\* advance_clock leaves a ring that is sound at the new time.
LEMMA AdvancedSound ==
  ASSUME RingOK, NEW now \in Nat, now >= last_time, NEW counting \in BOOLEAN
  PROVE  RingAt(Advanced(now, counting), now)
<1> DEFINE ring == Advanced(now, counting)
<1>1. ASSUME NEW s \in Slots
      PROVE  /\ ring[s] \in Buckets
             /\ ring[s].tick >= 0 => ring[s].tick <= Tick(now) /\ ring[s].tick % BUCKETS = s
  <2>1. buckets[s] \in Buckets /\ active \in Nat /\ Tick(now) \in Nat
    BY TickFacts DEF RingOK
  <2>2. CASE ~(Accumulates(now, counting) /\ VisitedIn(s, now) # {})
    <3>1. ring[s] = buckets[s]
      BY <2>2 DEF Advanced
    <3>2. ASSUME buckets[s].tick >= 0
          PROVE  buckets[s].tick <= Tick(now) /\ buckets[s].tick % BUCKETS = s
      <4>1. last_time \in Nat
        <5>1. last_time # -1
          BY <3>2 DEF RingOK, EMPTY
        <5> QED
          BY <5>1 DEF RingOK
      <4>2. buckets[s].tick <= Tick(last_time) /\ buckets[s].tick % BUCKETS = s
        BY <3>2, <4>1 DEF RingOK, RingAt
      <4>3. Tick(last_time) <= Tick(now) /\ Tick(last_time) \in Nat
        BY <4>1, TickMonotone, TickFacts
      <4>4. buckets[s].tick \in Int
        BY <2>1 DEF Buckets
      <4> QED
        BY <2>1, <4>2, <4>3, <4>4
    <3> HIDE DEF ring
    <3> QED
      BY <2>1, <3>1, <3>2
  <2>3. CASE Accumulates(now, counting) /\ VisitedIn(s, now) # {}
    <3>1. last_time >= 0 /\ last_time < now
      BY <2>3 DEF Accumulates
    <3>2. PICK t : t \in VisitedIn(s, now)
      BY <2>3
    <3>3. Max(VisitedIn(s, now)) = t
      BY <3>1, <3>2, VisitedAlone
    <3>4. t \in Visited(now) /\ t % BUCKETS = s
      BY <3>2 DEF VisitedIn
    <3>5. t \in WindowAt(now)
      BY <3>1, <3>4, VisitedFacts
    <3>6. t \in Nat /\ t <= Tick(now)
      BY <2>1, <3>5 DEF WindowAt
    <3>7. Span(t, now) \in Nat
      <4>1. Span(t, now) = Exact!Overlap(t, last_time, now)
        BY <3>1, <3>4, <3>5, VisitedFacts
      <4> QED
        BY <3>1, <3>6, <4>1, OverlapType DEF RingOK
    <3> DEFINE c == Claimed(buckets[s], t)
               more == c.seconds + active * Span(t, now)
    <3>8. ring[s] = [c EXCEPT !.seconds = more]
      BY <2>3, <3>3 DEF Advanced
    <3>9. c \in Buckets /\ c.tick = t
      BY <2>1, <3>6 DEF Claimed, Buckets, EMPTY
    <3>10. active * Span(t, now) \in Nat
      BY <2>1, <3>7
    <3>11. more \in Nat
      <4>1. c.seconds \in Nat
        BY <3>9 DEF Buckets
      <4> HIDE DEF c
      <4> QED
        BY <3>10, <4>1
    <3> HIDE DEF c, more, ring
    <3>12. ring[s] \in Buckets /\ ring[s].tick = t
      BY <3>8, <3>9, <3>11 DEF Buckets
    <3> QED
      BY <3>4, <3>6, <3>12
  <2> QED
    BY <2>2, <2>3
<1>2. ring = [s \in Slots |-> ring[s]]
  BY DEF Advanced
<1> HIDE DEF ring
<1>3. ring \in [Slots -> Buckets]
  BY <1>1, <1>2
<1>4. RingAt(ring, now)
  BY <1>1, <1>3 DEF RingAt
<1> QED
  BY <1>4 DEF ring

-----------------------------------------------------------------------------
(* record_tokens.                                                          *)

\* The newest tick gains the tokens; every other tick of the window keeps
\* what the ring held for it.
LEMMA RecordedHeld ==
  ASSUME NEW now \in Nat, NEW ring, RingAt(ring, now), NEW delta \in Nat,
         NEW t \in WindowAt(now)
  PROVE  /\ Held(Recorded(ring, now, delta), t).tokens =
              Held(ring, t).tokens + (IF t = Tick(now) THEN delta ELSE 0)
         /\ Held(Recorded(ring, now, delta), t).seconds = Held(ring, t).seconds
<1> DEFINE T == Tick(now)
           s == T % BUCKETS
           r == Recorded(ring, now, delta)
           c == Claimed(ring[s], T)
           more == c.tokens + delta
<1>1. T \in Nat /\ s \in Slots /\ t \in Nat /\ t % BUCKETS \in Slots
  BY TickFacts, SlotFacts DEF WindowAt
<1>2. ring \in [Slots -> Buckets] /\ ring[s] \in Buckets
  BY <1>1 DEF RingAt
<1>3. r = [ring EXCEPT ![s] = [c EXCEPT !.tokens = more]]
  BY DEF Recorded
<1>4. Held(ring, t).tokens \in Nat /\ Held(ring, t).seconds \in Nat
  BY <1>1, <1>2, HeldType
<1>5. CASE t = T
  <2>1. c \in Buckets /\ c.tick = T
    BY <1>1, <1>2 DEF Claimed, Buckets, EMPTY
  <2>2. c.tokens = Held(ring, T).tokens /\ c.seconds = Held(ring, T).seconds
    BY <1>2 DEF Claimed, Held, EMPTY, Buckets
  <2> HIDE DEF c, more, r, T
  <2>3. r[s].tick = T /\ r[s].tokens = more /\ r[s].seconds = c.seconds
    BY <1>1, <1>2, <1>3, <2>1 DEF Buckets
  <2>4. Held(r, T) = [tokens |-> r[s].tokens, seconds |-> r[s].seconds]
    BY <2>3 DEF Held
  <2>5. Held(r, T).tokens = more /\ Held(r, T).seconds = c.seconds
    BY <2>3, <2>4
  <2> QED
    BY <1>5, <2>2, <2>5 DEF more, r, T
<1>6. CASE t # T
  <2>1. T \in WindowAt(now)
    BY <1>1, RingAssumption DEF WindowAt, RingAssumption
  <2>2. t % BUCKETS # s
    BY <1>6, <2>1, WindowSlots
  <2> HIDE DEF c, more, r
  <2>3. r[t % BUCKETS] = ring[t % BUCKETS]
    BY <1>1, <1>2, <1>3, <2>2
  <2>4. Held(r, t) = Held(ring, t)
    BY <2>3 DEF Held
  <2> HIDE DEF T
  <2> QED
    BY <1>4, <1>6, <2>4 DEF r, T
<1> QED
  BY <1>5, <1>6

\* Recording tokens in the current tick keeps the ring sound.
LEMMA RecordedSound ==
  ASSUME NEW now \in Nat, NEW ring, RingAt(ring, now), NEW delta \in Nat
  PROVE  RingAt(Recorded(ring, now, delta), now)
<1> DEFINE T == Tick(now)
           s == T % BUCKETS
           r == Recorded(ring, now, delta)
           c == Claimed(ring[s], T)
           more == c.tokens + delta
           b == [c EXCEPT !.tokens = more]
<1>1. T \in Nat /\ s \in Slots
  BY TickFacts, SlotFacts
<1>2. ring \in [Slots -> Buckets] /\ ring[s] \in Buckets
  BY <1>1 DEF RingAt
<1>3. r = [ring EXCEPT ![s] = b]
  BY DEF Recorded
<1>4. c \in Buckets /\ c.tick = T
  BY <1>1, <1>2 DEF Claimed, Buckets, EMPTY
<1>5. more \in Nat
  <2>1. c.tokens \in Nat
    BY <1>4 DEF Buckets
  <2> HIDE DEF c
  <2> QED
    BY <2>1
<1>6. b \in Buckets /\ b.tick = T
  <2> HIDE DEF c, more
  <2> QED
    BY <1>4, <1>5 DEF Buckets
<1> HIDE DEF b, r
<1>7. r \in [Slots -> Buckets]
  BY <1>1, <1>2, <1>3, <1>6
<1>8. ASSUME NEW u \in Slots, r[u].tick >= 0
      PROVE  r[u].tick <= Tick(now) /\ r[u].tick % BUCKETS = u
  <2>1. CASE u = s
    <3>1. r[u].tick = T
      BY <1>1, <1>2, <1>3, <1>6, <2>1
    <3> QED
      BY <1>1, <2>1, <3>1
  <2>2. CASE u # s
    <3>1. r[u] = ring[u]
      BY <1>1, <1>2, <1>3, <2>2
    <3> QED
      BY <1>8, <3>1 DEF RingAt
  <2> QED
    BY <2>1, <2>2
<1>9. RingAt(r, now)
  BY <1>7, <1>8 DEF RingAt
<1> QED
  BY <1>9 DEF r

-----------------------------------------------------------------------------
(* The invariant.                                                          *)

\* The ring is sound at first.
LEMMA RingInitially == Init => RingOK
<1> SUFFICES ASSUME Init PROVE RingOK
  OBVIOUS
<1>1. EMPTY \in Buckets
  BY DEF EMPTY, Buckets
<1>2. /\ buckets = [s \in Slots |-> EMPTY] /\ last_time = -1
      /\ active = 0 /\ quarantined = FALSE
  BY DEF Init
<1>3. buckets \in [Slots -> Buckets] /\ \A s \in Slots : buckets[s] = EMPTY
  BY <1>1, <1>2
<1>4. active \in Nat /\ quarantined \in BOOLEAN
  BY <1>2
<1>5. last_time \in Nat \cup {-1} /\ ~(last_time >= 0)
  BY <1>2
<1> QED
  BY <1>3, <1>4, <1>5, Zenon DEF RingOK

\* A sound ring at the time of the call is all a call has to leave.
LEMMA RingLeft ==
  ASSUME NEW now \in Nat, last_time' = now, RingAt(buckets', now),
         active' \in Nat, quarantined' \in BOOLEAN
  PROVE  RingOK'
BY DEF RingOK, RingAt

\* An empty ring is sound at any time.
LEMMA EmptyRing ==
  ASSUME NEW now \in Nat
  PROVE  RingAt([s \in Slots |-> EMPTY], now)
<1>1. EMPTY \in Buckets /\ EMPTY.tick = -1
  BY DEF EMPTY, Buckets
<1> QED
  BY <1>1 DEF RingAt

\* Every call keeps the ring sound.
LEMMA RingPreserved == RingOK /\ [Next]_ringVars => RingOK'
<1> SUFFICES ASSUME RingOK, [Next]_ringVars PROVE RingOK'
  OBVIOUS
<1>1. CASE UNCHANGED ringVars
  <2>1. /\ buckets' = buckets /\ last_time' = last_time
        /\ active' = active /\ quarantined' = quarantined
    BY <1>1 DEF ringVars
  <2> QED
    BY <2>1 DEF RingOK, RingAt
<1>2. ASSUME NEW now \in Times, Snapshot(now) PROVE RingOK'
  <2>1. now \in Nat
    BY RingAssumption DEF Times, RingAssumption
  <2>2. /\ now >= last_time /\ last_time' = now /\ active' = active
        /\ quarantined' = quarantined /\ buckets' = Advanced(now, ~quarantined)
    BY <1>2 DEF Snapshot, Accepts
  <2>3. RingAt(buckets', now)
    BY <2>1, <2>2, AdvancedSound
  <2> QED
    BY <2>1, <2>2, <2>3, RingLeft DEF RingOK
<1>3. ASSUME NEW now \in Times, NEW active_after \in 0 .. MaxActive, NEW delta \in 0 .. MaxDelta,
             Observe(now, delta, active_after)
      PROVE  RingOK'
  <2>1. now \in Nat /\ delta \in Nat /\ active_after \in Nat
    BY RingAssumption DEF Times, RingAssumption
  <2>2. /\ now >= last_time /\ last_time' = now /\ active' = active_after
        /\ quarantined' = quarantined
        /\ buckets' = Recorded(Advanced(now, ~quarantined), now, delta)
    BY <1>3 DEF Observe, Accepts
  <2>3. RingAt(Advanced(now, ~quarantined), now)
    BY <2>1, <2>2, AdvancedSound
  <2>4. RingAt(buckets', now)
    BY <2>1, <2>2, <2>3, RecordedSound
  <2> QED
    BY <2>1, <2>2, <2>4, RingLeft DEF RingOK
<1>4. ASSUME NEW now \in Times, NEW active_after \in 0 .. MaxActive, NEW enabled \in BOOLEAN,
             Quarantine(now, active_after, enabled)
      PROVE  RingOK'
  <2>1. now \in Nat /\ active_after \in Nat
    BY RingAssumption DEF Times, RingAssumption
  <2>2. /\ now >= last_time /\ last_time' = now /\ active' = active_after
        /\ quarantined' = enabled /\ buckets' = Advanced(now, FALSE)
    BY <1>4 DEF Quarantine, Accepts
  <2>3. RingAt(buckets', now)
    BY <2>1, <2>2, AdvancedSound
  <2> QED
    BY <2>1, <2>2, <2>3, RingLeft
<1>5. ASSUME NEW now \in Times, NEW active_after \in 0 .. MaxActive,
             StartSurfaceEpoch(now, active_after)
      PROVE  RingOK'
  <2>1. now \in Nat /\ active_after \in Nat
    BY RingAssumption DEF Times, RingAssumption
  <2>2. /\ last_time' = now /\ active' = active_after
        /\ quarantined' = FALSE /\ buckets' = [s \in Slots |-> EMPTY]
    BY <1>5 DEF StartSurfaceEpoch
  <2>3. RingAt(buckets', now)
    BY <2>1, <2>2, EmptyRing
  <2> QED
    BY <2>1, <2>2, <2>3, RingLeft
<1> QED
  BY <1>1, <1>2, <1>3, <1>4, <1>5 DEF Next

\* The buckets of the ring are sound in every reachable state: a bucket lies
\* in the slot of the tick it bears, and that tick is no later than the clock.
THEOREM RingStaysSound == Spec => []RingOK
<1>1. Init => RingOK
  BY RingInitially
<1>2. RingOK /\ [Next]_ringVars => RingOK'
  BY RingPreserved
<1> QED
  BY <1>1, <1>2, PTL DEF Spec

-----------------------------------------------------------------------------
(* The refinement.                                                         *)

\* The window of the model is that of its last call.
LEMMA WindowIsWindowAt ==
  ASSUME last_time \in Nat
  PROVE  WindowNow = WindowAt(last_time)
BY DEF WindowNow, WindowAt

\* A tick that is not in the old window but in the new one is newer than
\* every tick the ring bears: the ring holds nothing for it yet.
LEMMA OldIsHeld ==
  ASSUME RingOK, NEW now \in Nat, now >= last_time, NEW t \in WindowAt(now)
  PROVE  (IF t \in WindowNow THEN HeldFor(t) ELSE [tokens |-> 0, seconds |-> 0]) = Held(buckets, t)
<1>1. t \in Nat /\ t % BUCKETS \in Slots /\ Tick(now) \in Nat
      /\ t >= Tick(now) - WINDOW_TICKS /\ t <= Tick(now)
  BY TickFacts, SlotFacts DEF WindowAt
<1>2. CASE t \in WindowNow
  BY <1>2 DEF HeldFor, Held
<1>3. CASE t \notin WindowNow
  <2>1. buckets[t % BUCKETS].tick # t
    <3>1. CASE last_time = -1
      <4>1. buckets[t % BUCKETS] = EMPTY
        BY <1>1, <3>1 DEF RingOK
      <4> QED
        BY <1>1, <4>1 DEF EMPTY
    <3>2. CASE last_time \in Nat
      <4>1. Tick(last_time) \in Nat /\ Tick(last_time) <= Tick(now)
        BY <3>2, TickFacts, TickMonotone
      <4>2. t \notin WindowAt(last_time)
        BY <1>3, <3>2, WindowIsWindowAt
      <4>3. t > Tick(last_time)
        BY <1>1, <4>1, <4>2, RingAssumption DEF WindowAt, RingAssumption
      <4>4. buckets[t % BUCKETS].tick >= 0 => buckets[t % BUCKETS].tick <= Tick(last_time)
        BY <1>1, <3>2 DEF RingOK, RingAt
      <4> QED
        BY <1>1, <4>1, <4>3, <4>4
    <3> QED
      BY <3>1, <3>2 DEF RingOK
  <2> QED
    BY <1>3, <2>1 DEF Held
<1> QED
  BY <1>2, <1>3

\* A ring that keeps what it held, gains the exposure and the tokens of the
\* newest tick stands for the window slid to the new time.
LEMMA RingSlides ==
  ASSUME RingOK, NEW now \in Nat, now >= last_time, NEW counting \in BOOLEAN, NEW delta \in Nat,
         NEW ring, RingAt(ring, now),
         \A t \in WindowAt(now) :
           /\ Held(ring, t).tokens = Held(buckets, t).tokens + (IF t = Tick(now) THEN delta ELSE 0)
           /\ Held(ring, t).seconds = Held(buckets, t).seconds + Exact!Exposed(t, now, counting)
  PROVE  [t \in WindowAt(now) |-> Held(ring, t)] = Exact!Slid(now, delta, counting)
<1> DEFINE Old(t) == IF t \in WindowNow THEN HeldFor(t) ELSE [tokens |-> 0, seconds |-> 0]
           New(t) == [ tokens |-> Old(t).tokens + (IF t = Tick(now) THEN delta ELSE 0),
                       seconds |-> Old(t).seconds + Exact!Exposed(t, now, counting) ]
<1>1. Exact!Slid(now, delta, counting) = [t \in WindowAt(now) |-> New(t)]
  BY DEF Exact!Slid, Exact!TicksUpTo, Exact!Tick, Exact!Nothing, WindowAt, Tick
<1>2. ASSUME NEW t \in WindowAt(now) PROVE New(t) = Held(ring, t)
  <2>1. Old(t) = Held(buckets, t)
    BY OldIsHeld
  <2>2. t \in Nat
    BY TickFacts DEF WindowAt
  <2>3. Held(ring, t) = [tokens |-> Held(ring, t).tokens, seconds |-> Held(ring, t).seconds]
    BY <2>2, HeldType DEF RingAt
  <2> HIDE DEF Old
  <2> QED
    BY <2>1, <2>3
<1> HIDE DEF New
<1> QED
  BY <1>1, <1>2

\* What the ring holds for the window after a call at a given time.
LEMMA WindowAfter ==
  ASSUME NEW now \in Nat, last_time' = now
  PROVE  [t \in WindowNow |-> HeldFor(t)]' = [t \in WindowAt(now) |-> Held(buckets', t)]
<1>1. WindowNow' = WindowAt(now)
  BY DEF WindowNow, WindowAt, Tick
<1>2. \A t : HeldFor(t)' = Held(buckets', t)
  BY DEF HeldFor, Held
<1> QED
  BY <1>1, <1>2

\* The ring starts as the exact window.
LEMMA InitiallyExact == Init => Exact!Init
<1> SUFFICES ASSUME Init PROVE Exact!Init
  OBVIOUS
<1>1. WindowNow = {}
  BY DEF Init, WindowNow
<1> QED
  BY <1>1 DEF Init, Exact!Init

\* Every call does to the exact window what the abstract call does.
LEMMA StepIsExact == RingOK /\ [Next]_ringVars => [Exact!Next]_(Exact!windowVars)
<1> SUFFICES ASSUME RingOK, [Next]_ringVars PROVE [Exact!Next]_(Exact!windowVars)
  OBVIOUS
<1> DEFINE win == [t \in WindowNow |-> HeldFor(t)]
<1>1. CASE UNCHANGED ringVars
  <2>1. /\ buckets' = buckets /\ last_time' = last_time
        /\ active' = active /\ quarantined' = quarantined
    BY <1>1 DEF ringVars
  <2>2. win' = win
    BY <2>1 DEF WindowNow, HeldFor
  <2> QED
    BY <2>1, <2>2 DEF Exact!windowVars
<1>2. ASSUME NEW now \in Times, Snapshot(now) PROVE Exact!Next
  <2>1. now \in Nat /\ now \in Exact!Times
    BY RingAssumption DEF Times, Exact!Times, RingAssumption
  <2>2. /\ now >= last_time /\ last_time' = now /\ active' = active
        /\ quarantined' = quarantined /\ buckets' = Advanced(now, ~quarantined)
    BY <1>2 DEF Snapshot, Accepts
  <2> DEFINE ring == Advanced(now, ~quarantined)
  <2>3. ASSUME NEW t \in WindowAt(now)
        PROVE  /\ Held(ring, t).tokens = Held(buckets, t).tokens + (IF t = Tick(now) THEN 0 ELSE 0)
               /\ Held(ring, t).seconds = Held(buckets, t).seconds + Exact!Exposed(t, now, ~quarantined)
    <3>1. /\ Held(ring, t).tokens = Held(buckets, t).tokens
          /\ Held(ring, t).seconds = Held(buckets, t).seconds + Exact!Exposed(t, now, ~quarantined)
      BY <2>1, <2>2, AdvancedHeld
    <3>2. Held(buckets, t).tokens \in Nat
      BY <2>1, HeldType, TickFacts DEF RingOK, WindowAt
    <3> HIDE DEF ring
    <3> QED
      BY <3>1, <3>2
  <2>4. RingAt(ring, now)
    BY <2>1, <2>2, AdvancedSound
  <2> HIDE DEF ring
  <2>5. [t \in WindowAt(now) |-> Held(ring, t)] = Exact!Slid(now, 0, ~quarantined)
    BY <2>1, <2>2, <2>3, <2>4, RingSlides
  <2>6. win' = Exact!Slid(now, 0, ~quarantined)
    BY <2>1, <2>2, <2>5, WindowAfter DEF ring
  <2>7. Exact!Read(now)
    BY <2>2, <2>6 DEF Exact!Read, Exact!Observe
  <2> QED
    BY <2>1, <2>7 DEF Exact!Next
<1>3. ASSUME NEW now \in Times, NEW active_after \in 0 .. MaxActive, NEW delta \in 0 .. MaxDelta,
             Observe(now, delta, active_after)
      PROVE  Exact!Next
  <2>1. now \in Nat /\ delta \in Nat /\ now \in Exact!Times
    BY RingAssumption DEF Times, Exact!Times, RingAssumption
  <2>2. /\ now >= last_time /\ last_time' = now /\ active' = active_after
        /\ quarantined' = quarantined
        /\ buckets' = Recorded(Advanced(now, ~quarantined), now, delta)
    BY <1>3 DEF Observe, Accepts
  <2> DEFINE mid == Advanced(now, ~quarantined)
             ring == Recorded(mid, now, delta)
  <2>3. RingAt(mid, now)
    BY <2>1, <2>2, AdvancedSound
  <2>4. RingAt(ring, now)
    BY <2>1, <2>3, RecordedSound
  <2>5. ASSUME NEW t \in WindowAt(now)
        PROVE  /\ Held(ring, t).tokens = Held(buckets, t).tokens + (IF t = Tick(now) THEN delta ELSE 0)
               /\ Held(ring, t).seconds = Held(buckets, t).seconds + Exact!Exposed(t, now, ~quarantined)
    <3>1. /\ Held(mid, t).tokens = Held(buckets, t).tokens
          /\ Held(mid, t).seconds = Held(buckets, t).seconds + Exact!Exposed(t, now, ~quarantined)
      BY <2>1, <2>2, AdvancedHeld
    <3> HIDE DEF mid
    <3>2. /\ Held(ring, t).tokens = Held(mid, t).tokens + (IF t = Tick(now) THEN delta ELSE 0)
          /\ Held(ring, t).seconds = Held(mid, t).seconds
      BY <2>1, <2>3, RecordedHeld
    <3> HIDE DEF ring
    <3> QED
      BY <3>1, <3>2
  <2> HIDE DEF mid, ring
  <2>6. [t \in WindowAt(now) |-> Held(ring, t)] = Exact!Slid(now, delta, ~quarantined)
    BY <2>1, <2>2, <2>4, <2>5, RingSlides DEF RingOK
  <2>7. win' = Exact!Slid(now, delta, ~quarantined)
    BY <2>1, <2>2, <2>6, WindowAfter DEF ring, mid
  <2>8. Exact!Observe(now, delta, active_after)
    BY <2>2, <2>7 DEF Exact!Observe
  <2> QED
    BY <2>1, <2>8 DEF Exact!Next
<1>4. ASSUME NEW now \in Times, NEW active_after \in 0 .. MaxActive, NEW enabled \in BOOLEAN,
             Quarantine(now, active_after, enabled)
      PROVE  Exact!Next
  <2>1. now \in Nat /\ now \in Exact!Times
    BY RingAssumption DEF Times, Exact!Times, RingAssumption
  <2>2. /\ now >= last_time /\ last_time' = now /\ active' = active_after
        /\ quarantined' = enabled /\ buckets' = Advanced(now, FALSE)
    BY <1>4 DEF Quarantine, Accepts
  <2> DEFINE ring == Advanced(now, FALSE)
  <2>3. ASSUME NEW t \in WindowAt(now)
        PROVE  /\ Held(ring, t).tokens = Held(buckets, t).tokens + (IF t = Tick(now) THEN 0 ELSE 0)
               /\ Held(ring, t).seconds = Held(buckets, t).seconds + Exact!Exposed(t, now, FALSE)
    <3>1. /\ Held(ring, t).tokens = Held(buckets, t).tokens
          /\ Held(ring, t).seconds = Held(buckets, t).seconds + Exact!Exposed(t, now, FALSE)
      BY <2>1, <2>2, AdvancedHeld
    <3>2. Held(buckets, t).tokens \in Nat
      BY <2>1, HeldType, TickFacts DEF RingOK, WindowAt
    <3> HIDE DEF ring
    <3> QED
      BY <3>1, <3>2
  <2>4. RingAt(ring, now)
    BY <2>1, <2>2, AdvancedSound
  <2> HIDE DEF ring
  <2>5. [t \in WindowAt(now) |-> Held(ring, t)] = Exact!Slid(now, 0, FALSE)
    BY <2>1, <2>2, <2>3, <2>4, RingSlides
  <2>6. win' = Exact!Slid(now, 0, FALSE)
    BY <2>1, <2>2, <2>5, WindowAfter DEF ring
  <2>7. Exact!Quarantine(now, active_after, enabled)
    BY <2>2, <2>6 DEF Exact!Quarantine
  <2> QED
    BY <2>1, <2>7 DEF Exact!Next
<1>5. ASSUME NEW now \in Times, NEW active_after \in 0 .. MaxActive,
             StartSurfaceEpoch(now, active_after)
      PROVE  Exact!Next
  <2>1. now \in Nat /\ now \in Exact!Times
    BY RingAssumption DEF Times, Exact!Times, RingAssumption
  <2>2. /\ last_time' = now /\ active' = active_after
        /\ quarantined' = FALSE /\ buckets' = [s \in Slots |-> EMPTY]
    BY <1>5 DEF StartSurfaceEpoch
  <2>3. ASSUME NEW t \in WindowAt(now) PROVE Held(buckets', t) = [tokens |-> 0, seconds |-> 0]
    <3>1. t \in Nat /\ t % BUCKETS \in Slots
      BY <2>1, SlotFacts, TickFacts DEF WindowAt
    <3>2. buckets'[t % BUCKETS].tick = -1
      BY <2>2, <3>1 DEF EMPTY
    <3> QED
      BY <3>1, <3>2 DEF Held
  <2>4. win' = [t \in WindowAt(now) |-> Held(buckets', t)]
    BY <2>1, <2>2, WindowAfter
  <2>5. win' = [t \in Exact!TicksUpTo(Exact!Tick(now)) |-> Exact!Nothing]
    BY <2>3, <2>4 DEF Exact!TicksUpTo, Exact!Tick, Exact!Nothing, WindowAt, Tick
  <2>6. Exact!StartEpoch(now, active_after)
    BY <2>2, <2>5 DEF Exact!StartEpoch
  <2> QED
    BY <2>1, <2>6 DEF Exact!Next
<1> QED
  BY <1>1, <1>2, <1>3, <1>4, <1>5 DEF Next

\* The ring implements the exact window, for every size of ring, of bucket
\* and of window the code may be built with: no call ever loses or duplicates
\* evidence of a tick that is still in the window, however long the gap since
\* the last call and however often the ring has wrapped (advance_clock,
\* record_tokens, bucket).
THEOREM RingImplementsWindow == Spec => ImplementsExactWindow
<1>1. Init => Exact!Init
  BY InitiallyExact
<1>2. RingOK /\ [Next]_ringVars => [Exact!Next]_(Exact!windowVars)
  BY StepIsExact
<1>3. Spec => []RingOK
  BY RingStaysSound
<1> QED
  BY <1>1, <1>2, <1>3, PTL DEF Spec, ImplementsExactWindow, Exact!Spec
-----------------------------------------------------------------------------
(* Reading the evidence.                                                   *)

TicksBack(now, lookback) == {t \in WindowAt(now) : t >= Tick(now) - lookback}

\* Summing over the slots that count is summing over the ticks of the
\* lookback, for any quantity the buckets carry.
LEMMA SlotSums ==
  ASSUME NEW now \in Nat, NEW ring, RingAt(ring, now), NEW lookback \in 0 .. WINDOW_TICKS,
         NEW f \in [Slots -> Nat]
  PROVE  SumFunctionOnSet([s \in Counted(ring, now, lookback) |-> f[s]], Counted(ring, now, lookback))
           = SumFunctionOnSet([t \in TicksBack(now, lookback) |->
                                 IF ring[t % BUCKETS].tick = t THEN f[t % BUCKETS] ELSE 0],
                              TicksBack(now, lookback))
<1> DEFINE S == Counted(ring, now, lookback)
           ticks == TicksBack(now, lookback)
           borne == {t \in ticks : ring[t % BUCKETS].tick = t}
           rest == {t \in ticks : ring[t % BUCKETS].tick # t}
           h == [s \in S |-> f[s]]
           g == [t \in ticks |-> IF ring[t % BUCKETS].tick = t THEN f[t % BUCKETS] ELSE 0]
           b == [s \in S |-> ring[s].tick]
<1>1. Tick(now) \in Nat /\ lookback \in Nat /\ lookback <= WINDOW_TICKS /\ WINDOW_TICKS \in Nat
  BY TickFacts, RingAssumption DEF RingAssumption
<1>2. ASSUME NEW t \in ticks PROVE t \in Nat /\ t % BUCKETS \in Slots
  BY <1>1, SlotFacts DEF TicksBack, WindowAt
<1>3. IsFiniteSet(S) /\ IsFiniteSet(ticks)
  <2>1. IsFiniteSet(0 .. Tick(now)) /\ IsFiniteSet(Slots)
    BY <1>1, FS_Interval, RingAssumption DEF Slots, RingAssumption
  <2>2. ticks \subseteq 0 .. Tick(now) /\ S \subseteq Slots
    BY DEF TicksBack, WindowAt, Counted
  <2> QED
    BY <2>1, <2>2, FS_Subset
<1>4. IsFiniteSet(borne) /\ IsFiniteSet(rest)
  <2>1. borne \subseteq ticks /\ rest \subseteq ticks
    OBVIOUS
  <2> HIDE DEF borne, rest
  <2> QED
    BY <1>3, <2>1, FS_Subset
<1>5. ASSUME NEW s \in S
      PROVE  /\ s \in Slots /\ ring[s].tick \in Nat /\ ring[s].tick % BUCKETS = s
             /\ ring[s].tick \in borne
  <2>1. /\ s \in Slots /\ ring[s].tick >= 0
        /\ Tick(now) - lookback <= ring[s].tick /\ ring[s].tick <= Tick(now)
    BY DEF Counted
  <2>2. ring[s].tick % BUCKETS = s /\ ring[s] \in Buckets
    BY <2>1 DEF RingAt
  <2>3. ring[s].tick \in Nat
    BY <2>1, <2>2 DEF Buckets
  <2>4. ring[s].tick \in ticks
    BY <1>1, <2>1, <2>3 DEF TicksBack, WindowAt
  <2> QED
    BY <2>1, <2>2, <2>3, <2>4
<1>6. \A t \in borne : \E s \in S : b[s] = t
  <2> SUFFICES ASSUME NEW t \in borne PROVE \E s \in S : b[s] = t
    OBVIOUS
  <2>1. t \in ticks /\ t % BUCKETS \in Slots /\ ring[t % BUCKETS].tick = t
    BY <1>2
  <2>2. t \in Nat /\ t <= Tick(now) /\ t >= Tick(now) - lookback
    BY <1>1, <2>1 DEF TicksBack, WindowAt
  <2>3. t % BUCKETS \in S
    BY <1>1, <2>1, <2>2 DEF Counted
  <2> QED
    BY <2>1, <2>3
<1>7. \A x, y \in S : b[x] = b[y] => x = y
  BY <1>5
<1>8. b \in [S -> borne]
  BY <1>5
<1>9. \A x \in S : h[x] \in Int /\ g[b[x]] = h[x]
  <2> SUFFICES ASSUME NEW x \in S PROVE h[x] \in Int /\ g[b[x]] = h[x]
    OBVIOUS
  <2>1. x \in Slots /\ b[x] \in ticks /\ b[x] % BUCKETS = x /\ ring[b[x] % BUCKETS].tick = b[x]
    BY <1>5
  <2>2. g[b[x]] = f[x] /\ h[x] = f[x]
    BY <2>1
  <2> QED
    BY <2>1, <2>2
<1>10. /\ \A t \in ticks : g[t] \in Int
       /\ \A t \in rest : g[t] = 0
  BY <1>2
<1>11. ticks = borne \cup rest /\ borne \cap rest = {}
  OBVIOUS
<1> HIDE DEF S, ticks, borne, rest, h, g, b
<1>12. SumFunctionOnSet(g, borne) = SumFunctionOnSet(h, S)
  BY <1>3, <1>6, <1>7, <1>8, <1>9, SumReindexed
<1>13. SumFunctionOnSet(g, rest) = 0
  BY <1>4, <1>10, SumOfZeros
<1>14. SumFunctionOnSet(g, borne \cup rest) = SumFunctionOnSet(g, borne) + SumFunctionOnSet(g, rest)
  BY <1>4, <1>10, <1>11, SumUnion
<1>15. SumFunctionOnSet(g, borne) \in Int
  BY <1>4, <1>10, <1>11, SumType
<1>16. SumFunctionOnSet(g, borne \cup rest) = SumFunctionOnSet(h, S)
  BY <1>12, <1>13, <1>14, <1>15
<1>17. SumFunctionOnSet(h, S) = SumFunctionOnSet(g, ticks)
  BY <1>11, <1>16
<1> QED
  BY <1>17 DEF S, ticks, h, g

\* Readers that sum the slots get the sums over the ticks of the lookback.
LEMMA EvidenceSums ==
  ASSUME NEW now \in Nat, NEW ring, RingAt(ring, now), NEW lookback \in 0 .. WINDOW_TICKS
  PROVE  Evidence(ring, now, lookback) =
           [ tokens |-> SumFunction([t \in TicksBack(now, lookback) |-> Held(ring, t).tokens]),
             seconds |-> SumFunction([t \in TicksBack(now, lookback) |-> Held(ring, t).seconds]) ]
<1> DEFINE S == Counted(ring, now, lookback)
           ticks == TicksBack(now, lookback)
           tokens == [s \in Slots |-> ring[s].tokens]
           seconds == [s \in Slots |-> ring[s].seconds]
<1>1. tokens \in [Slots -> Nat] /\ seconds \in [Slots -> Nat] /\ S \subseteq Slots
  BY DEF RingAt, Buckets, Counted
<1>2. ASSUME NEW t \in ticks PROVE t % BUCKETS \in Slots
  <2>1. t \in Nat
    BY TickFacts DEF TicksBack, WindowAt
  <2> QED
    BY <2>1, SlotFacts
<1>3. /\ [s \in S |-> ring[s].tokens] = [s \in S |-> tokens[s]]
      /\ [s \in S |-> ring[s].seconds] = [s \in S |-> seconds[s]]
  BY <1>1
<1>4. /\ [t \in ticks |-> Held(ring, t).tokens] =
           [t \in ticks |-> IF ring[t % BUCKETS].tick = t THEN tokens[t % BUCKETS] ELSE 0]
      /\ [t \in ticks |-> Held(ring, t).seconds] =
           [t \in ticks |-> IF ring[t % BUCKETS].tick = t THEN seconds[t % BUCKETS] ELSE 0]
  BY <1>2 DEF Held
<1> HIDE DEF tokens, seconds
<1>5. SumFunctionOnSet([s \in S |-> tokens[s]], S) =
        SumFunctionOnSet([t \in ticks |-> IF ring[t % BUCKETS].tick = t THEN tokens[t % BUCKETS] ELSE 0], ticks)
  BY <1>1, SlotSums
<1>6. SumFunctionOnSet([s \in S |-> seconds[s]], S) =
        SumFunctionOnSet([t \in ticks |-> IF ring[t % BUCKETS].tick = t THEN seconds[t % BUCKETS] ELSE 0], ticks)
  BY <1>1, SlotSums
<1>7. Evidence(ring, now, lookback) =
        [ tokens |-> SumFunctionOnSet([s \in S |-> ring[s].tokens], S),
          seconds |-> SumFunctionOnSet([s \in S |-> ring[s].seconds], S) ]
  BY DEF Evidence, SumFunction
<1>8. /\ SumFunction([t \in ticks |-> Held(ring, t).tokens]) =
           SumFunctionOnSet([t \in ticks |-> Held(ring, t).tokens], ticks)
      /\ SumFunction([t \in ticks |-> Held(ring, t).seconds]) =
           SumFunctionOnSet([t \in ticks |-> Held(ring, t).seconds], ticks)
  BY DEF SumFunction
<1> HIDE DEF S, ticks
<1> QED
  BY <1>3, <1>4, <1>5, <1>6, <1>7, <1>8 DEF ticks

\* A sound ring sums to what the window holds.
LEMMA EvidenceIsExact == RingOK => EvidenceExact
<1> SUFFICES ASSUME RingOK, last_time >= 0, NEW lookback \in {WINDOW_TICKS, SHORT_TICKS}
             PROVE  Evidence(buckets, last_time, lookback) =
                      [ tokens |-> SumFunction([t \in {u \in WindowNow : u >= Tick(last_time) - lookback} |->
                                                  HeldFor(t).tokens]),
                        seconds |-> SumFunction([t \in {u \in WindowNow : u >= Tick(last_time) - lookback} |->
                                                  HeldFor(t).seconds]) ]
  BY DEF EvidenceExact
<1>1. last_time \in Nat /\ RingAt(buckets, last_time) /\ lookback \in 0 .. WINDOW_TICKS
  BY RingAssumption DEF RingOK, RingAssumption
<1>2. {u \in WindowNow : u >= Tick(last_time) - lookback} = TicksBack(last_time, lookback)
  BY <1>1, WindowIsWindowAt DEF TicksBack
<1>3. \A t : HeldFor(t) = Held(buckets, t)
  BY DEF HeldFor, Held
<1>4. Evidence(buckets, last_time, lookback) =
        [ tokens |-> SumFunction([t \in TicksBack(last_time, lookback) |-> Held(buckets, t).tokens]),
          seconds |-> SumFunction([t \in TicksBack(last_time, lookback) |-> Held(buckets, t).seconds]) ]
  BY <1>1, EvidenceSums
<1> QED
  BY <1>2, <1>3, <1>4

\* What the readers of the ring get (evidence, for the long and the short
\* lookback) is exactly what the window of that length holds.
THEOREM EvidenceIsTheWindow == Spec => []EvidenceExact
<1>1. RingOK => EvidenceExact
  BY EvidenceIsExact
<1> QED
  BY <1>1, RingStaysSound, PTL
-----------------------------------------------------------------------------
(* Reading never overflows.                                                *)

\* The tokens of the whole window, as a sum over its ticks.
LEMMA WindowTokens ==
  ASSUME NEW now \in Nat, NEW ring, RingAt(ring, now)
  PROVE  Evidence(ring, now, WINDOW_TICKS).tokens =
           SumFunctionOnSet([t \in WindowAt(now) |-> Held(ring, t).tokens], WindowAt(now))
<1>1. WINDOW_TICKS \in 0 .. WINDOW_TICKS
  BY RingAssumption DEF RingAssumption
<1>2. TicksBack(now, WINDOW_TICKS) = WindowAt(now)
  BY DEF TicksBack, WindowAt
<1>3. Evidence(ring, now, WINDOW_TICKS) =
        [ tokens |-> SumFunction([t \in WindowAt(now) |-> Held(ring, t).tokens]),
          seconds |-> SumFunction([t \in WindowAt(now) |-> Held(ring, t).seconds]) ]
  BY <1>1, <1>2, EvidenceSums
<1> QED
  BY <1>3 DEF SumFunction

\* A window has finitely many ticks.
LEMMA WindowFinite ==
  ASSUME NEW now \in Nat
  PROVE  IsFiniteSet(WindowAt(now)) /\ WindowAt(now) \subseteq Nat
<1>1. IsFiniteSet(0 .. Tick(now)) /\ WindowAt(now) \subseteq 0 .. Tick(now) /\ Tick(now) \in Nat
  BY TickFacts, FS_Interval DEF WindowAt
<1> QED
  BY <1>1, FS_Subset

\* advance_clock only drops ticks from the window; none gains tokens.
LEMMA AdvancingFits ==
  ASSUME RingOK, EvidenceFits, NEW now \in Nat, now >= last_time, NEW counting \in BOOLEAN
  PROVE  Evidence(Advanced(now, counting), now, WINDOW_TICKS).tokens <= MAX_COUNT
<1> DEFINE new == WindowAt(now)
           kept == new \cap WindowNow
           fresh == new \ WindowNow
           ring == Advanced(now, counting)
           f == [t \in new |-> Held(ring, t).tokens]
           g == [t \in WindowNow |-> Held(buckets, t).tokens]
           h == [t \in Nat |-> Held(buckets, t).tokens]
<1>1. /\ IsFiniteSet(new) /\ new \subseteq Nat
      /\ IsFiniteSet(WindowNow) /\ WindowNow \subseteq Nat
  <2>1. CASE last_time = -1
    BY <2>1, WindowFinite, FS_EmptySet DEF WindowNow
  <2>2. CASE last_time \in Nat
    BY <2>2, WindowIsWindowAt, WindowFinite
  <2> QED
    BY <2>1, <2>2 DEF RingOK
<1>2. IsFiniteSet(kept) /\ IsFiniteSet(fresh) /\ new = kept \cup fresh /\ kept \cap fresh = {}
  <2>1. kept \subseteq new /\ fresh \subseteq new /\ new = kept \cup fresh /\ kept \cap fresh = {}
    OBVIOUS
  <2> HIDE DEF kept, fresh
  <2> QED
    BY <1>1, <2>1, FS_Subset
<1>3. \A t \in Nat : h[t] \in Nat
  BY HeldType DEF RingOK
<1>4. \A t \in new : f[t] = h[t]
  <2>1. \A t \in new : Held(ring, t).tokens = Held(buckets, t).tokens
    BY AdvancedHeld
  <2> QED
    BY <1>1, <2>1
<1>5. \A t \in WindowNow : g[t] = h[t]
  BY <1>1
<1>6. \A t \in fresh : h[t] = 0
  <2> SUFFICES ASSUME NEW t \in fresh PROVE h[t] = 0
    OBVIOUS
  <2>1. t \in WindowAt(now) /\ t \notin WindowNow /\ t \in Nat
    BY <1>1
  <2>2. Held(buckets, t) = [tokens |-> 0, seconds |-> 0]
    BY <2>1, OldIsHeld
  <2> QED
    BY <2>1, <2>2
<1>7. SumFunctionOnSet(g, WindowNow) <= MAX_COUNT
  <2>1. CASE last_time = -1
    <3>1. WindowNow = {}
      BY <2>1 DEF WindowNow
    <3> HIDE DEF g
    <3> QED
      BY <3>1, SumEmpty, RingAssumption DEF RingAssumption
  <2>2. CASE last_time \in Nat
    <3>1. RingAt(buckets, last_time) /\ WindowNow = WindowAt(last_time)
      BY <2>2, WindowIsWindowAt DEF RingOK
    <3>2. Evidence(buckets, last_time, WINDOW_TICKS).tokens = SumFunctionOnSet(g, WindowNow)
      BY <2>2, <3>1, WindowTokens
    <3>3. Evidence(buckets, last_time, WINDOW_TICKS).tokens <= MAX_COUNT
      BY <2>2 DEF EvidenceFits
    <3> QED
      BY <3>2, <3>3
  <2> QED
    BY <2>1, <2>2 DEF RingOK
<1>8. RingAt(ring, now)
  BY AdvancedSound
<1>9. Evidence(ring, now, WINDOW_TICKS).tokens = SumFunctionOnSet(f, new)
  BY <1>8, WindowTokens
<1> HIDE DEF new, ring, f, g, h, kept, fresh
<1>10. kept \subseteq WindowNow /\ kept \subseteq new /\ fresh \subseteq new
  BY DEF kept, fresh
<1>11. SumFunctionOnSet(h, new) = SumFunctionOnSet(f, new)
  <2>1. \A t \in new : h[t] \in Int /\ f[t] = h[t]
    BY <1>1, <1>3, <1>4
  <2> QED
    BY <1>1, <2>1, SumCongruence
<1>12. SumFunctionOnSet(h, WindowNow) = SumFunctionOnSet(g, WindowNow)
  <2>1. \A t \in WindowNow : h[t] \in Int /\ g[t] = h[t]
    BY <1>1, <1>3, <1>5
  <2> QED
    BY <1>1, <2>1, SumCongruence
<1>13. SumFunctionOnSet(h, kept \cup fresh) = SumFunctionOnSet(h, kept) + SumFunctionOnSet(h, fresh)
  <2>1. \A t \in kept \cup fresh : h[t] \in Int
    BY <1>1, <1>2, <1>3
  <2> QED
    BY <1>2, <2>1, SumUnion
<1>14. SumFunctionOnSet(h, fresh) = 0
  BY <1>2, <1>6, SumOfZeros
<1>15. SumFunctionOnSet(h, kept) <= SumFunctionOnSet(h, WindowNow)
  <2>1. \A t \in WindowNow : h[t] \in Nat
    BY <1>1, <1>3
  <2> QED
    BY <1>1, <1>10, <2>1, SumOfPart
<1>16. SumFunctionOnSet(h, kept) \in Int /\ SumFunctionOnSet(g, WindowNow) \in Int
  <2>1. \A t \in kept : h[t] \in Int
    BY <1>1, <1>3, <1>10
  <2>2. \A t \in WindowNow : g[t] \in Int
    BY <1>1, <1>3, <1>5
  <2> QED
    BY <1>1, <1>2, <2>1, <2>2, SumType
<1>17. SumFunctionOnSet(f, new) <= MAX_COUNT
  <2>1. SumFunctionOnSet(f, new) = SumFunctionOnSet(h, kept) + SumFunctionOnSet(h, fresh)
    BY <1>2, <1>11, <1>13
  <2> QED
    BY <1>7, <1>12, <1>14, <1>15, <1>16, <2>1, RingAssumption DEF RingAssumption
<1>18. Evidence(ring, now, WINDOW_TICKS).tokens <= MAX_COUNT
  BY <1>9, <1>17
<1> QED
  BY <1>18 DEF ring

\* It is enough that the sum over the ring fits.
LEMMA FitsAfter ==
  ASSUME last_time' \in Nat, Evidence(buckets', last_time', WINDOW_TICKS).tokens <= MAX_COUNT
  PROVE  EvidenceFits'
BY DEF EvidenceFits, Evidence, Counted, Tick

\* No call lets the sum outgrow a count.
LEMMA FitsPreserved == RingOK /\ EvidenceFits /\ [Next]_ringVars => EvidenceFits'
<1> SUFFICES ASSUME RingOK, EvidenceFits, [Next]_ringVars PROVE EvidenceFits'
  OBVIOUS
<1>1. CASE UNCHANGED ringVars
  BY <1>1 DEF ringVars, EvidenceFits, Evidence, Counted, Tick
<1>2. ASSUME NEW now \in Times, Snapshot(now) PROVE EvidenceFits'
  <2>1. /\ now \in Nat /\ now >= last_time /\ last_time' = now
        /\ buckets' = Advanced(now, ~quarantined)
    BY <1>2, RingAssumption DEF Snapshot, Accepts, Times, RingAssumption
  <2>2. Evidence(buckets', now, WINDOW_TICKS).tokens <= MAX_COUNT
    BY <2>1, AdvancingFits
  <2> QED
    BY <2>1, <2>2, FitsAfter
<1>3. ASSUME NEW now \in Times, NEW active_after \in 0 .. MaxActive, NEW delta \in 0 .. MaxDelta,
             Observe(now, delta, active_after)
      PROVE  EvidenceFits'
  <2>1. now \in Nat /\ last_time' = now
    BY <1>3, RingAssumption DEF Observe, Times, RingAssumption
  <2>2. Evidence(buckets', now, WINDOW_TICKS).tokens <= MAX_COUNT
    BY <1>3 DEF Observe, Fits
  <2> QED
    BY <2>1, <2>2, FitsAfter
<1>4. ASSUME NEW now \in Times, NEW active_after \in 0 .. MaxActive, NEW enabled \in BOOLEAN,
             Quarantine(now, active_after, enabled)
      PROVE  EvidenceFits'
  <2>1. /\ now \in Nat /\ now >= last_time /\ last_time' = now
        /\ buckets' = Advanced(now, FALSE)
    BY <1>4, RingAssumption DEF Quarantine, Accepts, Times, RingAssumption
  <2>2. Evidence(buckets', now, WINDOW_TICKS).tokens <= MAX_COUNT
    BY <2>1, AdvancingFits
  <2> QED
    BY <2>1, <2>2, FitsAfter
<1>5. ASSUME NEW now \in Times, NEW active_after \in 0 .. MaxActive,
             StartSurfaceEpoch(now, active_after)
      PROVE  EvidenceFits'
  <2>1. now \in Nat /\ last_time' = now /\ buckets' = [s \in Slots |-> EMPTY]
    BY <1>5, RingAssumption DEF StartSurfaceEpoch, Times, RingAssumption
  <2> DEFINE f == [t \in WindowAt(now) |-> Held(buckets', t).tokens]
  <2>2. RingAt(buckets', now)
    BY <2>1, EmptyRing
  <2>3. Evidence(buckets', now, WINDOW_TICKS).tokens = SumFunctionOnSet(f, WindowAt(now))
    BY <2>1, <2>2, WindowTokens
  <2>4. \A t \in WindowAt(now) : f[t] = 0
    <3> SUFFICES ASSUME NEW t \in WindowAt(now) PROVE Held(buckets', t).tokens = 0
      OBVIOUS
    <3>1. t \in Nat /\ t % BUCKETS \in Slots
      BY <2>1, WindowFinite, SlotFacts
    <3> QED
      BY <2>1, <3>1 DEF Held, EMPTY
  <2> HIDE DEF f
  <2>5. SumFunctionOnSet(f, WindowAt(now)) = 0
    BY <2>1, <2>4, WindowFinite, SumOfZeros
  <2>6. Evidence(buckets', now, WINDOW_TICKS).tokens <= MAX_COUNT
    BY <2>3, <2>5, RingAssumption DEF RingAssumption
  <2> QED
    BY <2>1, <2>6, FitsAfter
<1> QED
  BY <1>1, <1>2, <1>3, <1>4, <1>5 DEF Next

\* What one call has accepted no later call finds too large to sum: the
\* checked_add of a reader (evidence) never refuses.
THEOREM EvidenceNeverOverflows == Spec => []EvidenceFits
<1>1. Init => EvidenceFits
  BY DEF Init, EvidenceFits
<1>2. RingOK /\ EvidenceFits /\ [Next]_ringVars => EvidenceFits'
  BY FitsPreserved
<1> QED
  BY <1>1, <1>2, RingStaysSound, PTL DEF Spec
=============================================================================
